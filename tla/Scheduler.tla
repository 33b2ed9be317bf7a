----------------------------- MODULE Scheduler -----------------------------
(***************************************************************************)
(* The process table (process.c), the round-robin scheduler (scheduler.c), *)
(* the context switch (context_switch.asm), the interrupt path that drives *)
(* it (idt.c, interrupts.asm, timer.c) and the part of kernel_main         *)
(* (kernel.c) that brings them up.                                         *)
(*                                                                         *)
(* There is one CPU.  The interleavings come from interrupts: whenever IF  *)
(* is set the PIC may divert the CPU into the timer or keyboard handler,   *)
(* and the timer handler may return on the stack of another process.       *)
(***************************************************************************)
EXTENDS Naturals, Pic

CONSTANTS
  MaxProcesses,   \* MAX_PROCESSES, the slots of process_table
  BootThreads,    \* how many kthread_create calls kernel_main makes
  MaxPid,         \* bound on the PIDs handed out
  ThreadApi       \* what kernel threads do besides computing: a subset of
                  \* {"return", "free", "create"}

ASSUME MaxProcessesAssumption == MaxProcesses \in Nat \ {0}
ASSUME BootThreadsAssumption  == BootThreads \in Nat
ASSUME MaxPidAssumption       == MaxPid \in Nat
ASSUME ThreadApiAssumption    == ThreadApi \subseteq {"return", "free", "create"}

Slots  == 0 .. (MaxProcesses - 1)
NoSlot == MaxProcesses              \* current_process = NULL

States == {"UNUSED", "READY", "RUNNING", "BLOCKED", "ZOMBIE"}

(***************************************************************************)
(* What a PCB's kernel_esp points at, which decides where context_switch's *)
(* ret goes when the process is switched in:                               *)
(*   none   zero, never set                                                *)
(*   top    the empty top of a fresh stack, as process_alloc leaves it     *)
(*   fresh  the frame kthread_create builds, returning to the trampoline   *)
(*   isr    a call of schedule() from timer_handler                        *)
(*   exit   a call of schedule() from kthread_exit                         *)
(*   popped a frame that has been returned through already                 *)
(***************************************************************************)
Frames == {"none", "top", "fresh", "isr", "exit", "popped"}

(***************************************************************************)
(* Where the CPU is:                                                       *)
(*   run      in the code of the current process (or of kernel_main)       *)
(*   timer    entered timer_handler         resched  EOI sent, at schedule *)
(*   keyboard entered keyboard_handler      tail     back in               *)
(*            interrupt_handler, before its EOI, popa and iret             *)
(*   tramp    at kthread_trampoline         exit     in kthread_exit       *)
(*   hung     in the hlt loop of kthread_exit with IF clear                *)
(*   wild     popped registers and a return address that nobody pushed     *)
(***************************************************************************)
Modes == {"run", "timer", "resched", "keyboard", "tail", "tramp", "exit",
          "hung", "wild"}

BootSteps == {"start", "keyboard", "timer", "magic", "create", "idle"}
CallSteps == {"none", "found", "ready", "stack"}

VARIABLES
  pstate,     \* state of each PCB
  ppid,       \* pid of each PCB
  frame,      \* what kernel_esp of each PCB points at
  current,    \* slot of current_process, or NoSlot
  nextPid,    \* next_pid
  enabled,    \* scheduler_enabled
  iflag,      \* IF in EFLAGS
  mode,       \* where the CPU is
  irr, isr,   \* the PIC's request and in-service registers
  handlers,   \* the IRQs for which handlers[] is set
  boot,       \* how far kernel_main has come
  created,    \* kthread_create calls kernel_main has completed
  call,       \* how far each process is in a kthread_create call
  target      \* the slot that call is filling

procVars == <<pstate, ppid, frame, current, nextPid>>
cpuVars  == <<iflag, mode>>
picVars  == <<irr, isr>>
bootVars == <<boot, created>>
callVars == <<call, target>>
vars == <<procVars, enabled, cpuVars, picVars, handlers, bootVars, callVars>>

\* The types of the variables.
TypeOK ==
  /\ pstate \in [Slots -> States]
  /\ ppid \in [Slots -> Nat]
  /\ frame \in [Slots -> Frames]
  /\ current \in Slots \cup {NoSlot}
  /\ nextPid \in Nat
  /\ enabled \in BOOLEAN
  /\ iflag \in BOOLEAN
  /\ mode \in Modes
  /\ irr \subseteq Irqs
  /\ isr \subseteq Irqs
  /\ handlers \subseteq Irqs
  /\ boot \in BootSteps
  /\ created \in Nat
  /\ call \in [Slots -> CallSteps]
  /\ target \in [Slots -> Slots]

-----------------------------------------------------------------------------
(* Interrupts.                                                             *)

\* The PIT's output, or the keyboard controller, raises its request line.
RaiseIrq(i) ==
  /\ i \notin irr
  /\ irr' = irr \cup {i}
  /\ UNCHANGED <<procVars, enabled, cpuVars, isr, handlers, bootVars, callVars>>

\* The CPU takes an interrupt: an interrupt gate clears IF, the stub and
\* isr_common save the registers, interrupt_handler calls what is registered.
TakeInterrupt ==
  \E i \in Presented(irr, isr) :
    /\ iflag
    /\ irr' = irr \ {i}
    /\ isr' = isr \cup {i}
    /\ iflag' = FALSE
    /\ mode' = IF i \notin handlers THEN "tail"
               ELSE IF i = TimerIrq THEN "timer" ELSE "keyboard"
    /\ UNCHANGED <<procVars, enabled, handlers, bootVars, callVars>>

\* interrupt_handler's own EOI, then isr_common's popa and iret, which
\* restores the IF that was set when the interrupt was taken.
InterruptReturn ==
  /\ mode = "tail"
  /\ isr' = Eoi(isr)
  /\ iflag' = TRUE
  /\ mode' = "run"
  /\ UNCHANGED <<procVars, enabled, irr, handlers, bootVars, callVars>>

\* Mutant: the acknowledgement is left to interrupt_handler.
TimerHandlerWithoutEoi ==
  /\ mode = "timer"
  /\ mode' = "resched"
  /\ UNCHANGED <<procVars, enabled, iflag, picVars, handlers, bootVars, callVars>>

\* timer_handler counts the tick and acknowledges before it reschedules.
TimerHandler ==
  /\ mode = "timer"
  /\ isr' = Eoi(isr)
  /\ mode' = "resched"
  /\ UNCHANGED <<procVars, enabled, iflag, irr, handlers, bootVars, callVars>>

\* keyboard_handler: what it does to the shell's line is not part of this model.
KeyboardHandler ==
  /\ mode = "keyboard"
  /\ mode' = "tail"
  /\ UNCHANGED <<procVars, enabled, iflag, picVars, handlers, bootVars, callVars>>

-----------------------------------------------------------------------------
(* schedule() and context_switch().                                        *)

\* schedule() goes on to the scan; otherwise it returns at once: the gate is
\* closed, there is no current process, or the current PCB is not in the table.
GateOpen ==
  /\ enabled
  /\ current # NoSlot
  /\ pstate[current] # "UNUSED"

\* Mutant: the kernel's own process is taken for an idle task and left out.
ReadySlotsWithoutKernel(st) == {t \in Slots \ {0} : st[t] = "READY"}

\* The processes the scan can stop at.
ReadySlots(st) == {t \in Slots : st[t] = "READY"}

\* Mutant: every scan starts at the beginning of the table.
PositionFromStart(s, t) == t

\* The i at which the scan from s meets t, that is, (s + i) % MaxProcesses = t.
Position(s, t) == IF s <= t THEN t - s ELSE (t + MaxProcesses) - s

\* The first READY slot of the scan from s, if there is any.
FirstReady(st, s) ==
  {t \in ReadySlots(st) : \A u \in ReadySlots(st) : Position(s, t) <= Position(s, u)}

\* Where context_switch's ret leads for each frame.
Resume(f) ==
  CASE f = "fresh" -> "tramp"
    [] f = "isr"   -> "tail"
    [] f = "exit"  -> "hung"
    [] OTHER       -> "wild"

\* Mutants: the outgoing process is demoted whatever its state, or not at all.
DemoteAlways(state) == "READY"
DemoteNever(state)  == state

\* The outgoing process is demoted only if it is still RUNNING.
Demote(state) == IF state = "RUNNING" THEN "READY" ELSE state

\* schedule() called with process states st, from a call site whose own
\* frame is "saved" and which continues at "stay" if nothing is switched.
Schedule(st, saved, stay) ==
  \/ /\ ~GateOpen \/ ReadySlots(st) = {}
     /\ pstate' = st
     /\ mode' = stay
     /\ UNCHANGED <<frame, current>>
  \/ /\ GateOpen
     /\ \E next \in FirstReady(st, current) :
          /\ pstate' = [st EXCEPT ![current] = Demote(@), ![next] = "RUNNING"]
          /\ frame' = [frame EXCEPT ![current] = saved, ![next] = "popped"]
          /\ current' = next
          /\ mode' = Resume(frame[next])

\* timer_handler's call of schedule().
TimerSchedule ==
  /\ mode = "resched"
  /\ Schedule(pstate, "isr", "tail")
  /\ UNCHANGED <<ppid, nextPid, enabled, iflag, picVars, handlers, bootVars, callVars>>

\* Mutant: the trampoline forgets sti.
TrampolineWithoutSti ==
  /\ mode = "tramp"
  /\ mode' = "run"
  /\ UNCHANGED <<procVars, enabled, iflag, picVars, handlers, bootVars, callVars>>

\* kthread_trampoline sets IF and calls the entry function.
Trampoline ==
  /\ mode = "tramp"
  /\ iflag' = TRUE
  /\ mode' = "run"
  /\ UNCHANGED <<procVars, enabled, picVars, handlers, bootVars, callVars>>

\* The entry function returns into the trampoline, which calls kthread_exit;
\* its first instruction is cli.
ThreadReturn ==
  /\ "return" \in ThreadApi
  /\ mode = "run" /\ iflag
  /\ current \in Slots \ {0} /\ call[current] = "none"
  /\ iflag' = FALSE
  /\ mode' = "exit"
  /\ UNCHANGED <<procVars, enabled, picVars, handlers, bootVars, callVars>>

\* The rest of kthread_exit: ZOMBIE, schedule(), and the hlt loop if
\* schedule() comes back.
KthreadExit ==
  /\ mode = "exit"
  /\ Schedule([pstate EXCEPT ![current] = "ZOMBIE"], "exit", "hung")
  /\ UNCHANGED <<ppid, nextPid, enabled, iflag, picVars, handlers, bootVars, callVars>>

-----------------------------------------------------------------------------
(* kthread_create, which the timer may interrupt anywhere: the steps below *)
(* are the points between which what another process sees differs.         *)

\* The process whose code the CPU is in; before process_init that is the
\* context that process_init wraps into slot 0.
Running == IF current = NoSlot THEN 0 ELSE current

\* process_get: the first slot in use that carries the PID, if there is one.
ProcessGet(pid) ==
  LET found == {s \in Slots : pstate[s] # "UNUSED" /\ ppid[s] = pid}
  IN  {s \in found : \A t \in found : s <= t}

\* kernel_main makes its calls in turn; other threads make theirs if the
\* threads of this instance create any.
MayCreate ==
  \/ boot = "create" /\ Running = 0 /\ created < BootThreads
  \/ "create" \in ThreadApi /\ boot = "idle" /\ enabled

\* A kthread_create call of the running process ends.
CallEnds ==
  /\ call' = [call EXCEPT ![Running] = "none"]
  /\ created' = IF boot = "create" THEN created + 1 ELSE created
  /\ UNCHANGED <<boot, target>>

UnusedSlots == {s \in Slots : pstate[s] = "UNUSED"}

\* process_alloc's scan, which fails on a full table.
AllocScan ==
  /\ mode = "run" /\ iflag
  /\ call[Running] = "none" /\ MayCreate /\ nextPid <= MaxPid
  /\ \/ /\ UnusedSlots = {}
        /\ CallEnds
     \/ \E s \in UnusedSlots :
          /\ \A t \in UnusedSlots : s <= t
          /\ call' = [call EXCEPT ![Running] = "found"]
          /\ target' = [target EXCEPT ![Running] = s]
          /\ UNCHANGED bootVars
  /\ UNCHANGED <<procVars, enabled, cpuVars, picVars, handlers>>

\* process_alloc zeroes the PCB, numbers it and marks it READY.
AllocPublish ==
  LET s == target[Running]
  IN  /\ mode = "run" /\ iflag
      /\ call[Running] = "found"
      /\ pstate' = [pstate EXCEPT ![s] = "READY"]
      /\ ppid' = [ppid EXCEPT ![s] = nextPid]
      /\ frame' = [frame EXCEPT ![s] = "none"]
      /\ nextPid' = nextPid + 1
      /\ call' = [call EXCEPT ![Running] = "ready"]
      /\ UNCHANGED <<current, enabled, cpuVars, picVars, handlers, bootVars, target>>

\* process_alloc asks the heap for the stack, and gives the slot back if it
\* gets none (the PID stays in the PCB and is not used again).
AllocStack ==
  LET s == target[Running]
  IN  /\ mode = "run" /\ iflag
      /\ call[Running] = "ready"
      /\ \/ /\ frame' = [frame EXCEPT ![s] = "top"]
            /\ call' = [call EXCEPT ![Running] = "stack"]
            /\ UNCHANGED <<pstate, bootVars, target>>
         \/ /\ pstate' = [pstate EXCEPT ![s] = "UNUSED"]
            /\ CallEnds
            /\ UNCHANGED frame
      /\ UNCHANGED <<ppid, current, nextPid, enabled, cpuVars, picVars, handlers>>

\* kthread_create builds the frame that context_switch will pop.
BuildFrame ==
  LET s == target[Running]
  IN  /\ mode = "run" /\ iflag
      /\ call[Running] = "stack"
      /\ frame' = [frame EXCEPT ![s] = "fresh"]
      /\ CallEnds
      /\ UNCHANGED <<pstate, ppid, current, nextPid, enabled, cpuVars, picVars, handlers>>

\* process_free, called by a running process to collect one that has exited.
ProcessFree ==
  /\ "free" \in ThreadApi
  /\ mode = "run" /\ iflag /\ boot = "idle" /\ current # NoSlot
  /\ \E s \in Slots \ {current} :
       /\ pstate[s] = "ZOMBIE" /\ ppid[s] # 0
       /\ pstate' = [pstate EXCEPT ![s] = "UNUSED"]
       /\ ppid' = [ppid EXCEPT ![s] = 0]
       /\ frame' = [frame EXCEPT ![s] = "none"]
  /\ UNCHANGED <<current, nextPid, enabled, cpuVars, picVars, handlers, bootVars, callVars>>

-----------------------------------------------------------------------------
(* kernel_main.                                                            *)

InKernelMain(step) == mode = "run" /\ Running = 0 /\ boot = step

\* terminal_initialize, serial_init and gdt_init, then idt_init: the PIC is
\* remapped (nothing in service), the gates are installed, and sti.
IdtInit ==
  /\ InKernelMain("start")
  /\ isr' = {}
  /\ iflag' = TRUE
  /\ boot' = "keyboard"
  /\ UNCHANGED <<procVars, enabled, mode, irr, handlers, created, callVars>>

KeyboardInit ==
  /\ InKernelMain("keyboard")
  /\ handlers' = handlers \cup {KeyboardIrq}
  /\ boot' = "timer"
  /\ UNCHANGED <<procVars, enabled, cpuVars, picVars, created, callVars>>

TimerInit ==
  /\ InKernelMain("timer")
  /\ handlers' = handlers \cup {TimerIrq}
  /\ boot' = "magic"
  /\ UNCHANGED <<procVars, enabled, cpuVars, picVars, created, callVars>>

\* With a wrong Multiboot magic kernel_main skips every memory and process
\* subsystem and goes to the shell.
BadMagic ==
  /\ InKernelMain("magic")
  /\ boot' = "idle"
  /\ UNCHANGED <<procVars, enabled, cpuVars, picVars, handlers, created, callVars>>

\* PID 0 is the kernel's; threads are numbered from 1.
FirstPid == 1

\* The memory managers come up, then process_init makes this context PID 0.
ProcessInit ==
  /\ InKernelMain("magic")
  /\ pstate' = [s \in Slots |-> IF s = 0 THEN "RUNNING" ELSE "UNUSED"]
  /\ ppid' = [s \in Slots |-> 0]
  /\ frame' = [s \in Slots |-> "none"]
  /\ nextPid' = FirstPid
  /\ current' = 0
  /\ boot' = "create"
  /\ UNCHANGED <<enabled, cpuVars, picVars, handlers, created, callVars>>

\* Mutant: the gate is opened as soon as there is a process table.
SchedulerInitEarly ==
  /\ InKernelMain("create")
  /\ enabled' = TRUE
  /\ boot' = "idle"
  /\ UNCHANGED <<procVars, cpuVars, picVars, handlers, created, callVars>>

\* scheduler_init opens the gate once every kthread_create has returned.
SchedulerInit ==
  /\ InKernelMain("create")
  /\ created = BootThreads /\ call[0] = "none"
  /\ enabled' = TRUE
  /\ boot' = "idle"
  /\ UNCHANGED <<procVars, cpuVars, picVars, handlers, created, callVars>>

-----------------------------------------------------------------------------

\* The state in which boot.asm calls kernel_main: .bss is zero, IF is clear.
Init ==
  /\ pstate = [s \in Slots |-> "UNUSED"]
  /\ ppid = [s \in Slots |-> 0]
  /\ frame = [s \in Slots |-> "none"]
  /\ current = NoSlot
  /\ nextPid = 0
  /\ enabled = FALSE
  /\ iflag = FALSE
  /\ mode = "run"
  /\ irr = {} /\ isr = {}
  /\ handlers = {}
  /\ boot = "start"
  /\ created = 0
  /\ call = [s \in Slots |-> "none"]
  /\ target = [s \in Slots |-> 0]

\* What interrupt handlers and the scheduler do, with IF clear.
Kernel ==
  \/ InterruptReturn \/ TimerHandler \/ KeyboardHandler
  \/ TimerSchedule \/ Trampoline \/ KthreadExit

\* What kernel_main does.
Boot ==
  \/ IdtInit \/ KeyboardInit \/ TimerInit \/ BadMagic \/ ProcessInit
  \/ SchedulerInit

\* The steps of kthread_create.
Create == AllocScan \/ AllocPublish \/ AllocStack \/ BuildFrame

Next ==
  \/ \E i \in Irqs : RaiseIrq(i)
  \/ TakeInterrupt
  \/ Kernel
  \/ Boot
  \/ Create
  \/ ThreadReturn
  \/ ProcessFree

Spec == Init /\ [][Next]_vars

\* The PIT keeps ticking, a CPU with IF set takes what the PIC presents, and
\* code that runs with IF clear runs on.
Fairness ==
  /\ WF_vars(RaiseIrq(TimerIrq))
  /\ WF_vars(TakeInterrupt)
  /\ WF_vars(Kernel)

-----------------------------------------------------------------------------
(* Properties.                                                             *)

\* Once process_init has run, the process that is marked RUNNING is the one
\* current_process points at and there is no other: schedule() moves both
\* together, and kthread_exit never keeps the CPU.
OneRunning ==
  current # NoSlot => {s \in Slots : pstate[s] = "RUNNING"} = {current}

\* Once the scheduler is on, every READY process can be switched to: its
\* kernel_esp points at a frame kthread_create built or schedule() saved and
\* nobody has returned through yet.
ReadyIsDispatchable ==
  enabled => \A s \in Slots :
               pstate[s] = "READY" => frame[s] \in {"fresh", "isr"}

\* The CPU never ends in the hlt loop of kthread_exit with interrupts off,
\* and context_switch never returns through a frame that nobody built: when a
\* thread exits there is always somebody (PID 0 at the least) to switch to.
NoLockup == mode \notin {"hung", "wild"}

\* When schedule() may leave this stack for another, and whenever code of a
\* process runs, no interrupt is left unacknowledged in the PIC: timer_handler
\* acknowledges before it reschedules, and the second, non-specific EOI that
\* interrupt_handler sends when the process is switched back takes nobody
\* else's acknowledgement away.
AckBeforeSwitch == mode \in {"resched", "tramp", "run", "exit"} => isr = {}

\* process_get finds every process in the table under the PID process_alloc
\* gave it, whatever PIDs failed allocations and freed slots leave behind.
LookupFindsProcess ==
  \A s \in Slots : pstate[s] # "UNUSED" => ProcessGet(ppid[s]) = {s}

-----------------------------------------------------------------------------
(* The inductive invariant from which the safety properties follow, for    *)
(* instances whose threads do not create threads.                          *)

\* Before process_init there is no process and nobody switches.
BeforeProcesses ==
  current = NoSlot =>
    /\ ~enabled
    /\ boot # "create"
    /\ mode \notin {"tramp", "exit"}
    /\ \A s \in Slots : pstate[s] = "UNUSED" /\ call[s] = "none"

\* PID 0 lives in slot 0 and can always be switched to or is running.
KernelProcess ==
  current # NoSlot =>
    /\ boot \in {"create", "idle"}
    /\ ppid[0] = 0
    /\ pstate[0] \in {"READY", "RUNNING"}

\* Until the gate opens only PID 0 runs; it opens when every call is over.
Gate ==
  /\ enabled => boot = "idle" /\ current # NoSlot
  /\ ~enabled /\ current # NoSlot => current = 0
  /\ boot = "create" => ~enabled
  /\ boot # "create" => call[0] = "none"
  /\ \A s \in Slots \ {0} : call[s] = "none"

\* A slot that kernel_main's kthread_create call is filling.
Filling ==
  /\ call[0] = "found" => pstate[target[0]] = "UNUSED"
  /\ call[0] \in {"ready", "stack"} => pstate[target[0]] = "READY"

\* A READY process has a frame to return through, or is being filled.
FramesBuilt ==
  \A s \in Slots :
    pstate[s] = "READY" =>
      \/ frame[s] \in {"fresh", "isr"}
      \/ call[0] \in {"ready", "stack"} /\ target[0] = s

\* IF is set exactly in the code of processes, once idt_init has run; only
\* threads exit, and at most the interrupt being handled is in service.
Cpu ==
  /\ iflag => mode = "run"
  /\ boot = "start" => mode = "run" /\ ~iflag
  /\ mode = "exit" => current \notin {0, NoSlot}
  /\ isr \in {{}, {TimerIrq}, {KeyboardIrq}}
  /\ AckBeforeSwitch

\* The PIDs in use are distinct and have all been handed out.
Pids ==
  /\ \A s \in Slots : pstate[s] # "UNUSED" => ppid[s] < nextPid
  /\ \A s, t \in Slots :
       pstate[s] # "UNUSED" /\ pstate[t] # "UNUSED" /\ s # t => ppid[s] # ppid[t]

\* All of the above, with OneRunning and NoLockup.
SchedulerInv ==
  /\ TypeOK /\ OneRunning /\ NoLockup
  /\ BeforeProcesses /\ KernelProcess /\ Gate /\ Filling /\ FramesBuilt
  /\ Cpu /\ Pids

-----------------------------------------------------------------------------
\* An exited process is never run again: kthread_exit makes it a ZOMBIE, schedule()
\* demotes to READY only what was RUNNING and picks only what is READY, so it
\* leaves that state through process_free only.
ZombieStaysDead ==
  [][\A s \in Slots :
       \/ pstate[s] = "ZOMBIE"
       \/ mode = "exit" /\ mode' # "exit" /\ current = s
       => pstate'[s] \in {"ZOMBIE", "UNUSED"}]_vars

\* Round robin starves nobody: with the timer ticking, a process that is READY
\* while the scheduler is on gets the CPU.
NoStarvation ==
  \A s \in Slots : (enabled /\ pstate[s] = "READY") ~> pstate[s] = "RUNNING"

\* A timer request is always served in the end, once idt_init has set IF: no
\* path through the handlers, the context switch or the trampoline leaves
\* interrupts off or the PIC blocked for good.
TimerServed == (boot # "start" /\ TimerIrq \in irr) ~> TimerIrq \notin irr
=============================================================================
