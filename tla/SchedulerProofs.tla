-------------------------- MODULE SchedulerProofs --------------------------
(***************************************************************************)
(* Proofs about Scheduler and RoundRobin for every table size, every       *)
(* number of boot-time threads and every order of interrupts.              *)
(***************************************************************************)
EXTENDS RoundRobin, TLAPS

\* Slot 0 exists and NULL is not a slot.
LEMMA SlotFacts ==
  /\ 0 \in Slots
  /\ NoSlot \notin Slots
  /\ Slots \subseteq Nat
  /\ NoSlot \in Nat
BY MaxProcessesAssumption DEF Slots, NoSlot

\* The scan of schedule() meets every slot, at the position Position names:
\* the slot visited there, (s + i) % MaxProcesses in the code, is t.
LEMMA ScanMeets ==
  ASSUME NEW s \in Slots, NEW t \in Slots
  PROVE  /\ Position(s, t) \in Slots
         /\ (s + Position(s, t)) % MaxProcesses = t
<1>1. MaxProcesses \in Nat \ {0} /\ s \in Nat /\ t \in Nat
      /\ s < MaxProcesses /\ t < MaxProcesses
  BY MaxProcessesAssumption DEF Slots
<1>2. Position(s, t) \in Slots
  BY <1>1 DEF Position, Slots
<1>3. CASE s <= t
  <2>1. s + Position(s, t) = t
    BY <1>1, <1>3 DEF Position
  <2> QED
    BY <1>1, <1>2, <2>1
<1>4. CASE ~(s <= t)
  <2>1. s + Position(s, t) = t + MaxProcesses
    BY <1>1, <1>4 DEF Position
  <2>2. (t + MaxProcesses) % MaxProcesses = t
    BY <1>1
  <2> QED
    BY <1>2, <2>1, <2>2
<1> QED
  BY <1>3, <1>4

-----------------------------------------------------------------------------
(* Type correctness, whatever the threads do.                              *)

\* What schedule() does keeps the process table well typed.
LEMMA ScheduleType ==
  ASSUME TypeOK, NEW st \in [Slots -> States], NEW saved \in Frames,
         NEW stay \in Modes, Schedule(st, saved, stay)
  PROVE  /\ pstate' \in [Slots -> States]
         /\ frame' \in [Slots -> Frames]
         /\ current' \in Slots \cup {NoSlot}
         /\ mode' \in Modes
<1>1. CASE UNCHANGED <<frame, current>> /\ pstate' = st /\ mode' = stay
  BY <1>1 DEF TypeOK
<1>2. CASE \E next \in FirstReady(st, current) :
             /\ pstate' = [st EXCEPT ![current] = Demote(@), ![next] = "RUNNING"]
             /\ frame' = [frame EXCEPT ![current] = saved, ![next] = "popped"]
             /\ current' = next
             /\ mode' = Resume(frame[next])
  <2>1. PICK next \in Slots :
             /\ pstate' = [st EXCEPT ![current] = Demote(@), ![next] = "RUNNING"]
             /\ frame' = [frame EXCEPT ![current] = saved, ![next] = "popped"]
             /\ current' = next
             /\ mode' = Resume(frame[next])
    BY <1>2 DEF FirstReady, ReadySlots
  <2>2. pstate' \in [Slots -> States]
    BY <2>1 DEF Demote, States
  <2>3. frame' \in [Slots -> Frames]
    BY <2>1 DEF TypeOK, Frames
  <2>4. mode' \in Modes
    BY <2>1 DEF Resume, Modes
  <2> QED
    BY <2>1, <2>2, <2>3, <2>4
<1> QED
  BY <1>1, <1>2 DEF Schedule

\* Every step keeps the types.
LEMMA TypeStep == TypeOK /\ [Next]_vars => TypeOK'
<1> SUFFICES ASSUME TypeOK, [Next]_vars PROVE TypeOK'
  OBVIOUS
<1> USE SlotFacts
<1>1. ASSUME NEW i \in Irqs, RaiseIrq(i) PROVE TypeOK'
  BY <1>1 DEF TypeOK, RaiseIrq, procVars, cpuVars, bootVars, callVars
<1>2. CASE TakeInterrupt
  BY <1>2 DEF TypeOK, TakeInterrupt, Presented, Modes, procVars, bootVars, callVars
<1>3. CASE InterruptReturn \/ TimerHandler
  BY <1>3 DEF TypeOK, InterruptReturn, TimerHandler, Eoi, Modes, procVars,
              bootVars, callVars
<1>4. CASE KeyboardHandler \/ Trampoline \/ ThreadReturn
  BY <1>4 DEF TypeOK, KeyboardHandler, Trampoline, ThreadReturn, Modes, procVars,
              picVars, bootVars, callVars
<1>5. CASE TimerSchedule
  <2>1. "isr" \in Frames /\ "tail" \in Modes
    BY DEF Frames, Modes
  <2> QED
    BY <1>5, <2>1, ScheduleType
       DEF TimerSchedule, TypeOK, picVars, bootVars, callVars
<1>6. CASE KthreadExit
  <2>1. "exit" \in Frames /\ "hung" \in Modes
        /\ [pstate EXCEPT ![current] = "ZOMBIE"] \in [Slots -> States]
    BY DEF Frames, Modes, TypeOK, States
  <2> QED
    BY <1>6, <2>1, ScheduleType
       DEF KthreadExit, TypeOK, picVars, bootVars, callVars
<1>7. CASE IdtInit \/ KeyboardInit \/ TimerInit \/ BadMagic \/ SchedulerInit
  BY <1>7 DEF TypeOK, IdtInit, KeyboardInit, TimerInit, BadMagic, SchedulerInit,
              BootSteps, Irqs, procVars, cpuVars, picVars, callVars
<1>8. CASE ProcessInit
  BY <1>8 DEF TypeOK, ProcessInit, BootSteps, States, Frames, FirstPid, cpuVars,
              picVars, callVars
<1>9. Running \in Slots
  BY DEF Running, TypeOK
<1>10. CASE AllocScan
  BY <1>9, <1>10 DEF TypeOK, AllocScan, CallEnds, UnusedSlots, CallSteps, procVars,
              cpuVars, picVars, bootVars
<1>11. CASE AllocPublish
  BY <1>9, <1>11 DEF TypeOK, AllocPublish, CallSteps, States, Frames, cpuVars,
              picVars, bootVars
<1>12. CASE AllocStack
  BY <1>9, <1>12 DEF TypeOK, AllocStack, CallEnds, CallSteps, States, Frames,
              cpuVars, picVars, bootVars
<1>13. CASE BuildFrame
  BY <1>9, <1>13 DEF TypeOK, BuildFrame, CallEnds, CallSteps, Frames, cpuVars,
              picVars
<1>14. CASE ProcessFree
  BY <1>14 DEF TypeOK, ProcessFree, States, Frames, cpuVars, picVars, bootVars,
              callVars
<1>15. CASE UNCHANGED vars
  BY <1>15 DEF TypeOK, vars, procVars, cpuVars, picVars, bootVars, callVars
<1> QED
  BY <1>1, <1>2, <1>3, <1>4, <1>5, <1>6, <1>7, <1>8, <1>10, <1>11, <1>12, <1>13,
     <1>14, <1>15 DEF Next, Kernel, Boot, Create

\* The initial state is well typed.
LEMMA TypeInit == Init => TypeOK
BY SlotFacts DEF Init, TypeOK, States, Frames, Modes, BootSteps, CallSteps

\* The types of the process table, the CPU and the PIC hold in every state,
\* also when threads create threads behind the scheduler's back.
THEOREM TypeCorrect == Spec => []TypeOK
BY TypeInit, TypeStep, PTL DEF Spec

-----------------------------------------------------------------------------
(* Safety, when threads do not create threads.                             *)

\* The hypothesis of the theorems below: kernel_main, which creates its
\* threads before scheduler_init, is the only caller of kthread_create.
OnlyBootCreates == "create" \notin ThreadApi

\* The initial state satisfies the inductive invariant.
LEMMA InvInit == Init => SchedulerInv
<1> SUFFICES ASSUME Init PROVE SchedulerInv
  OBVIOUS
<1>1. TypeOK
  BY TypeInit
<1>2. OneRunning /\ NoLockup /\ BeforeProcesses /\ KernelProcess
  BY DEF Init, OneRunning, NoLockup, BeforeProcesses, KernelProcess
<1>3. Gate /\ Filling /\ FramesBuilt /\ Pids
  BY SlotFacts DEF Init, Gate, Filling, FramesBuilt, Pids
<1>4. Cpu
  BY DEF Init, Cpu, AckBeforeSwitch
<1> QED
  BY <1>1, <1>2, <1>3, <1>4 DEF SchedulerInv

\* Steps that leave the process table, the gate, kernel_main and its calls
\* alone disturb only where the CPU is and the PIC.
LEMMA InvCpuSteps ==
  ASSUME SchedulerInv, TypeOK',
         UNCHANGED <<procVars, enabled, bootVars, callVars>>,
         mode' \notin {"hung", "wild"},
         current = NoSlot => mode' \notin {"tramp", "exit"},
         Cpu'
  PROVE  SchedulerInv'
<1> USE DEF SchedulerInv, procVars, bootVars, callVars
<1>1. OneRunning' /\ NoLockup' /\ BeforeProcesses' /\ KernelProcess'
  BY DEF OneRunning, NoLockup, BeforeProcesses, KernelProcess
<1>2. Gate' /\ Filling' /\ FramesBuilt' /\ Pids'
  BY DEF Gate, Filling, FramesBuilt, Pids
<1> QED
  BY <1>1, <1>2

\* The interrupt path up to schedule() keeps the invariant.
LEMMA InvInterrupts ==
  ASSUME SchedulerInv, TypeOK',
         \/ \E i \in Irqs : RaiseIrq(i)
         \/ TakeInterrupt \/ InterruptReturn \/ TimerHandler \/ KeyboardHandler
         \/ Trampoline \/ ThreadReturn
  PROVE  SchedulerInv'
<1> USE DEF Cpu, AckBeforeSwitch
<1>1. ASSUME NEW i \in Irqs, RaiseIrq(i) PROVE SchedulerInv'
  <2>1. Cpu'
    BY <1>1 DEF RaiseIrq, SchedulerInv, procVars, cpuVars, bootVars
  <2> QED
    BY <1>1, <2>1, InvCpuSteps DEF RaiseIrq, SchedulerInv, cpuVars, NoLockup,
       BeforeProcesses
<1>2. CASE TakeInterrupt
  <2>1. Cpu'
    BY <1>2 DEF TakeInterrupt, Presented, SchedulerInv, TypeOK, Irqs, procVars,
       bootVars
  <2> QED
    BY <1>2, <2>1, InvCpuSteps DEF TakeInterrupt
<1>3. CASE InterruptReturn
  <2>1. Cpu'
    BY <1>3 DEF InterruptReturn, Eoi, TimerIrq, KeyboardIrq, SchedulerInv,
       procVars, bootVars
  <2> QED
    BY <1>3, <2>1, InvCpuSteps DEF InterruptReturn
<1>4. CASE TimerHandler
  <2>1. Cpu'
    BY <1>4 DEF TimerHandler, Eoi, TimerIrq, KeyboardIrq, SchedulerInv,
       procVars, bootVars
  <2> QED
    BY <1>4, <2>1, InvCpuSteps DEF TimerHandler
<1>5. CASE KeyboardHandler
  <2>1. Cpu'
    BY <1>5 DEF KeyboardHandler, SchedulerInv, picVars, procVars, bootVars
  <2> QED
    BY <1>5, <2>1, InvCpuSteps DEF KeyboardHandler
<1>6. CASE Trampoline
  <2>1. Cpu'
    BY <1>6 DEF Trampoline, SchedulerInv, picVars, procVars, bootVars
  <2> QED
    BY <1>6, <2>1, InvCpuSteps DEF Trampoline
<1>7. CASE ThreadReturn
  <2>1. Cpu'
    BY <1>7, SlotFacts DEF ThreadReturn, SchedulerInv, picVars, procVars, bootVars
  <2> QED
    BY <1>7, <2>1, SlotFacts, InvCpuSteps DEF ThreadReturn
<1> QED
  BY <1>1, <1>2, <1>3, <1>4, <1>5, <1>6, <1>7

\* A switch away from the current process, which keeps the state st[current]
\* after the demotion: the heart of the argument.
LEMMA InvSwitch ==
  ASSUME SchedulerInv, TypeOK', GateOpen,
         NEW st \in [Slots -> States],
         \A s \in Slots \ {current} : st[s] = pstate[s],
         st[current] # "UNUSED", st[current] # "READY",
         st[current] = "RUNNING" \/ current # 0,
         NEW saved \in Frames,
         st[current] = "RUNNING" => saved = "isr",
         mode \in {"resched", "exit"},
         NEW next \in FirstReady(st, current),
         pstate' = [st EXCEPT ![current] = Demote(@), ![next] = "RUNNING"],
         frame' = [frame EXCEPT ![current] = saved, ![next] = "popped"],
         current' = next,
         mode' = Resume(frame[next]),
         UNCHANGED <<ppid, nextPid, enabled, iflag, picVars, handlers, bootVars, callVars>>
  PROVE  SchedulerInv'
<1> USE SlotFacts DEF SchedulerInv, picVars, bootVars, callVars
<1>1. /\ enabled /\ current \in Slots /\ boot = "idle"
      /\ next \in Slots /\ next # current /\ pstate[next] = "READY"
  BY DEF GateOpen, FirstReady, ReadySlots, TypeOK, Gate
<1>2. \A s \in Slots : call[s] = "none"
  BY <1>1 DEF Gate
<1>3. frame[next] \in {"fresh", "isr"}
  BY <1>1, <1>2 DEF FramesBuilt
<1>4. mode' \in {"tramp", "tail"}
  BY <1>3 DEF Resume
<1>5. /\ pstate'[next] = "RUNNING"
      /\ pstate'[current] = Demote(st[current])
      /\ pstate'[current] # "RUNNING"
      /\ pstate'[current] # "UNUSED"
      /\ \A s \in Slots \ {current, next} : pstate'[s] = pstate[s]
  BY <1>1 DEF Demote
<1>6. OneRunning'
  <2>1. \A s \in Slots : pstate[s] = "RUNNING" => s = current
    BY <1>1 DEF OneRunning
  <2>2. \A s \in Slots : pstate'[s] = "RUNNING" <=> s = next
    BY <1>1, <1>5, <2>1
  <2> QED
    BY <1>1, <2>2 DEF OneRunning
<1>7. NoLockup' /\ BeforeProcesses'
  BY <1>1, <1>4 DEF NoLockup, BeforeProcesses
<1>8. KernelProcess'
  BY <1>1, <1>5 DEF KernelProcess, Demote
<1>9. Gate' /\ Filling'
  BY <1>1, <1>2 DEF Gate, Filling
<1>10. FramesBuilt'
  <2> SUFFICES ASSUME NEW s \in Slots, pstate'[s] = "READY"
               PROVE  frame'[s] \in {"fresh", "isr"}
    BY DEF FramesBuilt
  <2>1. CASE s = current
    BY <1>1, <1>5, <2>1 DEF Demote, TypeOK
  <2>2. CASE s # current
    <3>1. s # next /\ pstate[s] = "READY" /\ frame'[s] = frame[s]
      BY <1>1, <1>5, <2>2 DEF TypeOK
    <3> QED
      BY <1>2, <3>1 DEF FramesBuilt
  <2> QED
    BY <2>1, <2>2
<1>11. Cpu'
  BY <1>1, <1>4 DEF Cpu, AckBeforeSwitch
<1>12. Pids'
  <2>1. \A s \in Slots : pstate'[s] # "UNUSED" => pstate[s] # "UNUSED"
    BY <1>1, <1>5 DEF GateOpen
  <2> QED
    BY <2>1 DEF Pids
<1> QED
  BY <1>6, <1>7, <1>8, <1>9, <1>10, <1>11, <1>12

\* Both calls of schedule() keep the invariant; in kthread_exit the scan finds
\* somebody, because PID 0 is READY whenever another process is current.
LEMMA InvSchedule ==
  ASSUME SchedulerInv, TypeOK', TimerSchedule \/ KthreadExit
  PROVE  SchedulerInv'
<1> USE SlotFacts
<1>1. CASE TimerSchedule
  <2>1. CASE pstate' = pstate /\ mode' = "tail" /\ UNCHANGED <<frame, current>>
    <3>1. UNCHANGED <<procVars, enabled, bootVars, callVars, iflag, isr>>
      BY <1>1, <2>1 DEF TimerSchedule, procVars, picVars
    <3>2. Cpu'
      BY <1>1, <2>1, <3>1 DEF TimerSchedule, SchedulerInv, Cpu, AckBeforeSwitch,
         procVars, bootVars
    <3> QED
      BY <2>1, <3>1, <3>2, InvCpuSteps
  <2>2. CASE /\ GateOpen
             /\ \E next \in FirstReady(pstate, current) :
                  /\ pstate' = [pstate EXCEPT ![current] = Demote(@), ![next] = "RUNNING"]
                  /\ frame' = [frame EXCEPT ![current] = "isr", ![next] = "popped"]
                  /\ current' = next
                  /\ mode' = Resume(frame[next])
    <3>1. current \in Slots /\ pstate[current] = "RUNNING"
          /\ pstate \in [Slots -> States] /\ "isr" \in Frames
      BY <2>2 DEF GateOpen, SchedulerInv, TypeOK, OneRunning, Frames
    <3>2. UNCHANGED <<ppid, nextPid, enabled, iflag, picVars, handlers, bootVars, callVars>>
          /\ mode \in {"resched", "exit"}
      BY <1>1 DEF TimerSchedule
    <3> QED
      BY <2>2, <3>1, <3>2, InvSwitch
  <2> QED
    BY <1>1, <2>1, <2>2 DEF TimerSchedule, Schedule
<1>2. CASE KthreadExit
  <2> DEFINE st == [pstate EXCEPT ![current] = "ZOMBIE"]
  <2>1. /\ current \in Slots \ {0}
        /\ GateOpen
        /\ st \in [Slots -> States] /\ "exit" \in Frames
        /\ st[current] = "ZOMBIE"
        /\ \A s \in Slots \ {current} : st[s] = pstate[s]
    <3>1. current \in Slots \ {0}
      BY <1>2 DEF KthreadExit, SchedulerInv, Cpu, TypeOK
    <3>2. GateOpen
      BY <3>1 DEF GateOpen, SchedulerInv, Gate, OneRunning
    <3> QED
      BY <3>1, <3>2 DEF SchedulerInv, TypeOK, States, Frames
  <2>2. st[0] = "READY"
    BY <2>1 DEF SchedulerInv, KernelProcess, OneRunning
  <2>3. PICK next \in FirstReady(st, current) :
                  /\ pstate' = [st EXCEPT ![current] = Demote(@), ![next] = "RUNNING"]
                  /\ frame' = [frame EXCEPT ![current] = "exit", ![next] = "popped"]
                  /\ current' = next
                  /\ mode' = Resume(frame[next])
    BY <1>2, <2>1, <2>2 DEF KthreadExit, Schedule, ReadySlots
  <2>4. UNCHANGED <<ppid, nextPid, enabled, iflag, picVars, handlers, bootVars, callVars>>
        /\ mode \in {"resched", "exit"}
    BY <1>2 DEF KthreadExit
  <2> HIDE DEF st
  <2> QED
    BY <2>1, <2>3, <2>4, InvSwitch
<1> QED
  BY <1>1, <1>2

\* The steps of kernel_main keep the invariant.
LEMMA InvBoot ==
  ASSUME SchedulerInv, TypeOK', Boot
  PROVE  SchedulerInv'
<1> USE SlotFacts DEF SchedulerInv, InKernelMain, Running
<1>1. CASE IdtInit
  <2>1. current = NoSlot
    BY <1>1 DEF IdtInit, KernelProcess
  <2>2. Cpu' /\ NoLockup' /\ BeforeProcesses' /\ OneRunning' /\ KernelProcess'
    BY <1>1, <2>1 DEF IdtInit, Cpu, AckBeforeSwitch, NoLockup, BeforeProcesses,
       OneRunning, KernelProcess, procVars, callVars
  <2>3. Gate' /\ Filling' /\ FramesBuilt' /\ Pids'
    BY <1>1, <2>1 DEF IdtInit, BeforeProcesses, Gate, Filling, FramesBuilt, Pids,
       procVars, callVars
  <2> QED
    BY <2>2, <2>3
<1>2. CASE KeyboardInit \/ TimerInit \/ BadMagic
  <2>1. current = NoSlot
    BY <1>2 DEF KeyboardInit, TimerInit, BadMagic, KernelProcess
  <2>2. Cpu' /\ NoLockup' /\ BeforeProcesses' /\ OneRunning' /\ KernelProcess'
    BY <1>2, <2>1 DEF KeyboardInit, TimerInit, BadMagic, Cpu, AckBeforeSwitch,
       NoLockup, BeforeProcesses, OneRunning, KernelProcess, procVars, cpuVars,
       picVars, callVars
  <2>3. Gate' /\ Filling' /\ FramesBuilt' /\ Pids'
    BY <1>2, <2>1 DEF KeyboardInit, TimerInit, BadMagic, BeforeProcesses, Gate,
       Filling, FramesBuilt, Pids, procVars, callVars
  <2> QED
    BY <2>2, <2>3
<1>3. CASE ProcessInit
  <2>1. current = NoSlot /\ ~enabled /\ mode = "run"
    BY <1>3 DEF ProcessInit, KernelProcess, BeforeProcesses
  <2>2. Cpu' /\ NoLockup' /\ BeforeProcesses'
    BY <1>3, <2>1 DEF ProcessInit, Cpu, AckBeforeSwitch, NoLockup,
       BeforeProcesses, cpuVars, picVars
  <2>3. OneRunning' /\ KernelProcess'
    BY <1>3 DEF ProcessInit, OneRunning, KernelProcess
  <2>4. Gate' /\ Filling' /\ FramesBuilt' /\ Pids'
    BY <1>3, <2>1 DEF ProcessInit, BeforeProcesses, Gate, Filling, FramesBuilt,
       Pids, FirstPid, callVars
  <2> QED
    BY <2>2, <2>3, <2>4
<1>4. CASE SchedulerInit
  <2>1. current = 0 /\ mode = "run"
    BY <1>4 DEF SchedulerInit, BeforeProcesses, TypeOK
  <2>2. Cpu' /\ NoLockup' /\ BeforeProcesses' /\ OneRunning' /\ KernelProcess'
    BY <1>4, <2>1 DEF SchedulerInit, Cpu, AckBeforeSwitch, NoLockup,
       BeforeProcesses, OneRunning, KernelProcess, procVars, cpuVars, picVars,
       callVars
  <2>3. Gate' /\ Filling' /\ FramesBuilt' /\ Pids'
    BY <1>4, <2>1 DEF SchedulerInit, Gate, Filling, FramesBuilt, Pids, procVars,
       callVars
  <2> QED
    BY <2>2, <2>3
<1> QED
  BY <1>1, <1>2, <1>3, <1>4 DEF Boot

\* kthread_create, called by kernel_main behind the closed gate, keeps the
\* invariant although the PCB is READY before it has a stack.
LEMMA InvCreate ==
  ASSUME SchedulerInv, TypeOK', OnlyBootCreates, Create
  PROVE  SchedulerInv'
<1> USE SlotFacts DEF SchedulerInv
<1>1. Running \in Slots
  BY DEF Running, TypeOK
<1>2. /\ boot = "create" /\ ~enabled /\ current = 0 /\ Running = 0
      /\ mode = "run"
  <2>1. boot = "create"
    BY <1>1 DEF Create, AllocScan, AllocPublish, AllocStack, BuildFrame, MayCreate,
       OnlyBootCreates, Gate
  <2>2. ~enabled /\ current = 0
    BY <2>1 DEF Gate, BeforeProcesses
  <2> QED
    BY <2>1, <2>2 DEF Running, Create, AllocScan, AllocPublish, AllocStack,
       BuildFrame
<1>3. pstate[0] = "RUNNING" /\ \A s \in Slots : pstate[s] = "RUNNING" => s = 0
  BY <1>2 DEF OneRunning
<1>4. /\ UNCHANGED <<current, enabled, iflag, mode, irr, isr, boot>>
      /\ \A s \in Slots \ {0} : call'[s] = call[s]
  BY <1>2 DEF Create, AllocScan, AllocPublish, AllocStack, BuildFrame, CallEnds,
     procVars, cpuVars, picVars, bootVars, TypeOK
<1>5. NoLockup' /\ BeforeProcesses' /\ Gate' /\ Cpu'
  BY <1>2, <1>4 DEF NoLockup, BeforeProcesses, Gate, Cpu, AckBeforeSwitch
<1> USE DEF OneRunning, KernelProcess, Filling, FramesBuilt, Pids, TypeOK
<1>6. CASE AllocScan
  <2>1. OneRunning' /\ KernelProcess' /\ Filling'
    BY <1>2, <1>4, <1>6 DEF AllocScan, UnusedSlots, CallEnds, procVars
  <2>2. FramesBuilt' /\ Pids'
    BY <1>2, <1>4, <1>6 DEF AllocScan, CallEnds, procVars
  <2> QED
    BY <1>5, <2>1, <2>2
<1>7. CASE AllocPublish
  <2>1. target[0] \in Slots \ {0} /\ pstate[target[0]] = "UNUSED"
    BY <1>2, <1>3, <1>7 DEF AllocPublish
  <2>2. OneRunning'
    BY <1>2, <1>3, <1>4, <1>7, <2>1 DEF AllocPublish
  <2>3. KernelProcess' /\ Filling' /\ FramesBuilt'
    BY <1>2, <1>3, <1>4, <1>7, <2>1 DEF AllocPublish
  <2>4. Pids'
    BY <1>2, <1>7, <2>1 DEF AllocPublish
  <2> QED
    BY <1>5, <2>2, <2>3, <2>4
<1>8. CASE AllocStack
  <2>1. target[0] \in Slots \ {0} /\ pstate[target[0]] = "READY"
    BY <1>2, <1>3, <1>8 DEF AllocStack
  <2>2. OneRunning'
    <3>1. pstate' = pstate \/ pstate' = [pstate EXCEPT ![target[0]] = "UNUSED"]
      BY <1>2, <1>8 DEF AllocStack
    <3>2. \A s \in Slots : pstate'[s] = "RUNNING" <=> s = 0
      BY <1>3, <2>1, <3>1
    <3> QED
      BY <1>2, <1>4, <3>2
  <2>3. KernelProcess' /\ Filling' /\ FramesBuilt'
    BY <1>2, <1>3, <1>4, <1>8, <2>1 DEF AllocStack, CallEnds
  <2>4. Pids'
    BY <1>2, <1>8, <2>1 DEF AllocStack
  <2> QED
    BY <1>5, <2>2, <2>3, <2>4
<1>9. CASE BuildFrame
  <2>1. OneRunning' /\ KernelProcess' /\ Filling' /\ Pids'
    BY <1>2, <1>4, <1>9 DEF BuildFrame, CallEnds
  <2>2. FramesBuilt'
    BY <1>2, <1>9 DEF BuildFrame, CallEnds
  <2> QED
    BY <1>5, <2>1, <2>2
<1> QED
  BY <1>6, <1>7, <1>8, <1>9 DEF Create

\* process_free keeps the invariant.
LEMMA InvFree ==
  ASSUME SchedulerInv, TypeOK', ProcessFree
  PROVE  SchedulerInv'
<1> USE SlotFacts DEF SchedulerInv
<1>1. PICK z \in Slots \ {current} :
        /\ pstate[z] = "ZOMBIE"
        /\ ppid[z] # 0
        /\ pstate' = [pstate EXCEPT ![z] = "UNUSED"]
        /\ ppid' = [ppid EXCEPT ![z] = 0]
        /\ frame' = [frame EXCEPT ![z] = "none"]
  BY DEF ProcessFree
<1>2. /\ current # NoSlot /\ boot = "idle"
      /\ UNCHANGED <<current, nextPid, enabled, iflag, mode, isr, boot, call, target>>
  BY DEF ProcessFree, cpuVars, picVars, bootVars, callVars
<1>3. OneRunning' /\ KernelProcess'
  BY <1>1, <1>2 DEF OneRunning, KernelProcess, TypeOK
<1>4. NoLockup' /\ BeforeProcesses' /\ Gate' /\ Cpu'
  BY <1>2 DEF NoLockup, BeforeProcesses, Gate, Cpu, AckBeforeSwitch
<1>5. Filling' /\ FramesBuilt' /\ Pids'
  BY <1>1, <1>2 DEF Gate, Filling, FramesBuilt, Pids, TypeOK
<1> QED
  BY <1>3, <1>4, <1>5

\* Every step keeps the inductive invariant.
LEMMA InvStep ==
  ASSUME OnlyBootCreates
  PROVE  SchedulerInv /\ [Next]_vars => SchedulerInv'
<1> SUFFICES ASSUME SchedulerInv, [Next]_vars PROVE SchedulerInv'
  OBVIOUS
<1>1. TypeOK'
  BY TypeStep DEF SchedulerInv
<1>2. CASE \/ \E i \in Irqs : RaiseIrq(i)
           \/ TakeInterrupt \/ InterruptReturn \/ TimerHandler \/ KeyboardHandler
           \/ Trampoline \/ ThreadReturn
  BY <1>1, <1>2, InvInterrupts
<1>3. CASE TimerSchedule \/ KthreadExit
  BY <1>1, <1>3, InvSchedule
<1>4. CASE Boot
  BY <1>1, <1>4, InvBoot
<1>5. CASE Create
  BY <1>1, <1>5, OnlyBootCreates, InvCreate
<1>6. CASE ProcessFree
  BY <1>1, <1>6, InvFree
<1>7. CASE UNCHANGED vars
  BY <1>1, <1>7, InvCpuSteps
     DEF SchedulerInv, NoLockup, BeforeProcesses, Cpu, AckBeforeSwitch, vars,
         procVars, cpuVars, picVars, bootVars, callVars
<1> QED
  BY <1>2, <1>3, <1>4, <1>5, <1>6, <1>7 DEF Next, Kernel

\* The inductive invariant holds in every reachable state.
THEOREM InvariantHolds ==
  ASSUME OnlyBootCreates
  PROVE  Spec => []SchedulerInv
<1>1. SchedulerInv /\ [Next]_vars => SchedulerInv'
  BY OnlyBootCreates, InvStep
<1> QED
  BY InvInit, <1>1, PTL DEF Spec

-----------------------------------------------------------------------------
(* What the invariant gives.                                               *)

\* A process being filled exists only while the gate is closed.
LEMMA InvDispatchable == SchedulerInv => ReadyIsDispatchable
BY SlotFacts DEF SchedulerInv, Gate, FramesBuilt, ReadyIsDispatchable

\* With distinct PIDs the lookup stops at the right slot.
LEMMA InvLookup == SchedulerInv => LookupFindsProcess
<1> SUFFICES ASSUME SchedulerInv, NEW s \in Slots, pstate[s] # "UNUSED"
             PROVE  ProcessGet(ppid[s]) = {s}
  BY DEF LookupFindsProcess
<1>1. \A t \in Slots : pstate[t] # "UNUSED" /\ ppid[t] = ppid[s] <=> t = s
  BY DEF SchedulerInv, Pids
<1>2. s <= s
  BY SlotFacts
<1> QED
  BY <1>1, <1>2 DEF ProcessGet

\* On any table, with any number of threads created at boot, some of which may
\* fail, and any interleaving of interrupts: exactly the current process is
\* RUNNING.
THEOREM OneRunningHolds ==
  ASSUME OnlyBootCreates PROVE Spec => []OneRunning
<1>1. SchedulerInv => OneRunning
  BY DEF SchedulerInv
<1> QED
  BY OnlyBootCreates, InvariantHolds, <1>1, PTL

\* The scheduler only ever offers processes whose frame is complete.
THEOREM ReadyIsDispatchableHolds ==
  ASSUME OnlyBootCreates PROVE Spec => []ReadyIsDispatchable
BY OnlyBootCreates, InvariantHolds, InvDispatchable, PTL

\* kthread_exit never falls through to its hlt loop and no switch goes wild.
THEOREM NoLockupHolds ==
  ASSUME OnlyBootCreates PROVE Spec => []NoLockup
<1>1. SchedulerInv => NoLockup
  BY DEF SchedulerInv
<1> QED
  BY OnlyBootCreates, InvariantHolds, <1>1, PTL

\* No interrupt is left in service across a switch.
THEOREM AckBeforeSwitchHolds ==
  ASSUME OnlyBootCreates PROVE Spec => []AckBeforeSwitch
<1>1. SchedulerInv => AckBeforeSwitch
  BY DEF SchedulerInv, Cpu
<1> QED
  BY OnlyBootCreates, InvariantHolds, <1>1, PTL

\* process_get finds every process under its PID.
THEOREM LookupFindsProcessHolds ==
  ASSUME OnlyBootCreates PROVE Spec => []LookupFindsProcess
BY OnlyBootCreates, InvariantHolds, InvLookup, PTL

\* What a step that changes hands looks like: the successor is the first READY
\* process of the scan, and nobody else changes state.
LEMMA DispatchShape ==
  ASSUME OnlyBootCreates, SchedulerInv, Next, current # NoSlot, current' # current
  PROVE  /\ current \in Slots /\ current' \in Slots
         /\ pstate[current'] = "READY" /\ pstate'[current'] = "RUNNING"
         /\ \A s \in Slots \ {current} :
              pstate[s] = "READY" => Position(current, current') <= Position(current, s)
         /\ \A s \in Slots \ {current, current'} : pstate'[s] = pstate[s]
<1> USE SlotFacts
<1>1. current \in Slots
  BY DEF SchedulerInv, TypeOK
<1>2. TimerSchedule \/ KthreadExit
  <2>1. ~ \E i \in Irqs : RaiseIrq(i)
    BY DEF RaiseIrq, procVars
  <2>2. ~TakeInterrupt /\ ~InterruptReturn /\ ~TimerHandler /\ ~KeyboardHandler
        /\ ~Trampoline /\ ~ThreadReturn /\ ~ProcessFree
    BY DEF TakeInterrupt, InterruptReturn, TimerHandler, KeyboardHandler, Trampoline,
       ThreadReturn, ProcessFree, procVars
  <2>3. ~IdtInit /\ ~KeyboardInit /\ ~TimerInit /\ ~BadMagic /\ ~SchedulerInit
    BY DEF IdtInit, KeyboardInit, TimerInit, BadMagic, SchedulerInit, procVars
  <2>4. ~ProcessInit
    BY DEF ProcessInit, InKernelMain, SchedulerInv, KernelProcess
  <2>5. ~AllocScan /\ ~AllocPublish /\ ~AllocStack /\ ~BuildFrame
    BY DEF AllocScan, AllocPublish, AllocStack, BuildFrame, procVars
  <2> QED
    BY <2>1, <2>2, <2>3, <2>4, <2>5 DEF Next, Kernel, Boot, Create
<1>3. \E st \in [Slots -> States] : \E next \in FirstReady(st, current) :
        /\ \A s \in Slots \ {current} : st[s] = pstate[s]
        /\ pstate' = [st EXCEPT ![current] = Demote(@), ![next] = "RUNNING"]
        /\ current' = next
  <2>1. CASE TimerSchedule
    <3>1. pstate \in [Slots -> States]
      BY DEF SchedulerInv, TypeOK
    <3> QED
      BY <2>1, <3>1 DEF TimerSchedule, Schedule
  <2>2. CASE KthreadExit
    <3> DEFINE st == [pstate EXCEPT ![current] = "ZOMBIE"]
    <3>1. st \in [Slots -> States] /\ \A s \in Slots \ {current} : st[s] = pstate[s]
      BY <1>1 DEF SchedulerInv, TypeOK, States
    <3>2. \E next \in FirstReady(st, current) :
            /\ pstate' = [st EXCEPT ![current] = Demote(@), ![next] = "RUNNING"]
            /\ current' = next
      BY <2>2 DEF KthreadExit, Schedule
    <3> HIDE DEF st
    <3> QED
      BY <3>1, <3>2
  <2> QED
    BY <1>2, <2>1, <2>2
<1>4. PICK st \in [Slots -> States] : \E next \in FirstReady(st, current) :
        /\ \A s \in Slots \ {current} : st[s] = pstate[s]
        /\ pstate' = [st EXCEPT ![current] = Demote(@), ![next] = "RUNNING"]
        /\ current' = next
  BY <1>3
<1>5. /\ current' \in FirstReady(st, current)
      /\ \A s \in Slots \ {current} : st[s] = pstate[s]
      /\ pstate' = [st EXCEPT ![current] = Demote(@), ![current'] = "RUNNING"]
  BY <1>4
<1>6. current' \in Slots
  BY <1>5 DEF FirstReady, ReadySlots
<1> QED
  BY <1>1, <1>5, <1>6 DEF FirstReady, ReadySlots

\* kthread_exit leaves the exiting process a ZOMBIE.
LEMMA ExitMakesZombie ==
  ASSUME SchedulerInv, Next, mode = "exit", mode' # "exit"
  PROVE  pstate'[current] = "ZOMBIE"
<1> USE SlotFacts
<1>1. current \in Slots /\ pstate \in [Slots -> States] /\ ~iflag
  BY DEF SchedulerInv, Cpu, TypeOK
<1>2. KthreadExit
  BY <1>1 DEF Next, Kernel, Boot, Create, RaiseIrq, TakeInterrupt, InterruptReturn,
     TimerHandler, KeyboardHandler, TimerSchedule, Trampoline, ThreadReturn,
     ProcessFree, IdtInit, KeyboardInit, TimerInit, BadMagic, ProcessInit,
     SchedulerInit, InKernelMain, AllocScan, AllocPublish, AllocStack, BuildFrame, cpuVars
<1> DEFINE st == [pstate EXCEPT ![current] = "ZOMBIE"]
<1>3. st \in [Slots -> States] /\ st[current] = "ZOMBIE"
  BY <1>1 DEF States
<1>4. CASE pstate' = st
  BY <1>3, <1>4
<1>5. CASE \E next \in FirstReady(st, current) :
             pstate' = [st EXCEPT ![current] = Demote(@), ![next] = "RUNNING"]
  <2> HIDE DEF st
  <2> QED
    BY <1>1, <1>3, <1>5 DEF FirstReady, ReadySlots, Demote
<1> QED
  BY <1>2, <1>4, <1>5 DEF KthreadExit, Schedule

\* An exited process is never run again.
THEOREM ZombieStaysDeadHolds ==
  ASSUME OnlyBootCreates PROVE Spec => ZombieStaysDead
<1> DEFINE Dead == \A s \in Slots :
                     \/ pstate[s] = "ZOMBIE"
                     \/ mode = "exit" /\ mode' # "exit" /\ current = s
                     => pstate'[s] \in {"ZOMBIE", "UNUSED"}
<1>1. ASSUME SchedulerInv, [Next]_vars PROVE [Dead]_vars
  <2> USE SlotFacts
  <2>0. ASSUME Next, mode = "exit", mode' # "exit"
        PROVE  pstate'[current] = "ZOMBIE"
    BY <1>1, <2>0, ExitMakesZombie
  <2>1. SUFFICES ASSUME Next, NEW z \in Slots, pstate[z] = "ZOMBIE"
                 PROVE  pstate'[z] \in {"ZOMBIE", "UNUSED"}
    BY <1>1, <2>0
  <2>2. current # NoSlot /\ z # current
    BY <1>1, <2>1 DEF SchedulerInv, BeforeProcesses, OneRunning
  <2>3. pstate \in [Slots -> States]
    BY <1>1 DEF SchedulerInv, TypeOK
  <2>4. CASE current' # current
    BY <1>1, <2>1, <2>2, <2>4, OnlyBootCreates, DispatchShape
  <2>5. CASE current' = current
    <3>1. CASE TimerSchedule \/ KthreadExit
      <4>1. pstate[current] = "RUNNING" /\ current \in Slots
        BY <1>1, <2>2 DEF SchedulerInv, OneRunning, TypeOK
      <4>2. pstate' = pstate \/ pstate' = [pstate EXCEPT ![current] = "ZOMBIE"]
        BY <1>1, <2>5, <3>1, <4>1 DEF TimerSchedule, KthreadExit, Schedule,
           FirstReady, ReadySlots, SchedulerInv, TypeOK
      <4> QED
        BY <2>1, <2>2, <2>3, <4>2
    <3>2. CASE AllocPublish
      <4>1. Running \in Slots
        BY <1>1 DEF Running, SchedulerInv, TypeOK
      <4>2. Running = 0
        BY <1>1, <3>2, <4>1 DEF AllocPublish, SchedulerInv, Gate
      <4>3. target[0] # z
        BY <1>1, <2>1, <3>2, <4>2 DEF AllocPublish, SchedulerInv, Filling
      <4> QED
        BY <2>1, <2>3, <3>2, <4>2, <4>3 DEF AllocPublish
    <3>3. CASE AllocStack \/ ProcessFree
      BY <2>1, <2>3, <3>3 DEF AllocStack, ProcessFree
    <3>4. CASE ProcessInit
      BY <1>1, <2>2, <3>4 DEF ProcessInit, InKernelMain, SchedulerInv, KernelProcess
    <3>5. CASE UNCHANGED pstate
      BY <2>1, <3>5
    <3>6. UNCHANGED pstate \/ TimerSchedule \/ KthreadExit \/ AllocPublish
          \/ AllocStack \/ ProcessFree \/ ProcessInit
      BY <2>1 DEF Next, RaiseIrq, TakeInterrupt, Kernel, InterruptReturn,
         TimerHandler, KeyboardHandler, Trampoline, ThreadReturn, Boot, IdtInit,
         KeyboardInit, TimerInit, BadMagic, SchedulerInit, Create, AllocScan,
         BuildFrame, procVars
    <3> QED
      BY <3>1, <3>2, <3>3, <3>4, <3>5, <3>6
  <2> QED
    BY <2>4, <2>5
<1> QED
  BY OnlyBootCreates, InvariantHolds, <1>1, PTL DEF Spec, ZombieStaysDead

-----------------------------------------------------------------------------
(* Round robin lets nobody run twice past a waiting process.  Measured     *)
(* along the circular scan, the process with the CPU comes closer to a     *)
(* waiting process with every switch and never passes it, and those        *)
(* dispatched meanwhile lie behind.                                        *)

\* Going on from n, itself on the way from c to s, leaves the rest of the way.
LEMMA PositionSplit ==
  ASSUME NEW c \in Slots, NEW n \in Slots, NEW s \in Slots,
         n # s, n # c, c # s,
         Position(c, n) <= Position(c, s)
  PROVE  Position(n, s) < Position(c, s)
BY MaxProcessesAssumption DEF Position, Slots

\* Positions are natural numbers.
LEMMA PositionNat ==
  ASSUME NEW s \in Slots, NEW t \in Slots PROVE Position(s, t) \in Nat
BY MaxProcessesAssumption DEF Position, Slots

\* A switch that leaves s waiting brings the CPU nearer to s.
LEMMA DispatchNearer ==
  ASSUME OnlyBootCreates, SchedulerInv, Next, Dispatch,
         NEW s \in Slots, s # current, pstate'[s] = "READY"
  PROVE  /\ current \in Slots /\ current' \in Slots
         /\ Position(current', s) < Position(current, s)
<1>1. /\ current \in Slots /\ current' \in Slots
      /\ pstate'[current'] = "RUNNING"
      /\ \A u \in Slots \ {current} :
           pstate[u] = "READY" => Position(current, current') <= Position(current, u)
      /\ \A u \in Slots \ {current, current'} : pstate'[u] = pstate[u]
  BY OnlyBootCreates, DispatchShape DEF Dispatch
<1>2. s # current' /\ pstate[s] = "READY"
  BY <1>1
<1>3. Position(current, current') <= Position(current, s)
  BY <1>1, <1>2
<1> QED
  BY <1>1, <1>2, <1>3, PositionSplit DEF Dispatch

\* Every step keeps PassedBehind.
LEMMA RRStep ==
  ASSUME OnlyBootCreates, SchedulerInv, PassedBehind, [RRNext]_rrVars
  PROVE  PassedBehind'
<1> USE SlotFacts
<1>1. CASE UNCHANGED rrVars
  BY <1>1 DEF PassedBehind, rrVars, vars, procVars
<1>2. CASE RRNext
  <2>1. TypeOK /\ TypeOK' /\ Next
    BY <1>2, TypeStep DEF RRNext, SchedulerInv
  <2>2. Dispatch => current \in Slots /\ current' \in Slots
    BY <2>1, OnlyBootCreates, DispatchShape DEF Dispatch
  <2>3. \A s \in Slots : passed'[s] = IF pstate'[s] # "READY" THEN {}
                                      ELSE IF Dispatch THEN passed[s] \cup {current'}
                                      ELSE passed[s]
    BY <1>2 DEF RRNext
  <2>4. passed' \in [Slots -> SUBSET Slots]
    <3>1. \A s \in Slots : passed'[s] \in SUBSET Slots
      BY <2>2, <2>3 DEF PassedBehind
    <3> QED
      BY <1>2, <3>1 DEF RRNext
  <2>5. SUFFICES ASSUME NEW s \in Slots, NEW t \in passed'[s]
                 PROVE  current' # NoSlot /\ Position(current', s) <= Position(t, s)
    BY <2>3, <2>4 DEF PassedBehind
  <2>6. pstate'[s] = "READY"
    BY <2>3, <2>5
  <2>7. CASE Dispatch
    <3>1. current' \in Slots /\ (t = current' \/ t \in passed[s])
      BY <2>2, <2>3, <2>5, <2>6, <2>7
    <3>2. CASE t = current'
      <4>1. Position(t, s) \in Nat /\ current' # NoSlot
        BY <3>1, <3>2, PositionNat
      <4>2. Position(current', s) = Position(t, s)
        BY <3>2
      <4> QED
        BY <4>1, <4>2
    <3>3. CASE t \in passed[s]
      <4>1. s # current /\ t \in Slots /\ current \in Slots
            /\ Position(current, s) <= Position(t, s)
        <5>1. current \in Slots
          BY <2>2, <2>7
        <5>2. pstate[s] = "READY" /\ pstate[current] = "RUNNING"
          BY <3>3, <5>1 DEF PassedBehind, SchedulerInv, OneRunning
        <5> QED
          BY <3>3, <5>1, <5>2 DEF PassedBehind
      <4>2. Position(current', s) < Position(current, s)
        BY <2>1, <2>6, <2>7, <4>1, OnlyBootCreates, DispatchNearer
      <4>3. /\ Position(current', s) \in Nat /\ Position(current, s) \in Nat
            /\ Position(t, s) \in Nat
        BY <3>1, <4>1, PositionNat
      <4> QED
        BY <3>1, <4>1, <4>2, <4>3
    <3> QED
      BY <3>1, <3>2, <3>3
  <2>8. CASE ~Dispatch
    <3>1. t \in passed[s]
      BY <2>3, <2>5, <2>6, <2>8
    <3>2. current # NoSlot /\ current' = current
      BY <2>8, <3>1 DEF PassedBehind, Dispatch
    <3> QED
      BY <3>1, <3>2 DEF PassedBehind
  <2> QED
    BY <2>7, <2>8
<1> QED
  BY <1>1, <1>2

\* The history never records anybody on the near side of a waiting process.
THEOREM PassedBehindHolds ==
  ASSUME OnlyBootCreates PROVE RRSpec => [](SchedulerInv /\ PassedBehind)
<1>1. RRInit => SchedulerInv /\ PassedBehind
  BY InvInit DEF RRInit, PassedBehind
<1>2. SchedulerInv /\ PassedBehind /\ [RRNext]_rrVars => (SchedulerInv /\ PassedBehind)'
  <2>1. [RRNext]_rrVars => [Next]_vars
    BY DEF RRNext, rrVars
  <2> QED
    BY <2>1, OnlyBootCreates, InvStep, RRStep
<1> QED
  BY <1>1, <1>2, PTL DEF RRSpec

\* For every number of processes: nobody is given the CPU twice while another
\* process waits for it once.
THEOREM BoundedBypassHolds ==
  ASSUME OnlyBootCreates PROVE RRSpec => BoundedBypass
<1> DEFINE Bypass == \A s \in Slots :
              (Dispatch /\ pstate[s] = "READY" /\ pstate'[s] = "READY")
                => current' \notin passed[s]
<1>1. ASSUME SchedulerInv, PassedBehind, [RRNext]_rrVars PROVE [Bypass]_rrVars
  <2>1. SUFFICES ASSUME RRNext, NEW s \in Slots, Dispatch,
                        pstate[s] = "READY", pstate'[s] = "READY",
                        current' \in passed[s]
                 PROVE  FALSE
    BY <1>1
  <2>2. Next /\ current \in Slots /\ current' \in Slots
    BY <1>1, <2>1, OnlyBootCreates, DispatchShape DEF RRNext, Dispatch
  <2>3. s # current
    BY <1>1, <2>1, <2>2, SlotFacts DEF SchedulerInv, OneRunning
  <2>4. Position(current', s) < Position(current, s)
    BY <1>1, <2>1, <2>2, <2>3, OnlyBootCreates, DispatchNearer
  <2>5. Position(current, s) <= Position(current', s)
    BY <1>1, <2>1 DEF PassedBehind
  <2>6. Position(current', s) \in Nat /\ Position(current, s) \in Nat
    BY <2>2, PositionNat
  <2> QED
    BY <2>4, <2>5, <2>6
<1> QED
  BY OnlyBootCreates, PassedBehindHolds, <1>1, PTL DEF RRSpec, BoundedBypass
=============================================================================
