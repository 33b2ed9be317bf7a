----------------------------- MODULE RoundRobin -----------------------------
(***************************************************************************)
(* The scheduler with a history variable that records, for every process   *)
(* waiting in state READY, which other slots got the CPU since it began to *)
(* wait.  scheduler.c claims that "each gets 1/N of the CPU time": nobody  *)
(* gets a second turn while somebody else waits for the first.             *)
(***************************************************************************)
EXTENDS Scheduler

VARIABLE passed     \* the slots dispatched while each READY slot waits

rrVars == <<vars, passed>>

\* The CPU changes hands in this step.
Dispatch == current # NoSlot /\ current' # current

RRInit == Init /\ passed = [s \in Slots |-> {}]

RRNext ==
  /\ Next
  /\ passed' = [s \in Slots |->
                 IF pstate'[s] # "READY" THEN {}
                 ELSE IF Dispatch THEN passed[s] \cup {current'}
                 ELSE passed[s]]

RRSpec == RRInit /\ [][RRNext]_rrVars

RRFairSpec == RRSpec /\ Fairness

\* The inductive part: whoever got the CPU while s waits lies, seen along the
\* scan, no nearer before s than the process that has the CPU now.
PassedBehind ==
  /\ passed \in [Slots -> SUBSET Slots]
  /\ \A s \in Slots :
       /\ pstate[s] # "READY" => passed[s] = {}
       /\ \A t \in passed[s] :
            current # NoSlot /\ Position(current, s) <= Position(t, s)

\* While a process waits, no other process is given the CPU twice: the scan of
\* schedule() starts after the process that had the CPU last.
BoundedBypass ==
  [][\A s \in Slots :
       (Dispatch /\ pstate[s] = "READY" /\ pstate'[s] = "READY")
         => current' \notin passed[s]]_rrVars
=============================================================================
