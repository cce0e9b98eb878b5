----------------------------- MODULE TaskGroup -----------------------------
(***************************************************************************)
(* What a process built around one sync.WaitGroup promises, without its    *)
(* counter: main starts tasks, tasks start tasks, and main returns     *)
(* from its wait only when no task is left; from then on none can start.   *)
(* main may also abort while it is still starting tasks, which ends them.  *)
(***************************************************************************)
CONSTANT Task

VARIABLES
  phase,  \* where main is
  live    \* the tasks that run

taskVars == <<phase, live>>

Init ==
  /\ phase = "starting"
  /\ live = {}

MainSpawns ==
  /\ phase = "starting"
  /\ live' \in SUBSET Task
  /\ live \subseteq live'
  /\ UNCHANGED phase

TaskSpawns(t) ==
  /\ phase \in {"starting", "waiting"}
  /\ live # {}
  /\ t \notin live
  /\ live' = live \cup {t}
  /\ UNCHANGED phase

Finish(t) ==
  /\ phase \in {"starting", "waiting"}
  /\ t \in live
  /\ live' = live \ {t}
  /\ UNCHANGED phase

Wait ==
  /\ phase = "starting"
  /\ phase' = "waiting"
  /\ UNCHANGED live

Return ==
  /\ phase = "waiting"
  /\ live = {}
  /\ phase' = "returned"
  /\ UNCHANGED live

Abort ==
  /\ phase = "starting"
  /\ phase' = "aborted"
  /\ live' = {}

Next ==
  \/ MainSpawns \/ Wait \/ Return \/ Abort
  \/ \E t \in Task : TaskSpawns(t) \/ Finish(t)

Spec == Init /\ [][Next]_taskVars
=============================================================================
