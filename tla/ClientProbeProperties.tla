----------------------- MODULE ClientProbeProperties -----------------------
(***************************************************************************)
(* What the client probe guarantees of the report that it judges.          *)
(***************************************************************************)
EXTENDS ClientProbe

\* The report is complete when assess reads it, without the mutex: every
\* configured port has both its TCP results or its UDP result, the single tests
\* have theirs, both HTTP paths were asked at least once and the download loop
\* has been through all its tests (client-probe/main.go:187-188).
ReportComplete ==
  main \in {"assessing", "exited"} =>
    /\ \A e \in Entries : rep[e] # None /\ Entry(rep[e]) = e
    /\ gets >= 2 /\ gets % 2 = 0
    /\ downloads >= DownloadTests

\* The probe implements the abstract task group: main judges the report when no
\* goroutine is left (client-probe/main.go:95-187).
TG == INSTANCE TaskGroup WITH
        Task <- Tasks,
        phase <- CASE main = "starting" -> "starting"
                   [] main = "waiting"  -> "waiting"
                   [] OTHER             -> "returned",
        live <- {t \in Tasks : task[t] \in {"running", "stored"}}

\* Refinement: see TG.
ImplementsTaskGroup == TG!Spec

\* The probe ends: once the duration has passed it writes its report.
EndsAfterDuration == ctxDone ~> main = "exited"
============================================================================
