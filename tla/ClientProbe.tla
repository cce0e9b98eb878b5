---------------------------- MODULE ClientProbe ----------------------------
(***************************************************************************)
(* The client probe (cmd/client-probe/main.go): main starts one goroutine  *)
(* per test, waits for them and judges the report that they have filled    *)
(* under a mutex.  The tests of StabilityProbe, UDPProbe and Download are  *)
(* goroutines here that end at some time and have one result to store; the *)
(* loops over HTTP requests and downloads are modelled step by step.       *)
(***************************************************************************)
EXTENDS Integers, Sequences, FiniteSets

CONSTANTS
  TCPPorts, UDPPorts,   \* the lists of the configuration
  TLSAddress,           \* a TLS address is configured
  DownloadTests,        \* how many downloads are configured
  DownloadRepeat,       \* they are repeated until the duration has passed
  MaxResults            \* bound: HTTP results, and download results, in time

ASSUME ClientConfigAssumption ==
  /\ TCPPorts \in Seq(Nat) /\ UDPPorts \in Seq(Nat)
  /\ TLSAddress \in BOOLEAN /\ DownloadRepeat \in BOOLEAN
  /\ DownloadTests \in Nat
  /\ MaxResults \in Nat \ {0, 1}

VARIABLES
  main,       \* where main is
  started,    \* how many of Groups main has started
  wg,         \* the counter of the sync.WaitGroup
  task,       \* per goroutine, where it is
  rep,        \* per entry of the report, the goroutine that stored it last
  http,       \* the next step of the HTTP loop
  gets,       \* HTTP results in the report
  position,   \* the next download of the round
  downloads,  \* download results in the report
  ctxDone     \* the duration of the test has passed

main_vars     == <<main, started, wg>>
http_vars     == <<http, gets>>
download_vars == <<position, downloads>>
vars == <<main_vars, task, rep, http_vars, download_vars, ctxDone>>

TCPTasks   == {"connect", "stability"} \X DOMAIN TCPPorts
UDPTasks   == {"udp"} \X DOMAIN UDPPorts
SingleTest == {<<"ws", 0>>} \cup IF TLSAddress THEN {<<"tls", 0>>} ELSE {}
HTTP       == <<"http", 0>>
Downloads  == <<"download", 0>>

\* The tests that store one result when they are over.
Probes == TCPTasks \cup UDPTasks \cup SingleTest
Tasks  == Probes \cup {HTTP, Downloads}

\* The entry of the report that a test stores: tests of one port share it.
Entry(t) ==
  CASE t \in TCPTasks -> <<t[1], TCPPorts[t[2]]>>
    [] t \in UDPTasks -> <<t[1], UDPPorts[t[2]]>>
    [] OTHER          -> t
Entries == {Entry(t) : t \in Probes}
None == <<"none", 0>>

FlagsOK == ctxDone \in BOOLEAN

TypeOK ==
  /\ main \in {"starting", "waiting", "assessing", "exited"}
  /\ started \in Nat
  /\ wg \in Nat
  /\ task \in [Tasks -> {"none", "running", "stored", "done"}]
  /\ rep \in [Entries -> Probes \cup {None}]
  /\ http \in {"/ping", "/health", "select"}
  /\ gets \in Nat
  /\ position \in 1 .. DownloadTests + 1
  /\ downloads \in Nat
  /\ FlagsOK

Init ==
  /\ main = "starting" /\ started = 0 /\ wg = 0
  /\ task = [t \in Tasks |-> "none"]
  /\ rep = [e \in Entries |-> None]
  /\ http = "/ping" /\ gets = 0
  /\ position = 1 /\ downloads = 0
  /\ ctxDone = FALSE

-----------------------------------------------------------------------------
\* The goroutines in the order main starts them, with one wg.Add per group.
Groups ==
  [i \in DOMAIN TCPPorts |-> {"connect", "stability"} \X {i}]
    \o [i \in DOMAIN UDPPorts |-> {<<"udp", i>>}]
    \o <<{HTTP}, {<<"ws", 0>>}>>
    \o (IF TLSAddress THEN <<{<<"tls", 0>>}>> ELSE <<>>)
    \o <<{Downloads}>>

\* Faulty StartGroup: one wg.Add(1) for the two goroutines of a TCP port.
StartGroupAddsOne ==
  /\ main = "starting"
  /\ started < Len(Groups)
  /\ started' = started + 1
  /\ wg' = wg + 1
  /\ task' = [t \in Tasks |-> IF t \in Groups[started'] THEN "running" ELSE task[t]]
  /\ UNCHANGED <<main, rep, http_vars, download_vars, ctxDone>>

StartGroup ==
  /\ main = "starting"
  /\ started < Len(Groups)
  /\ started' = started + 1
  /\ wg' = wg + Cardinality(Groups[started'])
  /\ task' = [t \in Tasks |-> IF t \in Groups[started'] THEN "running" ELSE task[t]]
  /\ UNCHANGED <<main, rep, http_vars, download_vars, ctxDone>>

Wait ==
  /\ main = "starting"
  /\ started = Len(Groups)
  /\ main' = "waiting"
  /\ UNCHANGED <<started, wg, task, rep, http_vars, download_vars, ctxDone>>

WaitReturns ==
  /\ main = "waiting"
  /\ wg = 0
  /\ main' = "assessing"
  /\ UNCHANGED <<started, wg, task, rep, http_vars, download_vars, ctxDone>>

\* assess, WriteJSON and Print read the report without the mutex.
Assess ==
  /\ main = "assessing"
  /\ main' = "exited"
  /\ UNCHANGED <<started, wg, task, rep, http_vars, download_vars, ctxDone>>

-----------------------------------------------------------------------------
\* A test is over and its result is stored under the mutex.
Store(t) ==
  /\ t \in Probes
  /\ task[t] = "running"
  /\ rep' = [rep EXCEPT ![Entry(t)] = t]
  /\ task' = [task EXCEPT ![t] = "stored"]
  /\ UNCHANGED <<main_vars, http_vars, download_vars, ctxDone>>

\* Faulty TaskDone: wg.Done is called before the result is stored.
TaskDoneFirst(t) ==
  /\ task[t] \in {"running", "stored"}
  /\ wg' = wg - 1
  /\ task' = [task EXCEPT ![t] = "done"]
  /\ UNCHANGED <<main, started, rep, http_vars, download_vars, ctxDone>>

\* Faulty TaskDone: wg.Done is called once more than it is deferred.
TaskDoneTwice(t) ==
  /\ task[t] = "stored"
  /\ wg' = wg - 2
  /\ task' = [task EXCEPT ![t] = "done"]
  /\ UNCHANGED <<main, started, rep, http_vars, download_vars, ctxDone>>

\* The deferred wg.Done.
TaskDone(t) ==
  /\ task[t] = "stored"
  /\ wg' = wg - 1
  /\ task' = [task EXCEPT ![t] = "done"]
  /\ UNCHANGED <<main, started, rep, http_vars, download_vars, ctxDone>>

\* httpx.Get is over, with an answer or an error: its own timeout or the context
\* ends it, whatever the server does.  Once the context is done it has failed.
HTTPGet ==
  /\ task[HTTP] = "running"
  /\ http # "select"
  /\ gets' = gets + 1
  /\ http' = IF http = "/ping" THEN "/health" ELSE "select"
  /\ UNCHANGED <<main_vars, task, rep, download_vars, ctxDone>>

\* The ticker has ticked; when the context is done as well, select takes either.
HTTPTick ==
  /\ task[HTTP] = "running"
  /\ http = "select"
  /\ gets + 2 <= MaxResults
  /\ http' = "/ping"
  /\ UNCHANGED <<main_vars, task, rep, gets, download_vars, ctxDone>>

\* Faulty HTTPReturn: the select has no case for the context.
HTTPNeverReturns == FALSE

HTTPReturn ==
  /\ task[HTTP] = "running"
  /\ http = "select"
  /\ ctxDone
  /\ task' = [task EXCEPT ![HTTP] = "stored"]
  /\ UNCHANGED <<main_vars, rep, http_vars, download_vars, ctxDone>>

\* A download is over, at once if the context is done, and its result stored.
DownloadRun ==
  /\ task[Downloads] = "running"
  /\ position <= DownloadTests
  /\ position' = position + 1
  /\ downloads' = downloads + 1
  /\ UNCHANGED <<main_vars, task, rep, http_vars, ctxDone>>

DownloadReturn ==
  /\ task[Downloads] = "running"
  /\ position > DownloadTests
  /\ ~DownloadRepeat \/ ctxDone
  /\ task' = [task EXCEPT ![Downloads] = "stored"]
  /\ UNCHANGED <<main_vars, rep, http_vars, download_vars, ctxDone>>

DownloadAgain ==
  /\ task[Downloads] = "running"
  /\ position > DownloadTests
  /\ DownloadRepeat /\ ~ctxDone
  /\ downloads + DownloadTests <= MaxResults
  /\ position' = 1
  /\ UNCHANGED <<main_vars, task, rep, http_vars, downloads, ctxDone>>

Expire ==
  /\ ~ctxDone
  /\ ctxDone' = TRUE
  /\ UNCHANGED <<main_vars, task, rep, http_vars, download_vars>>

-----------------------------------------------------------------------------
MainNext     == StartGroup \/ Wait \/ WaitReturns \/ Assess
HTTPNext     == HTTPGet \/ HTTPTick \/ HTTPReturn
DownloadNext == DownloadRun \/ DownloadReturn \/ DownloadAgain
Exited       == main = "exited" /\ UNCHANGED vars

Next ==
  \/ MainNext \/ HTTPNext \/ DownloadNext \/ Expire \/ Exited
  \/ \E t \in Tasks : Store(t) \/ TaskDone(t)

\* The goroutines are scheduled, and every test ends after the duration has
\* passed: see ReturnsAfterDuration and EndsWithDuration of the tests.  A select
\* that finds the context done over and over takes it in the end.
Fairness ==
  /\ WF_vars(MainNext)
  /\ WF_vars(HTTPGet) /\ SF_vars(HTTPReturn)
  /\ WF_vars(ctxDone /\ DownloadNext)
  /\ \A t \in Probes : WF_vars(ctxDone /\ Store(t))
  /\ \A t \in Tasks : WF_vars(TaskDone(t))

Spec == Init /\ [][Next]_vars
FairSpec == Spec /\ Fairness
=============================================================================
