--------------------------- MODULE ServerContext ---------------------------
(***************************************************************************)
(* What main hands to every listener it starts: the context that SIGINT    *)
(* and SIGTERM cancel, the WaitGroup main waits on, the statistics, and    *)
(* the kernel's table of listening TCP sockets (one port, one listener).   *)
(***************************************************************************)
EXTENDS ServerStats

VARIABLES
  ctxDone,   \* the signal context is cancelled
  wg,        \* the counter of the sync.WaitGroup
  bound      \* ports on which this process has a listening TCP socket

contextVars == <<ctxDone, wg, bound, stats>>

\* sync.WaitGroup panics when its counter becomes negative: wg \in Nat says
\* that it never does.
ContextTypeOK ==
  /\ ctxDone \in BOOLEAN
  /\ wg \in Nat
  /\ bound \subseteq Port
  /\ StatsTypeOK

ContextInit ==
  /\ ctxDone = FALSE
  /\ wg = 0
  /\ bound = {}
  /\ NewServerStats

WgAdd(n) == wg' = wg + n
WgDone   == wg' = wg - 1

\* Faulty BindTCP: two listeners share a port (SO_REUSEPORT).
BindShared(p) == bound' = bound \cup {p}

\* listen(2) fails with "address already in use" on a port this process
\* already listens on.
BindTCP(p) ==
  /\ p \notin bound
  /\ bound' = bound \cup {p}

\* signal.NotifyContext: the first signal cancels the context; later ones are
\* swallowed because the handler stays registered until main returns.
Signal ==
  /\ ~ctxDone
  /\ ctxDone' = TRUE
=============================================================================
