---------------------------- MODULE DaemonState ----------------------------
(***************************************************************************)
(* The processes that may run claude-daemon, the socket path they share,   *)
(* and what must hold of them in every state.  What they do is in          *)
(* DaemonLifecycle.                                                        *)
(***************************************************************************)
EXTENDS Integers

CONSTANTS
  Daemons,      \* processes that may run claude-daemon
  NoSocket,     \* nothing at the path
  Stale,        \* a socket file nobody listens on
  LaunchAgent,  \* the one that launchd keeps alive; others are started by hand
  MaxFaults,    \* bound: unlink and bind errors
  MaxSignals,   \* bound: SIGINT and SIGTERM
  MaxKills      \* bound: SIGKILLs and crashes

ASSUME PathAssumption  == NoSocket # Stale /\ {NoSocket, Stale} \cap Daemons = {}
ASSUME BoundAssumption ==
  LaunchAgent \in Daemons /\ MaxFaults \in Nat /\ MaxSignals \in Nat /\ MaxKills \in Nat

VARIABLES
  main,         \* where main() and the IpcServer::run it awaits are
  collector,    \* the run_loop task: "off", "poll" (in its select), "pass"
  cancelled,    \* processes whose CancellationToken is triggered
  path,         \* what is at the socket path
  evicted,      \* history: serving daemons whose socket another process removed
  faults, signals, kills

\* Control points are the code's, and a process that has ended runs no collector.
TypeOK ==
  /\ main \in [Daemons -> {"off", "unlink", "bind", "chmod", "serve", "join", "cleanup"}]
  /\ collector \in [Daemons -> {"off", "poll", "pass"}]
  /\ cancelled \subseteq Daemons
  /\ path \in Daemons \cup {NoSocket, Stale} /\ evicted \subseteq Daemons
  /\ faults \in Nat /\ signals \in Nat /\ kills \in Nat
  /\ \A d \in Daemons : main[d] = "off" => collector[d] = "off" /\ d \notin cancelled

\* Whoever serves can be reached, however many daemons are started, fail, are killed and
\* end beside each other, with one exception: "Clean up stale socket file" at a start and
\* "Clean up socket file" at an end remove the file of whoever bound it, and then that
\* daemon serves on where nobody finds it.  Nothing else takes a daemon's socket from it,
\* and none serves that has not bound one.
ServingIsReachable == \A d \in Daemons : main[d] = "serve" => path = d \/ d \in evicted
=============================================================================
