--------------------------- MODULE DaemonLifecycle ---------------------------
(***************************************************************************)
(* main() and IpcServer::run: how a daemon process starts its collectors,  *)
(* takes over the socket path, serves, and shuts down on a signal.  The    *)
(* service manager starts its process again whenever it has ended; others  *)
(* may be started by hand against the same path at any time.               *)
(*                                                                         *)
(* The path holds a socket file of a live daemon, one a dead daemon left   *)
(* behind, or nothing.  What a request gets is in TuiSession, what a       *)
(* collector pass does in CollectorPass.                                   *)
(***************************************************************************)
EXTENDS DaemonState

vars == <<main, collector, cancelled, path, evicted, faults, signals, kills>>

Init ==
  /\ main = [d \in Daemons |-> "off"]
  /\ collector = [d \in Daemons |-> "off"]
  /\ cancelled = {}
  /\ path = NoSocket /\ evicted = {}
  /\ faults = 0 /\ signals = 0 /\ kills = 0

Goto(d, label) == main' = [main EXCEPT ![d] = label]
Fault == faults < MaxFaults /\ faults' = faults + 1

\* The socket at the path is removed under a daemon that serves, or is about to.
Evicts(d) == {e \in Daemons \ {d} : path = e /\ main[e] \in {"chmod", "serve"}}

-----------------------------------------------------------------------------
(* Starting up *)

\* Storage is open and the collectors are spawned before the server runs.
Start(d) ==
  /\ main[d] = "off"
  /\ Goto(d, "unlink")
  /\ collector' = [collector EXCEPT ![d] = "poll"]
  /\ UNCHANGED <<cancelled, path, evicted, faults, signals, kills>>

\* Mutant: a file at the path is left alone.
UnlinkNever(d) ==
  /\ main[d] = "unlink"
  /\ Goto(d, "bind")
  /\ UNCHANGED <<collector, cancelled, path, evicted, faults, signals, kills>>

\* Whatever file is there counts as stale.
Unlink(d) ==
  /\ main[d] = "unlink"
  /\ path' = NoSocket /\ evicted' = evicted \cup Evicts(d)
  /\ Goto(d, "bind")
  /\ UNCHANGED <<collector, cancelled, faults, signals, kills>>

\* The error of remove_file is dropped.
UnlinkFails(d) ==
  /\ main[d] = "unlink" /\ path # NoSocket
  /\ Fault
  /\ Goto(d, "bind")
  /\ UNCHANGED <<collector, cancelled, path, evicted, signals, kills>>

Bind(d) ==
  /\ main[d] = "bind" /\ path = NoSocket
  /\ path' = d
  /\ Goto(d, "chmod")
  /\ UNCHANGED <<collector, cancelled, evicted, faults, signals, kills>>

\* Mutant: the server loop starts whether or not the socket is bound.
BindFailsIgnored(d) ==
  /\ main[d] = "bind"
  /\ \/ path # NoSocket /\ UNCHANGED faults
     \/ path = NoSocket /\ Fault
  /\ Goto(d, "serve")
  /\ UNCHANGED <<collector, cancelled, path, evicted, signals, kills>>

\* The path is taken, or its directory does not allow it: run() returns the error,
\* main logs it and waits for the collectors.
BindFails(d) ==
  /\ main[d] = "bind"
  /\ \/ path # NoSocket /\ UNCHANGED faults
     \/ path = NoSocket /\ Fault
  /\ Goto(d, "join")
  /\ UNCHANGED <<collector, cancelled, path, evicted, signals, kills>>

\* chmod goes by the path: it fails if another daemon has removed the file.
SetMode(d) ==
  /\ main[d] = "chmod"
  /\ Goto(d, IF path = NoSocket THEN "join" ELSE "serve")
  /\ UNCHANGED <<collector, cancelled, path, evicted, faults, signals, kills>>

-----------------------------------------------------------------------------
(* run_loop: select between the cancellation and the next tick *)

Tick(d) ==
  /\ collector[d] = "poll"
  /\ collector' = [collector EXCEPT ![d] = "pass"]
  /\ UNCHANGED <<main, cancelled, path, evicted, faults, signals, kills>>

EndPass(d) ==
  /\ collector[d] = "pass"
  /\ collector' = [collector EXCEPT ![d] = "poll"]
  /\ UNCHANGED <<main, cancelled, path, evicted, faults, signals, kills>>

\* Mutant: the collectors stop only if the server never started.
StopCollectorNever(d) ==
  /\ collector[d] = "poll" /\ d \in cancelled /\ main[d] = "unlink"
  /\ collector' = [collector EXCEPT ![d] = "off"]
  /\ UNCHANGED <<main, cancelled, path, evicted, faults, signals, kills>>

StopCollector(d) ==
  /\ collector[d] = "poll" /\ d \in cancelled
  /\ collector' = [collector EXCEPT ![d] = "off"]
  /\ UNCHANGED <<main, cancelled, path, evicted, faults, signals, kills>>

-----------------------------------------------------------------------------
(* Shutting down *)

Signal(d) ==
  /\ main[d] # "off" /\ d \notin cancelled
  /\ signals < MaxSignals /\ signals' = signals + 1
  /\ cancelled' = cancelled \cup {d}
  /\ UNCHANGED <<main, collector, path, evicted, faults, kills>>

StopServing(d) ==
  /\ main[d] = "serve" /\ d \in cancelled
  /\ Goto(d, "join")
  /\ UNCHANGED <<collector, cancelled, path, evicted, faults, signals, kills>>

\* Mutant: the collector task is not awaited.
JoinNotAwaited(d) ==
  /\ main[d] = "join"
  /\ Goto(d, "cleanup")
  /\ UNCHANGED <<collector, cancelled, path, evicted, faults, signals, kills>>

Join(d) ==
  /\ main[d] = "join" /\ collector[d] = "off"
  /\ Goto(d, "cleanup")
  /\ UNCHANGED <<collector, cancelled, path, evicted, faults, signals, kills>>

\* The file at the path is removed, whoever bound it, and the process ends.
Cleanup(d) ==
  /\ main[d] = "cleanup"
  /\ path' = NoSocket /\ evicted' = (evicted \cup Evicts(d)) \ {d}
  /\ Goto(d, "off")
  /\ cancelled' = cancelled \ {d}
  /\ UNCHANGED <<collector, faults, signals, kills>>

Kill(d) ==
  /\ main[d] # "off"
  /\ kills < MaxKills /\ kills' = kills + 1
  /\ Goto(d, "off")
  /\ collector' = [collector EXCEPT ![d] = "off"]
  /\ cancelled' = cancelled \ {d}
  /\ path' = IF path = d THEN Stale ELSE path
  /\ evicted' = evicted \ {d}
  /\ UNCHANGED <<faults, signals>>

-----------------------------------------------------------------------------
Main(d) ==
  \/ Unlink(d) \/ Bind(d) \/ SetMode(d)
  \/ BindFails(d)
  \/ StopServing(d) \/ Join(d) \/ Cleanup(d)

Collect(d) == Tick(d) \/ EndPass(d)

Next == \E d \in Daemons :
  \/ Start(d) \/ Main(d) \/ UnlinkFails(d)
  \/ Collect(d) \/ StopCollector(d)
  \/ Signal(d) \/ Kill(d)

Spec == Init /\ [][Next]_vars

\* KeepAlive starts the launch agent whenever it has ended; tasks of a live process run on.
\* Of two ready branches select takes one at random, so a triggered cancellation is not
\* passed over for ever.
FairSpec ==
  /\ Spec
  /\ WF_vars(Start(LaunchAgent))
  /\ \A d \in Daemons : WF_vars(Main(d)) /\ WF_vars(Collect(d)) /\ SF_vars(StopCollector(d))

-----------------------------------------------------------------------------
(* Properties *)

\* A signal ends the process, whatever its collectors and its server were doing.
ShutdownTerminates == \A d \in Daemons : (d \in cancelled) ~> (main[d] = "off")

\* "Keep the daemon running": after crashes, kills and shutdowns a daemon serves again, and
\* its socket is found at the path.
KeptServing == []<>(\E d \in Daemons : main[d] = "serve" /\ path = d)

\* Another daemon's socket has appeared since this one cleaned the path.
BindRace == \E d \in Daemons : main[d] = "bind" /\ path \in Daemons

\* The same as long as no unlink and no bind goes wrong, none removes the socket of one
\* that serves, and no two clean the path before either binds: stale socket files, kills,
\* shutdowns and daemons started by hand never keep a daemon from serving.
ServesAgain == [](faults = 0 /\ evicted = {} /\ ~BindRace) => KeptServing
=============================================================================
