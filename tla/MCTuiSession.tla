---------------------------- MODULE MCTuiSession ----------------------------
(***************************************************************************)
(* Instances of TuiSession for TLC: what the daemon may answer.            *)
(***************************************************************************)
EXTENDS TuiSession

\* Every storage read may fail, and the unbounded usage.summary outgrows the cap.
Failing == [m \in Method |-> IF m = "status" THEN {"ok"}
                             ELSE IF m = "usage.summary" THEN {"ok", "error", "big"}
                             ELSE {"ok", "error"}]
=============================================================================
