--------------------------- MODULE MCCollectorPass ---------------------------
(***************************************************************************)
(* The instance of CollectorPass for TLC: a collector that walks two files *)
(* with quota observations, as Codex's does, and so persists two offsets   *)
(* in a pass, and one that walks a third with quota hits, as Claude's.     *)
(***************************************************************************)
EXTENDS CollectorPass, TLC

CONSTANTS f1, f2, f3, u1, q1, h1

MCFiles    == {f1, f2, f3}
MCOwner    == f1 :> 1 @@ f2 :> 1 @@ f3 :> 2
MCCarries  == f1 :> {u1, q1} @@ f2 :> {u1, q1, Noise} @@ f3 :> {u1, h1}
MCMaxLines == f1 :> 2 @@ f2 :> 1 @@ f3 :> 1
=============================================================================
