----------------------------- MODULE MCIpcService -----------------------------
(***************************************************************************)
(* Instance of IpcService for TLC: two connections, whose lines take every *)
(* path a line can take.  The first may write ahead, the second competes   *)
(* for the budget and for the mutexes.                                     *)
(***************************************************************************)
EXTENDS IpcService, TLC

CONSTANTS c1, c2

LineOf(size, utf8, method, good, daily) ==
  [size |-> size, utf8 |-> utf8, method |-> method, good |-> good,
   config |-> [daily |-> daily, alert |-> 80]]

Sends(method) == LineOf(2, TRUE, method, TRUE, NoLimit)
Sets(daily)   == LineOf(2, TRUE, "budget.set", TRUE, daily)

Garbage  == LineOf(2, FALSE, "garbage", TRUE, NoLimit)
TooMuch  == LineOf(4, TRUE, "budget.get", TRUE, NoLimit)
NoBudget == LineOf(2, TRUE, "budget.set", FALSE, NoLimit)

MCScript ==
  c1 :> <<{TooMuch, Garbage, Sets(5)}, {Sends("budget.get"), Sends("status")}>>
  @@ c2 :> <<{Sets(0), Sets(-1), NoBudget, Sends("sessions.get"), Sends("status")}>>
=============================================================================
