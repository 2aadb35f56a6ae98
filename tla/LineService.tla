----------------------------- MODULE LineService -----------------------------
(***************************************************************************)
(* What the daemon's socket promises its clients: the lines of a           *)
(* connection are taken one after the other, each has its effect on the    *)
(* budget at one moment and then gets one answer, which carries its id, or *)
(* 0 if no request can be read from it.  Nothing is said of sizes, locks,  *)
(* errors of the database or the steps a request takes.                    *)
(***************************************************************************)
EXTENDS Naturals, Sequences

CONSTANTS
  Clients,
  Lines,          \* what clients write
  Answers,        \* records with an id, a code and the budget they tell
  Configs,        \* budgets that can be set
  Initial,        \* the budget of a new database
  Readable(_),    \* a request can be read from the line
  Nothing         \* no answer

VARIABLES asked, doing, answers, budget, over

vars == <<asked, doing, answers, budget, over>>

Init ==
  /\ asked = [c \in Clients |-> <<>>]
  /\ doing = [c \in Clients |-> Nothing]
  /\ answers = [c \in Clients |-> <<>>]
  /\ budget = Initial
  /\ over = {}

\* A client writes a line.
Ask(c) ==
  /\ \E line \in Lines : asked' = [asked EXCEPT ![c] = Append(@, line)]
  /\ UNCHANGED <<doing, answers, budget, over>>

\* Answer a is right for the n-th line of a connection, and the budget becomes what
\* that answer says.
Effect(line, n, a) ==
  LET isSet == a.code = "ok" /\ line.method = "budget.set" IN
  /\ a.id = IF Readable(line) THEN n ELSE 0
  /\ a.code = "ok" => Readable(line)
  /\ isSet => line.config \in Configs
  /\ a.code = "ok" /\ line.method = "budget.get" => a.tells = budget
  /\ a.code = "ok" /\ line.method = "status" => a.tells \in {budget, Initial}
  /\ budget' = IF isSet THEN line.config ELSE budget

\* The next line takes effect.
Do(c) ==
  LET n == Len(answers[c]) + 1
      a == doing'[c] IN
  /\ c \notin over /\ doing[c] = Nothing /\ n <= Len(asked[c])
  /\ a \in Answers /\ doing' = [doing EXCEPT ![c] = a]
  /\ Effect(asked[c][n], n, a)
  /\ UNCHANGED <<asked, answers, over>>

\* It is answered, and the connection may end with that.
Reply(c) ==
  /\ doing[c] # Nothing
  /\ answers' = [answers EXCEPT ![c] = Append(@, doing[c])]
  /\ doing' = [doing EXCEPT ![c] = Nothing]
  /\ over' \in {over, over \cup {c}}
  /\ UNCHANGED <<asked, budget>>

\* Connections end; what was done but not answered stays done.
End(ending) ==
  /\ over' = over \cup ending
  /\ doing' = [c \in Clients |-> IF c \in ending THEN Nothing ELSE doing[c]]
  /\ UNCHANGED <<asked, answers, budget>>

Next ==
  \/ \E c \in Clients : Ask(c) \/ Do(c) \/ Reply(c)
  \/ \E ending \in SUBSET Clients : End(ending)

Spec == Init /\ [][Next]_vars
=============================================================================
