------------------------------- MODULE LineLog -------------------------------
(***************************************************************************)
(* What tailing a log file promises: the file is a growing sequence of     *)
(* finished lines, and the lines taken from it are always the first so     *)
(* many of them, until the file is replaced and it starts over.  A line is *)
(* named by where it lies, a pair of positions that grow along the file.   *)
(***************************************************************************)
EXTENDS Naturals

VARIABLES
  finished,      \* the lines an agent has finished
  taken          \* those that have been stored

logVars == <<finished, taken>>

Init == finished = {} /\ taken = {}

\* The agent ends one line, after all the others.
Finish ==
  /\ \E l \in finished' \ finished :
       /\ finished' = finished \cup {l}
       /\ \A m \in finished : m[2] < l[1]
  /\ UNCHANGED taken

UpTo(l) == {m \in finished : m[2] <= l[2]}

\* A pass takes the lines up to one of the finished ones, those taken before included.
Take ==
  /\ \E l \in finished \ taken : taken' = UpTo(l)
  /\ taken \subseteq taken'
  /\ UNCHANGED finished

\* The file is replaced: its lines, and what was taken of them, belong to the past.
Replace == finished' = {} /\ taken' = {}

Next == Finish \/ Take \/ Replace

Spec == Init /\ [][Next]_logVars

\* Lines are taken as long as there are any.
FairSpec == Spec /\ WF_logVars(Take)
=============================================================================
