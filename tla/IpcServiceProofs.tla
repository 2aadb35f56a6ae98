--------------------------- MODULE IpcServiceProofs ---------------------------
(***************************************************************************)
(* A connection of IpcService is one of LineService, for all scripts of    *)
(* the clients: each line is answered in its turn, once and under its id,  *)
(* and the budget is one register.                                         *)
(***************************************************************************)
EXTENDS IpcService, TLAPS

Places == {"read", "queue", "reader", "status", "send", "reject", "done"}

\* What can lie unread: lines, and what is left of one that was too long.
Piece == Line \cup {Rest(line) : line \in Line}

TypeInv ==
  /\ pc \in [Clients -> Places]
  /\ sent \in [Clients -> Seq(Line)]
  /\ unread \in [Clients -> Seq(Piece)]
  /\ cur \in [Clients -> [id : Nat, line : Line] \cup {Nothing}]
  /\ resp \in [Clients -> Response \cup {Nothing}]
  /\ answers \in [Clients -> Seq(Response)]
  /\ budget \in Config

\* rest is what follows the first n of lines.
Follows(rest, lines, n) ==
  /\ Len(lines) = n + Len(rest)
  /\ \A i \in 1..Len(rest) : rest[i] = lines[n + i]

\* The line whose turn it is.
Turn(c) == Len(answers[c]) + 1

\* A handler that reads is past the lines it has answered; one that is at a line has not
\* answered that one yet.
ReadsInTurn(c) ==
  /\ pc[c] = "read" => Follows(unread[c], sent[c], Len(answers[c]))
  /\ pc[c] \in {"queue", "reader", "status", "send"} => Follows(unread[c], sent[c], Turn(c))

\* The request at hand is the line whose turn it is.
WorksInTurn(c) ==
  pc[c] \in {"queue", "reader", "status"} =>
    /\ cur[c].id = Turn(c) /\ Turn(c) \in 1..Len(sent[c])
    /\ cur[c].line = sent[c][Turn(c)]
    /\ Readable(cur[c].line)
    /\ pc[c] # "queue" => cur[c].line.method = "status"

\* There is a response from its effect to its sending.
Responds(c) ==
  /\ pc[c] \in {"read", "queue", "reader", "done"} => resp[c] = Nothing
  /\ pc[c] \in {"send", "reject"} => resp[c] # Nothing

InTurn == \A c \in Clients : ReadsInTurn(c) /\ WorksInTurn(c) /\ Responds(c)

IInv == TypeInv /\ InTurn

Assumed == ScriptAssumption /\ NothingAssumption

-----------------------------------------------------------------------------
(* Facts about lines and steps *)

LEMMA AnswerIsResponse ==
  ASSUME NEW id \in Nat, NEW code \in Codes, NEW tells \in Config \cup {Nothing}, Assumed
  PROVE  /\ Answer(id, code, tells) \in Response
         /\ Answer(id, code, tells) # Nothing
         /\ Answer(id, code, tells).id = id
         /\ Answer(id, code, tells).code = code
         /\ Answer(id, code, tells).tells = tells
BY DEF Answer, Response, Assumed, NothingAssumption

LEMMA Configs ==
  ASSUME Assumed
  PROVE  Default \in Config
BY DEF Default, Config

LEMMA LinesAreLines ==
  ASSUME Assumed, NEW c \in Clients, NEW n \in 1..Len(Script[c]), NEW line \in Script[c][n]
  PROVE  line \in Lines /\ line \in Line
<1>1. Script[c] \in Seq(SUBSET Line)
  BY DEF Assumed, ScriptAssumption
<1>2. Script[c][n] \in Range(Script[c]) /\ Script[c][n] \in SUBSET Line
  BY <1>1 DEF Range
<1> QED BY <1>2 DEF Lines

\* What follows stays so when lines are added at the end and taken off at the front.
LEMMA AppendFollows ==
  ASSUME NEW S, NEW T, NEW rest \in Seq(S), NEW lines \in Seq(T), NEW n \in Nat,
         NEW line \in S, line \in T, Follows(rest, lines, n)
  PROVE  Follows(Append(rest, line), Append(lines, line), n)
<1>1. Len(Append(lines, line)) = n + Len(Append(rest, line))
  BY DEF Follows
<1>2. ASSUME NEW i \in 1..Len(Append(rest, line))
      PROVE  Append(rest, line)[i] = Append(lines, line)[n + i]
  <2>1. CASE i = Len(rest) + 1
    BY <2>1 DEF Follows
  <2>2. CASE i \in 1..Len(rest)
    BY <2>2 DEF Follows
  <2>3. Len(Append(rest, line)) = Len(rest) + 1
    OBVIOUS
  <2>4. PICK k \in Nat : k = Len(rest)
    OBVIOUS
  <2>5. i \in 1..(k + 1)
    BY <2>3, <2>4
  <2>6. i = k + 1 \/ i \in 1..k
    BY <2>5
  <2> QED BY <2>1, <2>2, <2>4, <2>6
<1> QED BY <1>1, <1>2 DEF Follows

LEMMA HeadFollows ==
  ASSUME NEW S, NEW T, NEW rest \in Seq(S), NEW lines \in Seq(T), NEW n \in Nat,
         rest # <<>>, Follows(rest, lines, n)
  PROVE  /\ n + 1 \in 1..Len(lines)
         /\ Len(lines) - Len(rest) + 1 = n + 1
         /\ Head(rest) = lines[n + 1] /\ Head(rest) \in T
         /\ Tail(rest) \in Seq(S)
         /\ Follows(Tail(rest), lines, n + 1)
<1>1. Len(rest) \in Nat /\ Len(rest) >= 1 /\ Len(lines) = n + Len(rest)
  BY DEF Follows
<1>2. Head(rest) = rest[1] /\ rest[1] = lines[n + 1]
  BY <1>1 DEF Follows
<1>3. Len(Tail(rest)) = Len(rest) - 1 /\ Tail(rest) \in Seq(S)
  OBVIOUS
<1>4. ASSUME NEW i \in 1..Len(Tail(rest))
      PROVE  Tail(rest)[i] = lines[(n + 1) + i]
  <2>1. Tail(rest)[i] = rest[i + 1] /\ i + 1 \in 1..Len(rest)
    BY <1>3
  <2>2. n + (i + 1) = (n + 1) + i
    BY <1>4
  <2> QED BY <2>1, <2>2 DEF Follows
<1>5. n + 1 \in 1..Len(lines)
  BY <1>1
<1>6. lines[n + 1] \in T
  BY <1>5
<1>7. Follows(Tail(rest), lines, n + 1)
  <2>1. PICK k \in Nat : k = Len(rest) /\ Len(lines) = n + k
    BY <1>1
  <2>2. Len(lines) = (n + 1) + Len(Tail(rest))
    BY <1>3, <2>1
  <2> QED BY <1>4, <2>2 DEF Follows
<1>8. Len(lines) - Len(rest) + 1 = n + 1
  BY <1>1
<1> QED BY <1>2, <1>3, <1>5, <1>6, <1>7, <1>8

LEMMA TurnIsNat ==
  ASSUME TypeInv, NEW c \in Clients
  PROVE  Len(answers[c]) \in Nat /\ Turn(c) \in Nat
<1>1. Len(answers[c]) \in Nat
  BY DEF TypeInv
<1>2. PICK n \in Nat : n = Len(answers[c])
  BY <1>1
<1> QED BY <1>2 DEF Turn

Over == {c \in Clients : pc[c] = "done"}

\* A line whose answer becomes known is a step of the service.
LEMMA DoStep ==
  ASSUME IInv, NEW c \in Clients, NEW a \in Response,
         pc[c] # "done", resp[c] = Nothing, Turn(c) \in 1..Len(sent[c]),
         resp' = [resp EXCEPT ![c] = a],
         Service!Effect(sent[c][Turn(c)], Turn(c), a),
         UNCHANGED <<sent, answers>>, Over' = Over
  PROVE  Service!Do(c)
<1>1. resp'[c] = a
  BY DEF IInv, TypeInv
<1>2. Turn(c) <= Len(sent[c])
  OBVIOUS
<1> QED BY <1>1, <1>2 DEF Service!Do, Over, Turn

\* A handler that goes from one place to another without ending ends no connection.
LEMMA NoEnd ==
  ASSUME TypeInv, NEW c \in Clients, NEW place \in Places \ {"done"}, pc[c] # "done",
         pc' = [pc EXCEPT ![c] = place]
  PROVE  Over' = Over /\ pc'[c] = place /\ pc' \in [Clients -> Places]
BY DEF TypeInv, Over

\* A step of one connection leaves the others as they are.
Same(d) ==
  /\ pc'[d] = pc[d] /\ sent'[d] = sent[d] /\ unread'[d] = unread[d]
  /\ cur'[d] = cur[d] /\ resp'[d] = resp[d] /\ answers'[d] = answers[d]

LEMMA OnlyOne ==
  ASSUME IInv, NEW c \in Clients, \A d \in Clients \ {c} : Same(d),
         ReadsInTurn(c)', WorksInTurn(c)', Responds(c)'
  PROVE  InTurn'
<1> SUFFICES ASSUME NEW d \in Clients PROVE (ReadsInTurn(d) /\ WorksInTurn(d) /\ Responds(d))'
  BY DEF InTurn
<1>1. CASE d = c
  BY <1>1
<1>2. CASE d # c
  <2>1. Same(d)
    BY <1>2
  <2>2. ReadsInTurn(d) /\ WorksInTurn(d) /\ Responds(d)
    BY DEF IInv, InTurn
  <2>3. ReadsInTurn(d)'
    BY <2>1, <2>2 DEF Same, ReadsInTurn, Turn
  <2>4. WorksInTurn(d)'
    BY <2>1, <2>2 DEF Same, WorksInTurn, Turn
  <2>5. Responds(d)'
    BY <2>1, <2>2 DEF Same, Responds
  <2> QED BY <2>3, <2>4, <2>5
<1> QED BY <1>1, <1>2

-----------------------------------------------------------------------------
(* Clients *)

LEMMA WriteLineStep ==
  ASSUME IInv, Assumed, NEW c \in Clients, WriteLine(c)
  PROVE  IInv' /\ Service!Ask(c)
<1>1. PICK line \in Script[c][Len(sent[c]) + 1] :
        /\ sent' = [sent EXCEPT ![c] = Append(@, line)]
        /\ unread' = [unread EXCEPT ![c] = Append(@, line)]
  BY DEF WriteLine
<1>2. UNCHANGED <<pc, cur, resp, answers, budget>>
  BY DEF WriteLine
<1>3. line \in Lines /\ line \in Line /\ line \in Piece
  <2>1. Len(sent[c]) + 1 \in 1..Len(Script[c])
    <3>1. sent[c] \in Seq(Line) /\ Script[c] \in Seq(SUBSET Line)
      BY DEF IInv, TypeInv, Assumed, ScriptAssumption
    <3> QED BY <3>1 DEF WriteLine
  <2> QED BY <1>1, <2>1, LinesAreLines DEF Piece
<1>4. sent[c] \in Seq(Line) /\ unread[c] \in Seq(Piece) /\ answers[c] \in Seq(Response)
  BY DEF IInv, TypeInv
<1>5. sent'[c] = Append(sent[c], line) /\ unread'[c] = Append(unread[c], line)
  BY <1>1 DEF IInv, TypeInv
<1>6. TypeInv'
  BY <1>1, <1>2, <1>3, <1>4 DEF IInv, TypeInv
<1>7. ASSUME NEW n \in Nat, Follows(unread[c], sent[c], n)
      PROVE  Follows(unread'[c], sent'[c], n)
  BY <1>3, <1>4, <1>5, <1>7, AppendFollows
<1>8. ReadsInTurn(c)'
  BY <1>2, <1>7, TurnIsNat DEF IInv, InTurn, ReadsInTurn, Turn
<1>9. WorksInTurn(c)'
  <2>1. \A i \in 1..Len(sent[c]) : i \in 1..Len(sent'[c]) /\ sent'[c][i] = sent[c][i]
    BY <1>3, <1>4, <1>5
  <2> QED BY <1>2, <2>1 DEF IInv, InTurn, WorksInTurn, Turn
<1>10. Responds(c)'
  BY <1>2 DEF IInv, InTurn, Responds
<1>11. InTurn'
  <2>1. \A d \in Clients \ {c} : Same(d)
    BY <1>1, <1>2 DEF Same, IInv, TypeInv
  <2> QED BY <1>8, <1>9, <1>10, <2>1, OnlyOne
<1>12. Service!Ask(c)
  BY <1>1, <1>2, <1>3 DEF Service!Ask
<1> QED BY <1>6, <1>11, <1>12 DEF IInv

\* Steps that touch no handler.
LEMMA QuietStep ==
  ASSUME IInv, UNCHANGED <<sent, pc, unread, cur, resp, answers, budget>>
  PROVE  IInv' /\ UNCHANGED <<sent, resp, answers, budget, Over>>
<1>1. TypeInv'
  BY DEF IInv, TypeInv
<1>2. InTurn'
  BY DEF IInv, InTurn, ReadsInTurn, Follows, WorksInTurn, Turn, Responds
<1> QED BY <1>1, <1>2 DEF IInv, Over

-----------------------------------------------------------------------------
(* Reading *)

\* The handler that reads is at the line whose turn it is, and what is left follows it.
LEMMA NextLine ==
  ASSUME IInv, NEW c \in Clients, pc[c] = "read", unread[c] # <<>>
  PROVE  /\ Turn(c) \in 1..Len(sent[c])
         /\ Head(unread[c]) = sent[c][Turn(c)] /\ Head(unread[c]) \in Line
         /\ NextId(c) = Turn(c)
         /\ Tail(unread[c]) \in Seq(Piece)
         /\ Follows(Tail(unread[c]), sent[c], Turn(c))
<1>1. sent[c] \in Seq(Line) /\ unread[c] \in Seq(Piece)
  BY DEF IInv, TypeInv
<1>2. PICK n \in Nat : n = Len(answers[c])
  BY TurnIsNat DEF IInv
<1>3. Follows(unread[c], sent[c], n)
  BY <1>2 DEF IInv, InTurn, ReadsInTurn
<1>4. n + 1 = Turn(c)
  BY <1>2 DEF Turn
<1>5. /\ n + 1 \in 1..Len(sent[c])
      /\ Len(sent[c]) - Len(unread[c]) + 1 = n + 1
      /\ Head(unread[c]) = sent[c][n + 1] /\ Head(unread[c]) \in Line
      /\ Tail(unread[c]) \in Seq(Piece)
      /\ Follows(Tail(unread[c]), sent[c], n + 1)
  BY <1>1, <1>3, HeadFollows
<1> QED BY <1>4, <1>5 DEF NextId

\* A refusal has no effect, whatever the line.
LEMMA Refusal ==
  ASSUME Assumed, NEW line, NEW n \in Nat, NEW id \in Nat, NEW code \in Codes \ {"ok"},
         id = IF Readable(line) THEN n ELSE 0, UNCHANGED budget
  PROVE  /\ Answer(id, code, Nothing) \in Response
         /\ Answer(id, code, Nothing) # Nothing
         /\ Service!Effect(line, n, Answer(id, code, Nothing))
<1>1. /\ Answer(id, code, Nothing) \in Response
      /\ Answer(id, code, Nothing) # Nothing
      /\ Answer(id, code, Nothing).id = id
      /\ Answer(id, code, Nothing).code = code
  BY AnswerIsResponse
<1> QED BY <1>1 DEF Service!Effect

\* The next line is read and its answer is known at once.
LEMMA ReadAndRespond ==
  ASSUME IInv, NEW c \in Clients, NEW a \in Response, a # Nothing,
         pc[c] = "read", unread[c] # <<>>,
         unread' = [unread EXCEPT ![c] = Tail(@)], Respond(c, a),
         UNCHANGED <<sent, cur, answers>>, budget' \in Config,
         Service!Effect(Head(unread[c]), Turn(c), a)
  PROVE  IInv' /\ Service!Do(c)
<1>1. /\ Turn(c) \in 1..Len(sent[c]) /\ Head(unread[c]) = sent[c][Turn(c)]
      /\ Tail(unread[c]) \in Seq(Piece)
      /\ Follows(Tail(unread[c]), sent[c], Turn(c))
  BY NextLine
<1>2. /\ pc' = [pc EXCEPT ![c] = "send"] /\ resp' = [resp EXCEPT ![c] = a]
  BY DEF Respond
<1>3. Over' = Over /\ pc'[c] = "send" /\ pc' \in [Clients -> Places]
  BY <1>2, NoEnd DEF IInv, Places
<1>4. TypeInv'
  BY <1>1, <1>2, <1>3 DEF IInv, TypeInv
<1>5. \A d \in Clients \ {c} : Same(d)
  BY <1>2 DEF IInv, TypeInv, Same
<1>6. ReadsInTurn(c)'
  <2>1. unread'[c] = Tail(unread[c])
    BY DEF IInv, TypeInv
  <2> QED BY <1>1, <1>3, <2>1 DEF ReadsInTurn, Turn
<1>7. WorksInTurn(c)'
  BY <1>3 DEF WorksInTurn
<1>8. Responds(c)'
  BY <1>2, <1>3 DEF Responds, IInv, TypeInv
<1>9. InTurn'
  BY <1>5, <1>6, <1>7, <1>8, OnlyOne
<1>10. Service!Do(c)
  BY <1>1, <1>2, <1>3, DoStep DEF IInv, InTurn, Responds
<1> QED BY <1>4, <1>9, <1>10 DEF IInv

LEMMA ReadUnreadableStep ==
  ASSUME IInv, Assumed, NEW c \in Clients, ReadUnreadable(c)
  PROVE  IInv' /\ Service!Do(c)
<1> DEFINE a == Answer(0, "PARSE_ERROR", Nothing)
<1>1. /\ pc[c] = "read" /\ unread[c] # <<>> /\ ~Readable(Head(unread[c]))
      /\ unread' = [unread EXCEPT ![c] = Tail(@)] /\ Respond(c, a)
      /\ UNCHANGED <<sent, cur, answers, budget>>
  BY DEF ReadUnreadable, HasLine, client
<1>2. a \in Response /\ a # Nothing /\ Service!Effect(Head(unread[c]), Turn(c), a)
  BY <1>1, Refusal, TurnIsNat DEF Codes, IInv
<1>3. budget' \in Config
  BY <1>1 DEF IInv, TypeInv
<1> HIDE DEF a
<1> QED BY <1>1, <1>2, <1>3, ReadAndRespond

LEMMA ReadRejectedStep ==
  ASSUME IInv, Assumed, NEW c \in Clients, ReadRejected(c)
  PROVE  IInv' /\ Service!Do(c)
<1> DEFINE line == Head(unread[c])
           a == Answer(NextId(c), Unsupported(line), Nothing)
<1>1. /\ pc[c] = "read" /\ unread[c] # <<>> /\ Readable(line) /\ Unsupported(line) # "ok"
      /\ unread' = [unread EXCEPT ![c] = Tail(@)] /\ Respond(c, a)
      /\ UNCHANGED <<sent, cur, answers, budget>>
  BY DEF ReadRejected, HasLine, client
<1>2. NextId(c) = Turn(c) /\ Turn(c) \in Nat
  BY <1>1, NextLine, TurnIsNat DEF IInv
<1>3. Unsupported(line) \in Codes \ {"ok"}
  BY <1>1 DEF Unsupported, Codes
<1>4. a \in Response /\ a # Nothing /\ Service!Effect(line, Turn(c), a)
  <2> HIDE DEF line
  <2> QED BY <1>1, <1>2, <1>3, Refusal
<1>5. budget' \in Config
  BY <1>1 DEF IInv, TypeInv
<1> HIDE DEF a
<1> QED BY <1>1, <1>4, <1>5, ReadAndRespond

LEMMA ReadTooLongStep ==
  ASSUME IInv, Assumed, NEW c \in Clients, ReadTooLong(c)
  PROVE  IInv' /\ Service!Do(c)
<1> DEFINE a == Answer(0, "INVALID_REQUEST", Nothing)
           rest == <<Rest(Head(unread[c]))>> \o Tail(unread[c])
<1>1. /\ pc[c] = "read" /\ unread[c] # <<>> /\ TooLong(Head(unread[c]))
      /\ pc' = [pc EXCEPT ![c] = "reject"] /\ resp' = [resp EXCEPT ![c] = a]
      /\ unread' = [unread EXCEPT ![c] = rest]
      /\ UNCHANGED <<sent, cur, answers, budget>>
  BY DEF ReadTooLong, client
<1>2. /\ Turn(c) \in 1..Len(sent[c]) /\ Head(unread[c]) = sent[c][Turn(c)]
      /\ Head(unread[c]) \in Line /\ Tail(unread[c]) \in Seq(Piece)
  BY <1>1, NextLine
<1>3. a \in Response /\ a # Nothing /\ Service!Effect(Head(unread[c]), Turn(c), a)
  BY <1>1, Refusal, TurnIsNat DEF Codes, IInv, Readable
<1>4. rest \in Seq(Piece)
  <2>1. Rest(Head(unread[c])) \in Piece
    BY <1>2 DEF Piece
  <2> QED BY <1>2, <2>1
<1> HIDE DEF a, rest
<1>5. Over' = Over /\ pc'[c] = "reject" /\ pc' \in [Clients -> Places]
  BY <1>1, NoEnd DEF IInv, Places
<1>6. TypeInv'
  BY <1>1, <1>3, <1>4, <1>5 DEF IInv, TypeInv
<1>7. \A d \in Clients \ {c} : Same(d)
  BY <1>1 DEF IInv, TypeInv, Same
<1>8. (ReadsInTurn(c) /\ WorksInTurn(c) /\ Responds(c))'
  BY <1>1, <1>3, <1>5 DEF ReadsInTurn, WorksInTurn, Responds, IInv, TypeInv
<1>9. InTurn'
  BY <1>7, <1>8, OnlyOne
<1>10. Service!Do(c)
  BY <1>1, <1>2, <1>3, <1>5, DoStep DEF IInv, InTurn, Responds
<1> QED BY <1>6, <1>9, <1>10 DEF IInv

LEMMA ReadRequestStep ==
  ASSUME IInv, Assumed, NEW c \in Clients, ReadRequest(c)
  PROVE  IInv' /\ UNCHANGED <<sent, resp, answers, budget, Over>>
<1> DEFINE line == Head(unread[c])
<1>1. PICK place \in {"reader", "queue"} :
      /\ pc[c] = "read" /\ unread[c] # <<>> /\ Readable(line)
      /\ cur' = [cur EXCEPT ![c] = [id |-> NextId(c), line |-> line]]
      /\ unread' = [unread EXCEPT ![c] = Tail(@)]
      /\ pc' = [pc EXCEPT ![c] = place]
      /\ place # "queue" => line.method = "status"
      /\ UNCHANGED <<sent, resp, answers, budget>>
  BY DEF ReadRequest, HasLine, client
<1>2. /\ Turn(c) \in 1..Len(sent[c]) /\ line = sent[c][Turn(c)] /\ line \in Line
      /\ NextId(c) = Turn(c) /\ Turn(c) \in Nat
      /\ Tail(unread[c]) \in Seq(Piece)
      /\ Follows(Tail(unread[c]), sent[c], Turn(c))
  BY <1>1, NextLine, TurnIsNat DEF IInv
<1> HIDE DEF line
<1>3. Over' = Over /\ pc'[c] = place /\ pc' \in [Clients -> Places]
  BY <1>1, NoEnd DEF IInv, Places
<1>4. PICK request : request = [id |-> NextId(c), line |-> line]
  OBVIOUS
<1>5. request \in [id : Nat, line : Line] /\ request.id = Turn(c) /\ request.line = line
  BY <1>2, <1>4
<1>6. cur' = [cur EXCEPT ![c] = request]
  BY <1>1, <1>4
<1>7. TypeInv'
  BY <1>1, <1>2, <1>3, <1>5, <1>6 DEF IInv, TypeInv
<1>8. \A d \in Clients \ {c} : Same(d)
  BY <1>1, <1>6 DEF IInv, TypeInv, Same
<1>9. cur'[c] = request /\ unread'[c] = Tail(unread[c])
  BY <1>1, <1>6 DEF IInv, TypeInv
<1>10. ReadsInTurn(c)'
  BY <1>1, <1>2, <1>3, <1>9 DEF ReadsInTurn, Turn
<1>11. WorksInTurn(c)'
  BY <1>1, <1>2, <1>3, <1>5, <1>9 DEF WorksInTurn, Turn
<1>12. Responds(c)'
  BY <1>1, <1>3 DEF Responds, IInv, InTurn
<1>13. InTurn'
  BY <1>8, <1>10, <1>11, <1>12, OnlyOne
<1> QED BY <1>1, <1>3, <1>7, <1>13 DEF IInv

-----------------------------------------------------------------------------
(* Serving *)

\* status waits for the reader's mutex.
LEMMA TakeReaderStep ==
  ASSUME IInv, NEW c \in Clients, TakeReader(c)
  PROVE  IInv' /\ UNCHANGED <<sent, resp, answers, budget, Over>>
<1>1. /\ pc[c] = "reader" /\ pc' = [pc EXCEPT ![c] = "status"]
      /\ UNCHANGED <<sent, unread, cur, resp, answers, budget>>
  BY DEF TakeReader, client
<1>2. Over' = Over /\ pc'[c] = "status" /\ pc' \in [Clients -> Places]
  BY <1>1, NoEnd DEF IInv, Places
<1>3. TypeInv'
  BY <1>1, <1>2 DEF IInv, TypeInv
<1>4. \A d \in Clients \ {c} : Same(d)
  BY <1>1 DEF IInv, TypeInv, Same
<1>5. ReadsInTurn(c)'
  BY <1>1, <1>2 DEF IInv, InTurn, ReadsInTurn, Turn
<1>6. WorksInTurn(c)'
  BY <1>1, <1>2 DEF IInv, InTurn, WorksInTurn, Turn
<1>7. Responds(c)'
  BY <1>1, <1>2 DEF IInv, InTurn, Responds
<1>8. InTurn'
  BY <1>4, <1>5, <1>6, <1>7, OnlyOne
<1> QED BY <1>1, <1>2, <1>3, <1>8 DEF IInv

\* The budget a status tells is read, and with it the status has its effect.
LEMMA StatusBudgetStep ==
  ASSUME IInv, Assumed, NEW c \in Clients, StatusBudget(c)
  PROVE  IInv' /\ Service!Do(c)
<1>1. PICK tells \in {budget, Default} :
      /\ pc[c] = "status" /\ resp[c] = Nothing
      /\ resp' = [resp EXCEPT ![c] = Answer(cur[c].id, "ok", tells)]
      /\ UNCHANGED <<sent, pc, unread, cur, answers, budget>>
  BY DEF StatusBudget, client
<1>2. /\ cur[c].id = Turn(c) /\ Turn(c) \in 1..Len(sent[c]) /\ Turn(c) \in Nat
      /\ cur[c].line = sent[c][Turn(c)] /\ Readable(cur[c].line) /\ cur[c].line.method = "status"
  BY <1>1, TurnIsNat DEF IInv, InTurn, WorksInTurn
<1>3. tells \in Config /\ "ok" \in Codes
  BY <1>1, Configs DEF IInv, TypeInv, Codes
<1>4. PICK a : a = Answer(cur[c].id, "ok", tells)
  OBVIOUS
<1>5. a \in Response /\ a # Nothing /\ a.id = Turn(c) /\ a.code = "ok" /\ a.tells = tells
  BY <1>2, <1>3, <1>4, AnswerIsResponse
<1>6. Service!Effect(sent[c][Turn(c)], Turn(c), a)
  BY <1>1, <1>2, <1>5 DEF Service!Effect
<1>7. resp' = [resp EXCEPT ![c] = a]
  BY <1>1, <1>4
<1>8. TypeInv'
  BY <1>1, <1>5, <1>7 DEF IInv, TypeInv
<1>9. \A d \in Clients \ {c} : Same(d)
  BY <1>1 DEF IInv, TypeInv, Same
<1>10. ReadsInTurn(c)'
  BY <1>1 DEF IInv, InTurn, ReadsInTurn, Turn
<1>11. WorksInTurn(c)'
  BY <1>1 DEF IInv, InTurn, WorksInTurn, Turn
<1>12. Responds(c)'
  BY <1>1 DEF Responds
<1>13. InTurn'
  BY <1>9, <1>10, <1>11, <1>12, OnlyOne
<1>14. Over' = Over
  BY <1>1 DEF Over
<1>15. Service!Do(c)
  BY <1>1, <1>2, <1>5, <1>6, <1>7, <1>14, DoStep
<1> QED BY <1>8, <1>13, <1>15 DEF IInv

LEMMA StatusRestStep ==
  ASSUME IInv, NEW c \in Clients, StatusRest(c)
  PROVE  IInv' /\ UNCHANGED <<sent, resp, answers, budget, Over>>
<1>1. /\ pc[c] = "status" /\ pc' = [pc EXCEPT ![c] = "send"] /\ resp[c] # Nothing
      /\ UNCHANGED <<sent, unread, cur, resp, answers, budget>>
  BY DEF StatusRest, client
<1>2. Over' = Over /\ pc'[c] = "send" /\ pc' \in [Clients -> Places]
  BY <1>1, NoEnd DEF IInv, Places
<1>3. TypeInv'
  BY <1>1, <1>2 DEF IInv, TypeInv
<1>4. \A d \in Clients \ {c} : Same(d)
  BY <1>1 DEF IInv, TypeInv, Same
<1>5. ReadsInTurn(c)'
  BY <1>1, <1>2 DEF IInv, InTurn, ReadsInTurn, Turn
<1>6. (WorksInTurn(c) /\ Responds(c))'
  BY <1>1, <1>2 DEF WorksInTurn, Responds
<1>7. InTurn'
  BY <1>4, <1>5, <1>6, OnlyOne
<1> QED BY <1>1, <1>2, <1>3, <1>7 DEF IInv

\* A method is served under the writer's mutex.
LEMMA Served ==
  ASSUME IInv, NEW c \in Clients, NEW a \in Response, a # Nothing,
         pc[c] = "queue", Respond(c, a),
         UNCHANGED <<sent, unread, cur, answers>>, budget' \in Config,
         Service!Effect(cur[c].line, cur[c].id, a)
  PROVE  IInv' /\ Service!Do(c)
<1>1. pc' = [pc EXCEPT ![c] = "send"] /\ resp' = [resp EXCEPT ![c] = a]
  BY DEF Respond
<1>2. /\ cur[c].id = Turn(c) /\ Turn(c) \in 1..Len(sent[c])
      /\ cur[c].line = sent[c][Turn(c)] /\ resp[c] = Nothing
  BY DEF IInv, InTurn, WorksInTurn, Responds
<1>3. Over' = Over /\ pc'[c] = "send" /\ pc' \in [Clients -> Places]
  BY <1>1, NoEnd DEF IInv, Places
<1>4. TypeInv'
  BY <1>1, <1>3 DEF IInv, TypeInv
<1>5. \A d \in Clients \ {c} : Same(d)
  BY <1>1 DEF IInv, TypeInv, Same
<1>6. ReadsInTurn(c)'
  BY <1>3 DEF IInv, InTurn, ReadsInTurn, Turn
<1>7. (WorksInTurn(c) /\ Responds(c))'
  BY <1>1, <1>3 DEF WorksInTurn, Responds, IInv, TypeInv
<1>8. InTurn'
  BY <1>5, <1>6, <1>7, OnlyOne
<1>9. Service!Do(c)
  BY <1>1, <1>2, <1>3, DoStep
<1> QED BY <1>4, <1>8, <1>9 DEF IInv

\* What a method under the mutex answers: an error, or a result.
LEMMA ServedWith ==
  ASSUME IInv, Assumed, NEW c \in Clients, NEW methods, Holds(c, methods),
         NEW code \in Codes, NEW tells \in Config \cup {Nothing},
         Respond(c, Answer(cur[c].id, code, tells)), budget' \in Config,
         LET isSet == code = "ok" /\ cur[c].line.method = "budget.set" IN
           /\ isSet => ValidConfig(cur[c].line.config)
           /\ code = "ok" /\ cur[c].line.method = "budget.get" => tells = budget
           /\ code = "ok" => cur[c].line.method # "status"
           /\ budget' = IF isSet THEN cur[c].line.config ELSE budget
  PROVE  IInv' /\ Service!Do(c)
<1>1. /\ pc[c] = "queue" /\ cur[c].line.method \in methods
      /\ UNCHANGED <<sent, unread, cur, answers>>
  BY DEF Holds, client
<1>2. /\ cur[c].id = Turn(c) /\ Turn(c) \in 1..Len(sent[c]) /\ Turn(c) \in Nat
      /\ cur[c].line = sent[c][Turn(c)] /\ Readable(cur[c].line)
  BY <1>1, TurnIsNat DEF IInv, InTurn, WorksInTurn
<1>3. cur[c].line.config \in Config
  <2>1. cur[c].line \in Line
    BY <1>2 DEF IInv, TypeInv
  <2> QED BY <2>1 DEF Line
<1>4. PICK a : a = Answer(cur[c].id, code, tells)
  OBVIOUS
<1>5. a \in Response /\ a # Nothing /\ a.id = cur[c].id /\ a.code = code /\ a.tells = tells
  BY <1>2, <1>4, AnswerIsResponse
<1>6. Service!Effect(cur[c].line, cur[c].id, a)
  BY <1>2, <1>3, <1>5 DEF Service!Effect
<1>7. Respond(c, a)
  BY <1>4
<1> QED BY <1>1, <1>5, <1>6, <1>7, Served

LEMMA ReportStep ==
  ASSUME IInv, Assumed, NEW c \in Clients, Report(c)
  PROVE  IInv' /\ Service!Do(c)
<1>1. PICK code \in Codes : Respond(c, Answer(cur[c].id, code, Nothing))
  BY DEF Report, Codes
<1>2. Holds(c, Reports) /\ UNCHANGED budget
  BY DEF Report
<1>3. cur[c].line.method \in Methods \ {"status", "budget.get", "budget.set"}
  BY <1>2 DEF Holds, Reports, Parameterised
<1>4. budget' \in Config
  BY <1>2 DEF IInv, TypeInv
<1> QED BY <1>1, <1>2, <1>3, <1>4, ServedWith

LEMMA BudgetGetStep ==
  ASSUME IInv, Assumed, NEW c \in Clients, BudgetGet(c)
  PROVE  IInv' /\ Service!Do(c)
<1>1. Holds(c, {"budget.get"}) /\ UNCHANGED budget
  BY DEF BudgetGet
<1>2. cur[c].line.method = "budget.get"
  BY <1>1 DEF Holds
<1>3. budget \in Config /\ budget' \in Config
  BY <1>1 DEF IInv, TypeInv
<1>4. CASE Respond(c, Answer(cur[c].id, "ok", budget))
  BY <1>1, <1>2, <1>3, <1>4, ServedWith DEF Codes
<1>5. CASE Respond(c, Answer(cur[c].id, "INTERNAL_ERROR", Nothing))
  BY <1>1, <1>2, <1>3, <1>5, ServedWith DEF Codes
<1> QED BY <1>4, <1>5 DEF BudgetGet

LEMMA BudgetSetStep ==
  ASSUME IInv, Assumed, NEW c \in Clients, BudgetSet(c)
  PROVE  IInv' /\ Service!Do(c)
<1> DEFINE config == cur[c].line.config
<1>1. Holds(c, {"budget.set"})
  BY DEF BudgetSet
<1>2. cur[c].line.method = "budget.set" /\ pc[c] = "queue"
  BY <1>1 DEF Holds
<1>3. config \in Config
  <2>1. Turn(c) \in 1..Len(sent[c]) /\ cur[c].line = sent[c][Turn(c)]
    BY <1>2 DEF IInv, InTurn, WorksInTurn
  <2>2. cur[c].line \in Line
    BY <2>1 DEF IInv, TypeInv
  <2> QED BY <2>2 DEF Line
<1>4. CASE ValidConfig(config) /\ budget' = config /\ Respond(c, Answer(cur[c].id, "ok", Nothing))
  <2>1. budget' \in Config /\ "ok" \in Codes
    BY <1>3, <1>4 DEF Codes
  <2> QED BY <1>1, <1>2, <1>4, <2>1, ServedWith
<1>5. CASE UNCHANGED budget /\ Respond(c, Answer(cur[c].id, "INTERNAL_ERROR", Nothing))
  <2>1. budget' \in Config /\ "INTERNAL_ERROR" \in Codes
    BY <1>5 DEF IInv, TypeInv, Codes
  <2> QED BY <1>1, <1>2, <1>5, <2>1, ServedWith
<1> QED BY <1>4, <1>5 DEF BudgetSet

-----------------------------------------------------------------------------
(* Answering and ending *)

\* A connection that ends has no request, no response, and nothing more to read.
LEMMA EndStep ==
  ASSUME IInv, NEW c \in Clients, pc' = [pc EXCEPT ![c] = "done"],
         resp' = [resp EXCEPT ![c] = Nothing],
         cur' = cur \/ cur' = [cur EXCEPT ![c] = Nothing],
         UNCHANGED <<sent, unread, answers, budget>>
  PROVE  IInv' /\ Service!End({c})
<1>1. pc'[c] = "done" /\ resp'[c] = Nothing
  BY DEF IInv, TypeInv
<1>2. TypeInv'
  BY DEF IInv, TypeInv, Places
<1>3. \A d \in Clients \ {c} : Same(d)
  BY DEF IInv, TypeInv, Same
<1>4. (ReadsInTurn(c) /\ WorksInTurn(c) /\ Responds(c))'
  BY <1>1 DEF ReadsInTurn, WorksInTurn, Responds
<1>5. InTurn'
  BY <1>3, <1>4, OnlyOne
<1>6. Over' = Over \cup {c}
  BY DEF Over, IInv, TypeInv
<1>7. resp' = [d \in Clients |-> IF d \in {c} THEN Nothing ELSE resp[d]]
  BY DEF IInv, TypeInv
<1>8. Service!End({c})
  BY <1>6, <1>7 DEF Service!End, Over
<1> QED BY <1>2, <1>5, <1>8 DEF IInv

LEMMA EndsInTurn ==
  ASSUME IInv, NEW c \in Clients, ReadEof(c) \/ ReadCancelled(c) \/ SendFails(c)
  PROVE  IInv' /\ Service!End({c})
<1>1. /\ pc' = [pc EXCEPT ![c] = "done"]
      /\ cur' = cur \/ cur' = [cur EXCEPT ![c] = Nothing]
      /\ UNCHANGED <<sent, unread, answers, budget>>
  BY DEF ReadEof, ReadCancelled, SendFails, client
<1>2. resp' = [resp EXCEPT ![c] = Nothing]
  <2>1. CASE SendFails(c)
    BY <2>1 DEF SendFails
  <2>2. CASE ReadEof(c) \/ ReadCancelled(c)
    <3>1. resp' = resp /\ resp[c] = Nothing
      BY <2>2 DEF ReadEof, ReadCancelled, IInv, InTurn, Responds
    <3> QED BY <3>1 DEF IInv, TypeInv
  <2> QED BY <2>1, <2>2
<1> QED BY <1>1, <1>2, EndStep

LEMMA ExitStep ==
  ASSUME IInv, Exit
  PROVE  IInv' /\ Service!End(Clients)
<1>1. /\ pc' = [c \in Clients |-> "done"]
      /\ cur' = [c \in Clients |-> Nothing] /\ resp' = [c \in Clients |-> Nothing]
      /\ UNCHANGED <<sent, unread, answers, budget>>
  BY DEF Exit, client
<1>2. TypeInv'
  BY <1>1 DEF IInv, TypeInv, Places
<1>3. InTurn'
  BY <1>1 DEF InTurn, ReadsInTurn, WorksInTurn, Responds
<1>4. Over' = Over \cup Clients
  BY <1>1 DEF Over
<1>5. Service!End(Clients)
  BY <1>1, <1>4 DEF Service!End, Over
<1> QED BY <1>2, <1>3, <1>5 DEF IInv

LEMMA SendStep ==
  ASSUME IInv, NEW c \in Clients, Send(c)
  PROVE  IInv' /\ Service!Reply(c)
<1>1. PICK place \in {"read", "done"} :
      /\ pc[c] \in {"send", "reject"}
      /\ place = "read" => pc[c] = "send"
      /\ pc' = [pc EXCEPT ![c] = place]
  BY DEF Send
<1>2. /\ answers' = [answers EXCEPT ![c] = Append(@, resp[c])]
      /\ cur' = [cur EXCEPT ![c] = Nothing] /\ resp' = [resp EXCEPT ![c] = Nothing]
      /\ UNCHANGED <<sent, unread, budget>>
  BY DEF Send, client
<1>3. resp[c] # Nothing /\ resp[c] \in Response /\ answers[c] \in Seq(Response)
  BY <1>1 DEF IInv, TypeInv, InTurn, Responds
<1>4. TypeInv'
  BY <1>1, <1>2, <1>3 DEF IInv, TypeInv, Places
<1>5. \A d \in Clients \ {c} : Same(d)
  BY <1>1, <1>2 DEF IInv, TypeInv, Same
<1>6. pc'[c] = place /\ resp'[c] = Nothing /\ answers'[c] = Append(answers[c], resp[c])
  BY <1>1, <1>2 DEF IInv, TypeInv
<1>7. ReadsInTurn(c)'
  <2>1. Len(answers'[c]) = Turn(c)
    BY <1>3, <1>6 DEF Turn
  <2> QED BY <1>1, <1>2, <1>6, <2>1 DEF IInv, InTurn, ReadsInTurn
<1>8. (WorksInTurn(c) /\ Responds(c))'
  BY <1>1, <1>6 DEF WorksInTurn, Responds
<1>9. InTurn'
  BY <1>5, <1>7, <1>8, OnlyOne
<1>10. Over' \in {Over, Over \cup {c}}
  BY <1>1 DEF Over, IInv, TypeInv
<1>11. Service!Reply(c)
  BY <1>2, <1>3, <1>10 DEF Service!Reply, Over
<1> QED BY <1>4, <1>9, <1>11 DEF IInv

-----------------------------------------------------------------------------
(* The refinement *)

LEMMA InitInv ==
  ASSUME Init, Assumed
  PROVE  IInv /\ Service!Init
<1>1. TypeInv
  BY Configs DEF Init, TypeInv, Places
<1>2. InTurn
  BY DEF Init, InTurn, ReadsInTurn, WorksInTurn, Responds, Follows
<1>3. Service!Init
  BY DEF Init, Service!Init
<1> QED BY <1>1, <1>2, <1>3 DEF IInv

LEMMA Step ==
  ASSUME IInv, Assumed, [Next]_vars
  PROVE  IInv' /\ [Service!Next]_(Service!vars)
<1>1. ASSUME NEW c \in Clients, Handler(c)
      PROVE  IInv' /\ [Service!Next]_(Service!vars)
  <2>1. CASE ReadEof(c) \/ SendFails(c)
    BY <2>1, EndsInTurn DEF Service!Next
  <2>2. CASE Send(c)
    BY <2>2, SendStep DEF Service!Next
  <2>3. CASE ReadRequest(c) \/ TakeReader(c) \/ StatusRest(c)
    BY <2>3, ReadRequestStep, TakeReaderStep, StatusRestStep DEF Service!vars, Over
  <2>4. CASE ReadTooLong(c) \/ ReadUnreadable(c) \/ ReadRejected(c)
    BY <2>4, ReadTooLongStep, ReadUnreadableStep, ReadRejectedStep DEF Service!Next
  <2>5. CASE StatusBudget(c) \/ Report(c) \/ BudgetGet(c) \/ BudgetSet(c)
    BY <2>5, StatusBudgetStep, ReportStep, BudgetGetStep, BudgetSetStep DEF Service!Next
  <2> QED BY <1>1, <2>1, <2>2, <2>3, <2>4, <2>5 DEF Handler
<1>2. ASSUME NEW c \in Clients, WriteLine(c)
      PROVE  IInv' /\ [Service!Next]_(Service!vars)
  BY <1>2, WriteLineStep DEF Service!Next
<1>3. ASSUME NEW c \in Clients, ReadCancelled(c)
      PROVE  IInv' /\ [Service!Next]_(Service!vars)
  BY <1>3, EndsInTurn DEF Service!Next
<1>4. CASE Exit
  BY <1>4, ExitStep DEF Service!Next
<1>5. CASE \/ \E c \in Clients : Shutdown(c)
           \/ CollectorLocks \/ CollectorReleases \/ Cancel \/ UNCHANGED vars
  <2>1. UNCHANGED <<sent, pc, unread, cur, resp, answers, budget>>
    BY <1>5 DEF Shutdown, CollectorLocks, CollectorReleases, Cancel, vars, client, handler
  <2> QED BY <2>1, QuietStep DEF Service!vars, Over
<1> QED BY <1>1, <1>2, <1>3, <1>4, <1>5 DEF Next, Client

\* handle_client and handle_request serve each connection's lines one after the other: each
\* takes effect on the budget once, before its one answer, which has its id or 0, whatever
\* the other connections, the collectors and the database do meanwhile.
THEOREM ServiceRefinement == Spec => ImplementsService
<1>1. Assumed
  BY ScriptAssumption, NothingAssumption DEF Assumed
<1>2. Init => IInv /\ Service!Init
  BY <1>1, InitInv
<1>3. IInv /\ [Next]_vars => IInv' /\ [Service!Next]_(Service!vars)
  BY <1>1, Step
<1> QED BY <1>2, <1>3, PTL DEF Spec, ImplementsService, Service!Spec

=============================================================================
