-------------------------- MODULE TuiSessionProofs --------------------------
(***************************************************************************)
(* Proofs about TuiSession, for any number of timeouts, daemon deaths and  *)
(* database changes, any answers, and any number of request ids, even one: *)
(* what keeps call() from reading another call's answer is not the id it   *)
(* never compares, but that no stream with something on it is used again.  *)
(***************************************************************************)
EXTENDS TuiSession, SequenceTheorems, TLAPS

\* What the daemon has answered, it computed after this refresh began.
AnswersFresh ==
  asOf <= version /\ \A i \in DOMAIN outbox : outbox[i].version >= asOf

IInv == TypeOK /\ StreamInStep /\ AnswersFresh

-----------------------------------------------------------------------------
LEMMA MethodsFacts == Len(Methods) = 5 /\ DOMAIN Methods = 1..5
  BY DEF Methods

LEMMA NextCallFacts ==
  ASSUME step \in DOMAIN Methods, NextCall
  PROVE  step' \in DOMAIN Methods /\ pc' \in {"idle", "send"}
  BY MethodsFacts DEF NextCall

(* A call that ends leaves refresh_data before its next one, or over.      *)
LEMMA CallFacts ==
  ASSUME TypeOK, NEW answer \in Reply, CallFails \/ CallReturns(answer)
  PROVE  /\ step' \in DOMAIN Methods /\ pc' \in {"idle", "send"}
         /\ connection' \in {"Disconnected", "Connected"}
         /\ shown' \in [Method -> Nat] /\ asOf' = asOf
         /\ \A m \in Method : shown'[m] \in {shown[m], answer.version}
<1>1. CASE CallFails
  BY <1>1, NextCallFacts DEF CallFails, TypeOK
<1>2. CASE ~CallFails
  <2>1. /\ shown' = [shown EXCEPT ![answer.method] = answer.version]
        /\ connection' = IF step = 1 THEN "Connected" ELSE connection
        /\ NextCall /\ asOf' = asOf
    BY <1>2 DEF CallReturns
  <2>2. QED
    BY <2>1, NextCallFacts DEF TypeOK, Reply
<1>3. QED
  BY <1>1, <1>2

(* A response answers the first request, from the database as it is.       *)
LEMMA ResponseFacts ==
  ASSUME TypeOK, inbox # <<>>, NEW kind \in Kind
  PROVE  Response(kind) \in Reply /\ Head(inbox) \in Request /\ Tail(inbox) \in Seq(Request)
<1>1. Head(inbox) \in Request /\ Tail(inbox) \in Seq(Request)
  BY DEF TypeOK
<1>2. QED
  BY <1>1 DEF Response, Request, Reply, TypeOK

LEMMA AnswerFacts ==
  ASSUME TypeOK, outbox # <<>>
  PROVE  Head(outbox) \in Reply /\ Tail(outbox) \in Seq(Reply)
  BY DEF TypeOK

-----------------------------------------------------------------------------
(* The steps that touch the client alone, or the daemon alone, keep types. *)
LEMMA ClientTypeStep ==
  ASSUME TypeOK, Client \/ Timeout
  PROVE  TypeOK'
<1> USE DEF TypeOK, link, client, DropStream, KeepStream
<1>1. CASE StartRefresh
  BY <1>1, MethodsFacts DEF StartRefresh
<1>2. CASE UseStream
  BY <1>2 DEF UseStream
<1>3. CASE Reconnect
  BY <1>3 DEF Reconnect
<1>4. CASE ReconnectFails
  BY <1>4 DEF ReconnectFails
<1>5. CASE Send
  <2>1. id' \in 0..(IdSpace - 1)
    BY <1>5, BoundAssumption DEF Send
  <2>2. [id |-> id', method |-> Methods[step]] \in Request
    BY <2>1 DEF Request, Method
  <2>3. inbox' \in Seq(Request)
    BY <1>5, <2>2 DEF Send
  <2>4. QED
    BY <1>5, <2>1, <2>3 DEF Send
<1>6. CASE SendFails
  <2>1. id' \in 0..(IdSpace - 1)
    BY <1>6, BoundAssumption DEF SendFails
  <2>2. step' \in DOMAIN Methods /\ pc' \in {"idle", "send"} /\ connection' \in {"Disconnected", "Connected"}
        /\ UNCHANGED <<shown, asOf>>
    BY <1>6, NextCallFacts DEF SendFails, CallFails
  <2>3. QED
    BY <1>6, <2>1, <2>2 DEF SendFails
<1>7. CASE ReadAnswer
  <2>1. Head(outbox) \in Reply /\ Tail(outbox) \in Seq(Reply)
    BY <1>7, AnswerFacts DEF ReadAnswer
  <2>2. CallFails \/ CallReturns(Head(outbox))
    BY <1>7 DEF ReadAnswer
  <2>3. (outbox' = Tail(outbox) /\ UNCHANGED <<stream, peer, inbox>>) \/ DropStream
    BY <1>7 DEF ReadAnswer
  <2>4. UNCHANGED <<daemon, version, id, timeouts, deaths>>
    BY <1>7 DEF ReadAnswer
  <2>5. /\ step' \in DOMAIN Methods /\ pc' \in {"idle", "send"} /\ shown' \in [Method -> Nat]
        /\ connection' \in {"Disconnected", "Connected"} /\ asOf' = asOf
    BY <2>1, <2>2, CallFacts
  <2>6. stream' \in {"none", "some"} /\ peer' \in {"open", "closed"}
    BY <2>3
  <2>7. inbox' \in Seq(Request) /\ outbox' \in Seq(Reply)
    <3>1. CASE DropStream
      BY <3>1
    <3>2. CASE outbox' = Tail(outbox) /\ inbox' = inbox
      BY <2>1, <3>2
    <3>3. QED
      BY <2>3, <3>1, <3>2
  <2>8. QED
    BY <2>4, <2>5, <2>6, <2>7
<1>8. CASE ReadEof
  BY <1>8, NextCallFacts DEF ReadEof, CallFails
<1>9. CASE Timeout
  BY <1>9, NextCallFacts DEF Timeout, CallFails
<1>10. QED
  BY <1>1, <1>2, <1>3, <1>4, <1>5, <1>6, <1>7, <1>8, <1>9 DEF Client

LEMMA TypeStep ==
  ASSUME TypeOK, [Next]_vars
  PROVE  TypeOK'
<1> USE DEF TypeOK, link, client
<1>1. CASE Client \/ Timeout
  BY <1>1, ClientTypeStep
<1>2. CASE Collect
  BY <1>2 DEF Collect
<1>3. CASE Answer
  <2>1. PICK kind \in Outcomes[Head(inbox).method] : outbox' = Append(outbox, Response(kind))
    BY <1>3 DEF Answer
  <2>2. Head(inbox) \in Request
    BY <1>3 DEF Answer
  <2>3. kind \in Kind
    BY <2>1, <2>2, OutcomesAssumption DEF Request, Kind
  <2>4. Response(kind) \in Reply /\ Tail(inbox) \in Seq(Request)
    BY <1>3, <2>3, ResponseFacts DEF Answer
  <2>5. QED
    BY <1>3, <2>1, <2>4 DEF Answer
<1>4. CASE Die
  <2>1. inbox # <<>> => Response("partial") \in Reply
    BY ResponseFacts DEF Kind
  <2>2. outbox' \in Seq(Reply)
    BY <1>4, <2>1 DEF Die
  <2>3. QED
    BY <1>4, <2>2 DEF Die
<1>5. CASE Restart
  BY <1>5 DEF Restart
<1>6. CASE UNCHANGED vars
  BY <1>6 DEF vars
<1>7. QED
  BY <1>1, <1>2, <1>3, <1>4, <1>5, <1>6 DEF Next

(* The connection carries only requests and responses, and refresh_data is *)
(* always in one of its five calls.                                        *)
THEOREM TypeCorrect == Spec => []TypeOK
<1>1. Init => TypeOK
  BY MethodsFacts, BoundAssumption DEF Init, TypeOK
<1>2. QED
  BY <1>1, TypeStep, PTL DEF Spec

-----------------------------------------------------------------------------
LEMMA Singleton ==
  ASSUME NEW S, NEW q \in Seq(S), q # <<>>, Len(q) <= 1
  PROVE  1 \in DOMAIN q /\ Head(q) = q[1] /\ Len(q) = 1 /\ Tail(q) = <<>>
<1>1. Len(q) \in Nat \ {0}
  BY EmptySeq, Zenon
<1>2. Len(q) = 1
  BY <1>1
<1>3. Tail(q) \in Seq(S) /\ Len(Tail(q)) = 0
  BY <1>2, HeadTailProperties
<1>4. Tail(q) = <<>>
  <2>1. Tail(q) # <<>> => Len(Tail(q)) \in Nat \ {0}
    BY <1>3, EmptySeq, Zenon
  <2>2. QED
    BY <1>3, <2>1
<1>5. QED
  BY <1>2, <1>4

(* Between calls the connection is empty, and within one it holds at most  *)
(* the call's request or its answer.                                       *)
LEMMA OneMessage ==
  ASSUME TypeOK, StreamInStep
  PROVE  /\ pc # "wait" => inbox = <<>> /\ outbox = <<>>
         /\ outbox # <<>> => inbox = <<>> /\ Tail(outbox) = <<>>
         /\ inbox # <<>> => outbox = <<>> /\ Tail(inbox) = <<>>
                            /\ Head(inbox).id = id /\ Head(inbox).method = Methods[step]
<1>1. inbox \in Seq(Request) /\ outbox \in Seq(Reply) /\ Len(inbox) + Len(outbox) <= 1
  BY DEF TypeOK, StreamInStep
<1>2. /\ \A i \in DOMAIN inbox : pc = "wait" /\ inbox[i].id = id /\ inbox[i].method = Methods[step]
      /\ \A i \in DOMAIN outbox : pc = "wait"
  BY DEF StreamInStep, Messages
<1>3. Len(inbox) \in Nat /\ Len(outbox) \in Nat
  BY <1>1
<1>4. inbox # <<>> =>
        Len(inbox) = 1 /\ 1 \in DOMAIN inbox /\ Head(inbox) = inbox[1] /\ Tail(inbox) = <<>>
  BY <1>1, <1>3, Singleton
<1>5. outbox # <<>> => Len(outbox) = 1 /\ 1 \in DOMAIN outbox /\ Tail(outbox) = <<>>
  BY <1>1, <1>3, Singleton
<1>6. QED
  BY <1>1, <1>2, <1>4, <1>5

LEMMA StreamStep ==
  ASSUME TypeOK, StreamInStep, AnswersFresh, [Next]_vars
  PROVE  StreamInStep' /\ AnswersFresh'
<1> USE DEF link, client, AnswersFresh
<1> asOf \in Nat /\ version \in Nat
  BY DEF TypeOK
<1>1. CASE inbox' = <<>> /\ outbox' = <<>> /\ asOf' <= version'
  <2>1. StreamInStep' /\ DOMAIN outbox' = {}
    BY <1>1 DEF StreamInStep, Messages
  <2>2. QED
    BY <1>1, <2>1
<1>2. CASE StartRefresh \/ UseStream \/ Reconnect \/ ReconnectFails
  BY <1>1, <1>2, OneMessage DEF StartRefresh, UseStream, Reconnect, ReconnectFails
<1>3. CASE Send
  <2>1. /\ inbox' = <<[id |-> id', method |-> Methods[step]]>> /\ outbox' = <<>>
        /\ pc' = "wait" /\ step' = step /\ UNCHANGED <<version, asOf>>
    BY <1>3, OneMessage DEF Send
  <2>2. QED
    BY <2>1 DEF StreamInStep, Messages
<1>4. CASE SendFails \/ ReadEof \/ Timeout
  BY <1>1, <1>4, NextCallFacts DEF SendFails, ReadEof, Timeout, DropStream, CallFails
<1>5. CASE ReadAnswer
  <2>1. (outbox' = Tail(outbox) /\ inbox' = inbox) \/ (inbox' = <<>> /\ outbox' = <<>>)
    BY <1>5 DEF ReadAnswer, DropStream, KeepStream
  <2>2. asOf' = asOf /\ version' = version
    BY <1>5, AnswerFacts, CallFacts DEF ReadAnswer
  <2>3. QED
    BY <1>1, <1>5, <2>1, <2>2, OneMessage DEF ReadAnswer
<1>6. CASE Collect
  BY <1>6 DEF Collect, StreamInStep, Messages, TypeOK, Reply
<1>7. CASE Answer
  <2>1. PICK kind : outbox' = <<Response(kind)>>
    BY <1>7, OneMessage DEF Answer
  <2>2. inbox' = <<>> /\ pc = "wait" /\ UNCHANGED <<pc, id, step, asOf, version>>
    BY <1>7, OneMessage DEF Answer
  <2>3. QED
    BY <1>7, <2>1, <2>2, OneMessage DEF Answer, Response, StreamInStep, Messages
<1>8. CASE Die
  <2>1. inbox' = <<>> /\ UNCHANGED <<pc, id, step, asOf, version>>
    BY <1>8 DEF Die
  <2>2. CASE outbox' = outbox
    BY <2>1, <2>2 DEF StreamInStep, Messages
  <2>3. CASE inbox # <<>> /\ outbox' = Append(outbox, Response("partial"))
    <3>1. outbox' = <<Response("partial")>> /\ pc = "wait"
      BY <2>3, OneMessage
    <3>2. QED
      BY <2>1, <2>3, <3>1, OneMessage DEF Response, StreamInStep, Messages
  <2>4. QED
    BY <1>8, <2>2, <2>3 DEF Die
<1>9. CASE Restart \/ UNCHANGED vars
  BY <1>9 DEF Restart, vars, StreamInStep, Messages
<1>10. QED
  BY <1>2, <1>3, <1>4, <1>5, <1>6, <1>7, <1>8, <1>9 DEF Next, Client

LEMMA Invariance == Spec => []IInv
<1>1. Init => IInv
  BY MethodsFacts, BoundAssumption DEF Init, IInv, TypeOK, StreamInStep, Messages, AnswersFresh
<1>2. IInv /\ [Next]_vars => IInv'
  BY TypeStep, StreamStep DEF IInv
<1>3. QED
  BY <1>1, <1>2, PTL DEF Spec

(* "A late answer would be read as this request's answer, so drop the      *)
(* stream" (DaemonClient::call): what a call finds on the stream is its    *)
(* own answer, though nobody compares ids, and ids may even repeat.        *)
THEOREM InStep == Spec => []StreamInStep
<1>1. IInv => StreamInStep
  BY DEF IInv
<1>2. QED
  BY <1>1, Invariance, PTL

-----------------------------------------------------------------------------
(* No panel is ever filled with what the daemon computed before the        *)
(* refresh that fills it began (App::refresh_data).                        *)
THEOREM FreshData == Spec => RefreshShowsFreshData
<1>1. IInv /\ [Next]_vars
      => [\A m \in Method : shown'[m] # shown[m] => shown'[m] >= asOf]_vars
  <2> SUFFICES ASSUME IInv, [Next]_vars, NEW m \in Method, shown'[m] # shown[m]
               PROVE  shown'[m] >= asOf
    OBVIOUS
  <2>1. TypeOK /\ AnswersFresh
    BY DEF IInv
  <2>2. CASE ReadAnswer
    <3>1. Head(outbox) \in Reply /\ Head(outbox).version >= asOf
      BY <2>1, <2>2, AnswerFacts DEF ReadAnswer, AnswersFresh, TypeOK
    <3>2. shown'[m] \in {shown[m], Head(outbox).version}
      BY <2>1, <2>2, <3>1, CallFacts DEF ReadAnswer
    <3>3. QED
      BY <3>1, <3>2
  <2>3. CASE shown' = shown
    BY <2>3
  <2>4. QED
    BY <2>2, <2>3
    DEF Next, Client, vars, client, StartRefresh, UseStream, Reconnect, ReconnectFails, Send,
        SendFails, ReadEof, Timeout, CallFails, Collect, Answer, Die, Restart
<1>2. QED
  BY <1>1, Invariance, PTL DEF Spec, RefreshShowsFreshData

-----------------------------------------------------------------------------
\* Past its first call a refresh has shown a status, so the screen says Connected.
StatusShown ==
  /\ pc = "connect" => step = 1
  /\ pc \in {"send", "wait"} /\ step # 1 =>
       connection = "Connected" /\ shown["status"] >= asOf
  /\ ConnectedIsCurrent

(* How a call ends decides on it: a status that fails ends the refresh as  *)
(* disconnected, and one that succeeds is on the screen.                   *)
LEMMA CallShown ==
  ASSUME TypeOK, pc \in {"send", "wait"}, StatusShown,
         NEW answer \in Reply, answer.version >= asOf, CallFails \/ CallReturns(answer)
  PROVE  StatusShown'
<1> USE DEF StatusShown, ConnectedIsCurrent
<1>1. step \in DOMAIN Methods /\ asOf \in Nat /\ asOf' = asOf /\ pc' \in {"idle", "send"}
  BY CallFacts DEF TypeOK
<1>2. Methods[1] = "status" /\ 1 \in DOMAIN Methods /\ "status" \in Method
  BY MethodsFacts DEF Methods, Method
<1>3. shown'["status"] \in {shown["status"], answer.version}
  BY <1>2, CallFacts
<1>4. CASE step # 1
  <2>1. connection' = "Connected"
    BY <1>4 DEF CallFails, CallReturns
  <2>2. QED
    BY <1>1, <1>3, <1>4, <2>1
<1>5. CASE step = 1 /\ CallFails
  BY <1>5 DEF CallFails
<1>6. CASE step = 1 /\ ~CallFails
  <2>1. answer.method = "status" /\ connection' = "Connected"
        /\ shown' = [shown EXCEPT ![answer.method] = answer.version]
    BY <1>2, <1>6 DEF CallReturns
  <2>2. shown'["status"] = answer.version
    BY <1>2, <2>1 DEF TypeOK
  <2>3. QED
    BY <1>1, <2>1, <2>2
<1>7. QED
  BY <1>4, <1>5, <1>6

LEMMA FailShown ==
  ASSUME TypeOK, pc \in {"send", "wait"}, StatusShown, CallFails
  PROVE  StatusShown'
<1>1. /\ step # 1 => UNCHANGED <<connection, shown, asOf>> /\ pc' \in {"idle", "send"}
      /\ step = 1 => connection' = "Disconnected" /\ pc' = "idle"
  BY NextCallFacts DEF CallFails, TypeOK
<1>2. QED
  BY <1>1 DEF StatusShown, ConnectedIsCurrent

LEMMA StatusStep ==
  ASSUME IInv, StatusShown, [Next]_vars
  PROVE  StatusShown'
<1>1. TypeOK /\ AnswersFresh
  BY DEF IInv
<1>2. CASE ReadAnswer
  <2>1. Head(outbox) \in Reply /\ Head(outbox).version >= asOf
    BY <1>1, <1>2, AnswerFacts DEF ReadAnswer, AnswersFresh, TypeOK
  <2>2. QED
    BY <1>1, <1>2, <2>1, CallShown DEF ReadAnswer
<1>3. CASE SendFails \/ ReadEof \/ Timeout
  BY <1>1, <1>3, FailShown DEF SendFails, ReadEof, Timeout
<1>4. CASE StartRefresh \/ UseStream \/ Reconnect \/ ReconnectFails \/ Send
  BY <1>4 DEF StatusShown, ConnectedIsCurrent, StartRefresh, UseStream, Reconnect,
     ReconnectFails, Send
<1>5. CASE UNCHANGED client
  BY <1>5 DEF client, StatusShown, ConnectedIsCurrent
<1>6. QED
  BY <1>2, <1>3, <1>4, <1>5 DEF Next, Client, vars, Collect, Answer, Die, Restart

(* Between refreshes "Connected" is never a leftover: the status on the    *)
(* screen came with the refresh that has just ended (refresh_data).        *)
THEOREM StatusCurrent == Spec => []ConnectedIsCurrent
<1>1. Init => StatusShown
  BY DEF Init, StatusShown, ConnectedIsCurrent
<1>2. IInv /\ StatusShown /\ [Next]_vars => StatusShown'
  BY StatusStep
<1>3. StatusShown => ConnectedIsCurrent
  BY DEF StatusShown
<1>4. QED
  BY <1>1, <1>2, <1>3, Invariance, PTL DEF Spec
=============================================================================
