----------------------------- MODULE TuiSession -----------------------------
(***************************************************************************)
(* The TUI's refresh_data over DaemonClient::call and the daemon's         *)
(* handle_client: five requests in a row on one kept connection, each with *)
(* a timeout, against a daemon that may answer late, with an error or with *)
(* more than the response cap, and that may die and be restarted.          *)
(*                                                                         *)
(* The answer to a request carries the version of the database it was      *)
(* computed from.  call() never compares the response's id with the        *)
(* request's: what keeps answers and requests in step is that a stream     *)
(* that could still carry an old answer is dropped.  A dropped connection  *)
(* disappears from the model: nothing of it can reach the client again.    *)
(***************************************************************************)
EXTENDS Integers, Sequences

CONSTANTS
  Outcomes,      \* the kinds of answer each method may get
  MaxVersion,    \* bound: changes of the database
  MaxTimeouts,   \* bound: calls that time out
  MaxDeaths,     \* bound: deaths of the daemon
  IdSpace        \* bound: request ids are counted modulo this

Methods == <<"status", "budget.get", "usage.summary", "sessions.list", "models.compare">>
Method  == {Methods[i] : i \in DOMAIN Methods}

\* A result, an RPC error, a line over MAX_MESSAGE_LEN, a line cut off by a death.
Kind == {"ok", "error", "big", "partial"}

ASSUME OutcomesAssumption == Outcomes \in [Method -> SUBSET {"ok", "error", "big"}]
ASSUME BoundAssumption ==
  MaxVersion \in Nat /\ MaxTimeouts \in Nat /\ MaxDeaths \in Nat /\ IdSpace \in Nat \ {0}

VARIABLES
  daemon,        \* "up" or "down"
  version,       \* of the database
  stream,        \* the client's Option<BufReader<UnixStream>>: "none" or "some"
  peer,          \* the daemon's end of it: "open" or "closed"
  inbox,         \* requests the daemon has not read
  outbox,        \* responses the client has not read
  pc, step,      \* where refresh_data is, and in which of its calls
  id,            \* next_id
  connection,    \* connection_status
  shown,         \* version of the data on the screen, by method
  asOf,          \* history: the version when this refresh began
  timeouts, deaths

link   == <<stream, peer, inbox, outbox>>
client == <<pc, step, id, connection, shown, asOf>>
vars   == <<daemon, version, link, client, timeouts, deaths>>

Init ==
  /\ daemon = "up" /\ version = 0
  /\ stream = "none" /\ peer = "closed" /\ inbox = <<>> /\ outbox = <<>>
  /\ pc = "idle" /\ step = 1 /\ id = 0
  /\ connection = "Disconnected"
  /\ shown = [m \in Method |-> 0] /\ asOf = 0
  /\ timeouts = 0 /\ deaths = 0

-----------------------------------------------------------------------------
(* refresh_data *)

DropStream == stream' = "none" /\ peer' = "closed" /\ inbox' = <<>> /\ outbox' = <<>>
KeepStream == UNCHANGED <<stream, peer, inbox>>

StartRefresh ==
  /\ pc = "idle"
  /\ pc' = "connect" /\ step' = 1 /\ asOf' = version
  /\ UNCHANGED <<daemon, version, link, id, connection, shown, timeouts, deaths>>

UseStream ==
  /\ pc = "connect" /\ stream = "some"
  /\ pc' = "send"
  /\ UNCHANGED <<daemon, version, link, step, id, connection, shown, asOf, timeouts, deaths>>

Reconnect ==
  /\ pc = "connect" /\ stream = "none" /\ daemon = "up"
  /\ stream' = "some" /\ peer' = "open" /\ inbox' = <<>> /\ outbox' = <<>>
  /\ pc' = "send"
  /\ UNCHANGED <<daemon, version, step, id, connection, shown, asOf, timeouts, deaths>>

\* Mutant: the last state stays on the screen.
ReconnectFailsSilently ==
  /\ pc = "connect" /\ stream = "none" /\ daemon = "down"
  /\ pc' = "idle"
  /\ UNCHANGED <<daemon, version, link, step, id, connection, shown, asOf, timeouts, deaths>>

ReconnectFails ==
  /\ pc = "connect" /\ stream = "none" /\ daemon = "down"
  /\ connection' = "Disconnected" /\ pc' = "idle"
  /\ UNCHANGED <<daemon, version, link, step, id, shown, asOf, timeouts, deaths>>

\* Mutant: one call too many.
NextCallOffByOne ==
  IF step <= Len(Methods) THEN step' = step + 1 /\ pc' = "send"
                          ELSE step' = 1 /\ pc' = "idle"

NextCall ==
  IF step < Len(Methods) THEN step' = step + 1 /\ pc' = "send"
                         ELSE step' = 1 /\ pc' = "idle"

\* A failed status ends the refresh as disconnected; any other failure is passed over.
CallFails ==
  /\ IF step = 1 THEN connection' = "Disconnected" /\ pc' = "idle" /\ step' = step
                 ELSE NextCall /\ UNCHANGED connection
  /\ UNCHANGED <<shown, asOf>>

\* The answer's fields replace what is shown, if it has the shape the method expects.
CallReturns(answer) ==
  IF answer.method = Methods[step]
    THEN /\ shown' = [shown EXCEPT ![answer.method] = answer.version]
         /\ connection' = IF step = 1 THEN "Connected" ELSE connection
         /\ NextCall
         /\ UNCHANGED asOf
    ELSE CallFails

-----------------------------------------------------------------------------
(* DaemonClient::call *)

Send ==
  /\ pc = "send" /\ stream = "some" /\ peer = "open"
  /\ id' = (id + 1) % IdSpace
  /\ inbox' = Append(inbox, [id |-> id', method |-> Methods[step]])
  /\ pc' = "wait"
  /\ UNCHANGED <<daemon, version, stream, peer, outbox, step, connection, shown, asOf,
                 timeouts, deaths>>

\* Mutant: the dead socket is kept for the next call.
SendFailsKeepsStream ==
  /\ pc = "send" /\ (stream = "none" \/ peer = "closed")
  /\ id' = (id + 1) % IdSpace
  /\ CallFails
  /\ UNCHANGED <<link, daemon, version, timeouts, deaths>>

\* No stream, or a write to a socket the daemon has closed.
SendFails ==
  /\ pc = "send" /\ (stream = "none" \/ peer = "closed")
  /\ id' = (id + 1) % IdSpace
  /\ DropStream /\ CallFails
  /\ UNCHANGED <<daemon, version, timeouts, deaths>>

ReadAnswer ==
  /\ pc = "wait" /\ outbox # <<>>
  /\ Head(outbox).kind = "partial" => peer = "closed"
  /\ LET answer == Head(outbox) IN
     \/ /\ answer.kind = "ok"
        /\ CallReturns(answer)
        /\ outbox' = Tail(outbox) /\ KeepStream
     \/ /\ answer.kind \in {"error", "partial"}
        /\ CallFails
        /\ outbox' = Tail(outbox) /\ KeepStream
     \/ /\ answer.kind = "big"
        /\ CallFails /\ DropStream
  /\ UNCHANGED <<daemon, version, id, timeouts, deaths>>

ReadEof ==
  /\ pc = "wait" /\ outbox = <<>> /\ peer = "closed"
  /\ CallFails /\ DropStream
  /\ UNCHANGED <<daemon, version, id, timeouts, deaths>>

\* Mutant: a timed-out call leaves the stream to the next one.
TimeoutKeepsStream ==
  /\ pc = "wait" /\ outbox = <<>> /\ peer = "open"
  /\ timeouts < MaxTimeouts /\ timeouts' = timeouts + 1
  /\ CallFails
  /\ UNCHANGED <<link, daemon, version, id, deaths>>

Timeout ==
  /\ pc = "wait" /\ outbox = <<>> /\ peer = "open"
  /\ timeouts < MaxTimeouts /\ timeouts' = timeouts + 1
  /\ CallFails /\ DropStream
  /\ UNCHANGED <<daemon, version, id, deaths>>

-----------------------------------------------------------------------------
(* The daemon *)

\* A collector pass changes the database.
Collect ==
  /\ daemon = "up" /\ version < MaxVersion
  /\ version' = version + 1
  /\ UNCHANGED <<daemon, link, client, timeouts, deaths>>

Response(kind) ==
  [id |-> Head(inbox).id, method |-> Head(inbox).method, kind |-> kind, version |-> version]

\* handle_client reads one line, handles it, and sends the response.
Answer ==
  /\ daemon = "up" /\ peer = "open" /\ inbox # <<>>
  /\ \E kind \in Outcomes[Head(inbox).method] : outbox' = Append(outbox, Response(kind))
  /\ inbox' = Tail(inbox)
  /\ UNCHANGED <<daemon, version, stream, peer, client, timeouts, deaths>>

\* Death closes the connection, maybe in the middle of a response.
Die ==
  /\ daemon = "up"
  /\ deaths < MaxDeaths /\ deaths' = deaths + 1
  /\ daemon' = "down" /\ peer' = "closed" /\ inbox' = <<>>
  /\ \/ outbox' = outbox
     \/ inbox # <<>> /\ outbox' = Append(outbox, Response("partial"))
  /\ UNCHANGED <<version, stream, client, timeouts>>

Restart ==
  /\ daemon = "down"
  /\ daemon' = "up"
  /\ UNCHANGED <<version, link, client, timeouts, deaths>>

-----------------------------------------------------------------------------
Client ==
  \/ StartRefresh
  \/ UseStream \/ Reconnect \/ ReconnectFails
  \/ Send \/ SendFails
  \/ ReadAnswer \/ ReadEof

Next == Client \/ Timeout \/ Collect \/ Answer \/ Die \/ Restart

Spec == Init /\ [][Next]_vars

\* The TUI's loop ticks on, a collector pass holds the storage lock only for a while,
\* and launchd restarts the daemon.
FairSpec == Spec /\ WF_vars(Client) /\ WF_vars(Answer) /\ WF_vars(Restart)

-----------------------------------------------------------------------------
(* Properties *)

Request == [id : 0..(IdSpace - 1), method : Method]
Reply   == [id : 0..(IdSpace - 1), method : Method, kind : Kind, version : Nat]

\* The connection carries requests and responses, and refresh_data is in one of its calls.
TypeOK ==
  /\ daemon \in {"up", "down"} /\ version \in Nat
  /\ stream \in {"none", "some"} /\ peer \in {"open", "closed"}
  /\ inbox \in Seq(Request) /\ outbox \in Seq(Reply)
  /\ pc \in {"idle", "connect", "send", "wait"} /\ step \in DOMAIN Methods
  /\ id \in 0..(IdSpace - 1)
  /\ connection \in {"Disconnected", "Connected"}
  /\ shown \in [Method -> Nat] /\ asOf \in Nat
  /\ timeouts \in Nat /\ deaths \in Nat

Messages(queue) == {queue[i] : i \in DOMAIN queue}

\* "A late answer would be read as this request's answer, so drop the stream": whatever
\* a call can still read was sent for this very call, and between calls the stream
\* holds nothing.
StreamInStep ==
  /\ Len(inbox) + Len(outbox) <= 1
  /\ \A msg \in Messages(inbox) \cup Messages(outbox) :
       pc = "wait" /\ msg.id = id /\ msg.method = Methods[step]

\* A refresh puts on the screen only what the daemon computed after it began, never
\* the leftover of an earlier refresh.
RefreshShowsFreshData ==
  [][\A m \in Method : shown'[m] # shown[m] => shown'[m] >= asOf]_vars

\* Once a refresh is over, Connected means that its status answer is on the screen.
ConnectedIsCurrent ==
  pc = "idle" /\ connection = "Connected" => shown["status"] >= asOf

BadAnswer == \E answer \in Messages(outbox) : answer.kind # "ok"

\* After any number of timeouts, deaths, errors and over-long answers the TUI recovers:
\* once the daemon answers with results, what is in the database gets on the screen, in
\* every panel.
EventuallyShown ==
  <>[]~BadAnswer =>
    \A m \in Method : (version = MaxVersion) ~> (shown[m] = MaxVersion)

\* Even if the summary never fits the cap, the status panel stays current.
StatusEventuallyShown ==
  \A v \in 0..MaxVersion : (version = v) ~> (shown["status"] >= v)
=============================================================================
