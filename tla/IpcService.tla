------------------------------ MODULE IpcService ------------------------------
(***************************************************************************)
(* handle_client and handle_request: connections that write lines without  *)
(* waiting for answers, the dispatch of each line, the mutex over the      *)
(* writer connection, which the collectors hold for a whole pass, and the  *)
(* second, read-only connection that serves `status`.                      *)
(*                                                                         *)
(* A line keeps its size, whether it is UTF-8, its method and, for         *)
(* budget.set, its parameters; its id is its place on the connection.      *)
(* What reports and `status` compute is in UsageViews: here they are       *)
(* answers that may fail.                                                  *)
(***************************************************************************)
EXTENDS Integers, Sequences, SequencesExt

CONSTANTS
  Clients,
  Collector,          \* the collector task, in the queue of the writer mutex
  NoClient,           \* nobody holds the reader mutex
  NoLimit,            \* BudgetConfig with None
  Nothing,            \* no request at hand, an answer that tells no budget
  Script,             \* for each client, what its first, second, ... line may be
  MaxMessageLen,      \* MAX_MESSAGE_LEN
  MaxFaults           \* bound: database errors

Methods == {"status", "usage.query", "usage.summary", "sessions.list", "sessions.get",
            "budget.get", "budget.set", "models.compare"}

\* Methods with parameters, which may be unusable; reports read the database.
Parameterised == Methods \ {"status", "budget.get"}
Reports == Parameterised \ {"budget.set"}

Codes == {"ok", "PARSE_ERROR", "INVALID_REQUEST", "METHOD_NOT_FOUND", "INVALID_PARAMS",
          "INTERNAL_ERROR", "NOT_FOUND"}

\* A budget as budget.set may ask for it: the daily limit stands for all three limits.
Config == [daily : Int \cup {NoLimit}, alert : Int]

\* The first limit below zero or a threshold out of 0..1 (here in percent) is refused.
ValidConfig(config) ==
  /\ config.daily = NoLimit \/ config.daily >= 0
  /\ config.alert \in 0..100

Default == [daily |-> NoLimit, alert |-> 80]

Line == [size : Nat \ {0}, utf8 : BOOLEAN, method : STRING, good : BOOLEAN, config : Config]

ASSUME ScriptAssumption ==
  /\ Script \in [Clients -> Seq(SUBSET Line)]
  /\ Collector \notin Clients /\ NoClient \notin Clients /\ NoLimit \notin Int
  /\ MaxMessageLen \in Nat \ {0} /\ MaxFaults \in Nat

Lines == UNION {UNION Range(Script[c]) : c \in Clients}

\* RpcResponse: an id, success or a kind of error, and the budget a result tells.
Response == [id : Nat, code : Codes, tells : Config \cup {Nothing}]

ASSUME NothingAssumption == Nothing \notin Response

VARIABLES
  pc,         \* where a connection's handler is
  sent,       \* what each client has written so far
  unread,     \* what of it the handler has not read, by line
  closed,     \* clients that write no more
  gone,       \* clients that read no more
  cur,        \* the request a handler is at
  resp,       \* its response, once known
  answers,    \* the responses a client has been sent
  waiting,    \* the queue of the writer's mutex; its head holds it
  reader,     \* who holds the reader's mutex
  budget,     \* row 1 of budget_config
  daemon,     \* "up", "cancelled", "exited"
  faults

client == <<sent, closed, gone>>
handler == <<pc, unread, cur, resp, answers>>
locks == <<waiting, reader>>
vars == <<client, handler, locks, budget, daemon, faults>>

Init ==
  /\ pc = [c \in Clients |-> "read"]
  /\ sent = [c \in Clients |-> <<>>]
  /\ unread = [c \in Clients |-> <<>>]
  /\ closed = {} /\ gone = {}
  /\ cur = [c \in Clients |-> Nothing]
  /\ resp = [c \in Clients |-> Nothing]
  /\ answers = [c \in Clients |-> <<>>]
  /\ waiting = <<>>
  /\ reader = NoClient
  /\ budget = Default
  /\ daemon = "up"
  /\ faults = 0

Fault == faults < MaxFaults /\ faults' = faults + 1

\* RpcResponse::success and RpcResponse::error; tells is the budget a result speaks of.
Answer(id, code, tells) == [id |-> id, code |-> code, tells |-> tells]

-----------------------------------------------------------------------------
(* Clients *)

\* A line is written.  One whose newline is still to come is to the handler as one
\* that comes later, and one that never gets it is served when the client closes.
WriteLine(c) ==
  /\ c \notin closed /\ Len(sent[c]) < Len(Script[c])
  /\ \E line \in Script[c][Len(sent[c]) + 1] :
       /\ sent' = [sent EXCEPT ![c] = Append(@, line)]
       /\ unread' = [unread EXCEPT ![c] = Append(@, line)]
  /\ UNCHANGED <<closed, gone, pc, cur, resp, answers, locks, budget, daemon, faults>>

\* A client shuts down its writing side, or goes away altogether.
Shutdown(c) ==
  /\ c \notin closed
  /\ closed' = closed \cup {c}
  /\ gone' \in {gone, gone \cup {c}}
  /\ UNCHANGED <<sent, handler, locks, budget, daemon, faults>>

-----------------------------------------------------------------------------
(* handle_client: read_request_line *)

TooLong(line) == line.size > MaxMessageLen

\* The next line is there and is one.
HasLine(c) ==
  /\ pc[c] = "read" /\ unread[c] # <<>>
  /\ ~TooLong(Head(unread[c]))

Readable(line) == ~TooLong(line) /\ line.utf8 /\ line.method # "garbage"

\* The id of the request that is read next.
NextId(c) == Len(sent[c]) - Len(unread[c]) + 1

Respond(c, answer) ==
  /\ pc' = [pc EXCEPT ![c] = "send"]
  /\ resp' = [resp EXCEPT ![c] = answer]

ReadEof(c) ==
  /\ pc[c] = "read" /\ unread[c] = <<>> /\ c \in closed
  /\ pc' = [pc EXCEPT ![c] = "done"]
  /\ UNCHANGED <<client, unread, cur, resp, answers, locks, budget, daemon, faults>>

\* What is left of a line once the cap and one more byte are read.
Rest(line) == [line EXCEPT !.size = @ - MaxMessageLen - 1, !.method = "garbage"]

\* Mutant: the connection goes on with the rest of the line.
ReadTooLongContinues(c) ==
  /\ pc[c] = "read" /\ unread[c] # <<>> /\ TooLong(Head(unread[c]))
  /\ Respond(c, Answer(0, "INVALID_REQUEST", Nothing))
  /\ unread' = [unread EXCEPT ![c] = <<Rest(Head(@))>> \o Tail(@)]
  /\ UNCHANGED <<client, cur, answers, locks, budget, daemon, faults>>

\* The rest of the line stays unread and the connection ends.
ReadTooLong(c) ==
  /\ pc[c] = "read" /\ unread[c] # <<>> /\ TooLong(Head(unread[c]))
  /\ pc' = [pc EXCEPT ![c] = "reject"]
  /\ resp' = [resp EXCEPT ![c] = Answer(0, "INVALID_REQUEST", Nothing)]
  /\ unread' = [unread EXCEPT ![c] = <<Rest(Head(@))>> \o Tail(@)]
  /\ UNCHANGED <<client, cur, answers, locks, budget, daemon, faults>>

\* Mutant: such a line is skipped.
ReadUnreadableSilently(c) ==
  /\ HasLine(c) /\ ~Readable(Head(unread[c]))
  /\ unread' = [unread EXCEPT ![c] = Tail(@)]
  /\ UNCHANGED <<client, pc, cur, resp, answers, locks, budget, daemon, faults>>

\* Not UTF-8, or no request: the line boundary is intact and the connection goes on.
ReadUnreadable(c) ==
  /\ HasLine(c) /\ ~Readable(Head(unread[c]))
  /\ unread' = [unread EXCEPT ![c] = Tail(@)]
  /\ Respond(c, Answer(0, "PARSE_ERROR", Nothing))
  /\ UNCHANGED <<client, cur, answers, locks, budget, daemon, faults>>

-----------------------------------------------------------------------------
(* handle_request: RpcMethod::from_request, then one arm per method *)

Unsupported(line) ==
  CASE line.method \notin Methods -> "METHOD_NOT_FOUND"
    [] line.method \in Parameterised /\ ~line.good -> "INVALID_PARAMS"
    [] OTHER -> "ok"

ReadRejected(c) ==
  LET line == Head(unread[c]) IN
  /\ HasLine(c) /\ Readable(line) /\ Unsupported(line) # "ok"
  /\ unread' = [unread EXCEPT ![c] = Tail(@)]
  /\ Respond(c, Answer(NextId(c), Unsupported(line), Nothing))
  /\ UNCHANGED <<client, cur, answers, locks, budget, daemon, faults>>

\* storage.lock().await, or status_reader.lock().await: tokio's mutex is fair, so
\* handlers queue for the writer.
ReadRequest(c) ==
  LET line == Head(unread[c]) IN
  /\ HasLine(c) /\ Readable(line) /\ Unsupported(line) = "ok"
  /\ cur' = [cur EXCEPT ![c] = [id |-> NextId(c), line |-> line]]
  /\ unread' = [unread EXCEPT ![c] = Tail(@)]
  /\ IF line.method = "status"
     THEN pc' = [pc EXCEPT ![c] = "reader"] /\ UNCHANGED waiting
     ELSE pc' = [pc EXCEPT ![c] = "queue"] /\ waiting' = Append(waiting, c)
  /\ UNCHANGED <<client, resp, answers, reader, budget, daemon, faults>>

\* Mutant: no second connection, as IpcServer::new has it on its own.
TakeReaderOfWriter(c) ==
  /\ pc[c] = "reader" /\ reader = NoClient /\ waiting = <<>>
  /\ reader' = c
  /\ pc' = [pc EXCEPT ![c] = "status"]
  /\ UNCHANGED <<client, unread, cur, resp, answers, waiting, budget, daemon, faults>>

TakeReader(c) ==
  /\ pc[c] = "reader" /\ reader = NoClient
  /\ reader' = c
  /\ pc' = [pc EXCEPT ![c] = "status"]
  /\ UNCHANGED <<client, unread, cur, resp, answers, waiting, budget, daemon, faults>>

\* get_budget within status: an error counts as no budget.
StatusBudget(c) ==
  /\ pc[c] = "status" /\ resp[c] = Nothing
  /\ \/ UNCHANGED faults /\ resp' = [resp EXCEPT ![c] = Answer(cur[c].id, "ok", budget)]
     \/ Fault /\ resp' = [resp EXCEPT ![c] = Answer(cur[c].id, "ok", Default)]
  /\ UNCHANGED <<client, pc, unread, cur, answers, locks, budget, daemon>>

\* list_sessions and subscription_statuses, whose errors leave their part empty.
StatusRest(c) ==
  /\ pc[c] = "status" /\ resp[c] # Nothing
  /\ reader' = NoClient
  /\ pc' = [pc EXCEPT ![c] = "send"]
  /\ UNCHANGED <<client, unread, cur, resp, answers, waiting, budget, daemon, faults>>

\* The handler holds the writer for the whole arm, in which it does not await.
Holds(c, methods) ==
  /\ pc[c] = "queue" /\ Head(waiting) = c /\ cur[c].line.method \in methods
  /\ waiting' = Tail(waiting)
  /\ UNCHANGED <<client, unread, cur, answers, reader, daemon>>

\* Reports fail when the database does, and when a row does not read as its type.
Report(c) ==
  /\ Holds(c, Reports)
  /\ \/ Respond(c, Answer(cur[c].id, "ok", Nothing))
     \/ Respond(c, Answer(cur[c].id, "INTERNAL_ERROR", Nothing))
     \/ cur[c].line.method = "sessions.get" /\ Respond(c, Answer(cur[c].id, "NOT_FOUND", Nothing))
  /\ UNCHANGED <<budget, faults>>

BudgetGet(c) ==
  /\ Holds(c, {"budget.get"})
  /\ \/ UNCHANGED faults /\ Respond(c, Answer(cur[c].id, "ok", budget))
     \/ Fault /\ Respond(c, Answer(cur[c].id, "INTERNAL_ERROR", Nothing))
  /\ UNCHANGED budget

\* set_budget: a refused budget and a failing UPDATE change nothing.
BudgetSet(c) ==
  LET config == cur[c].line.config IN
  /\ Holds(c, {"budget.set"})
  /\ \/ /\ ValidConfig(config) /\ UNCHANGED faults
        /\ budget' = config
        /\ Respond(c, Answer(cur[c].id, "ok", Nothing))
     \/ /\ ~ValidConfig(config) /\ UNCHANGED <<budget, faults>>
        /\ Respond(c, Answer(cur[c].id, "INTERNAL_ERROR", Nothing))
     \/ /\ ValidConfig(config) /\ Fault /\ UNCHANGED budget
        /\ Respond(c, Answer(cur[c].id, "INTERNAL_ERROR", Nothing))

\* send, then the loop: back to reading, or out of it after an over-long line.
Send(c) ==
  /\ pc[c] \in {"send", "reject"} /\ c \notin gone
  /\ answers' = [answers EXCEPT ![c] = Append(@, resp[c])]
  /\ pc' = [pc EXCEPT ![c] = IF @ = "send" THEN "read" ELSE "done"]
  /\ cur' = [cur EXCEPT ![c] = Nothing]
  /\ resp' = [resp EXCEPT ![c] = Nothing]
  /\ UNCHANGED <<client, unread, locks, budget, daemon, faults>>

\* The client is gone: the handler returns the error.
SendFails(c) ==
  /\ pc[c] \in {"send", "reject"} /\ c \in gone
  /\ pc' = [pc EXCEPT ![c] = "done"]
  /\ cur' = [cur EXCEPT ![c] = Nothing]
  /\ resp' = [resp EXCEPT ![c] = Nothing]
  /\ UNCHANGED <<client, unread, answers, locks, budget, daemon, faults>>

-----------------------------------------------------------------------------
(* The collectors and the end *)

\* run_loop: the mutex is taken anew for each collector of a pass.
CollectorLocks ==
  /\ daemon # "exited" /\ Collector \notin ToSet(waiting)
  /\ waiting' = Append(waiting, Collector)
  /\ UNCHANGED <<client, handler, reader, budget, daemon, faults>>

\* run_once and rebuild_sessions are over.
CollectorReleases ==
  /\ waiting # <<>> /\ Head(waiting) = Collector
  /\ waiting' = Tail(waiting)
  /\ UNCHANGED <<client, handler, reader, budget, daemon, faults>>

Cancel ==
  /\ daemon = "up"
  /\ daemon' = "cancelled"
  /\ UNCHANGED <<client, handler, locks, budget, faults>>

\* Only a handler that reads looks at the token.
ReadCancelled(c) ==
  /\ pc[c] = "read" /\ daemon = "cancelled"
  /\ pc' = [pc EXCEPT ![c] = "done"]
  /\ UNCHANGED <<client, unread, cur, resp, answers, locks, budget, daemon, faults>>

\* main has waited for the collectors, not for the handlers, and ends.
Exit ==
  /\ daemon = "cancelled" /\ Collector \notin ToSet(waiting)
  /\ daemon' = "exited"
  /\ pc' = [c \in Clients |-> "done"]
  /\ cur' = [c \in Clients |-> Nothing]
  /\ resp' = [c \in Clients |-> Nothing]
  /\ waiting' = <<>> /\ reader' = NoClient
  /\ UNCHANGED <<client, unread, answers, budget, faults>>

-----------------------------------------------------------------------------
Client(c) == WriteLine(c) \/ Shutdown(c)

Handler(c) ==
  \/ ReadEof(c) \/ ReadTooLong(c) \/ ReadUnreadable(c) \/ ReadRejected(c) \/ ReadRequest(c)
  \/ TakeReader(c) \/ StatusBudget(c) \/ StatusRest(c)
  \/ Report(c) \/ BudgetGet(c) \/ BudgetSet(c)
  \/ Send(c) \/ SendFails(c)

Next ==
  \/ \E c \in Clients : Client(c) \/ Handler(c) \/ ReadCancelled(c)
  \/ CollectorLocks \/ CollectorReleases
  \/ Cancel \/ Exit

Spec == Init /\ [][Next]_vars

\* Ready tasks are polled.  Nothing is assumed of the collectors, the clients or the
\* signal.
FairSpec == Spec /\ \A c \in Clients : WF_vars(Handler(c))

-----------------------------------------------------------------------------
(* Properties *)

\* handle_client answers every line of a connection in turn, once and under its own
\* id, and budget.set and budget.get behave as reads and writes of one register, so
\* that a client who got the answer to a set finds that budget or a later one.
Service == INSTANCE LineService WITH
  asked   <- sent,
  doing   <- resp,
  answers <- answers,
  budget  <- budget,
  over    <- {c \in Clients : pc[c] = "done"},
  Answers <- Response,
  Configs <- {config \in Config : ValidConfig(config)},
  Initial <- Default

ImplementsService == Service!Spec

\* status is answered, or its connection is over, even if a collector never lets go of
\* the database.
StatusNeverWaitsForCollectors ==
  \A c \in Clients :
    (cur[c] # Nothing /\ cur[c].line.method = "status") ~> cur[c] = Nothing

\* Every line is answered or its connection is over, if the collectors
\* always let go of the database, whatever other clients do.
EveryLineAnswered ==
  []<>(waiting = <<>> \/ Head(waiting) # Collector)
  => \A c \in Clients : \A n \in 1..Len(Script[c]) :
       Len(sent[c]) >= n ~> (Len(answers[c]) >= n \/ pc[c] = "done")
=============================================================================
