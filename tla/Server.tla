------------------------------- MODULE Server -------------------------------
(***************************************************************************)
(* internal/server/server.go: the handlers of the gRPC service on one      *)
(* node, each call in a goroutine of its own. The commit log under them is *)
(* the distributed log: an Append ends when raft has applied the record on *)
(* this node or has given it up, and other nodes' records come in between. *)
(*                                                                         *)
(*   log  : the records of this node, which the commit log reads           *)
(*   late : records whose Append failed although raft may still apply them *)
(*   rpc  : rpc[c], the one call of client c                               *)
(*     method, st : which call, and where its handler is                   *)
(*     no         : requests received, or the offset to read next          *)
(*     start      : the offset a consumer began with                       *)
(*     off        : what Append returned                                   *)
(*     out        : what was sent back, offsets or records                 *)
(*     ctx        : "live" until the client cancels or closes the stream,  *)
(*                  or the server ends the call with an "error" of its own *)
(***************************************************************************)
EXTENDS Integers, Sequences, FiniteSets

CONSTANTS
  Client,
  Others,      \* whoever produces through another node
  Allowed,     \* the policy: pairs of a client and "produce" or "consume"
  Calls,       \* bound of the model: what each client calls, from which offset
  MaxRequests, \* bound of the model: requests on one stream
  MaxRecords   \* bound of the model: records in the log

ASSUME ServerAssumption ==
  /\ Allowed \subseteq Client \X {"produce", "consume"}
  /\ Others \notin Client
  /\ MaxRequests \in Nat /\ MaxRecords \in Nat
  /\ Calls \in [Client -> SUBSET ({"Produce", "ProduceStream"} \X {0}
                        \union {"Consume", "ConsumeStream"} \X (0 .. MaxRecords - 1))]

VARIABLES log, late, rpc

serverVars == <<log, late, rpc>>

Record == [from : Client \union {Others}, no : Nat]

NoCall == [method |-> "none", st |-> "none", no |-> 0, start |-> 0, off |-> 0,
           out |-> <<>>, ctx |-> "live"]

ServerInit == log = <<>> /\ late = {} /\ rpc = [c \in Client |-> NoCall]

Open(c) == rpc[c].st \notin {"none", "done"}
Stream(c) == rpc[c].method \in {"ProduceStream", "ConsumeStream"}

\* The authorizer's answer for the subject that authenticate found.
Authorize(c, action) == <<c, action>> \in Allowed

\* The handler of c goes on as r says.
Become(c, r) == rpc' = [rpc EXCEPT ![c] = r]
Goto(r, st) == [r EXCEPT !.st = st]
Fails(r) == [r EXCEPT !.st = "done", !.ctx = "error"]

-----------------------------------------------------------------------------
(* Clients *)

\* The interceptor finds out who calls, and the handler starts; or it does not,
\* and the call has failed before there is a handler.
Call(c, method, start) ==
  LET call == [NoCall EXCEPT
        !.method = method, !.no = start, !.start = start,
        !.st = IF method \in {"Produce", "ProduceStream"} THEN "recv" ELSE "read"]
  IN /\ rpc[c] = NoCall
     /\ Become(c, call) \/ Become(c, Fails(call))
     /\ UNCHANGED <<log, late>>

Cancel(c) ==
  /\ Open(c) /\ rpc[c].ctx = "live"
  /\ Become(c, [rpc[c] EXCEPT !.ctx = "cancelled"])
  /\ UNCHANGED <<log, late>>

-----------------------------------------------------------------------------
(* Produce, and ProduceStream, which calls it for each request *)

Requested(c) == [from |-> c, no |-> rpc[c].no]

\* A request arrives and is given to the commit log, if the client may.
Produce(c) ==
  /\ rpc[c].st = "recv" /\ rpc[c].ctx = "live"
  /\ rpc[c].no < IF Stream(c) THEN MaxRequests ELSE 1
  /\ Become(c, IF Authorize(c, "produce")
                 THEN [rpc[c] EXCEPT !.st = "append", !.no = @ + 1]
                 ELSE Goto(rpc[c], "done"))
  /\ UNCHANGED <<log, late>>

\* stream.Recv returns an error when the client is gone or has closed its side.
RecvFails(c) ==
  /\ rpc[c].st = "recv" /\ rpc[c].ctx = "cancelled"
  /\ Become(c, Goto(rpc[c], "done"))
  /\ UNCHANGED <<log, late>>

\* Raft applies the record: it has its offset, the handler does not run yet.
AppendApplied(c) ==
  /\ rpc[c].st = "append" /\ Len(log) < MaxRecords
  /\ log' = Append(log, Requested(c))
  /\ Become(c, [rpc[c] EXCEPT !.st = "applied", !.off = Len(log)])
  /\ UNCHANGED late

\* A mutant: the stream goes on after an error.
AfterErrorOn(r) == Goto(r, IF r.method = "ProduceStream" THEN "recv" ELSE "done")

\* The handler returns the error.
AfterError(r) == Goto(r, "done")

\* Append returns an error: the record is refused, or its fate is open.
AppendFails(c) ==
  /\ rpc[c].st = "append"
  /\ Become(c, AfterError(rpc[c]))
  /\ late' \in {late, late \union {Requested(c)}}
  /\ UNCHANGED log

\* A mutant: the highest offset at the time of the answer.
AnswerHighest(r) == Len(log) - 1

Answer(r) == r.off

\* The answer is sent, unless the client is gone.
SendOffset(c) ==
  /\ rpc[c].st = "applied"
  /\ Become(c, IF rpc[c].ctx = "cancelled" THEN Goto(rpc[c], "done")
               ELSE [rpc[c] EXCEPT !.out = Append(@, Answer(rpc[c])),
                                   !.st = IF Stream(c) THEN "recv" ELSE "done"])
  /\ UNCHANGED <<log, late>>

-----------------------------------------------------------------------------
(* Consume, and ConsumeStream, which calls it in a loop *)

\* Mutants: the stream steps over an offset that is not there yet; it returns.
OutOfRangeSkips(r) == [r EXCEPT !.no = @ + 1]
OutOfRangeReturns(r) == Goto(r, "done")

\* ErrOffsetOutOfRange: the stream tries again, at once.
OutOfRange(r) == IF r.method = "ConsumeStream" THEN r ELSE Goto(r, "done")

\* A mutant: the loop does not look at the context.
DoneNever(r) == FALSE

\* <-stream.Context().Done()
Done(r) == r.method = "ConsumeStream" /\ r.ctx = "cancelled"

Consume(c) ==
  /\ rpc[c].st = "read"
  /\ Become(c, IF Done(rpc[c]) \/ ~Authorize(c, "consume") THEN Goto(rpc[c], "done")
               ELSE IF rpc[c].no < Len(log) THEN Goto(rpc[c], "send")
               ELSE OutOfRange(rpc[c]))
  /\ UNCHANGED <<log, late>>

\* Read has found the segment of the offset and fails in it: the call returns
\* the error, a stream too.
ReadFails(c) ==
  /\ rpc[c].st = "read" /\ ~Done(rpc[c]) /\ Authorize(c, "consume")
  /\ rpc[c].no < Len(log)
  /\ Become(c, Fails(rpc[c]))
  /\ UNCHANGED <<log, late>>

SendRecord(c) ==
  /\ rpc[c].st = "send"
  /\ Become(c, IF rpc[c].ctx = "cancelled" THEN Goto(rpc[c], "done")
               ELSE [rpc[c] EXCEPT !.out = Append(@, log[rpc[c].no + 1]), !.no = @ + 1,
                                   !.st = IF Stream(c) THEN "read" ELSE "done"])
  /\ UNCHANGED <<log, late>>

handler(c) ==
  Produce(c) \/ RecvFails(c) \/ AppendApplied(c) \/ AppendFails(c) \/ SendOffset(c)
  \/ Consume(c) \/ ReadFails(c) \/ SendRecord(c)

\* What the server does by itself, once it has a request.
Running(c) ==
  (Produce(c) /\ ~Stream(c)) \/ RecvFails(c) \/ AppendApplied(c) \/ AppendFails(c)
  \/ SendOffset(c) \/ Consume(c) \/ ReadFails(c) \/ SendRecord(c)

-----------------------------------------------------------------------------
(* Raft, external: records of other nodes, and those that are given up late *)

Replicated(r) ==
  /\ Len(log) < MaxRecords
  /\ r \in late \union {[from |-> Others, no |-> 0]}
  /\ log' = Append(log, r)
  /\ late' = late \ {r}
  /\ UNCHANGED rpc

-----------------------------------------------------------------------------
(* Properties *)

\* A ConsumeStream sends the records from its offset on, each once and in the
\* order of the log, however often it has run past the end.
StreamFollowsLog ==
  \A c \in Client : rpc[c].method \in {"Consume", "ConsumeStream"} =>
    rpc[c].out = SubSeq(log, rpc[c].start + 1, rpc[c].start + Len(rpc[c].out))

\* The answers on a ProduceStream come in the order of its requests, and each
\* names the offset of its own record, whoever else produces meanwhile.
AnswersNameRecords ==
  \A c \in Client : rpc[c].method \in {"Produce", "ProduceStream"} =>
    \A i \in DOMAIN rpc[c].out : log[rpc[c].out[i] + 1] = [from |-> c, no |-> i]

\* When a ProduceStream ends, in whatever way, the client is in doubt about one
\* record at most: all it had an answer for are in the log once, and of the
\* others only the next can be, now or later.
OneInDoubt ==
  \A c \in Client :
    LET mine == {i \in DOMAIN log : log[i].from = c}
    IN /\ \A i, j \in mine : log[i] = log[j] => i = j
       /\ {log[i].no : i \in mine} \union {r.no : r \in {q \in late : q.from = c}}
            \subseteq 1 .. (IF rpc[c].method \in {"Produce", "ProduceStream"}
                              THEN Len(rpc[c].out) + 1 ELSE 0)

-----------------------------------------------------------------------------
(* The inductive invariant of the handlers *)

Producing(c) == rpc[c].method \in {"Produce", "ProduceStream"}
Consuming(c) == rpc[c].method \in {"Consume", "ConsumeStream"}

\* What is known of a call of this method.
Rpc(method) ==
  LET produces == method \in {"Produce", "ProduceStream"}
      consumes == method \in {"Consume", "ConsumeStream"}
  IN [method : {method},
      st : IF produces THEN {"recv", "append", "applied", "done"}
           ELSE IF consumes THEN {"read", "send", "done"} ELSE {"none"},
      no : Nat, start : Nat, off : Nat,
      out : IF consumes THEN Seq(Record) ELSE Seq(Nat),
      ctx : {"live", "cancelled", "error"}]

ServerTypeOK ==
  /\ log \in Seq(Record) /\ late \subseteq [from : Client, no : Nat]
  /\ rpc = [c \in Client |-> rpc[c]]
  /\ \A c \in Client :
       /\ rpc[c].method \in {"none", "Produce", "ProduceStream", "Consume", "ConsumeStream"}
       /\ rpc[c] \in Rpc(rpc[c].method)

\* A producer waits for one answer at a time. What it has answered, and what it
\* is about to answer, are the offsets of its own requests.
ProducerOK(c) ==
  /\ rpc[c].st = "recv" => rpc[c].no = Len(rpc[c].out)
  /\ rpc[c].st \in {"append", "applied"} => rpc[c].no = Len(rpc[c].out) + 1
  /\ rpc[c].st = "applied" => rpc[c].off < Len(log) /\ log[rpc[c].off + 1] = Requested(c)
  /\ \A i \in 1 .. Len(rpc[c].out) :
       rpc[c].out[i] < Len(log) /\ log[rpc[c].out[i] + 1] = [from |-> c, no |-> i]

\* A consumer has sent the records from start on and reads the next one.
ConsumerOK(c) ==
  /\ rpc[c].no = rpc[c].start + Len(rpc[c].out)
  /\ rpc[c].out # <<>> => rpc[c].no <= Len(log)
  /\ rpc[c].st = "send" => rpc[c].no < Len(log)
  /\ \A i \in 1 .. Len(rpc[c].out) : rpc[c].out[i] = log[rpc[c].start + i]

\* The requests of c that raft has or may still have: those that are answered,
\* and one more once it is out of the handler's hands.
Reach(c) ==
  IF ~Producing(c) THEN 0
  ELSE IF rpc[c].st \in {"applied", "done"} THEN Len(rpc[c].out) + 1
  ELSE Len(rpc[c].out)

WithinReach(r) == r.from \in Client => r.no \in 1 .. Reach(r.from)

\* No request is in the log twice, and one that may still come is not there.
RecordsOK ==
  /\ \A i \in 1 .. Len(log) : WithinReach(log[i])
  /\ \A r \in late : WithinReach(r) /\ \A i \in 1 .. Len(log) : log[i] # r
  /\ \A i, j \in 1 .. Len(log) : log[i].from \in Client /\ log[i] = log[j] => i = j

\* What each step of a handler preserves: a stream is where its offset says, and
\* what a client was told, may have to doubt and has in the log are one account.
ServerInv ==
  /\ ServerTypeOK /\ RecordsOK
  /\ \A c \in Client : /\ Producing(c) => ProducerOK(c)
                       /\ Consuming(c) => ConsumerOK(c)
=============================================================================
