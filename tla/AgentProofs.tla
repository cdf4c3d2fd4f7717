----------------------------- MODULE AgentProofs -----------------------------
(***************************************************************************)
(* The handlers of the gRPC service and the agent around them, for any     *)
(* clients, policy, calls and bounds. ServerInv is preserved by each step  *)
(* of a client, a handler or raft, AgentInv by each step of the agent.     *)
(***************************************************************************)
EXTENDS Agent, SequenceTheorems, TLAPS

-----------------------------------------------------------------------------
(* Handlers *)

\* A sequence that agrees with another from a on is a piece of it.
LEMMA PieceOfSequence ==
  ASSUME NEW S, NEW s \in Seq(S), NEW o \in Seq(S), NEW a \in Nat,
         o # <<>> => a + Len(o) <= Len(s),
         \A i \in 1 .. Len(o) : o[i] = s[a + i]
  PROVE  o = SubSeq(s, a + 1, a + Len(o))
<1> PICK n \in Nat : n = Len(o)
  BY LenProperties
<1> PICK m \in Nat : m = Len(s)
  BY LenProperties
<1>1. CASE n = 0
  <2>1. o = <<>>
    BY <1>1, EmptySeq
  <2>2. SubSeq(s, a + 1, a + n) = <<>>
    <3>1. a + 1 \in Int /\ a + n \in Int /\ a + n < a + 1
      BY <1>1
    <3>2. QED
      BY <3>1, SubSeqEmpty
  <2>3. QED
    BY <2>1, <2>2
<1>2. CASE n # 0
  <2> DEFINE t == SubSeq(s, a + 1, a + n)
  <2>1. a + n <= m
    BY <1>2
  <2>2. \A i \in a + 1 .. a + n : s[i] \in S
    <3>1. s \in [1 .. m -> S]
      BY LenProperties
    <3>2. QED
      BY <2>1, <3>1
  <2>3. t \in Seq(S) /\ Len(t) = n /\ \A i \in 1 .. n : t[i] = s[a + i]
    <3>1. a + 1 \in Int /\ a + n \in Int /\ (a + n) - (a + 1) + 1 = n
      OBVIOUS
    <3>2. /\ t \in Seq(S)
          /\ Len(t) = IF a + 1 <= a + n THEN (a + n) - (a + 1) + 1 ELSE 0
          /\ \A i \in 1 .. (a + n) - (a + 1) + 1 : t[i] = s[(a + 1) + i - 1]
      BY <2>2, <3>1, SubSeqProperties
    <3> HIDE DEF t
    <3>3. QED
      BY <1>2, <3>2
  <2> HIDE DEF t
  <2>4. o \in [1 .. n -> S] /\ t \in [1 .. n -> S]
    BY <2>3, LenProperties
  <2>5. o = t
    BY <2>3, <2>4
  <2>6. QED
    BY <2>5 DEF t
<1>3. QED
  BY <1>1, <1>2

\* The fields of a call have their types.
LEMMA CallFields ==
  ASSUME ServerTypeOK, NEW c \in Client
  PROVE  /\ rpc[c].method \in {"none", "Produce", "ProduceStream", "Consume", "ConsumeStream"}
         /\ rpc[c].no \in Nat /\ rpc[c].start \in Nat /\ rpc[c].off \in Nat
         /\ rpc[c].ctx \in {"live", "cancelled", "error"}
         /\ Producing(c) => /\ rpc[c].st \in {"recv", "append", "applied", "done"}
                            /\ rpc[c].out \in Seq(Nat)
         /\ Consuming(c) => /\ rpc[c].st \in {"read", "send", "done"}
                            /\ rpc[c].out \in Seq(Record)
         /\ ~Producing(c) /\ ~Consuming(c) => rpc[c].st = "none"
  BY DEF ServerTypeOK, Producing, Consuming, Rpc

\* The log after a step: what it was, or one record more.
Extends == \/ log' = log
           \/ \E r \in Record : log' = Append(log, r)

\* A log that only grows keeps the records that were there.
LEMMA LogGrows ==
  ASSUME log \in Seq(Record), Extends
  PROVE  /\ log' \in Seq(Record) /\ Len(log) \in Nat /\ Len(log') \in Nat
         /\ Len(log) <= Len(log')
         /\ \A i \in 1 .. Len(log) : log'[i] = log[i]
  BY DEF Extends

\* A call that is left alone is as good as before whatever comes to the log.
LEMMA OtherCall ==
  ASSUME ServerInv, NEW c \in Client, Extends, rpc'[c] = rpc[c]
  PROVE  /\ Producing(c)' => ProducerOK(c)'
         /\ Consuming(c)' => ConsumerOK(c)'
         /\ Reach(c)' = Reach(c)
<1>1. log \in Seq(Record) /\ ServerTypeOK
  BY DEF ServerInv, ServerTypeOK
<1>2. /\ Len(log) \in Nat /\ Len(log') \in Nat /\ Len(log) <= Len(log')
      /\ \A i \in 1 .. Len(log) : log'[i] = log[i]
  BY <1>1, LogGrows
<1>3. /\ rpc[c].no \in Nat /\ rpc[c].start \in Nat /\ rpc[c].off \in Nat
      /\ Producing(c) => rpc[c].out \in Seq(Nat)
      /\ Consuming(c) => rpc[c].out \in Seq(Record)
  BY <1>1, CallFields
<1>4. ASSUME Producing(c)' PROVE ProducerOK(c)'
  <2>1. Producing(c) /\ ProducerOK(c)
    BY <1>4 DEF ServerInv, Producing
  <2>2. rpc[c].out \in Seq(Nat) /\ Len(rpc[c].out) \in Nat
    BY <1>3, <2>1
  <2>3. \A i \in 1 .. Len(rpc[c].out) :
          rpc[c].out[i] < Len(log') /\ log'[rpc[c].out[i] + 1] = [from |-> c, no |-> i]
    <3> SUFFICES ASSUME NEW i \in 1 .. Len(rpc[c].out)
                 PROVE  /\ rpc[c].out[i] < Len(log')
                        /\ log'[rpc[c].out[i] + 1] = [from |-> c, no |-> i]
      OBVIOUS
    <3>1. rpc[c].out[i] \in Nat
      BY <2>2
    <3>2. rpc[c].out[i] < Len(log) /\ log[rpc[c].out[i] + 1] = [from |-> c, no |-> i]
      BY <2>1 DEF ProducerOK
    <3>3. rpc[c].out[i] + 1 \in 1 .. Len(log)
      BY <1>2, <3>1, <3>2, SMTT(30)
    <3>4. QED
      BY <1>2, <3>1, <3>2, <3>3
  <2>4. rpc[c].st = "applied"
          => rpc[c].off < Len(log') /\ log'[rpc[c].off + 1] = Requested(c)
    <3>1. rpc[c].st = "applied"
            => rpc[c].off < Len(log) /\ log[rpc[c].off + 1] = Requested(c)
      BY <2>1 DEF ProducerOK
    <3>2. rpc[c].off < Len(log) => rpc[c].off + 1 \in 1 .. Len(log)
      BY <1>2, <1>3
    <3>3. QED
      BY <1>2, <1>3, <3>1, <3>2
  <2>5. QED
    BY <2>1, <2>3, <2>4 DEF ProducerOK, Requested
<1>5. ASSUME Consuming(c)' PROVE ConsumerOK(c)'
  <2>1. Consuming(c) /\ ConsumerOK(c)
    BY <1>5 DEF ServerInv, Consuming
  <2>2. rpc[c].out \in Seq(Record) /\ Len(rpc[c].out) \in Nat
    BY <1>3, <2>1
  <2>3. \A i \in 1 .. Len(rpc[c].out) : rpc[c].start + i \in 1 .. Len(log)
    BY <1>2, <1>3, <2>1, <2>2, SMTT(30) DEF ConsumerOK
  <2>4. \A i \in 1 .. Len(rpc[c].out) : rpc[c].out[i] = log'[rpc[c].start + i]
    BY <1>2, <2>1, <2>3 DEF ConsumerOK
  <2>5. QED
    BY <1>2, <1>3, <2>1, <2>2, <2>4, SMTT(30) DEF ConsumerOK
<1>6. Reach(c)' = Reach(c)
  BY DEF Reach, Producing
<1>7. QED
  BY <1>4, <1>5, <1>6

\* When neither log nor late changes, records stay within reach of a call that
\* only goes on.
LEMMA RecordsStay ==
  ASSUME ServerInv, NEW c \in Client, UNCHANGED <<log, late>>,
         \A d \in Client \ {c} : rpc'[d] = rpc[d],
         Reach(c) \in Nat, Reach(c)' \in Nat, Reach(c) <= Reach(c)'
  PROVE  RecordsOK'
<1>1. \A d \in Client \ {c} : Reach(d)' = Reach(d)
  BY DEF Reach, Producing
<1>2. RecordsOK
  BY DEF ServerInv
<1>3. ASSUME NEW r, WithinReach(r)
      PROVE  r.from \in Client => r.no \in 1 .. Reach(r.from)'
  BY <1>1, <1>3 DEF WithinReach
<1>4. \A i \in 1 .. Len(log) : log[i].from \in Client => log[i].no \in 1 .. Reach(log[i].from)'
  BY <1>2, <1>3 DEF RecordsOK
<1>5. \A r \in late : r.from \in Client => r.no \in 1 .. Reach(r.from)'
  BY <1>2, <1>3 DEF RecordsOK
<1>6. QED
  BY <1>2, <1>4, <1>5 DEF RecordsOK, WithinReach

\* A step of one call: what has to be shown of it.
LEMMA OneCallMoves ==
  ASSUME ServerInv, NEW c \in Client, NEW r, Become(c, r), Extends,
         late' \subseteq [from : Client, no : Nat],
         r.method \in {"none", "Produce", "ProduceStream", "Consume", "ConsumeStream"},
         r \in Rpc(r.method),
         Producing(c)' => ProducerOK(c)', Consuming(c)' => ConsumerOK(c)',
         RecordsOK'
  PROVE  ServerInv'
<1>1. ServerTypeOK
  BY DEF ServerInv
<1>2. rpc'[c] = r /\ rpc' = [d \in Client |-> rpc'[d]]
      /\ \A d \in Client \ {c} : rpc'[d] = rpc[d]
  BY <1>1 DEF Become, ServerTypeOK
<1>3. log' \in Seq(Record)
  BY <1>1, LogGrows DEF ServerTypeOK
<1>4. ServerTypeOK'
  <2>1. \A d \in Client :
          /\ rpc'[d].method \in {"none", "Produce", "ProduceStream", "Consume", "ConsumeStream"}
          /\ rpc'[d] \in Rpc(rpc'[d].method)
    BY <1>1, <1>2 DEF ServerTypeOK
  <2>2. QED
    BY <1>2, <1>3, <2>1 DEF ServerTypeOK, Rpc, Record
<1>5. \A d \in Client : /\ Producing(d)' => ProducerOK(d)'
                        /\ Consuming(d)' => ConsumerOK(d)'
  BY <1>2, OtherCall
<1>6. QED
  BY <1>4, <1>5 DEF ServerInv

\* The reach of a call is a number of requests.
LEMMA ReachType ==
  ASSUME ServerTypeOK, NEW c \in Client
  PROVE  Reach(c) \in Nat
<1>1. Producing(c) => Len(rpc[c].out) \in Nat
  BY CallFields
<1>2. QED
  BY <1>1 DEF Reach, Producing

\* A call after a change of its position, its state and its context.
LEMMA CallGoesOn ==
  ASSUME ServerInv, NEW c \in Client, NEW r, UNCHANGED <<log, late>>, Become(c, r),
         r.method = rpc[c].method, r \in Rpc(r.method),
         r.start = rpc[c].start, r.out = rpc[c].out,
         \/ r.st = "done" /\ r.no = rpc[c].no
         \/ r.st = rpc[c].st /\ r.no = rpc[c].no /\ r.off = rpc[c].off
         \/ rpc[c].st = "recv" /\ r.st = "append" /\ r.no = rpc[c].no + 1
         \/ rpc[c].st = "read" /\ r.st = "send" /\ r.no = rpc[c].no /\ rpc[c].no < Len(log)
  PROVE  ServerInv'
<1>1. ServerTypeOK /\ RecordsOK /\ Extends
  BY DEF ServerInv, Extends
<1>2. rpc'[c] = r /\ \A d \in Client \ {c} : rpc'[d] = rpc[d]
  BY <1>1 DEF Become, ServerTypeOK
<1>3. /\ rpc[c].method \in {"none", "Produce", "ProduceStream", "Consume", "ConsumeStream"}
      /\ rpc[c].no \in Nat
      /\ Producing(c) => /\ rpc[c].st \in {"recv", "append", "applied", "done"}
                         /\ Len(rpc[c].out) \in Nat
  BY <1>1, CallFields
<1>4. Producing(c)' => ProducerOK(c)'
  <2> SUFFICES ASSUME Producing(c)' PROVE ProducerOK(c)'
    OBVIOUS
  <2>1. Producing(c) /\ ProducerOK(c)
    BY <1>2 DEF ServerInv, Producing
  <2>2. QED
    BY <1>2, <1>3, <2>1 DEF ProducerOK, Requested, Producing
<1>5. Consuming(c)' => ConsumerOK(c)'
  <2> SUFFICES ASSUME Consuming(c)' PROVE ConsumerOK(c)'
    OBVIOUS
  <2>1. Consuming(c) /\ ConsumerOK(c)
    BY <1>2 DEF ServerInv, Consuming
  <2>2. rpc[c].st \in {"read", "send", "done"}
    BY <1>1, <2>1, CallFields
  <2>3. QED
    BY <1>2, <1>3, <2>1, <2>2 DEF ConsumerOK
<1>6. RecordsOK'
  <2>1. Producing(c)' <=> Producing(c)
    BY <1>2 DEF Producing
  <2>2. r.st \in {"applied", "done"} \/ rpc[c].st \notin {"applied", "done"}
    OBVIOUS
  <2>3. Reach(c)' \in Nat /\ Reach(c) <= Reach(c)'
    <3>1. CASE ~Producing(c)
      BY <2>1, <3>1 DEF Reach, Producing
    <3>2. CASE Producing(c)
      BY <1>2, <1>3, <2>1, <2>2, <3>2 DEF Reach, Producing
    <3>3. QED
      BY <3>1, <3>2
  <2>4. QED
    BY <1>1, <1>2, <2>3, ReachType, RecordsStay
<1>7. late' \subseteq [from : Client, no : Nat]
  BY <1>1 DEF ServerTypeOK
<1>8. QED
  BY <1>1, <1>3, <1>4, <1>5, <1>6, <1>7, OneCallMoves

LEMMA CancelInv ==
  ASSUME ServerInv, NEW c \in Client, Cancel(c)
  PROVE  ServerInv'
<1> DEFINE r == [rpc[c] EXCEPT !.ctx = "cancelled"]
<1>1. rpc[c] \in Rpc(rpc[c].method)
  BY DEF ServerInv, ServerTypeOK
<1>2. /\ r.method = rpc[c].method /\ r.start = rpc[c].start /\ r.out = rpc[c].out
      /\ r.st = rpc[c].st /\ r.no = rpc[c].no /\ r.off = rpc[c].off
      /\ r \in Rpc(r.method)
  BY <1>1 DEF Rpc
<1>3. UNCHANGED <<log, late>> /\ Become(c, r)
  BY DEF Cancel
<1> HIDE DEF r
<1>4. QED
  BY <1>2, <1>3, CallGoesOn

\* A handler that only changes its state.
LEMMA GotoInv ==
  ASSUME ServerInv, NEW c \in Client, NEW st, UNCHANGED <<log, late>>,
         Become(c, Goto(rpc[c], st)),
         \/ st = "done" /\ rpc[c].st # "none"
         \/ st = "send" /\ rpc[c].st = "read" /\ rpc[c].no < Len(log)
  PROVE  ServerInv'
<1> DEFINE r == Goto(rpc[c], st)
<1>1. rpc[c] \in Rpc(rpc[c].method)
  BY DEF ServerInv, ServerTypeOK
<1>2. /\ Producing(c) \/ Consuming(c)
      /\ rpc[c].st = "read" => Consuming(c)
  BY CallFields DEF ServerInv
<1>3. /\ r.method = rpc[c].method /\ r.start = rpc[c].start /\ r.out = rpc[c].out
      /\ r.st = st /\ r.no = rpc[c].no
  BY <1>1 DEF Rpc, Goto
<1>4. r \in Rpc(r.method)
  BY <1>1, <1>2, <1>3 DEF Rpc, Goto, Producing, Consuming
<1> HIDE DEF r
<1>5. QED
  BY <1>3, <1>4, CallGoesOn DEF r

LEMMA ProduceInv ==
  ASSUME ServerInv, NEW c \in Client, Produce(c)
  PROVE  ServerInv'
<1>1. CASE ~Authorize(c, "produce")
  BY <1>1, GotoInv DEF Produce
<1>2. CASE Authorize(c, "produce")
  <2>1. rpc[c] \in Rpc(rpc[c].method) /\ rpc[c].no \in Nat /\ Producing(c)
    BY CallFields DEF ServerInv, ServerTypeOK, Produce
  <2> PICK n \in Nat : n = rpc[c].no + 1
    BY <2>1
  <2> DEFINE r == [rpc[c] EXCEPT !.st = "append", !.no = n]
  <2>2. /\ r.method = rpc[c].method /\ r.start = rpc[c].start /\ r.out = rpc[c].out
        /\ r.st = "append" /\ r.no = rpc[c].no + 1
    BY <2>1 DEF Rpc
  <2>3. r \in Rpc(rpc[c].method)
    BY <2>1 DEF Rpc, Producing
  <2>4. UNCHANGED <<log, late>> /\ Become(c, r) /\ rpc[c].st = "recv"
    BY <1>2 DEF Produce
  <2> HIDE DEF r
  <2>5. QED
    BY <2>2, <2>3, <2>4, CallGoesOn
<1>3. QED
  BY <1>1, <1>2

LEMMA RecvFailsInv ==
  ASSUME ServerInv, NEW c \in Client, RecvFails(c)
  PROVE  ServerInv'
  BY GotoInv DEF RecvFails

LEMMA ConsumeInv ==
  ASSUME ServerInv, NEW c \in Client, Consume(c)
  PROVE  ServerInv'
<1>1. CASE Become(c, rpc[c])
  <2>1. rpc[c] \in Rpc(rpc[c].method)
    BY DEF ServerInv, ServerTypeOK
  <2>2. QED
    BY <1>1, <2>1, CallGoesOn DEF Consume
<1>2. CASE Become(c, Goto(rpc[c], "done"))
  BY <1>2, GotoInv DEF Consume
<1>3. CASE Become(c, Goto(rpc[c], "send")) /\ rpc[c].no < Len(log)
  BY <1>3, GotoInv DEF Consume
<1>4. QED
  BY <1>1, <1>2, <1>3 DEF Consume, OutOfRange

LEMMA ReadFailsInv ==
  ASSUME ServerInv, NEW c \in Client, ReadFails(c)
  PROVE  ServerInv'
<1> DEFINE r == Fails(rpc[c])
<1>1. rpc[c] \in Rpc(rpc[c].method) /\ Consuming(c)
  BY CallFields DEF ServerInv, ServerTypeOK, ReadFails
<1>2. /\ r.method = rpc[c].method /\ r.start = rpc[c].start /\ r.out = rpc[c].out
      /\ r.st = "done" /\ r.no = rpc[c].no
  BY <1>1 DEF Rpc, Fails
<1>3. r \in Rpc(r.method)
  BY <1>1, <1>2 DEF Rpc, Fails, Consuming
<1>4. UNCHANGED <<log, late>> /\ Become(c, r)
  BY DEF ReadFails
<1> HIDE DEF r
<1>5. QED
  BY <1>2, <1>3, <1>4, CallGoesOn

LEMMA CallInv ==
  ASSUME ServerInv, NEW c \in Client, NEW call \in Calls[c], Call(c, call[1], call[2])
  PROVE  ServerInv'
<1> DEFINE produces == call[1] \in {"Produce", "ProduceStream"}
           r0 == [NoCall EXCEPT
                    !.method = call[1], !.no = call[2], !.start = call[2],
                    !.st = IF call[1] \in {"Produce", "ProduceStream"} THEN "recv" ELSE "read"]
<1>1. /\ call[1] \in {"Produce", "ProduceStream", "Consume", "ConsumeStream"}
      /\ call[2] \in Nat /\ (produces => call[2] = 0)
  BY ServerAssumption
<1> PICK r \in {r0, Fails(r0)} : Become(c, r)
  BY DEF Call
<1>2. rpc[c] = NoCall /\ Become(c, r) /\ UNCHANGED <<log, late>>
  BY DEF Call
<1> PICK k \in Nat : k = call[2]
  BY <1>1
<1> PICK m, st : m = call[1] /\ st = IF produces THEN "recv" ELSE "read"
  OBVIOUS
<1>3. PICK s, x : /\ s \in {st, "done"} /\ x \in {"live", "error"}
                  /\ r = [method |-> m, st |-> s, no |-> k, start |-> k, off |-> 0,
                          out |-> <<>>, ctx |-> x]
  <2>1. \/ r = [NoCall EXCEPT !.method = m, !.no = k, !.start = k, !.st = st]
        \/ r = [NoCall EXCEPT !.method = m, !.no = k, !.start = k, !.st = "done", !.ctx = "error"]
    BY DEF Fails, NoCall
  <2> HIDE DEF r0
  <2>2. CASE r = [NoCall EXCEPT !.method = m, !.no = k, !.start = k, !.st = st]
    <3>1. r = [method |-> m, st |-> st, no |-> k, start |-> k, off |-> 0,
               out |-> <<>>, ctx |-> "live"]
      BY <2>2 DEF NoCall
    <3>2. QED
      BY <3>1
  <2>3. CASE r = [NoCall EXCEPT !.method = m, !.no = k, !.start = k, !.st = "done", !.ctx = "error"]
    <3>1. r = [method |-> m, st |-> "done", no |-> k, start |-> k, off |-> 0,
               out |-> <<>>, ctx |-> "error"]
      BY <2>3 DEF NoCall
    <3>2. QED
      BY <3>1
  <2>4. QED
    BY <2>1, <2>2, <2>3
<1> HIDE DEF r0
<1>4. /\ r.method = call[1] /\ r.no = call[2] /\ r.start = call[2] /\ r.out = <<>>
      /\ r.st \in {"done", IF produces THEN "recv" ELSE "read"}
      /\ r \in Rpc(call[1])
  <2>1. /\ r.method = m /\ r.no = k /\ r.start = k /\ r.out = <<>> /\ r.st \in {"done", st}
    BY <1>3
  <2>2. <<>> \in Seq(Nat) /\ <<>> \in Seq(Record)
    OBVIOUS
  <2>3. CASE produces
    BY <1>1, <1>3, <2>2, <2>3 DEF Rpc
  <2>4. CASE ~produces
    BY <1>1, <1>3, <2>2, <2>4 DEF Rpc
  <2>5. QED
    BY <2>1, <2>3, <2>4
<1>5. ServerTypeOK /\ Extends
  BY <1>2 DEF ServerInv, Extends
<1>6. rpc'[c] = r /\ \A d \in Client \ {c} : rpc'[d] = rpc[d]
  BY <1>2, <1>5 DEF Become, ServerTypeOK
<1>7. Producing(c)' => ProducerOK(c)'
  BY <1>1, <1>4, <1>6 DEF Producing, ProducerOK
<1>8. Consuming(c)' => ConsumerOK(c)'
  BY <1>1, <1>4, <1>6 DEF Consuming, ConsumerOK
<1>9. RecordsOK'
  <2>1. Reach(c) = 0 /\ Reach(c)' \in {0, 1}
    BY <1>2, <1>4, <1>6 DEF Reach, Producing, NoCall
  <2>2. QED
    BY <1>2, <1>6, <2>1, RecordsStay
<1>10. late' \subseteq [from : Client, no : Nat]
  BY <1>2, <1>5 DEF ServerTypeOK
<1>11. QED
  BY <1>1, <1>2, <1>4, <1>5, <1>7, <1>8, <1>9, <1>10, OneCallMoves

\* The record goes to the end of the log as the next one of its client.
LEMMA AppendAppliedInv ==
  ASSUME ServerInv, NEW c \in Client, AppendApplied(c)
  PROVE  ServerInv'
<1>1. ServerTypeOK /\ RecordsOK /\ log \in Seq(Record)
  BY DEF ServerInv, ServerTypeOK
<1>2. PICK n \in Nat : n = Len(log)
  BY <1>1
<1> PICK q : q = Requested(c)
  OBVIOUS
<1> DEFINE r == [rpc[c] EXCEPT !.st = "applied", !.off = n]
<1>3. /\ rpc[c].st = "append" /\ Become(c, r) /\ log' = Append(log, q) /\ late' = late
  BY <1>2 DEF AppendApplied
<1>4. Producing(c) /\ rpc[c] \in Rpc(rpc[c].method) /\ rpc[c].no \in Nat
      /\ rpc[c].out \in Seq(Nat)
      /\ rpc[c].method \in {"none", "Produce", "ProduceStream", "Consume", "ConsumeStream"}
  BY <1>1, <1>3, CallFields DEF ServerTypeOK
<1>5. ProducerOK(c) /\ rpc[c].no = Len(rpc[c].out) + 1
  BY <1>3, <1>4 DEF ServerInv, ProducerOK
<1>6. /\ r.method = rpc[c].method /\ r.no = rpc[c].no /\ r.out = rpc[c].out
      /\ r.st = "applied" /\ r.off = n
  BY <1>4 DEF Rpc
<1>7. r \in Rpc(rpc[c].method)
  BY <1>4 DEF Rpc, Producing
<1> HIDE DEF r
<1>8. rpc'[c] = r /\ \A d \in Client \ {c} : rpc'[d] = rpc[d]
  BY <1>1, <1>3 DEF Become, ServerTypeOK
<1>9. q \in Record /\ q.from = c /\ q.no = rpc[c].no
  BY <1>4 DEF Requested, Record
<1>10. /\ log' \in Seq(Record) /\ Len(log') = n + 1 /\ log'[n + 1] = q
       /\ \A i \in 1 .. n : log'[i] = log[i]
  BY <1>1, <1>2, <1>3, <1>9
<1>11. Extends
  BY <1>3, <1>9 DEF Extends
<1>12. ProducerOK(c)'
  <2>1. q = [from |-> c, no |-> r.no]
    BY <1>6 DEF Requested
  <2>2. \A i \in 1 .. Len(rpc[c].out) :
          rpc[c].out[i] < Len(log') /\ log'[rpc[c].out[i] + 1] = [from |-> c, no |-> i]
    <3> SUFFICES ASSUME NEW i \in 1 .. Len(rpc[c].out)
                 PROVE  /\ rpc[c].out[i] < Len(log')
                        /\ log'[rpc[c].out[i] + 1] = [from |-> c, no |-> i]
      OBVIOUS
    <3>1. rpc[c].out[i] \in Nat
      BY <1>4
    <3>2. rpc[c].out[i] < n /\ log[rpc[c].out[i] + 1] = [from |-> c, no |-> i]
      BY <1>2, <1>5 DEF ProducerOK
    <3>3. rpc[c].out[i] + 1 \in 1 .. n
      BY <3>1, <3>2
    <3>4. QED
      BY <1>10, <3>1, <3>2, <3>3
  <2>3. r.no = Len(r.out) + 1 /\ r.off < Len(log') /\ log'[r.off + 1] = q
    BY <1>5, <1>6, <1>10
  <2>4. QED
    BY <1>6, <1>8, <2>1, <2>2, <2>3 DEF ProducerOK, Requested
<1>13. ~Consuming(c)'
  BY <1>4, <1>6, <1>8 DEF Producing, Consuming
<1>14. RecordsOK'
  <2>1. /\ Reach(c) = Len(rpc[c].out) /\ Reach(c)' = rpc[c].no
        /\ \A d \in Client \ {c} : Reach(d)' = Reach(d)
    BY <1>3, <1>4, <1>5, <1>6, <1>8 DEF Reach, Producing
  <2>2. \A x : WithinReach(x) => WithinReach(x)' /\ x # q
    BY <1>4, <1>5, <1>9, <2>1 DEF WithinReach
  <2>3. WithinReach(q)'
    BY <1>4, <1>5, <1>9, <2>1 DEF WithinReach
  <2>4. \A i \in 1 .. n : WithinReach(log[i]) /\ log[i] # q
    BY <1>1, <1>2, <2>2 DEF RecordsOK
  <2>5. \A i \in 1 .. Len(log') : WithinReach(log[i])'
    <3> SUFFICES ASSUME NEW i \in 1 .. Len(log') PROVE WithinReach(log[i])'
      OBVIOUS
    <3> PICK x : x = log'[i]
      OBVIOUS
    <3>1. WithinReach(x)'
      BY <1>10, <2>2, <2>3, <2>4
    <3>2. QED
      BY <3>1 DEF WithinReach
  <2>6. \A x \in late' : WithinReach(x)' /\ \A i \in 1 .. Len(log') : log'[i] # x
    BY <1>1, <1>2, <1>3, <1>10, <2>2 DEF RecordsOK
  <2>7. \A i, j \in 1 .. Len(log') : log'[i].from \in Client /\ log'[i] = log'[j] => i = j
    BY <1>1, <1>2, <1>10, <2>4 DEF RecordsOK
  <2>8. QED
    BY <2>5, <2>6, <2>7 DEF RecordsOK
<1>15. late' \subseteq [from : Client, no : Nat]
  BY <1>1, <1>3 DEF ServerTypeOK
<1>16. QED
  BY <1>3, <1>4, <1>6, <1>7, <1>11, <1>12, <1>13, <1>14, <1>15, OneCallMoves

\* Append fails: the handler is done, and raft may have the record still.
LEMMA AppendFailsInv ==
  ASSUME ServerInv, NEW c \in Client, AppendFails(c)
  PROVE  ServerInv'
<1>1. ServerTypeOK /\ RecordsOK /\ log \in Seq(Record)
  BY DEF ServerInv, ServerTypeOK
<1> PICK q : q = Requested(c)
  OBVIOUS
<1> DEFINE r == Goto(rpc[c], "done")
<1>2. /\ rpc[c].st = "append" /\ Become(c, r) /\ log' = log
      /\ late' \in {late, late \union {q}}
  BY DEF AppendFails, AfterError
<1>3. Producing(c) /\ rpc[c] \in Rpc(rpc[c].method) /\ rpc[c].no \in Nat
      /\ rpc[c].out \in Seq(Nat)
      /\ rpc[c].method \in {"none", "Produce", "ProduceStream", "Consume", "ConsumeStream"}
  BY <1>1, <1>2, CallFields DEF ServerTypeOK
<1>4. ProducerOK(c) /\ rpc[c].no = Len(rpc[c].out) + 1
  BY <1>2, <1>3 DEF ServerInv, ProducerOK
<1>5. r.method = rpc[c].method /\ r.out = rpc[c].out /\ r.st = "done"
  BY <1>3 DEF Rpc, Goto
<1>6. r \in Rpc(rpc[c].method)
  BY <1>3 DEF Rpc, Producing, Goto
<1> HIDE DEF r
<1>7. rpc'[c] = r /\ \A d \in Client \ {c} : rpc'[d] = rpc[d]
  BY <1>1, <1>2 DEF Become, ServerTypeOK
<1>8. q \in [from : Client, no : Nat] /\ q.from = c /\ q.no = rpc[c].no
  BY <1>3 DEF Requested
<1>9. ProducerOK(c)'
  BY <1>2, <1>4, <1>5, <1>7 DEF ProducerOK
<1>10. ~Consuming(c)'
  BY <1>3, <1>5, <1>7 DEF Producing, Consuming
<1>11. RecordsOK'
  <2>1. /\ Reach(c) = Len(rpc[c].out) /\ Reach(c)' = rpc[c].no
        /\ \A d \in Client \ {c} : Reach(d)' = Reach(d)
    BY <1>2, <1>3, <1>4, <1>5, <1>7 DEF Reach, Producing
  <2>2. \A x : WithinReach(x) => WithinReach(x)' /\ x # q
    BY <1>3, <1>4, <1>8, <2>1 DEF WithinReach
  <2>3. WithinReach(q)'
    BY <1>3, <1>4, <1>8, <2>1 DEF WithinReach
  <2>4. \A i \in 1 .. Len(log) : WithinReach(log[i]) /\ log[i] # q
    BY <1>1, <2>2 DEF RecordsOK
  <2>5. \A i \in 1 .. Len(log') : WithinReach(log[i])'
    <3> SUFFICES ASSUME NEW i \in 1 .. Len(log') PROVE WithinReach(log[i])'
      OBVIOUS
    <3> PICK x : x = log'[i]
      OBVIOUS
    <3>1. WithinReach(x)'
      BY <1>2, <2>2, <2>4
    <3>2. QED
      BY <3>1 DEF WithinReach
  <2>6. \A x \in late' : WithinReach(x)' /\ \A i \in 1 .. Len(log') : log'[i] # x
    BY <1>1, <1>2, <2>2, <2>3, <2>4 DEF RecordsOK
  <2>7. \A i, j \in 1 .. Len(log') : log'[i].from \in Client /\ log'[i] = log'[j] => i = j
    BY <1>1, <1>2 DEF RecordsOK
  <2>8. QED
    BY <2>5, <2>6, <2>7 DEF RecordsOK
<1>12. late' \subseteq [from : Client, no : Nat] /\ Extends
  BY <1>1, <1>2, <1>8 DEF ServerTypeOK, Extends
<1>13. QED
  BY <1>2, <1>3, <1>5, <1>6, <1>9, <1>10, <1>11, <1>12, OneCallMoves

\* The offset that is sent is the one the record was applied at.
LEMMA SendOffsetInv ==
  ASSUME ServerInv, NEW c \in Client, SendOffset(c)
  PROVE  ServerInv'
<1>1. ServerTypeOK /\ RecordsOK
  BY DEF ServerInv
<1>2. Producing(c) /\ rpc[c] \in Rpc(rpc[c].method) /\ rpc[c].off \in Nat /\ rpc[c].no \in Nat
      /\ rpc[c].out \in Seq(Nat) /\ rpc[c].st = "applied"
      /\ rpc[c].method \in {"none", "Produce", "ProduceStream", "Consume", "ConsumeStream"}
  BY <1>1, CallFields DEF ServerTypeOK, SendOffset
<1>3. CASE rpc[c].ctx = "cancelled"
  BY <1>2, <1>3, GotoInv DEF SendOffset
<1>4. CASE rpc[c].ctx # "cancelled"
  <2>a. Append(rpc[c].out, rpc[c].off) \in Seq(Nat)
    BY <1>2
  <2> PICK o \in Seq(Nat) : o = Append(rpc[c].out, rpc[c].off)
    BY <2>a, Zenon
  <2> PICK st \in {"recv", "done"} : st = IF Stream(c) THEN "recv" ELSE "done"
    OBVIOUS
  <2> DEFINE r == [rpc[c] EXCEPT !.out = o, !.st = st]
  <2>1. Become(c, r) /\ UNCHANGED <<log, late>> /\ Extends
    BY <1>4 DEF SendOffset, Answer, Extends
  <2>2. ProducerOK(c) /\ rpc[c].no = Len(rpc[c].out) + 1
        /\ rpc[c].off < Len(log) /\ log[rpc[c].off + 1] = Requested(c)
    BY <1>2 DEF ServerInv, ProducerOK
  <2>3. /\ r.method = rpc[c].method /\ r.out = o /\ r.st = st /\ r.no = rpc[c].no
    BY <1>2 DEF Rpc
  <2>4. r \in Rpc(rpc[c].method)
    BY <1>2 DEF Rpc, Producing
  <2> HIDE DEF r
  <2>5. rpc'[c] = r /\ \A d \in Client \ {c} : rpc'[d] = rpc[d]
    BY <1>1, <2>1 DEF Become, ServerTypeOK
  <2>6. /\ Len(o) = Len(rpc[c].out) + 1 /\ o[Len(o)] = rpc[c].off
        /\ \A i \in 1 .. Len(rpc[c].out) : o[i] = rpc[c].out[i]
    BY <1>2
  <2>7. ProducerOK(c)'
    <3>1. \A i \in 1 .. Len(o) : o[i] < Len(log) /\ log[o[i] + 1] = [from |-> c, no |-> i]
      BY <1>2, <2>2, <2>6, SMTT(30) DEF ProducerOK, Requested
    <3>2. st = "recv" => r.no = Len(o)
      BY <2>2, <2>3, <2>6
    <3>3. QED
      BY <2>1, <2>3, <2>5, <3>1, <3>2 DEF ProducerOK
  <2>8. ~Consuming(c)'
    BY <1>2, <2>3, <2>5 DEF Producing, Consuming
  <2>9. RecordsOK'
    <3>1. Reach(c) = Len(rpc[c].out) + 1
      BY <1>2 DEF Reach
    <3>2. Reach(c)' \in {Len(o), Len(o) + 1}
      BY <1>2, <2>3, <2>5 DEF Reach, Producing
    <3>3. Reach(c) \in Nat /\ Reach(c)' \in Nat /\ Reach(c) <= Reach(c)'
      BY <1>2, <2>6, <3>1, <3>2
    <3>4. QED
      BY <2>1, <2>5, <3>3, RecordsStay
  <2>10. late' \subseteq [from : Client, no : Nat]
    BY <1>1, <2>1 DEF ServerTypeOK
  <2>11. QED
    BY <1>2, <2>1, <2>3, <2>4, <2>7, <2>8, <2>9, <2>10, OneCallMoves
<1>5. QED
  BY <1>3, <1>4

\* Arithmetic of an offset that has advanced by one.
LEMMA OneFurther ==
  ASSUME NEW k \in Nat, NEW a \in Nat, NEW l \in Nat, a + k < l
  PROVE  a + k + 1 = a + (k + 1) /\ a + k + 1 <= l
OBVIOUS

\* The record that is sent is the one after those that were.
LEMMA SendRecordInv ==
  ASSUME ServerInv, NEW c \in Client, SendRecord(c)
  PROVE  ServerInv'
<1>1. ServerTypeOK /\ RecordsOK /\ log \in Seq(Record) /\ Len(log) \in Nat
  BY DEF ServerInv, ServerTypeOK
<1>2. Consuming(c) /\ rpc[c] \in Rpc(rpc[c].method) /\ rpc[c].start \in Nat
      /\ rpc[c].no \in Nat /\ rpc[c].out \in Seq(Record) /\ rpc[c].st = "send"
      /\ rpc[c].method \in {"none", "Produce", "ProduceStream", "Consume", "ConsumeStream"}
  BY <1>1, CallFields DEF ServerTypeOK, SendRecord
<1>3. CASE rpc[c].ctx = "cancelled"
  BY <1>2, <1>3, GotoInv DEF SendRecord
<1>4. CASE rpc[c].ctx # "cancelled"
  <2>1. ConsumerOK(c) /\ rpc[c].no = rpc[c].start + Len(rpc[c].out) /\ rpc[c].no < Len(log)
    BY <1>2 DEF ServerInv, ConsumerOK
  <2>2. rpc[c].no + 1 \in 1 .. Len(log)
    BY <1>1, <1>2, <2>1
  <2>a. Append(rpc[c].out, log[rpc[c].no + 1]) \in Seq(Record)
    BY <1>1, <1>2, <2>2
  <2> PICK o \in Seq(Record) : o = Append(rpc[c].out, log[rpc[c].no + 1])
    BY <2>a, Zenon
  <2> PICK n \in Nat : n = rpc[c].no + 1
    BY <1>2
  <2> PICK st \in {"read", "done"} : st = IF Stream(c) THEN "read" ELSE "done"
    OBVIOUS
  <2> DEFINE r == [rpc[c] EXCEPT !.out = o, !.no = n, !.st = st]
  <2>3. Become(c, r) /\ UNCHANGED <<log, late>> /\ Extends
    BY <1>4 DEF SendRecord, Extends
  <2>4. /\ r.method = rpc[c].method /\ r.out = o /\ r.st = st /\ r.no = n
        /\ r.start = rpc[c].start
    BY <1>2 DEF Rpc
  <2>5. r \in Rpc(rpc[c].method)
    BY <1>2, ZenonT(60) DEF Rpc, Consuming
  <2> HIDE DEF r
  <2>6. rpc'[c] = r /\ \A d \in Client \ {c} : rpc'[d] = rpc[d]
    BY <1>1, <2>3 DEF Become, ServerTypeOK
  <2>7. /\ Len(o) = Len(rpc[c].out) + 1 /\ o[Len(o)] = log[n]
        /\ \A i \in 1 .. Len(rpc[c].out) : o[i] = rpc[c].out[i]
    BY <1>2
  <2>8. ConsumerOK(c)'
    <3>1. Len(rpc[c].out) \in Nat /\ n = rpc[c].start + Len(o) /\ n <= Len(log)
      <4>1. Len(rpc[c].out) \in Nat
        BY <1>2
      <4> PICK k \in Nat, a \in Nat, l \in Nat :
                 k = Len(rpc[c].out) /\ a = rpc[c].start /\ l = Len(log)
        BY <1>1, <1>2, <4>1, Zenon
      <4>2. Len(o) = k + 1 /\ n = a + k + 1 /\ a + k < l
        BY <2>1, <2>7
      <4>3. n = a + Len(o) /\ n <= l
        <5>1. a + k + 1 = a + (k + 1) /\ a + k + 1 <= l
          BY <4>2, OneFurther, Zenon
        <5>2. QED
          BY <4>2, <5>1, Zenon
      <4>4. QED
        BY <4>3, Zenon
    <3>2. \A i \in 1 .. Len(o) : o[i] = log[rpc[c].start + i]
      BY <1>2, <2>1, <2>7, <3>1, SMTT(30) DEF ConsumerOK
    <3>3. QED
      BY <2>3, <2>4, <2>6, <3>1, <3>2 DEF ConsumerOK
  <2>9. ~Producing(c)'
    BY <1>2, <2>4, <2>6 DEF Producing, Consuming
  <2>10. RecordsOK'
    <3>1. Reach(c) = 0 /\ Reach(c)' = 0
      BY <1>2, <2>9 DEF Reach, Producing, Consuming
    <3>2. QED
      BY <2>3, <2>6, <3>1, RecordsStay
  <2>11. late' \subseteq [from : Client, no : Nat]
    BY <1>1, <2>3 DEF ServerTypeOK
  <2>12. QED
    BY <1>2, <2>3, <2>4, <2>5, <2>8, <2>9, <2>10, <2>11, OneCallMoves
<1>5. QED
  BY <1>3, <1>4

\* Raft applies a record of another node, or one whose Append had failed.
LEMMA ReplicatedInv ==
  ASSUME ServerInv, NEW r \in late \union {[from |-> Others, no |-> 0]}, Replicated(r)
  PROVE  ServerInv'
<1>1. ServerTypeOK /\ RecordsOK /\ log \in Seq(Record) /\ Len(log) \in Nat
      /\ late \subseteq [from : Client, no : Nat]
  BY DEF ServerInv, ServerTypeOK
<1>2. r \in Record /\ (r.from \in Client => r \in late)
  BY <1>1, ServerAssumption DEF Record
<1>3. log' = Append(log, r) /\ late' = late \ {r} /\ rpc' = rpc /\ Extends
  BY <1>2 DEF Replicated, Extends
<1>4. /\ log' \in Seq(Record) /\ Len(log') = Len(log) + 1 /\ log'[Len(log) + 1] = r
      /\ \A i \in 1 .. Len(log) : log'[i] = log[i]
  BY <1>1, <1>2, <1>3
<1>5. ServerTypeOK'
  BY <1>1, <1>3, <1>4 DEF ServerTypeOK, Rpc, Record
<1>6. \A c \in Client : /\ Producing(c)' => ProducerOK(c)'
                        /\ Consuming(c)' => ConsumerOK(c)'
                        /\ Reach(c)' = Reach(c)
  BY <1>3, OtherCall
<1>7. RecordsOK'
  <2>1. \A x : WithinReach(x) => WithinReach(x)'
    BY <1>6 DEF WithinReach
  <2>2. WithinReach(r)
    BY <1>1, <1>2 DEF RecordsOK, WithinReach
  <2>3. \A i \in 1 .. Len(log') : WithinReach(log[i])'
    <3> SUFFICES ASSUME NEW i \in 1 .. Len(log') PROVE WithinReach(log[i])'
      OBVIOUS
    <3> PICK x : x = log'[i]
      OBVIOUS
    <3>1. WithinReach(x)'
      BY <1>1, <1>4, <2>1, <2>2 DEF RecordsOK
    <3>2. QED
      BY <3>1 DEF WithinReach
  <2>4. \A x \in late' : WithinReach(x)' /\ \A i \in 1 .. Len(log') : log'[i] # x
    BY <1>1, <1>3, <1>4, <2>1 DEF RecordsOK
  <2>5. \A i, j \in 1 .. Len(log') : log'[i].from \in Client /\ log'[i] = log'[j] => i = j
    BY <1>1, <1>2, <1>4 DEF RecordsOK
  <2>6. QED
    BY <2>3, <2>4, <2>5 DEF RecordsOK
<1>8. QED
  BY <1>5, <1>6, <1>7 DEF ServerInv

\* What the handlers promise follows from their invariant.
LEMMA ServerInvSuffices ==
  ASSUME ServerInv
  PROVE  StreamFollowsLog /\ AnswersNameRecords /\ OneInDoubt
<1>1. ServerTypeOK /\ RecordsOK /\ log \in Seq(Record) /\ Len(log) \in Nat
      /\ late \subseteq [from : Client, no : Nat]
  BY DEF ServerInv, ServerTypeOK
<1>2. StreamFollowsLog
  <2> SUFFICES ASSUME NEW c \in Client, Consuming(c)
               PROVE  rpc[c].out = SubSeq(log, rpc[c].start + 1, rpc[c].start + Len(rpc[c].out))
    BY DEF StreamFollowsLog, Consuming
  <2>1. ConsumerOK(c) /\ rpc[c].start \in Nat /\ rpc[c].out \in Seq(Record)
        /\ Len(rpc[c].out) \in Nat
    BY <1>1, CallFields DEF ServerInv
  <2> PICK a \in Nat : a = rpc[c].start
    BY <2>1
  <2> PICK o \in Seq(Record) : o = rpc[c].out
    BY <2>1
  <2>2. /\ o # <<>> => a + Len(o) <= Len(log)
        /\ \A i \in 1 .. Len(o) : o[i] = log[a + i]
    BY <2>1 DEF ConsumerOK
  <2>3. o = SubSeq(log, a + 1, a + Len(o))
    <3>1. log \in Seq(Record)
      BY <1>1
    <3>2. o \in Seq(Record) /\ a \in Nat
      OBVIOUS
    <3>3. o # <<>> => a + Len(o) <= Len(log)
      BY <2>2
    <3>4. \A i \in 1 .. Len(o) : o[i] = log[a + i]
      BY <2>2
    <3>5. QED
      BY ONLY <3>1, <3>2, <3>3, <3>4, PieceOfSequence, Zenon
  <2>4. QED
    BY <2>3
<1>3. AnswersNameRecords
  <2> SUFFICES ASSUME NEW c \in Client, Producing(c), NEW i \in DOMAIN rpc[c].out
               PROVE  log[rpc[c].out[i] + 1] = [from |-> c, no |-> i]
    BY DEF AnswersNameRecords, Producing
  <2>1. ProducerOK(c) /\ rpc[c].out \in Seq(Nat)
    BY <1>1, CallFields DEF ServerInv
  <2>2. QED
    BY <2>1 DEF ProducerOK
<1>4. OneInDoubt
  <2> SUFFICES ASSUME NEW c \in Client
               PROVE  LET mine == {i \in DOMAIN log : log[i].from = c}
                      IN /\ \A i, j \in mine : log[i] = log[j] => i = j
                         /\ {log[i].no : i \in mine}
                              \union {r.no : r \in {q \in late : q.from = c}}
                              \subseteq 1 .. (IF Producing(c) THEN Len(rpc[c].out) + 1 ELSE 0)
    BY DEF OneInDoubt, Producing
  <2> PICK top \in Nat : top = IF Producing(c) THEN Len(rpc[c].out) + 1 ELSE 0
    <3>1. Producing(c) => Len(rpc[c].out) \in Nat
      BY <1>1, CallFields
    <3>2. QED
      BY <3>1 DEF Producing
  <2>1. Reach(c) \in Nat /\ Reach(c) <= top
    <3>1. Reach(c) \in Nat
      BY <1>1, ReachType
    <3>2. CASE Producing(c)
      <4>1. Len(rpc[c].out) \in Nat
        BY <1>1, <3>2, CallFields
      <4>2. QED
        BY <3>1, <3>2, <4>1 DEF Reach, Producing
    <3>3. CASE ~Producing(c)
      BY <3>1, <3>3 DEF Reach, Producing
    <3>4. QED
      BY <3>2, <3>3
  <2>2. \A x : WithinReach(x) /\ x.from = c => x.no \in 1 .. top
    BY <2>1 DEF WithinReach
  <2>3. DOMAIN log = 1 .. Len(log)
    BY <1>1
  <2>4. /\ \A i \in DOMAIN log : WithinReach(log[i])
        /\ \A r \in late : WithinReach(r)
        /\ \A i, j \in DOMAIN log : log[i].from \in Client /\ log[i] = log[j] => i = j
    BY <1>1, <2>3 DEF RecordsOK
  <2>5. QED
    BY <2>2, <2>4
<1>5. QED
  BY <1>2, <1>3, <1>4

-----------------------------------------------------------------------------
(* The agent *)

\* A handler that takes a step, or whose client cancels, is one of an open call.
LEMMA OnlyOpenCallsAct ==
  ASSUME NEW c \in Client, Cancel(c) \/ Produce(c) \/ Running(c)
  PROVE  Open(c)
  BY DEF Cancel, Produce, Running, RecvFails, AppendApplied, AppendFails, SendOffset,
         Consume, ReadFails, SendRecord, Open

LEMMA AgentInitInv == AgentInit => ServerInv /\ AgentInv
<1> SUFFICES ASSUME AgentInit PROVE ServerInv /\ AgentInv
  OBVIOUS
<1>1. ServerInv
  <2>1. NoCall \in Rpc("none") /\ NoCall.method = "none"
    BY DEF NoCall, Rpc
  <2>2. log = <<>> /\ late = {} /\ rpc = [c \in Client |-> NoCall]
    BY DEF AgentInit, ServerInit
  <2>3. ServerTypeOK
    BY <2>1, <2>2 DEF ServerTypeOK
  <2>4. RecordsOK
    BY <2>2 DEF RecordsOK
  <2>5. QED
    BY <2>1, <2>2, <2>3, <2>4 DEF ServerInv, Producing, Consuming
<1>2. AgentInv
  BY DEF AgentInit, ServerInit, AgentInv, SettingUp, RunningParts, OneShutsDown, Caller
<1>3. QED
  BY <1>1, <1>2

LEMMA PairByAppend ==
  ASSUME NEW x, NEW y
  PROVE  Append(<<x>>, y) = <<x, y>>
<1> DEFINE s == Append(<<x>>, y)
<1>1. s \in Seq({x, y}) /\ Len(s) = 2 /\ s[1] = x /\ s[2] = y
  OBVIOUS
<1> HIDE DEF s
<1>2. s = <<x, y>>
  BY <1>1
<1>3. QED
  BY <1>2 DEF s

\* One setup function after the other: nothing is served and nobody has called
\* before the last of them.
LEMMA NewAgentInv ==
  ASSUME AgentInv, NewAgent
  PROVE  AgentInv'
<1> USE DEF AgentInv, SettingUp, RunningParts, OneShutsDown, NewAgent, serverVars, shutdownVars,
            Following, Caller
<1>1. CASE setupMux
  BY <1>1 DEF setupMux
<1>2. CASE setupLog
  <2>1. Append(<<>>, "raft") = <<"raft">>
    OBVIOUS
  <2>2. QED
    BY <1>2, <2>1 DEF setupLog
<1>3. CASE WaitForLeader
  BY <1>3 DEF WaitForLeader
<1>4. CASE setupServer
  <2>1. Append(<<"raft">>, "any") = <<"raft", "any">>
    BY PairByAppend
  <2>2. QED
    BY <1>4, <2>1 DEF setupServer
<1>5. CASE setupMembership
  BY <1>5 DEF setupMembership
<1>6. CASE serve
  BY <1>6 DEF serve
<1>7. QED
  BY <1>1, <1>2, <1>3, <1>4, <1>5, <1>6

LEMMA SetupFailsInv ==
  ASSUME AgentInv, SetupFails
  PROVE  AgentInv'
  BY DEF AgentInv, SettingUp, RunningParts, OneShutsDown, SetupFails, serverVars,
         shutdownVars, Caller, Open

LEMMA ElectedInv ==
  ASSUME AgentInv, Elected
  PROVE  AgentInv'
  BY DEF AgentInv, SettingUp, RunningParts, OneShutsDown, Elected, serverVars, shutdownVars,
         Caller, Open

LEMMA DialInv ==
  ASSUME AgentInv, Dial
  PROVE  AgentInv'
  BY DEF AgentInv, SettingUp, RunningParts, OneShutsDown, Dial, serverVars, setupVars,
         shutdownVars, Caller, Open

\* The first of the two matchers that a raft connection passes is raft's own.
LEMMA RaftIsMatchedFirst ==
  ASSUME matchers = <<"raft", "any">>
  PROVE  Matched("raft") = "raft"
<1>1. {i \in DOMAIN matchers : matchers[i] \in {"raft", "any"}} = {1, 2}
  OBVIOUS
<1>2. (CHOOSE i \in {1, 2} : \A j \in {1, 2} : i <= j) = 1
  OBVIOUS
<1>3. QED
  BY <1>1, <1>2 DEF Matched

LEMMA MatchInv ==
  ASSUME AgentInv, Match
  PROVE  AgentInv'
<1>1. mux = "serving" /\ step = "up" /\ matchers = <<"raft", "any">>
  BY DEF AgentInv, Match, SettingUp, RunningParts
<1>2. peer' = "none"
  BY <1>1, RaftIsMatchedFirst DEF Match
<1>3. UNCHANGED <<rpc, step, matchers, mux, srv, member, logSt, waited, lock, shutdown, caller>>
  BY DEF Match, serverVars, shutdownVars
<1>4. QED
  BY <1>1, <1>2, <1>3 DEF AgentInv, SettingUp, RunningParts, OneShutsDown, Caller, Open

\* Calls, handlers and raft leave the agent alone; a call is only taken by a
\* server that serves, and only open calls go on.
LEMMA CallsInv ==
  ASSUME AgentInv, UNCHANGED <<setupVars, peer, shutdownVars>>,
         \/ rpc' = rpc
         \/ srv = "serving" /\ mux \in {"serving", "closed"}
         \/ \E c \in Client : Open(c)
  PROVE  AgentInv'
<1>1. UNCHANGED <<step, matchers, mux, srv, member, logSt, leader, waited, peer, lock,
                  shutdown, caller>>
  BY DEF setupVars, shutdownVars
<1>2. CASE rpc' = rpc
  BY <1>1, <1>2 DEF AgentInv, SettingUp, RunningParts, OneShutsDown, Caller, Open
<1>3. CASE step = "up" /\ srv # "stopped"
  BY <1>1, <1>3 DEF AgentInv, SettingUp, RunningParts, OneShutsDown, Caller
<1>4. CASE srv = "serving" /\ mux \in {"serving", "closed"}
  BY <1>3, <1>4 DEF AgentInv, SettingUp
<1>5. ASSUME NEW c \in Client, Open(c) PROVE AgentInv'
  <2>1. step = "up" /\ srv # "stopped"
    BY <1>5 DEF AgentInv, SettingUp, OneShutsDown, Open, NoCall
  <2>2. QED
    BY <1>3, <2>1
<1>6. QED
  BY <1>2, <1>4, <1>5

\* Whoever has called Shutdown, the agent is up: its parts are all there.
LEMMA CallersComeLate ==
  ASSUME AgentInv, NEW g \in Caller, caller[g] # "idle"
  PROVE  step = "up"
  BY DEF AgentInv, SettingUp

LEMMA SignalInv ==
  ASSUME AgentInv, Signal
  PROVE  AgentInv'
  BY DEF AgentInv, SettingUp, RunningParts, OneShutsDown, Signal, Moves, serverVars,
         setupVars, Caller, Open

LEMMA MuxFailsInv ==
  ASSUME AgentInv, MuxFails
  PROVE  AgentInv'
  BY DEF AgentInv, SettingUp, RunningParts, OneShutsDown, MuxFails, Moves, UnchangedParts,
         serverVars, Caller, Open

LEMMA ServeReturnsInv ==
  ASSUME AgentInv, ServeReturns
  PROVE  AgentInv'
  BY DEF AgentInv, SettingUp, RunningParts, OneShutsDown, ServeReturns, Moves, serverVars,
         setupVars, Caller, Open

\* The first who gets the lock shuts down; the others come to a log that is
\* closed, or to the error of the first.
LEMMA LockInv ==
  ASSUME AgentInv, NEW g \in Caller, Lock(g)
  PROVE  AgentInv'
<1>1. step = "up"
  BY CallersComeLate DEF Lock
<1>2. UNCHANGED <<rpc, step, matchers, mux, srv, member, logSt, leader, waited, peer>>
  BY DEF Lock, serverVars, setupVars
<1>3. CASE shutdown
  BY <1>1, <1>2, <1>3 DEF AgentInv, SettingUp, RunningParts, OneShutsDown, Lock, Moves, Caller, Open
<1>4. CASE ~shutdown
  BY <1>1, <1>2, <1>4 DEF AgentInv, SettingUp, RunningParts, OneShutsDown, Lock, Moves, Caller, Open
<1>5. QED
  BY <1>3, <1>4

LEMMA LeaveInv ==
  ASSUME AgentInv, NEW g \in Caller, NEW ok \in BOOLEAN, Leave(g, ok)
  PROVE  AgentInv'
<1>1. step = "up"
  BY CallersComeLate DEF Leave
<1>2. UNCHANGED <<rpc, step, matchers, mux, srv, logSt, leader, waited, peer, shutdown>>
  BY DEF Leave, UnchangedParts, serverVars, Returns
<1>3. CASE ok
  BY <1>1, <1>2, <1>3 DEF AgentInv, SettingUp, RunningParts, OneShutsDown, Leave, Returns,
                          After, Moves, Caller, Open
<1>4. CASE ~ok
  BY <1>1, <1>2, <1>4 DEF AgentInv, SettingUp, RunningParts, OneShutsDown, Leave, Returns,
                          Moves, Caller, Open
<1>5. QED
  BY <1>3, <1>4

\* The mux may be served until now: then serve comes to Shutdown as well.
LEMMA GracefulStopInv ==
  ASSUME AgentInv, NEW g \in Caller, GracefulStop(g)
  PROVE  AgentInv'
<1>1. step = "up"
  BY CallersComeLate DEF GracefulStop
<1>2. UNCHANGED <<rpc, step, matchers, member, logSt, leader, waited, lock, shutdown>>
  BY DEF GracefulStop, UnchangedParts, serverVars
<1>3. CASE mux = "serving"
  BY <1>1, <1>2, <1>3 DEF AgentInv, SettingUp, RunningParts, OneShutsDown, GracefulStop,
                          Caller, Open
<1>4. CASE mux # "serving"
  <2>1. caller' = caller /\ mux' = "closed" /\ srv' = "stopping" /\ peer' = "none"
    BY <1>4 DEF GracefulStop
  <2>2. lock = g /\ logSt = "open" /\ shutdown
    BY DEF AgentInv, OneShutsDown, GracefulStop, Caller
  <2>3. \A h \in Caller : caller[h] \notin {"leave", "close"}
    BY <2>2 DEF AgentInv, OneShutsDown, GracefulStop
  <2>4. OneShutsDown'
    BY <1>2, <2>1, <2>2, <2>3 DEF AgentInv, OneShutsDown
  <2>5. QED
    BY <1>1, <1>2, <2>1, <2>4 DEF AgentInv, SettingUp, RunningParts
<1>5. QED
  BY <1>3, <1>4

LEMMA StoppedInv ==
  ASSUME AgentInv, NEW g \in Caller, Stopped(g)
  PROVE  AgentInv'
<1>1. step = "up"
  BY CallersComeLate DEF Stopped
<1>2. UNCHANGED <<rpc, step, matchers, mux, member, logSt, leader, waited, peer, shutdown>>
  BY DEF Stopped, UnchangedParts, serverVars, Returns
<1>3. QED
  BY <1>1, <1>2 DEF AgentInv, SettingUp, RunningParts, OneShutsDown, Stopped, Returns, After,
                    Moves, Caller, Open

LEMMA CloseLogInv ==
  ASSUME AgentInv, NEW g \in Caller, NEW ok \in BOOLEAN, CloseLog(g, ok)
  PROVE  AgentInv'
<1>1. step = "up"
  BY CallersComeLate DEF CloseLog
<1>2. UNCHANGED <<rpc, step, matchers, mux, srv, member, leader, waited, peer, shutdown>>
  BY DEF CloseLog, UnchangedParts, serverVars, Returns
<1>3. CASE ok
  BY <1>1, <1>2, <1>3 DEF AgentInv, SettingUp, RunningParts, OneShutsDown, CloseLog, Returns,
                          After, Moves, Caller, Open
<1>4. CASE ~ok
  BY <1>1, <1>2, <1>4 DEF AgentInv, SettingUp, RunningParts, OneShutsDown, CloseLog, Returns,
                          Moves, Caller, Open
<1>5. QED
  BY <1>3, <1>4

-----------------------------------------------------------------------------
(* All steps *)

\* What a step of the process does to the agent and to its calls.
LEMMA AgentNextInv == ServerInv /\ AgentInv /\ [AgentNext]_agentVars => (ServerInv /\ AgentInv)'
<1> SUFFICES ASSUME ServerInv, AgentInv, [AgentNext]_agentVars
             PROVE  ServerInv' /\ AgentInv'
  OBVIOUS
<1> DEFINE Idle == UNCHANGED serverVars
<1>1. Idle => ServerInv'
  <2> SUFFICES ASSUME log' = log, late' = late, rpc' = rpc PROVE ServerInv'
    BY DEF serverVars
  <2>1. ServerTypeOK'
    BY DEF ServerInv, ServerTypeOK, Rpc, Record
  <2>2. RecordsOK'
    BY DEF ServerInv, RecordsOK, WithinReach, Reach, Producing
  <2>3. \A c \in Client : /\ Producing(c)' => ProducerOK(c)'
                          /\ Consuming(c)' => ConsumerOK(c)'
    BY OtherCall DEF Extends
  <2>4. QED
    BY <2>1, <2>2, <2>3 DEF ServerInv
<1>2. CASE NewAgent \/ SetupFails \/ Elected \/ Dial \/ Match
  <2>1. Idle
    BY <1>2 DEF NewAgent, SetupFails, Elected, Dial, Match
  <2>2. QED
    BY <1>1, <1>2, <2>1, NewAgentInv, SetupFailsInv, ElectedInv, DialInv, MatchInv
<1>3. CASE Signal \/ MuxFails \/ ServeReturns
  <2>1. Idle
    BY <1>3 DEF Signal, MuxFails, ServeReturns, UnchangedParts
  <2>2. QED
    BY <1>1, <1>3, <2>1, SignalInv, MuxFailsInv, ServeReturnsInv
<1>4. ASSUME NEW g \in Caller, Shutdown(g) PROVE ServerInv' /\ AgentInv'
  <2>1. Idle
    BY <1>4 DEF Shutdown, Lock, GracefulStop, Stopped, Leave, CloseLog, UnchangedParts
  <2>2. AgentInv'
    BY <1>4, LockInv, GracefulStopInv, StoppedInv, LeaveInv, CloseLogInv DEF Shutdown
  <2>3. QED
    BY <1>1, <2>1, <2>2
<1>5. CASE ReplicatedHere
  <2>1. PICK r \in late \union {[from |-> Others, no |-> 0]} : Replicated(r)
    BY <1>5 DEF ReplicatedHere
  <2>2. ServerInv'
    BY <2>1, ReplicatedInv
  <2>3. AgentInv'
    BY <1>5, <2>1, CallsInv DEF ReplicatedHere, Replicated
  <2>4. QED
    BY <2>2, <2>3
<1>6. ASSUME NEW c \in Client, Clients(c) PROVE ServerInv' /\ AgentInv'
  <2>1. ASSUME NEW call \in Calls[c], Serves, Call(c, call[1], call[2])
        PROVE  ServerInv' /\ AgentInv'
    BY <1>6, <2>1, CallInv, CallsInv DEF Clients, Serves
  <2>2. CASE Cancel(c) \/ Produce(c)
    BY <1>6, <2>2, OnlyOpenCallsAct, CancelInv, ProduceInv, CallsInv DEF Clients
  <2>3. QED
    BY <1>6, <2>1, <2>2 DEF Clients
<1>7. ASSUME NEW c \in Client, Handlers(c) PROVE ServerInv' /\ AgentInv'
  <2>1. ServerInv'
    BY <1>7, ProduceInv, RecvFailsInv, AppendAppliedInv, AppendFailsInv, SendOffsetInv,
       ConsumeInv, ReadFailsInv, SendRecordInv DEF Handlers, Running
  <2>2. AgentInv'
    BY <1>7, OnlyOpenCallsAct, CallsInv DEF Handlers
  <2>3. QED
    BY <2>1, <2>2
<1>8. CASE UNCHANGED agentVars
  <2>1. Idle /\ AgentInv'
    BY <1>8, CallsInv DEF agentVars, serverVars
  <2>2. QED
    BY <1>1, <2>1
<1>9. QED
  BY <1>2, <1>3, <1>4, <1>5, <1>6, <1>7, <1>8 DEF AgentNext

-----------------------------------------------------------------------------
(* Theorems *)

\* The invariants of the handlers and of the agent hold in every state.
THEOREM InvInvariant == AgentSpec => [](ServerInv /\ AgentInv)
<1>1. QED
  BY AgentInitInv, AgentNextInv, PTL DEF AgentSpec

\* The invariant of the handlers, by itself.
THEOREM HandlersInvariant == AgentSpec => []ServerInv
<1>1. QED
  BY InvInvariant, PTL

\* The invariant of setup and shutdown, by itself.
THEOREM AgentInvariant == AgentSpec => []AgentInv
<1>1. QED
  BY InvInvariant, PTL

\* Consume and ConsumeStream send what the log holds from their offset on, each
\* record once and in order, for any interleaving of handlers, clients and raft.
THEOREM StreamsFollowTheLog == AgentSpec => []StreamFollowsLog
<1>1. QED
  BY InvInvariant, ServerInvSuffices, PTL

\* The i-th answer on a ProduceStream is the offset of the i-th request.
THEOREM AnswersAreRight == AgentSpec => []AnswersNameRecords
<1>1. QED
  BY InvInvariant, ServerInvSuffices, PTL

\* A producer whose call has ended, in whatever way, is in doubt about one record
\* at most, and none of its records is in the log twice.
THEOREM DoubtIsBounded == AgentSpec => []OneInDoubt
<1>1. QED
  BY InvInvariant, ServerInvSuffices, PTL

\* Shutdown returns nil only over a closed log or after somebody's error.
THEOREM NilIsHonest == AgentSpec => []NilMeansClosed
<1>1. AgentInv => NilMeansClosed
  BY DEF AgentInv, OneShutsDown, NilMeansClosed, Caller
<1>2. QED
  BY <1>1, InvInvariant, PTL

\* The log is closed only when the last handler has returned.
THEOREM HandlersHaveALog == AgentSpec => []NoHandlerOnClosedLog
<1>1. AgentInv => NoHandlerOnClosedLog
  BY DEF AgentInv, SettingUp, RunningParts, OneShutsDown, NoHandlerOnClosedLog, Open, NoCall
<1>2. QED
  BY <1>1, InvInvariant, PTL

\* Shutdown never runs into a part that is not set up.
THEOREM PartsAreThere == AgentSpec => []ShutdownFindsItsParts
<1>1. AgentInv => ShutdownFindsItsParts
  BY CallersComeLate DEF AgentInv, RunningParts, ShutdownFindsItsParts
<1>2. QED
  BY <1>1, InvInvariant, PTL

\* The mux hands a raft connection to raft, never to the gRPC server.
THEOREM PeersReachRaft == AgentSpec => []PeerReachesRaft
<1>1. AgentInv => PeerReachesRaft
  BY DEF AgentInv, PeerReachesRaft
<1>2. QED
  BY <1>1, InvInvariant, PTL

\* A node that bootstraps waits for itself to be elected and for nobody else.
THEOREM BootstrapWaitsForItself == AgentSpec => []BootstrapNodeLeads
<1>1. AgentInv => BootstrapNodeLeads
  BY DEF AgentInv, BootstrapNodeLeads
<1>2. QED
  BY <1>1, InvInvariant, PTL
=============================================================================
