--------------------------- MODULE DistributedLog ---------------------------
(***************************************************************************)
(* internal/log/distributed.go: a cluster of nodes, each with a log of     *)
(* records (module Log, here the sequence it implements) that raft's       *)
(* finite-state machine appends to. Raft itself is external and modelled   *)
(* as its callers see it:                                                  *)
(*                                                                         *)
(*   rlog   : the leader's raft log; the log of a node is a prefix of it   *)
(*   stored : stored[n], how much of rlog the logStore of node n holds     *)
(*   commit : how much of rlog is committed                                *)
(*   leader : the node raft takes Apply on, or Nobody                      *)
(*                                                                         *)
(* and the nodes:                                                          *)
(*                                                                         *)
(*   up      : up[n], whether node n runs                                  *)
(*   log     : log[n], the records of node n; offsets start at 0           *)
(*   applied : applied[n], what raft last gave to the fsm of n             *)
(*   call    : call[v], what became of the client's Append of v            *)
(*   calls   : calls[v], how often it was tried                            *)
(*                                                                         *)
(* Before the first snapshot: SnapshotThreshold is 8192 entries. Nodes do  *)
(* not come back here; module Fsm has what a restart finds.                *)
(***************************************************************************)
EXTENDS Integers, FiniteSets, Sequences, SequencesExt

CONSTANTS
  Node, Value, Nobody,
  MaxEntries, \* bound of the model: entries of rlog
  MaxCalls,   \* bound of the model: tries of one Append
  MaxStops    \* bound of the model: nodes killed, in all

ASSUME ClusterAssumption == IsFiniteSet(Node) /\ Nobody \notin Node

VARIABLES rlog, stored, commit, leader, up, log, applied, call, calls, stops

raftVars == <<rlog, stored, commit, leader>>
nodeVars == <<up, log, applied, stops>>
callVars == <<call, calls>>
vars == <<raftVars, nodeVars, callVars>>

Idle            == [st |-> "idle"]
Waiting(n, i)   == [st |-> "waiting", node |-> n, index |-> i]
Appended(off)   == [st |-> "ok", off |-> off]
Failed(err)     == [st |-> "err", err |-> err]

Majority(S) == 2 * Cardinality(S) > Cardinality(Node)
Up == {n \in Node : up[n]}

Init ==
  /\ rlog = <<>> /\ commit = 0 /\ leader = Nobody
  /\ stored = [n \in Node |-> 0]
  /\ up = [n \in Node |-> TRUE]
  /\ log = [n \in Node |-> <<>>]
  /\ applied = [n \in Node |-> 0]
  /\ call = [v \in Value |-> Idle]
  /\ calls = [v \in Value |-> 0]
  /\ stops = 0

-----------------------------------------------------------------------------
(* DistributedLog.Append: apply hands the record to raft and waits for the *)
(* future.                                                                 *)

Callable(n, v) ==
  /\ n \in Up
  /\ call[v].st \in {"idle", "err"} /\ calls[v] < MaxCalls

\* The leader stores the entry in its own log and has it replicated.
apply(n, v) ==
  /\ Callable(n, v)
  /\ n = leader
  /\ Len(rlog) < MaxEntries
  /\ rlog' = Append(rlog, v)
  /\ stored' = [stored EXCEPT ![n] = Len(rlog')]
  /\ call' = [call EXCEPT ![v] = Waiting(n, Len(rlog'))]
  /\ calls' = [calls EXCEPT ![v] = @ + 1]
  /\ UNCHANGED <<commit, leader, nodeVars>>

\* The future fails at once: the node is not the leader, or raft did not take
\* the entry within 10 seconds.
applyRefused(n, v, err) ==
  /\ Callable(n, v)
  /\ err = IF n = leader THEN "ErrEnqueueTimeout" ELSE "ErrNotLeader"
  /\ call' = [call EXCEPT ![v] = Failed(err)]
  /\ calls' = [calls EXCEPT ![v] = @ + 1]
  /\ UNCHANGED <<raftVars, nodeVars>>

-----------------------------------------------------------------------------
(* Raft, external *)

\* A follower stores the next entry, unless its logStore returns an error.
Replicate(n) ==
  /\ leader # Nobody /\ n \in Up
  /\ stored[n] < Len(rlog)
  /\ stored' = [stored EXCEPT ![n] = @ + 1]
  /\ UNCHANGED <<rlog, commit, leader, nodeVars, callVars>>

Commit ==
  /\ leader # Nobody
  /\ commit < Len(rlog)
  /\ Majority({n \in Up : stored[n] > commit})
  /\ commit' = commit + 1
  /\ UNCHANGED <<rlog, stored, leader, nodeVars, callVars>>

\* The futures a leader has not committed fail when it is leader no longer;
\* the entries may still be committed by its successor.
FailUncommitted(err) ==
  [v \in Value |->
     IF call[v].st = "waiting" /\ call[v].index > commit THEN Failed(err) ELSE call[v]]

\* Q votes for a node whose log is as long as theirs.
Elected(m, Q) ==
  /\ m \in Q /\ Q \subseteq Up /\ Majority(Q)
  /\ m # leader
  /\ \A n \in Q : stored[n] <= stored[m]

Elect(m) ==
  /\ Elected(m, Up)
  /\ leader' = m
  /\ rlog' = SubSeq(rlog, 1, stored[m])
  /\ commit' = Min({commit, stored[m]})
  /\ call' = FailUncommitted("ErrLeadershipLost")
  /\ UNCHANGED <<stored, nodeVars, calls>>

-----------------------------------------------------------------------------
(* The finite-state machine *)

\* A mutant: the future of the entry after.
RespondNext(n, i, res) ==
  call' = [v \in Value |->
             IF call[v].st = "waiting" /\ call[v].node = n /\ call[v].index = i + 1
               THEN res ELSE call[v]]

\* What the client of the future of entry i on node n is told.
Respond(n, i, res) ==
  call' = [v \in Value |->
             IF call[v].st = "waiting" /\ call[v].node = n /\ call[v].index = i
               THEN res ELSE call[v]]

\* A mutant: only the leader applies.
ApplicableToLeader(n) == n = leader /\ applied[n] < commit /\ applied[n] < stored[n]

\* A committed entry that this node has.
Applicable(n) ==
  /\ n \in Up
  /\ applied[n] < commit /\ applied[n] < stored[n]

\* Mutants: the entry stored last for the one that is due; an offset counted
\* from 1.
applyAppendLast(n) ==
  /\ Applicable(n)
  /\ log' = [log EXCEPT ![n] = Append(@, rlog[stored[n]])]
  /\ applied' = [applied EXCEPT ![n] = @ + 1]
  /\ Respond(n, applied[n] + 1, Appended(Len(log[n])))
  /\ UNCHANGED <<raftVars, up, stops, calls>>
applyAppendAfter(n) ==
  /\ Applicable(n)
  /\ log' = [log EXCEPT ![n] = Append(@, rlog[applied[n] + 1])]
  /\ applied' = [applied EXCEPT ![n] = @ + 1]
  /\ Respond(n, applied[n] + 1, Appended(Len(log[n]) + 1))
  /\ UNCHANGED <<raftVars, up, stops, calls>>

\* Apply of the next committed entry: the record goes to the node's own log and
\* gets its offset there, which is the answer if the call came to this node. That
\* the log appends it is AppendNeverFails of Log; what an error of one node's
\* Append would do to its log is in Fsm.
applyAppend(n) ==
  /\ Applicable(n)
  /\ log' = [log EXCEPT ![n] = Append(@, rlog[applied[n] + 1])]
  /\ applied' = [applied EXCEPT ![n] = @ + 1]
  /\ Respond(n, applied[n] + 1, Appended(Len(log[n])))
  /\ UNCHANGED <<raftVars, up, stops, calls>>

-----------------------------------------------------------------------------
(* Nodes that stop *)

\* The client of a call that waits at node n loses its connection.
Disconnected(n) ==
  [v \in Value |->
     IF call[v].st = "waiting" /\ call[v].node = n THEN Failed("Unavailable") ELSE call[v]]

Kill(n) ==
  /\ n \in Up
  /\ stops < MaxStops /\ stops' = stops + 1
  /\ up' = [up EXCEPT ![n] = FALSE]
  /\ leader' = IF leader = n THEN Nobody ELSE leader
  /\ call' = Disconnected(n)
  /\ UNCHANGED <<rlog, stored, commit, log, applied, calls>>

Next ==
  \/ \E n \in Node, v \in Value :
       \/ apply(n, v)
       \/ \E err \in {"ErrEnqueueTimeout", "ErrNotLeader"} : applyRefused(n, v, err)
  \/ \E n \in Node : Replicate(n) \/ Elect(n) \/ applyAppend(n) \/ Kill(n)
  \/ Commit

\* Raft keeps replicating, committing and applying, and elects a leader when
\* there is none.
Fairness ==
  /\ WF_vars(Commit)
  /\ \A n \in Node : WF_vars(Replicate(n)) /\ WF_vars(applyAppend(n))
  /\ WF_vars(leader = Nobody /\ \E n \in Node : Elect(n))

Spec == Init /\ [][Next]_vars

FairSpec == Spec /\ Fairness

-----------------------------------------------------------------------------
(* Properties *)

Outcome ==
  {Idle} \union [st : {"waiting"}, node : Node, index : Nat] \union [st : {"ok"}, off : Nat]
    \union [st : {"err"}, err : {"ErrEnqueueTimeout", "ErrNotLeader",
                                "ErrLeadershipLost", "Unavailable"}]

\* The type invariant.
TypeOK ==
  /\ rlog \in Seq(Value) /\ commit \in 0 .. Len(rlog)
  /\ leader \in Node \union {Nobody}
  /\ stored \in [Node -> Nat] /\ applied \in [Node -> Nat]
  /\ up \in [Node -> BOOLEAN] /\ log \in [Node -> Seq(Value)]
  /\ call \in [Value -> Outcome] /\ calls \in [Value -> Nat] /\ stops \in Nat

\* All nodes, the stopped ones too, agree on the order of the records: of any
\* two logs one is a prefix of the other.
LogsAgree ==
  \A m, n \in Node : IsPrefix(log[m], log[n]) \/ IsPrefix(log[n], log[m])

\* The offset a client was given names its record on every node that has a
\* record there, whoever led when it was committed and whoever leads now.
AckedOffsetNamesRecord ==
  \A v \in Value : call[v].st = "ok" =>
    \A n \in Node : call[v].off < Len(log[n]) => log[n][call[v].off + 1] = v

-----------------------------------------------------------------------------
(* The inductive invariant *)

\* A committed entry is in the logStores of a majority, stopped nodes included,
\* so that no leader can be elected without it.
CommittedIsStored == commit > 0 => Majority({n \in Node : stored[n] >= commit})

\* A node that runs has stored nothing that the leader does not have.
RunningFollowLeader == \A n \in Up : stored[n] <= Len(rlog)

\* The log of a node holds the entries that were applied, which are committed.
LogsFollowRaft ==
  \A n \in Node :
    /\ applied[n] <= commit /\ Len(log[n]) = applied[n]
    /\ \A i \in 1 .. applied[n] : log[n][i] = rlog[i]

\* A call that waits has its record at its index, and an offset that was given
\* out stands for a committed entry.
CallsNameEntries ==
  \A v \in Value :
    /\ call[v].st = "waiting" => call[v].index \in 1 .. Len(rlog) /\ rlog[call[v].index] = v
    /\ call[v].st = "ok" => call[v].off < commit /\ rlog[call[v].off + 1] = v

\* All of them: raft's log up to commit is the one log that every node has a
\* prefix of and that every answer is about.
Inv ==
  /\ TypeOK /\ CommittedIsStored /\ RunningFollowLeader
  /\ LogsFollowRaft /\ CallsNameEntries

-----------------------------------------------------------------------------
(* Liveness *)

\* A record that was acknowledged reaches every node that stays up.
AckedIsReplicated ==
  \A v \in Value :
    call[v].st = "ok" ~>
      call[v].st = "ok" /\ \A n \in Up : call[v].off < Len(log[n])

\* apply blocks until the future is done, and it always gets done: while a
\* majority is up, no call waits for ever.
CallsReturn == \A v \in Value : call[v].st = "waiting" ~> call[v].st # "waiting"
=============================================================================
