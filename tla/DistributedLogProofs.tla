------------------------ MODULE DistributedLogProofs ------------------------
(***************************************************************************)
(* The cluster's safety for every number of nodes, values, entries, tries  *)
(* and stops: the invariant Inv of module DistributedLog is inductive, and *)
(* with it the nodes agree on one log and every answer names its record on *)
(* all of them.                                                            *)
(***************************************************************************)
EXTENDS DistributedLog, FiniteSetTheorems, TLAPS

USE ClusterAssumption

-----------------------------------------------------------------------------
(* Majorities *)

\* Any two majorities of the nodes have a node in common.
LEMMA MajoritiesMeet ==
  ASSUME NEW P \in SUBSET Node, NEW Q \in SUBSET Node, Majority(P), Majority(Q)
  PROVE  P \intersect Q # {}
<1>1. IsFiniteSet(P) /\ IsFiniteSet(Q) /\ IsFiniteSet(P \union Q)
  BY FS_Subset, P \union Q \in SUBSET Node
<1>2. Cardinality(P \union Q) <= Cardinality(Node)
  BY FS_Subset, P \union Q \in SUBSET Node
<1>3. Cardinality(P \union Q)
        = Cardinality(P) + Cardinality(Q) - Cardinality(P \intersect Q)
  BY <1>1, FS_Union
<1>4. /\ Cardinality(P) \in Nat /\ Cardinality(Q) \in Nat
      /\ Cardinality(Node) \in Nat /\ Cardinality(P \union Q) \in Nat
  BY <1>1, FS_CardinalityType
<1>5. P \intersect Q = {} => Cardinality(P \intersect Q) = 0
  BY FS_EmptySet
<1>6. QED
  BY <1>2, <1>3, <1>4, <1>5 DEF Majority

\* A set of nodes that contains a majority is one.
LEMMA MajorityGrows ==
  ASSUME NEW P \in SUBSET Node, NEW Q \in SUBSET Node, Majority(P), P \subseteq Q
  PROVE  Majority(Q)
<1>1. IsFiniteSet(P) /\ IsFiniteSet(Q)
  BY FS_Subset
<1>2. Cardinality(P) <= Cardinality(Q)
  BY <1>1, FS_Subset
<1>3. Cardinality(P) \in Nat /\ Cardinality(Q) \in Nat /\ Cardinality(Node) \in Nat
  BY <1>1, FS_CardinalityType
<1>4. QED
  BY <1>2, <1>3 DEF Majority

\* Whoever is elected has every committed entry: the majority that votes for it
\* meets the majority that stored them.
LEMMA ElectedHasCommitted ==
  ASSUME Inv, NEW m \in Node, Elected(m, Up)
  PROVE  commit <= stored[m]
<1>1. stored \in [Node -> Nat] /\ commit \in Nat
  BY DEF Inv, TypeOK
<1>2. CASE commit = 0
  BY <1>1, <1>2
<1>3. CASE commit > 0
  <2>1. Majority(Up) /\ Up \in SUBSET Node
    BY DEF Elected, Up
  <2>2. Majority({n \in Node : stored[n] >= commit})
    BY <1>3 DEF Inv, CommittedIsStored
  <2>3. PICK n \in Up : n \in Node /\ stored[n] >= commit
    BY <2>1, <2>2, MajoritiesMeet
  <2>4. stored[n] <= stored[m]
    BY <2>3 DEF Elected
  <2>5. QED
    BY <1>1, <2>3, <2>4
<1>4. QED
  BY <1>1, <1>2, <1>3

-----------------------------------------------------------------------------
(* The invariant holds initially and every action preserves it *)

\* What the state of a call says of its fields.
LEMMA OutcomeFields ==
  ASSUME TypeOK, NEW v \in Value
  PROVE  /\ call[v].st = "waiting" => call[v].node \in Node /\ call[v].index \in Nat
         /\ call[v].st = "ok" => call[v].off \in Nat
<1>1. call[v] \in Outcome
  BY DEF TypeOK
<1>2. QED
  BY <1>1 DEF Outcome, Idle

LEMMA InitInv == Init => Inv
<1> SUFFICES ASSUME Init PROVE Inv
  OBVIOUS
<1>1. TypeOK
  BY DEF Init, TypeOK, Outcome
<1>2. CommittedIsStored
  BY DEF Init, CommittedIsStored
<1>3. RunningFollowLeader
  BY DEF Init, RunningFollowLeader, Up
<1>4. LogsFollowRaft
  BY DEF Init, LogsFollowRaft
<1>5. CallsNameEntries
  BY DEF Init, CallsNameEntries, Idle
<1>6. QED
  BY <1>1, <1>2, <1>3, <1>4, <1>5 DEF Inv

\* More entries at the end of raft's log, and more of them stored, leave the
\* committed ones where they are.
LEMMA ApplyInv ==
  ASSUME Inv, NEW n \in Node, NEW v \in Value, apply(n, v)
  PROVE  Inv'
<1> USE DEF Inv, TypeOK, apply, nodeVars
<1>1. /\ rlog' \in Seq(Value) /\ Len(rlog') = Len(rlog) + 1 /\ rlog'[Len(rlog) + 1] = v
      /\ \A i \in 1 .. Len(rlog) : rlog'[i] = rlog[i]
  OBVIOUS
<1>2. TypeOK'
  <2>1. call' \in [Value -> Outcome']
    BY <1>1 DEF Waiting, Outcome
  <2>2. QED
    BY <1>1, <2>1
<1>3. CommittedIsStored'
  <2>1. \A k \in Node : stored[k] >= commit => stored'[k] >= commit
    BY <1>1
  <2>2. {k \in Node : stored[k] >= commit} \subseteq {k \in Node : stored'[k] >= commit}
    BY <2>1
  <2>3. QED
    BY <2>2, MajorityGrows DEF CommittedIsStored, Majority
<1>4. RunningFollowLeader'
  BY <1>1 DEF RunningFollowLeader, Up
<1>5. LogsFollowRaft'
  BY <1>1 DEF LogsFollowRaft
<1>6. CallsNameEntries'
  <2> SUFFICES ASSUME NEW w \in Value
               PROVE  /\ call'[w].st = "waiting"
                           => call'[w].index \in 1 .. Len(rlog') /\ rlog'[call'[w].index] = w
                      /\ call'[w].st = "ok"
                           => call'[w].off < commit' /\ rlog'[call'[w].off + 1] = w
    BY DEF CallsNameEntries
  <2>1. CASE w = v
    BY <2>1, <1>1 DEF Waiting
  <2>2. CASE w # v
    <3>1. call'[w] = call[w]
      BY <2>2
    <3>2. call[w].st = "ok" => call[w].off \in Nat
      BY OutcomeFields
    <3>3. /\ call[w].st = "waiting"
               => call[w].index \in 1 .. Len(rlog) /\ rlog[call[w].index] = w
          /\ call[w].st = "ok" => call[w].off < commit /\ rlog[call[w].off + 1] = w
      BY DEF CallsNameEntries
    <3>4. commit' = commit /\ commit \in 0 .. Len(rlog) /\ Len(rlog) \in Nat
      OBVIOUS
    <3>5. QED
      BY ONLY <3>1, <3>2, <3>3, <3>4, <1>1
  <2>3. QED
    BY <2>1, <2>2
<1>7. QED
  BY <1>2, <1>3, <1>4, <1>5, <1>6

\* A refused call changes nothing but its outcome.
LEMMA ApplyRefusedInv ==
  ASSUME Inv, NEW n \in Node, NEW v \in Value,
         NEW err \in {"ErrEnqueueTimeout", "ErrNotLeader"}, applyRefused(n, v, err)
  PROVE  Inv'
<1> USE DEF Inv, applyRefused, raftVars, nodeVars
<1>1. TypeOK'
  BY SMTT(30) DEF TypeOK, Failed, Outcome
<1>2. CallsNameEntries'
  BY DEF CallsNameEntries, Failed, TypeOK
<1>3. QED
  BY <1>1, <1>2 DEF CommittedIsStored, RunningFollowLeader, LogsFollowRaft, Majority, Up

\* A node that stores one more entry stores no less.
LEMMA ReplicateInv ==
  ASSUME Inv, NEW n \in Node, Replicate(n)
  PROVE  Inv'
<1> USE DEF Inv, TypeOK, Replicate, nodeVars, callVars
<1>1. TypeOK'
  BY SMTT(30) DEF Outcome
<1>2. CommittedIsStored'
  <2>1. {k \in Node : stored[k] >= commit} \subseteq {k \in Node : stored'[k] >= commit}
    OBVIOUS
  <2>2. QED
    BY <2>1, MajorityGrows DEF CommittedIsStored, Majority
<1>3. RunningFollowLeader'
  BY DEF RunningFollowLeader, Up
<1>4. LogsFollowRaft' /\ CallsNameEntries'
  BY DEF LogsFollowRaft, CallsNameEntries
<1>5. QED
  BY <1>1, <1>2, <1>3, <1>4

\* The entry that becomes committed is stored by a majority of those that run.
LEMMA CommitInv ==
  ASSUME Inv, Commit
  PROVE  Inv'
<1> USE DEF Inv, TypeOK, Commit, nodeVars, callVars
<1>1. TypeOK'
  BY SMTT(30) DEF Outcome
<1>2. CommittedIsStored'
  <2>1. {n \in Up : stored[n] > commit} \subseteq {n \in Node : stored[n] >= commit + 1}
    BY DEF Up
  <2>2. Majority({n \in Node : stored[n] >= commit + 1})
    BY <2>1, MajorityGrows DEF Up
  <2>3. QED
    BY <2>2 DEF CommittedIsStored, Majority
<1>3. RunningFollowLeader' /\ LogsFollowRaft'
  BY DEF RunningFollowLeader, LogsFollowRaft, Up
<1>4. CallsNameEntries'
  BY OutcomeFields, SMTT(30) DEF CallsNameEntries
<1>5. QED
  BY <1>1, <1>2, <1>3, <1>4

\* A new leader cuts raft's log to what it has stored, which is not below the
\* commit index; calls whose entry could be lost have failed.
LEMMA ElectInv ==
  ASSUME Inv, NEW m \in Node, Elect(m)
  PROVE  Inv'
<1> USE DEF Inv, TypeOK, Elect, nodeVars
<1>1. commit <= stored[m]
  BY ElectedHasCommitted
<1>2. stored[m] <= Len(rlog)
  BY DEF Elected, RunningFollowLeader
<1>3. commit' = commit
  <2>1. Min({commit, stored[m]}) = commit
    BY <1>1 DEF Min
  <2>2. QED
    BY <2>1
<1>4. /\ rlog' \in Seq(Value) /\ Len(rlog') = stored[m]
      /\ \A i \in 1 .. stored[m] : rlog'[i] = rlog[i]
  BY <1>2, SMTT(30)
<1>5. \A v \in Value :
        \/ call'[v] = call[v] /\ ~(call[v].st = "waiting" /\ call[v].index > commit)
        \/ call'[v] = Failed("ErrLeadershipLost")
  BY DEF FailUncommitted
<1>6. TypeOK'
  <2>1. Failed("ErrLeadershipLost") \in Outcome
    BY DEF Failed, Outcome
  <2>2. call' \in [Value -> Outcome']
    BY <1>5, <2>1 DEF FailUncommitted, Outcome
  <2>3. QED
    BY <1>1, <1>3, <1>4, <2>2
<1>7. CommittedIsStored'
  <2>1. CommittedIsStored /\ stored' = stored
    OBVIOUS
  <2>2. QED
    BY ONLY <1>3, <2>1 DEF CommittedIsStored, Majority
<1>8. RunningFollowLeader'
  BY <1>4 DEF RunningFollowLeader, Elected, Up
<1>9. LogsFollowRaft'
  BY <1>1, <1>3, <1>4 DEF LogsFollowRaft
<1>10. CallsNameEntries'
  <2> SUFFICES ASSUME NEW v \in Value
               PROVE  /\ call'[v].st = "waiting"
                           => call'[v].index \in 1 .. Len(rlog') /\ rlog'[call'[v].index] = v
                      /\ call'[v].st = "ok"
                           => call'[v].off < commit' /\ rlog'[call'[v].off + 1] = v
    BY DEF CallsNameEntries
  <2>1. CASE call'[v] = Failed("ErrLeadershipLost")
    BY <2>1 DEF Failed
  <2>2. CASE call'[v] = call[v] /\ ~(call[v].st = "waiting" /\ call[v].index > commit)
    <3>1. call[v].st = "ok" => call[v].off \in Nat
      BY OutcomeFields
    <3>2. /\ call[v].st = "waiting"
               => call[v].index \in 1 .. Len(rlog) /\ rlog[call[v].index] = v
          /\ call[v].st = "ok" => call[v].off < commit /\ rlog[call[v].off + 1] = v
      BY DEF CallsNameEntries
    <3>3. commit \in Nat /\ stored[m] \in Nat /\ Len(rlog) \in Nat
      OBVIOUS
    <3>4. QED
      BY ONLY <2>2, <3>1, <3>2, <3>3, <1>1, <1>3, <1>4, SMTT(30)
  <2>3. QED
    BY <1>5, <2>1, <2>2
<1>11. QED
  BY <1>6, <1>7, <1>8, <1>9, <1>10

\* The fsm of a node appends the entry that is due, and whoever waits for that
\* entry here is told the offset the record has got.
LEMMA ApplyAppendInv ==
  ASSUME Inv, NEW n \in Node, applyAppend(n)
  PROVE  Inv'
<1> DEFINE i == applied[n] + 1
<1>1. /\ rlog \in Seq(Value) /\ commit \in 0 .. Len(rlog) /\ log \in [Node -> Seq(Value)]
      /\ applied \in [Node -> Nat] /\ call \in [Value -> Outcome]
  BY DEF Inv, TypeOK
<1>2. UNCHANGED <<rlog, stored, commit, leader, up, calls, stops>>
  BY DEF applyAppend, raftVars
<1>3. applied[n] < commit /\ Len(log[n]) = applied[n]
  BY DEF applyAppend, Applicable, Inv, LogsFollowRaft
<1>4. /\ applied' = [applied EXCEPT ![n] = i]
      /\ log' = [log EXCEPT ![n] = Append(@, rlog[i])]
  BY DEF applyAppend
<1>5. \A v \in Value :
        \/ call'[v] = call[v]
        \/ /\ call[v].st = "waiting" /\ call[v].index = i
           /\ call'[v] = Appended(applied[n])
  BY <1>3 DEF applyAppend, Respond
<1>6. i \in 1 .. Len(rlog) /\ rlog[i] \in Value
  BY <1>1, <1>3
<1>7. TypeOK'
  <2>1. Appended(applied[n]) \in Outcome
    BY <1>1 DEF Appended, Outcome
  <2>2. \A v \in Value : call'[v] \in Outcome
    BY <1>1, <1>5, <2>1
  <2>3. call' \in [Value -> Outcome]
    BY <2>2 DEF applyAppend, Respond
  <2>4. log' \in [Node -> Seq(Value)] /\ applied' \in [Node -> Nat]
    BY <1>1, <1>4, <1>6
  <2>5. TypeOK
    BY DEF Inv
  <2>6. QED
    BY <1>2, <2>3, <2>4, <2>5 DEF TypeOK, Outcome
<1>8. CommittedIsStored' /\ RunningFollowLeader'
  BY <1>2 DEF Inv, CommittedIsStored, RunningFollowLeader, Majority, Up
<1>9. LogsFollowRaft'
  <2> SUFFICES ASSUME NEW m \in Node
               PROVE  /\ applied'[m] <= commit /\ Len(log'[m]) = applied'[m]
                      /\ \A j \in 1 .. applied'[m] : log'[m][j] = rlog[j]
    BY <1>2 DEF LogsFollowRaft
  <2>1. /\ applied[m] <= commit /\ Len(log[m]) = applied[m]
        /\ \A j \in 1 .. applied[m] : log[m][j] = rlog[j]
    BY DEF Inv, LogsFollowRaft
  <2>2. CASE m # n
    BY <1>1, <1>4, <2>1, <2>2
  <2>3. CASE m = n
    BY <1>1, <1>3, <1>4, <1>6, <2>1, <2>3
  <2>4. QED
    BY <2>2, <2>3
<1>10. CallsNameEntries'
  <2> SUFFICES ASSUME NEW v \in Value
               PROVE  /\ call'[v].st = "waiting"
                           => call'[v].index \in 1 .. Len(rlog) /\ rlog[call'[v].index] = v
                      /\ call'[v].st = "ok"
                           => call'[v].off < commit /\ rlog[call'[v].off + 1] = v
    BY <1>2 DEF CallsNameEntries
  <2>1. /\ call[v].st = "waiting"
             => call[v].index \in 1 .. Len(rlog) /\ rlog[call[v].index] = v
        /\ call[v].st = "ok" => call[v].off < commit /\ rlog[call[v].off + 1] = v
    BY DEF Inv, CallsNameEntries
  <2>2. CASE call'[v] = call[v]
    BY <2>1, <2>2
  <2>3. CASE /\ call[v].st = "waiting" /\ call[v].index = i
             /\ call'[v] = Appended(applied[n])
    BY <1>3, <2>1, <2>3 DEF Appended
  <2>4. QED
    BY <1>5, <2>2, <2>3
<1>11. QED
  BY <1>7, <1>8, <1>9, <1>10 DEF Inv

\* A node that stops keeps its files; the calls that waited at it have failed.
LEMMA KillInv ==
  ASSUME Inv, NEW n \in Node, Kill(n)
  PROVE  Inv'
<1>1. UNCHANGED <<rlog, stored, commit, log, applied, calls>>
  BY DEF Kill
<1>2. \A v \in Value : call'[v] = call[v] \/ call'[v] = Failed("Unavailable")
  BY DEF Kill, Disconnected
<1>3. TypeOK'
  <2>1. Failed("Unavailable") \in Outcome
    BY DEF Failed, Outcome
  <2>2. call' \in [Value -> Outcome]
    BY <1>2, <2>1 DEF Kill, Disconnected, Inv, TypeOK
  <2>3. /\ up' \in [Node -> BOOLEAN] /\ leader' \in Node \union {Nobody}
        /\ stops' \in Nat
    BY DEF Inv, TypeOK, Kill
  <2>4. TypeOK
    BY DEF Inv
  <2>5. QED
    BY <1>1, <2>2, <2>3, <2>4 DEF TypeOK, Outcome
<1>4. CommittedIsStored' /\ LogsFollowRaft'
  BY <1>1 DEF Inv, CommittedIsStored, LogsFollowRaft, Majority
<1>5. RunningFollowLeader'
  BY <1>1 DEF Inv, TypeOK, RunningFollowLeader, Up, Kill
<1>6. CallsNameEntries'
  BY <1>1, <1>2 DEF Inv, CallsNameEntries, Failed
<1>7. QED
  BY <1>3, <1>4, <1>5, <1>6 DEF Inv

LEMMA NextInv == Inv /\ [Next]_vars => Inv'
<1> SUFFICES ASSUME Inv, [Next]_vars PROVE Inv'
  OBVIOUS
<1>1. ASSUME NEW n \in Node, NEW v \in Value, apply(n, v) PROVE Inv'
  BY <1>1, ApplyInv
<1>2. ASSUME NEW n \in Node, NEW v \in Value,
             NEW err \in {"ErrEnqueueTimeout", "ErrNotLeader"}, applyRefused(n, v, err)
      PROVE  Inv'
  BY <1>2, ApplyRefusedInv
<1>3. ASSUME NEW n \in Node, Replicate(n) PROVE Inv'
  BY <1>3, ReplicateInv
<1>4. ASSUME NEW n \in Node, Elect(n) PROVE Inv'
  BY <1>4, ElectInv
<1>5. ASSUME NEW n \in Node, applyAppend(n) PROVE Inv'
  BY <1>5, ApplyAppendInv
<1>6. ASSUME NEW n \in Node, Kill(n) PROVE Inv'
  BY <1>6, KillInv
<1>7. CASE Commit
  BY <1>7, CommitInv
<1>8. CASE UNCHANGED vars
  BY <1>8 DEF vars, raftVars, nodeVars, callVars, Inv, TypeOK, Outcome, CommittedIsStored,
              RunningFollowLeader, LogsFollowRaft, CallsNameEntries, Majority, Up
<1>9. QED
  BY <1>1, <1>2, <1>3, <1>4, <1>5, <1>6, <1>7, <1>8 DEF Next

-----------------------------------------------------------------------------
(* Theorems *)

\* The inductive invariant of the cluster holds in every state: raft's log up to
\* commit is stored by a majority and is the log every node has a prefix of.
THEOREM InvInvariant == Spec => []Inv
<1>1. QED
  BY InitInv, NextInv, PTL DEF Spec

\* The variables of the cluster keep their types.
THEOREM TypeCorrect == Spec => []TypeOK
<1>1. Inv => TypeOK
  BY DEF Inv
<1>2. QED
  BY <1>1, InvInvariant, PTL

\* All nodes, the stopped ones too, have the records in the same order: the fsm
\* applies what raft committed, and elections never take back what was applied.
THEOREM NodesAgree == Spec => []LogsAgree
<1>1. Inv => LogsAgree
  <2> SUFFICES ASSUME Inv, NEW m \in Node, NEW n \in Node, Len(log[m]) <= Len(log[n])
               PROVE  IsPrefix(log[m], log[n])
    <3>1. \A m \in Node : Len(log[m]) \in Nat
      BY DEF Inv, TypeOK
    <3>2. QED
      BY <3>1 DEF LogsAgree
  <2>1. log[m] \in Seq(Value) /\ log[n] \in Seq(Value)
    BY DEF Inv, TypeOK
  <2>2. /\ Len(log[m]) = applied[m] /\ Len(log[n]) = applied[n]
        /\ \A i \in 1 .. applied[m] : log[m][i] = rlog[i]
        /\ \A i \in 1 .. applied[n] : log[n][i] = rlog[i]
    BY DEF Inv, LogsFollowRaft
  <2>3. \A i \in 1 .. Len(log[m]) : log[m][i] = log[n][i]
    BY <2>1, <2>2
  <2>4. SubSeq(log[m], 1, Len(log[m])) = SubSeq(log[n], 1, Len(log[m]))
    BY <2>1, <2>3
  <2>5. QED
    BY <2>4 DEF IsPrefix
<1>2. QED
  BY <1>1, InvInvariant, PTL

\* The offset that DistributedLog.Append gave to a client is the offset of its
\* record on every node that has one there, in every state from then on.
THEOREM AnswersAreRight == Spec => []AckedOffsetNamesRecord
<1>1. Inv => AckedOffsetNamesRecord
  <2> SUFFICES ASSUME Inv, NEW v \in Value, call[v].st = "ok",
                      NEW n \in Node, call[v].off < Len(log[n])
               PROVE  log[n][call[v].off + 1] = v
    BY DEF AckedOffsetNamesRecord
  <2>1. call[v].off \in Nat
    BY OutcomeFields DEF Inv
  <2>2. rlog[call[v].off + 1] = v
    BY DEF Inv, CallsNameEntries
  <2>3. /\ applied[n] \in Nat /\ Len(log[n]) = applied[n]
        /\ \A i \in 1 .. applied[n] : log[n][i] = rlog[i]
    BY DEF Inv, TypeOK, LogsFollowRaft
  <2>4. QED
    BY <2>1, <2>2, <2>3
<1>2. QED
  BY <1>1, InvInvariant, PTL
=============================================================================
