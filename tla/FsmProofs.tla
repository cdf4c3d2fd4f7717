------------------------------ MODULE FsmProofs ------------------------------
(***************************************************************************)
(* Proofs about Fsm: every step of FsmSpec is a step of the log of Log's   *)
(* Spec or leaves the log alone, so that LogProofs applies to the node's   *)
(* log; FsmInv adds that the log holds the applied entries and that what   *)
(* Persist copies, store by store, is a prefix of them.                    *)
(***************************************************************************)
EXTENDS Fsm, LogProofs

USE SegmentAssumption, LogAssumption

-----------------------------------------------------------------------------
(* Records *)

RecordAt(o) == [value |-> recordsBar[o], offset |-> o]

\* A store holds the records of its segment's range and no other.
LEMMA CopiedRecords ==
  ASSUME Inv, NEW b \in segments
  PROVE  Copied(b) = {RecordAt(o) : o \in b .. mem[b].nextOffset - 1}
<1>0. /\ segments # {} /\ b \in Offset /\ b \in Nat /\ mem[b].nextOffset \in Nat
      /\ mem[b].nextOffset \in Offset
  BY Numbers DEF Inv, TypeOK, ObjectType
<1>1. ASSUME NEW o \in b .. mem[b].nextOffset - 1
      PROVE  /\ FrameAt(b, o - b) \in Frames(b)
             /\ FrameAt(b, o - b).pos = file[b].slot[o - b].pos
             /\ FrameAt(b, o - b).rec = RecordAt(o)
  <2>1. o \in Offset /\ b <= o /\ o < mem[b].nextOffset
    BY <1>0 DEF Offset
  <2>2. b \in Holding(o)
    BY <2>1 DEF Holding
  <2>3. /\ FrameAt(b, o - b) \in Frames(b)
        /\ FrameAt(b, o - b).pos = file[b].slot[o - b].pos
        /\ FrameAt(b, o - b).rec \in Record
        /\ FrameAt(b, o - b).rec.offset = o
        /\ ValueAt(o) = FrameAt(b, o - b).rec.value
    BY <2>1, <2>2, FrameOfOffset
  <2>4. o \in lowestBar .. nextBar - 1
    BY <1>0, <2>1, <2>2, HeldAreInRange, Bars DEF active, Offset
  <2>5. recordsBar[o] = ValueAt(o)
    BY <2>4 DEF recordsBar
  <2>6. FrameAt(b, o - b).rec = [value |-> ValueAt(o), offset |-> o]
    BY <2>3 DEF Record
  <2>7. QED
    BY <2>3, <2>5, <2>6 DEF RecordAt
<1>2. ASSUME NEW fr \in Frames(b)
      PROVE  \E o \in b .. mem[b].nextOffset - 1 : fr.rec = RecordAt(o)
  <2>1. FramesOK(b)
    BY DEF Inv, SegmentOK
  <2>2. PICK j \in 0 .. mem[b].nextOffset - b - 1 : file[b].slot[j].pos = fr.pos
    BY <2>1 DEF FramesOK, FrameOK
  <2>3. PICK o \in b .. mem[b].nextOffset - 1 : o - b = j
    <3>1. b + j \in b .. mem[b].nextOffset - 1 /\ (b + j) - b = j
      BY <1>0
    <3>2. QED
      BY <3>1
  <2>4. FrameAt(b, j) \in Frames(b) /\ FrameAt(b, j).pos = fr.pos
    BY <1>1, <2>2, <2>3
  <2>5. FrameAt(b, j) = fr
    BY <2>1, <2>4 DEF FramesOK
  <2>6. QED
    BY <1>1, <2>3, <2>5
<1>3. Copied(b) \subseteq {RecordAt(o) : o \in b .. mem[b].nextOffset - 1}
  BY <1>2 DEF Copied
<1>4. {RecordAt(o) : o \in b .. mem[b].nextOffset - 1} \subseteq Copied(b)
  BY <1>1 DEF Copied
<1>5. QED
  BY <1>3, <1>4

\* The records of the first entries are the records of the log's low end.
LEMMA PrefixRecords ==
  ASSUME AppliedOK, NEW k \in 0 .. applied
  PROVE  Prefix(k) = {RecordAt(o) : o \in InitialOffset .. InitialOffset + k - 1}
<1>0. InitialOffset \in Nat /\ applied \in Nat
  BY DEF AppliedOK, Offset
<1>1. ASSUME NEW i \in 1 .. k
      PROVE  [value |-> entries[i], offset |-> InitialOffset + i - 1]
               = RecordAt(InitialOffset + i - 1)
  BY <1>0 DEF AppliedOK, RecordAt
<1>2. Prefix(k) \subseteq {RecordAt(o) : o \in InitialOffset .. InitialOffset + k - 1}
  <2>1. \A i \in 1 .. k : InitialOffset + i - 1 \in InitialOffset .. InitialOffset + k - 1
    BY <1>0
  <2>2. QED
    BY <1>1, <2>1 DEF Prefix
<1>3. ASSUME NEW o \in InitialOffset .. InitialOffset + k - 1
      PROVE  RecordAt(o) \in Prefix(k)
  <2>1. PICK i \in 1 .. k : InitialOffset + i - 1 = o
    <3>1. o - InitialOffset + 1 \in 1 .. k
          /\ InitialOffset + (o - InitialOffset + 1) - 1 = o
      BY <1>0
    <3>2. QED
      BY <3>1
  <2>2. RecordAt(o) = [value |-> entries[i], offset |-> InitialOffset + i - 1]
    BY <1>1, <2>1
  <2>3. QED
    BY <2>2 DEF Prefix
<1>4. QED
  BY <1>2, <1>3

\* Copying the store of the segment where a prefix ends gives a longer prefix.
LEMMA PrefixGrows ==
  ASSUME Inv, AppliedOK, NEW b \in segments
  PROVE  /\ b - InitialOffset \in 0 .. applied
         /\ mem[b].nextOffset - InitialOffset \in 0 .. applied
         /\ Prefix(b - InitialOffset) \union Copied(b)
              = Prefix(mem[b].nextOffset - InitialOffset)
<1>1. /\ InitialOffset \in Nat /\ applied \in Nat /\ segments # {}
      /\ b \in Nat /\ mem[b].nextOffset \in Nat /\ b <= mem[b].nextOffset
      /\ nextBar = InitialOffset + applied
      /\ lowestBar = InitialOffset
  BY Numbers DEF Inv, AppliedOK, Offset, SegmentOK, ObjectMatchesFiles
<1>2. InitialOffset <= b
  BY <1>1, Bars
<1>3. mem[b].nextOffset <= nextBar
  <2>1. CASE b = activeSegment
    BY <1>1, <2>1, Bars
  <2>2. CASE b # activeSegment
    <3>1. mem[b].nextOffset <= activeSegment
      BY <2>2 DEF Inv, SealedOK, ActiveOK
    <3>2. activeSegment \in Nat /\ activeSegment <= nextBar /\ nextBar \in Nat
      BY <1>1, Bars
    <3>3. QED
      BY <1>1, <3>1, <3>2
  <2>3. QED
    BY <2>1, <2>2
<1>4. PICK k \in 0 .. applied, n \in 0 .. applied :
        k = b - InitialOffset /\ n = mem[b].nextOffset - InitialOffset
  <2>1. b - InitialOffset \in 0 .. applied
        /\ mem[b].nextOffset - InitialOffset \in 0 .. applied
    BY <1>1, <1>2, <1>3
  <2>2. QED
    BY <2>1
<1>5. /\ Prefix(k) = {RecordAt(o) : o \in InitialOffset .. InitialOffset + k - 1}
      /\ Prefix(n) = {RecordAt(o) : o \in InitialOffset .. InitialOffset + n - 1}
      /\ Copied(b) = {RecordAt(o) : o \in b .. mem[b].nextOffset - 1}
  BY PrefixRecords, CopiedRecords
<1>6. InitialOffset .. InitialOffset + n - 1
        = (InitialOffset .. InitialOffset + k - 1) \union (b .. mem[b].nextOffset - 1)
  BY <1>1, <1>2, <1>4
<1>7. Prefix(k) \union Copied(b) = Prefix(n)
  BY <1>5, <1>6
<1>8. QED
  BY <1>4, <1>7

-----------------------------------------------------------------------------
(* The steps *)

LEMMA FsmInitInv == FsmInit => FsmInv
<1> SUFFICES ASSUME FsmInit
             PROVE  FsmInv
  OBVIOUS
<1>1. Inv
  BY InitInv DEF FsmInit
<1>2. NoSnapshot \in SnapshotType
  BY DEF NoSnapshot, SnapshotType, Offset
<1>3. AppliedOK
  <2>1. lowestBar = InitialOffset /\ nextBar = InitialOffset
    BY DEF FsmInit, Init, lowestBar, nextBar
  <2>2. 1 .. 0 = {} /\ InitialOffset + 0 = InitialOffset
    BY DEF Offset
  <2>3. entries \in [1 .. 0 -> Value]
    BY <2>2 DEF FsmInit
  <2>4. QED
    BY <2>1, <2>2, <2>3 DEF AppliedOK, FsmInit, Init
<1>4. SnapOK /\ SnapshotIsPrefix
  BY DEF SnapOK, SnapshotIsPrefix, FsmInit
<1>5. SurplusOfOneSegment
  BY DEF SurplusOfOneSegment, FsmInit, NoSnapshot
<1>6. QED
  BY <1>1, <1>2, <1>3, <1>4, <1>5 DEF FsmInv, FsmInit

\* The steps that the callers of the log do not see leave the snapshots as
\* they are.
SameLog ==
  /\ segments' = segments
  /\ \A b \in segments : mem'[b].nextOffset = mem[b].nextOffset
  /\ UNCHANGED <<entries, applied>>

LEMMA SnapKept ==
  ASSUME SnapOK, SameLog, snap' = snap
  PROVE  SnapOK'
BY DEF SnapOK, SameLog, Prefix, NoSnapshot

LEMMA SavedKept ==
  ASSUME SnapshotIsPrefix, SurplusOfOneSegment, SameLog, saved' = saved
  PROVE  SnapshotIsPrefix' /\ SurplusOfOneSegment'
BY DEF SnapshotIsPrefix, SurplusOfOneSegment, SameLog, Prefix, NoSnapshot

LEMMA NewDistributedLogInv ==
  ASSUME FsmInv, NewDistributedLog
  PROVE  FsmInv'
<1>1. /\ NewLog /\ Inv /\ Inv' /\ raft = "new" /\ raft' = "up" /\ proc' = "open"
      /\ UNCHANGED <<entries, applied, snap, saved>>
  BY NewLogInv DEF NewDistributedLog, setupLog, FsmInv, NewLog
<1>2. UNCHANGED <<lowestBar, nextBar, recordsBar>>
  BY <1>1, NewLogRefines DEF Abstract!vars
<1>3. AppliedOK'
  BY <1>1, <1>2 DEF FsmInv, AppliedOK
<1>4. snap = NoSnapshot /\ saved = NoSnapshot
  BY <1>1 DEF FsmInv
<1>5. SnapOK' /\ SnapshotIsPrefix' /\ SurplusOfOneSegment'
  BY <1>1, <1>4 DEF SnapOK, SnapshotIsPrefix, SurplusOfOneSegment, NoSnapshot
<1>6. QED
  BY <1>1, <1>3, <1>5 DEF FsmInv

\* A step that the callers of the log do not see.
LEMMA HiddenFsmStep ==
  ASSUME FsmInv, Inv', SameLog, UNCHANGED <<lowestBar, nextBar, recordsBar>>,
         raft' \in {"up", "down"}, raft' = "up" <=> proc' = "open"
  PROVE  AppliedOK'
BY DEF FsmInv, AppliedOK, SameLog

LEMMA ReadRecordInv ==
  ASSUME FsmInv, NEW off \in Offset, ReadRecord(off)
  PROVE  FsmInv'
<1>1. /\ Read(off) /\ Inv /\ Inv' /\ UNCHANGED raftVars /\ raft = "up"
      /\ proc' = "open" /\ segments' = segments
  BY ReadInv DEF ReadRecord, FsmInv, Read
<1>2. UNCHANGED <<lowestBar, nextBar, recordsBar>>
  BY <1>1, ReadRefines DEF Abstract!Read
<1>3. SameLog
  BY <1>1, ReadKeeps DEF SameLog, Kept, Inv, TypeOK, raftVars
<1>4. AppliedOK'
  BY <1>1, <1>2, <1>3, HiddenFsmStep DEF raftVars
<1>5. QED
  BY <1>1, <1>3, <1>4, SnapKept, SavedKept DEF FsmInv, raftVars

LEMMA CloseDistributedLogInv ==
  ASSUME FsmInv, CloseDistributedLog
  PROVE  FsmInv'
<1>1. /\ Close /\ Inv /\ Inv' /\ UNCHANGED <<entries, applied, snap, saved>>
      /\ raft' = "down" /\ proc' = "closed" /\ segments' = segments
  BY CloseInv DEF CloseDistributedLog, FsmInv, Close
<1>2. UNCHANGED <<lowestBar, nextBar, recordsBar>>
  BY <1>1, CloseRefines DEF Abstract!vars
<1>3. SameLog
  BY <1>1, CloseKeeps DEF SameLog, Kept, Inv, TypeOK
<1>4. AppliedOK'
  BY <1>1, <1>2, <1>3, HiddenFsmStep
<1>5. QED
  BY <1>1, <1>3, <1>4, SnapKept, SavedKept DEF FsmInv

\* The steps that leave the log alone.
LEMMA LogAlone ==
  ASSUME FsmInv, UNCHANGED <<vars, raft, entries, applied>>
  PROVE  Inv' /\ SameLog /\ AppliedOK'
<1>1. Inv'
  BY NextInv DEF FsmInv
<1>2. UNCHANGED <<lowestBar, nextBar, recordsBar>>
  BY DEF vars, lowestBar, nextBar, recordsBar, active, ValueAt, Holding, Frames
<1>3. SameLog
  BY DEF SameLog, vars
<1>4. AppliedOK'
  BY <1>2 DEF FsmInv, AppliedOK, vars
<1>5. QED
  BY <1>1, <1>3, <1>4

\* A Snapshot begins with nothing copied and every segment left.
LEMMA SnapshotInv ==
  ASSUME FsmInv, Snapshot
  PROVE  FsmInv'
<1>1. Inv' /\ SameLog /\ AppliedOK' /\ Inv
  BY LogAlone DEF Snapshot, FsmInv
<1>2. /\ saved' = saved /\ raft' = raft /\ raft = "up" /\ applied' = applied
      /\ segments' = segments /\ mem' = mem /\ entries' = entries
      /\ snap' = [index |-> applied, todo |-> segments, last |-> Max(segments), recs |-> {}]
  BY DEF Snapshot, vars
<1>3. segments # {} /\ proc = "open"
  BY <1>2 DEF FsmInv, AppliedOK, Inv
<1>4. /\ Max(segments) = activeSegment /\ activeSegment \in segments
      /\ \A b \in segments : b <= activeSegment
      /\ segments \subseteq Offset /\ segments \subseteq Nat
  BY <1>1, <1>3, ActiveIsMax, Numbers DEF Inv, ActiveOK
<1>5. /\ applied \in Nat /\ InitialOffset + applied = mem[activeSegment].nextOffset
      /\ lowestBar = InitialOffset /\ InitialOffset \in segments
      /\ \A b \in segments : InitialOffset <= b
      /\ InitialOffset \in Nat
  BY <1>1, <1>3, Bars DEF FsmInv, AppliedOK
<1>6. snap' \in SnapshotType
  BY <1>2, <1>4, <1>5 DEF SnapshotType
<1>7. SnapOK'
  <2>1. Prefix(InitialOffset - InitialOffset)' = {}
    <3>1. 1 .. InitialOffset - InitialOffset = {}
      BY <1>5
    <3>2. QED
      BY <3>1 DEF Prefix
  <2>2. segments = {b \in segments : InitialOffset <= b /\ b <= activeSegment}
    BY <1>4, <1>5
  <2>3. /\ snap'.index = applied /\ snap'.todo = segments /\ snap'.last = activeSegment
        /\ snap'.recs = {}
    BY <1>2, <1>4
  <2>4. snap'.index \in 0 .. applied /\ InitialOffset + snap'.index <= mem[activeSegment].nextOffset
    BY <1>5, <2>3
  <2>5. \E first \in segments :
          /\ first <= activeSegment
          /\ segments = {b \in segments : first <= b /\ b <= activeSegment}
          /\ snap'.recs = Prefix(first - InitialOffset)'
    <3>1. InitialOffset <= activeSegment
      BY <1>4, <1>5
    <3>2. QED
      BY <1>5, <2>1, <2>2, <2>3, <3>1
  <2>6. QED
    BY <1>2, <1>4, <2>3, <2>4, <2>5 DEF SnapOK, Prefix
<1>8. SnapshotIsPrefix' /\ SurplusOfOneSegment'
  BY <1>1, <1>2, SavedKept DEF FsmInv
<1>9. QED
  BY <1>1, <1>2, <1>6, <1>7, <1>8 DEF FsmInv

\* The sink is closed when every store has been copied.
LEMMA PersistCloseInv ==
  ASSUME FsmInv, PersistClose
  PROVE  FsmInv'
<1>1. Inv' /\ SameLog /\ AppliedOK'
  BY LogAlone DEF PersistClose
<1>2. /\ saved' = snap /\ snap' = NoSnapshot /\ snap # NoSnapshot /\ snap.todo = {}
      /\ raft' = raft /\ applied' = applied /\ entries' = entries /\ segments' = segments
  BY DEF PersistClose, vars
<1>3. SnapOK' /\ NoSnapshot \in SnapshotType
  BY <1>2 DEF SnapOK, NoSnapshot, SnapshotType, Offset
<1>4. SnapOK
  BY DEF FsmInv
<1>5. \E k \in snap.index .. applied : snap.recs = Prefix(k)
  <2>1. segments \subseteq Nat
    BY Numbers DEF FsmInv, Inv
  <2>2. ASSUME NEW first \in segments, first <= snap.last,
               snap.todo = {b \in segments : first <= b /\ b <= snap.last}
        PROVE  FALSE
    BY <1>2, <2>1, <2>2
  <2>3. QED
    BY <1>2, <1>4, <2>2 DEF SnapOK
<1>6. SnapshotIsPrefix'
  BY <1>2, <1>5 DEF SnapshotIsPrefix, Prefix
<1>7. SurplusOfOneSegment'
  BY <1>2, <1>4 DEF SurplusOfOneSegment, SnapOK
<1>8. QED
  BY <1>1, <1>2, <1>3, <1>6, <1>7 DEF FsmInv

LEMMA PersistCancelInv ==
  ASSUME FsmInv, PersistCancel
  PROVE  FsmInv'
<1>1. Inv' /\ SameLog /\ AppliedOK'
  BY LogAlone DEF PersistCancel
<1>2. saved' = saved /\ snap' = NoSnapshot /\ raft' = raft
  BY DEF PersistCancel
<1>3. SnapOK' /\ NoSnapshot \in SnapshotType
  BY <1>2 DEF SnapOK, NoSnapshot, SnapshotType, Offset
<1>4. SnapshotIsPrefix' /\ SurplusOfOneSegment'
  BY <1>1, <1>2, SavedKept DEF FsmInv
<1>5. QED
  BY <1>1, <1>2, <1>3, <1>4 DEF FsmInv

\* Persist copies a store. It was sealed when it was not the last one of the
\* Snapshot, so that the next store goes on where it ended.
LEMMA PersistInv ==
  ASSUME FsmInv, Persist
  PROVE  FsmInv'
<1> DEFINE b == Min(snap.todo)
<1>1. /\ snap.todo # {} /\ ReadAt(b)
      /\ snap' = [snap EXCEPT !.recs = @ \union Copied(b), !.todo = @ \ {b}]
      /\ UNCHANGED <<raft, entries, applied, saved>>
  BY DEF Persist, Left, FsmInv, SnapshotType
<1>2. snap # NoSnapshot /\ snap \in SnapshotType /\ Inv /\ AppliedOK
  BY <1>1 DEF NoSnapshot, FsmInv
<1>3. PICK first \in segments :
        /\ first <= snap.last
        /\ snap.todo = {c \in segments : first <= c /\ c <= snap.last}
        /\ snap.recs = Prefix(first - InitialOffset)
  BY <1>1, <1>2 DEF FsmInv, SnapOK
<1>4. /\ segments \subseteq Offset /\ segments \subseteq Nat
      /\ \A c \in segments : mem[c].nextOffset \in Nat
      /\ snap.last \in segments /\ snap.index \in 0 .. applied
      /\ InitialOffset + snap.index <= mem[snap.last].nextOffset
      /\ activeSegment \in segments /\ \A c \in segments : c <= activeSegment
      /\ applied \in Nat /\ InitialOffset \in Nat
  BY <1>2, <1>3, Numbers DEF FsmInv, SnapOK, Inv, ActiveOK, AppliedOK, Offset
<1>5. b = first
  <2>1. snap.todo \subseteq Nat /\ first \in snap.todo
    BY <1>3, <1>4
  <2>2. b \in snap.todo /\ \A c \in snap.todo : b <= c
    BY <2>1, MinIsSmallest
  <2> HIDE DEF b
  <2>3. b <= first /\ first <= b /\ b \in Nat /\ first \in Nat
    BY <1>3, <2>1, <2>2
  <2>4. QED
    BY <2>3
<1> HIDE DEF b
<1>6. first \in Offset /\ ReadAt(first)
  BY <1>1, <1>4, <1>5
<1>7. Inv'
  BY <1>2, <1>6, ReadAtInv
<1>8. UNCHANGED <<lowestBar, nextBar, recordsBar>>
  BY <1>2, <1>6, <1>7, ReadAtRefines DEF Abstract!vars
<1>9. SameLog
  <2>1. segments' = segments /\ Flushed(first)
    BY <1>6 DEF ReadAt
  <2>2. \A c \in segments : Kept(c)
    BY <1>2, <1>4, <1>6, <2>1, FlushKeeps DEF Inv
  <2>3. QED
    BY <1>1, <2>1, <2>2 DEF SameLog, Kept
<1>10. AppliedOK'
  <2>1. raft' = raft /\ proc' = "open" /\ proc = "open"
    BY <1>1, <1>6 DEF ReadAt
  <2>2. raft = "up"
    BY <1>2, <2>1 DEF AppliedOK
  <2>3. QED
    BY <1>7, <1>8, <1>9, <2>1, <2>2, HiddenFsmStep
<1>11. /\ snap'.index = snap.index /\ snap'.last = snap.last
       /\ snap'.todo = snap.todo \ {first}
       /\ snap'.recs = snap.recs \union Copied(first)
  BY <1>1, <1>2, <1>5 DEF SnapshotType
<1>12. PICK n \in 0 .. applied : n = mem[first].nextOffset - InitialOffset
  BY <1>2, PrefixGrows
<1>13. snap'.recs = Prefix(n)
  BY <1>2, <1>3, <1>11, <1>12, PrefixGrows
<1>14. \A r \in Copied(first) : r \in Record /\ r.offset < mem[first].nextOffset
  <2>1. Frames(first) \subseteq Frame
    BY <1>2, <1>6 DEF Inv, TypeOK, Frames, FileType, ObjectType
  <2>2. FramesOK(first)
    BY <1>2 DEF Inv, SegmentOK
  <2>3. QED
    BY <2>1, <2>2 DEF Copied, FramesOK, FrameOK, Frame
<1>15. snap' \in SnapshotType
  <2>1. snap.recs \union Copied(first) \in SUBSET Record /\ snap.todo \ {first} \in SUBSET Offset
    BY <1>2, <1>14 DEF SnapshotType
  <2>2. QED
    BY <1>1, <1>2, <1>5, <2>1 DEF SnapshotType
<1>16. \/ \E f \in segments :
            /\ f <= snap.last
            /\ snap'.todo = {c \in segments : f <= c /\ c <= snap.last}
            /\ snap'.recs = Prefix(f - InitialOffset)
       \/ /\ snap'.todo = {}
          /\ \E k \in snap.index .. applied : snap'.recs = Prefix(k)
  <2>1. CASE first = snap.last
    <3>1. snap'.todo = {}
      BY <1>3, <1>4, <1>11, <2>1
    <3>2. n \in snap.index .. applied
      <4>1. mem[first].nextOffset \in Nat /\ InitialOffset + snap.index <= mem[first].nextOffset
        BY <1>4, <2>1
      <4>2. QED
        BY <1>4, <1>12, <4>1
    <3>3. QED
      BY <1>13, <3>1, <3>2
  <2>2. CASE first # snap.last
    <3>1. first # activeSegment /\ first < snap.last
      <4>1. /\ first \in Nat /\ snap.last \in Nat /\ activeSegment \in Nat
            /\ first <= snap.last /\ snap.last <= activeSegment
        BY <1>3, <1>4
      <4>2. QED
        BY <2>2, <4>1
    <3>2. PICK f \in segments : f = mem[first].nextOffset /\ first < f
                               /\ \A c \in segments : c > first => f <= c
      BY <1>2, <3>1 DEF Inv, SealedOK
    <3>3. f <= snap.last
      BY <1>4, <3>1, <3>2
    <3>4. snap'.todo = {c \in segments : f <= c /\ c <= snap.last}
      <4>1. \A c \in segments : (first <= c /\ c # first) <=> f <= c
        <5>1. \A c \in segments : c \in Nat /\ first \in Nat /\ f \in Nat
          BY <1>4
        <5>2. QED
          BY <3>2, <5>1
      <4>2. QED
        BY <1>3, <1>11, <4>1
    <3>5. snap'.recs = Prefix(f - InitialOffset)
      BY <1>12, <1>13, <3>2
    <3>6. QED
      BY <3>3, <3>4, <3>5
  <2>3. QED
    BY <2>1, <2>2
<1>17. \A r \in snap'.recs : \A c \in segments : c > snap.last => r.offset < c
  <2> SUFFICES ASSUME NEW r \in Copied(first), NEW c \in segments, c > snap.last
               PROVE  r.offset < c
    BY <1>2, <1>11 DEF FsmInv, SnapOK
  <2>1. first # activeSegment /\ c > first
    BY <1>3, <1>4
  <2>2. mem[first].nextOffset <= c
    BY <1>2, <2>1 DEF Inv, SealedOK
  <2>3. r.offset \in Nat /\ r.offset < mem[first].nextOffset /\ mem[first].nextOffset \in Nat
    BY <1>4, <1>14, SMTT(30) DEF Record, Offset
  <2>4. QED
    BY <1>4, <2>2, <2>3
<1>18. SnapOK'
  <2>1. segments' = segments /\ entries' = entries /\ applied' = applied
        /\ mem'[snap.last].nextOffset = mem[snap.last].nextOffset
    BY <1>4, <1>9 DEF SameLog
  <2>2. \A k : Prefix(k)' = Prefix(k)
    BY <2>1 DEF Prefix
  <2>3. QED
    BY <1>4, <1>11, <1>16, <1>17, <2>1, <2>2 DEF SnapOK
<1>19. SnapshotIsPrefix' /\ SurplusOfOneSegment'
  BY <1>1, <1>9, SavedKept DEF FsmInv
<1>20. raft' # "new"
  BY <1>1, <1>2, <1>6 DEF AppliedOK, ReadAt
<1>21. QED
  BY <1>1, <1>2, <1>7, <1>10, <1>15, <1>18, <1>19, <1>20 DEF FsmInv

\* Apply of the next entry: the record goes to the end of the log, and no
\* snapshot changes.
LEMMA ApplyInv ==
  ASSUME FsmInv, NEW v \in Value, Apply(v)
  PROVE  FsmInv'
<1>1. /\ Append(v) /\ Inv /\ AppliedOK /\ raft = "up" /\ raft' = raft
      /\ applied' = applied + 1 /\ snap' = snap /\ saved' = saved
      /\ entries' = [i \in DOMAIN entries \union {applied + 1} |->
                       IF i = applied + 1 THEN v ELSE entries[i]]
  BY DEF Apply, NextEntry, FsmInv
<1>2. Inv'
  BY <1>1, AppendInv
<1>3. /\ lowestBar' = lowestBar /\ nextBar' = nextBar + 1
      /\ recordsBar' = [o \in lowestBar .. nextBar |-> IF o = nextBar THEN v ELSE recordsBar[o]]
  BY <1>1, <1>2, AppendRefines DEF Abstract!Append
<1>4. /\ applied \in Nat /\ entries \in [1 .. applied -> Value]
      /\ lowestBar = InitialOffset /\ nextBar = InitialOffset + applied
      /\ \A i \in 1 .. applied : recordsBar[InitialOffset + i - 1] = entries[i]
      /\ InitialOffset \in Nat
  BY <1>1 DEF AppliedOK, Offset
<1>5. /\ entries' = [i \in 1 .. applied + 1 |-> IF i = applied + 1 THEN v ELSE entries[i]]
  <2>1. DOMAIN entries \union {applied + 1} = 1 .. applied + 1
    BY <1>4
  <2>2. QED
    BY <1>1, <2>1
<1>6. AppliedOK'
  <2>1. entries' \in [1 .. applied + 1 -> Value]
    <3>1. ASSUME NEW i \in 1 .. applied + 1
          PROVE  (IF i = applied + 1 THEN v ELSE entries[i]) \in Value
      <4>1. CASE i = applied + 1
        BY <4>1
      <4>2. CASE i # applied + 1
        <5>1. i \in 1 .. applied
          BY <1>4, <4>2
        <5>2. QED
          BY <1>4, <4>2, <5>1
      <4>3. QED
        BY <4>1, <4>2
    <3>2. QED
      BY <1>5, <3>1
  <2>2. ASSUME NEW i \in 1 .. applied + 1
        PROVE  recordsBar'[InitialOffset + i - 1] = entries'[i]
    <3>1. PICK o \in lowestBar .. nextBar : o = InitialOffset + i - 1
      BY <1>4
    <3>2. CASE i = applied + 1
      <4>1. o = nextBar
        BY <1>4, <3>1, <3>2
      <4>2. QED
        BY <1>3, <1>5, <3>1, <3>2, <4>1
    <3>3. CASE i # applied + 1
      <4>1. o # nextBar /\ i \in 1 .. applied
        BY <1>4, <3>1, <3>3
      <4>2. recordsBar'[o] = recordsBar[o] /\ entries'[i] = entries[i]
        BY <1>3, <1>5, <3>3, <4>1
      <4>3. QED
        BY <1>4, <3>1, <4>1, <4>2
    <3>4. QED
      BY <3>2, <3>3
  <2>3. nextBar' = InitialOffset + applied' /\ applied' \in Nat
    BY <1>1, <1>3, <1>4
  <2>4. proc' = "open"
    BY <1>1 DEF Append
  <2>5. QED
    BY <1>1, <1>3, <1>4, <2>1, <2>2, <2>3, <2>4 DEF AppliedOK
<1>7. \A k \in Int : k <= applied => Prefix(k)' = Prefix(k)
  <2> SUFFICES ASSUME NEW k \in Int, k <= applied
               PROVE  Prefix(k)' = Prefix(k)
    OBVIOUS
  <2>1. \A i \in 1 .. k : entries'[i] = entries[i]
    BY <1>4, <1>5
  <2>2. QED
    BY <2>1 DEF Prefix
<1>8. PICK a \in Offset : a = activeSegment
  BY <1>1 DEF Inv, TypeOK
<1>9. /\ segments \subseteq segments' /\ a \in segments
      /\ \A b \in segments' \ segments : b > a /\ b = activeSegment'
      /\ mem'[activeSegment'].nextOffset = mem[a].nextOffset + 1
      /\ file'[a] = AppendedFile(v) /\ mem'[a] = AppendedMem(v)
      /\ mem[a].nextOffset = nextBar /\ segments # {}
      /\ \A b \in segments : b <= a
  BY <1>1, <1>8, AppendGrows, Bars DEF Inv, ActiveOK, Append
<1>10. \A b \in segments : mem'[b].nextOffset >= mem[b].nextOffset
                         /\ mem'[b].nextOffset \in Nat /\ mem[b].nextOffset \in Nat
  <2> SUFFICES ASSUME NEW b \in segments
               PROVE  mem'[b].nextOffset >= mem[b].nextOffset
                      /\ mem'[b].nextOffset \in Nat /\ mem[b].nextOffset \in Nat
    OBVIOUS
  <2>1. mem[b].nextOffset \in Nat
    BY <1>1, Numbers DEF Inv
  <2>2. CASE b = a
    <3>1. mem'[a].nextOffset = mem[a].nextOffset + 1
      BY <1>1, <1>8, <1>9, AppendToActive
    <3>2. QED
      BY <2>1, <2>2, <3>1
  <2>3. CASE b # a
    <3>1. mem'[b].nextOffset = mem[b].nextOffset
      BY <1>1, <1>8, <2>3, AppendKeeps DEF Kept
    <3>2. QED
      BY <2>1, <3>1
  <2>4. QED
    BY <2>2, <2>3
<1>11. /\ segments \subseteq Nat /\ a \in Nat
  BY <1>1, <1>8, Numbers DEF Inv, Offset
\* A new segment lies above every record there was.
<1>12. ASSUME NEW b \in segments' \ segments, NEW k \in Int, k <= applied, NEW r \in Prefix(k)
       PROVE  r.offset < b
  <2>1. PICK i \in 1 .. k : r = [value |-> entries[i], offset |-> InitialOffset + i - 1]
    BY DEF Prefix
  <2>2. r.offset < nextBar /\ r.offset \in Int
    BY <1>4, <1>12, <2>1
  <2>3. b = nextBar + 1
    <3>1. b = activeSegment' /\ b \in Offset /\ b > a
      BY <1>2, <1>9, <1>12 DEF Inv, TypeOK
    <3>2. AppendAndRoll(v)
      BY <1>1, <1>12 DEF Append, AppendOnly
    <3>3. activeSegment' = active.nextOffset + 1
      BY <3>2 DEF AppendAndRoll
    <3>4. QED
      BY <1>8, <1>9, <3>1, <3>3 DEF active
  <2>4. QED
    BY <1>4, <2>2, <2>3
<1>13. SnapOK'
  <2> SUFFICES ASSUME snap # NoSnapshot
               PROVE  SnapOK'
    BY <1>1 DEF SnapOK
  <2>1. /\ SnapOK /\ snap.index \in 0 .. applied /\ snap.last \in segments
        /\ InitialOffset + snap.index <= mem[snap.last].nextOffset
    BY DEF FsmInv, SnapOK
  <2>2. /\ snap.index \in 0 .. applied + 1 /\ snap.last \in segments'
        /\ InitialOffset + snap.index <= mem'[snap.last].nextOffset
    <3>1. /\ mem[snap.last].nextOffset \in Nat /\ mem'[snap.last].nextOffset \in Nat
          /\ mem'[snap.last].nextOffset >= mem[snap.last].nextOffset
      BY <1>10, <2>1
    <3>2. snap.index \in Nat /\ snap.index \in 0 .. applied + 1
      BY <1>4, <2>1
    <3>3. InitialOffset + snap.index \in Nat
          /\ InitialOffset + snap.index <= mem[snap.last].nextOffset
      BY <1>4, <2>1, <3>2
    <3>4. InitialOffset + snap.index <= mem'[snap.last].nextOffset
      BY <3>1, <3>3
    <3>5. QED
      BY <1>9, <2>1, <3>2, <3>4
  <2>3. \/ \E first \in segments' :
             /\ first <= snap.last
             /\ snap.todo = {b \in segments' : first <= b /\ b <= snap.last}
             /\ snap.recs = Prefix(first - InitialOffset)'
        \/ /\ snap.todo = {}
           /\ \E k \in snap.index .. applied + 1 : snap.recs = Prefix(k)'
    <3>1. ASSUME NEW first \in segments, first <= snap.last,
                 snap.todo = {b \in segments : first <= b /\ b <= snap.last},
                 snap.recs = Prefix(first - InitialOffset)
          PROVE  /\ snap.todo = {b \in segments' : first <= b /\ b <= snap.last}
                 /\ snap.recs = Prefix(first - InitialOffset)'
      <4>1. first - InitialOffset \in 0 .. applied
        BY <1>1, PrefixGrows
      <4>2. snap.recs = Prefix(first - InitialOffset)'
        BY <1>7, <3>1, <4>1
      <4>3. \A b \in segments' \ segments : ~(b <= snap.last)
        <5>1. segments' \subseteq Nat
          BY <1>2 DEF Inv, TypeOK, Offset
        <5>2. snap.last \in Nat /\ snap.last <= a
          BY <1>9, <1>11, <2>1
        <5>3. QED
          BY <1>9, <1>11, <5>1, <5>2
      <4>4. QED
        BY <1>9, <3>1, <4>2, <4>3
    <3>2. ASSUME NEW k \in snap.index .. applied, snap.recs = Prefix(k)
          PROVE  k \in snap.index .. applied + 1 /\ snap.recs = Prefix(k)'
      BY <1>4, <1>7, <2>1, <3>2
    <3>3. QED
      BY <1>9, <2>1, <3>1, <3>2 DEF SnapOK
  <2>4. ASSUME NEW r \in snap.recs, NEW b \in segments', b > snap.last
        PROVE  r.offset < b
    <3>1. CASE b \in segments
      BY <2>1, <2>4, <3>1 DEF SnapOK
    <3>2. CASE b \notin segments
      <4>1. \E k \in Int : k <= applied /\ snap.recs = Prefix(k)
        <5>1. \A first \in segments : first - InitialOffset \in 0 .. applied
          BY <1>1, PrefixGrows
        <5>2. QED
          BY <1>4, <2>1, <5>1 DEF SnapOK
      <4>2. QED
        BY <1>12, <3>2, <4>1
    <3>3. QED
      BY <3>1, <3>2
  <2>5. QED
    BY <1>1, <2>2, <2>3, <2>4 DEF SnapOK
<1>14. SnapshotIsPrefix'
  <2> SUFFICES ASSUME saved # NoSnapshot
               PROVE  \E k \in saved.index .. applied + 1 : saved.recs = Prefix(k)'
    BY <1>1 DEF SnapshotIsPrefix
  <2>1. PICK k \in saved.index .. applied : saved.recs = Prefix(k)
    BY DEF FsmInv, SnapshotIsPrefix
  <2>2. k \in Int /\ k \in saved.index .. applied + 1 /\ k <= applied
    BY <1>4, <2>1 DEF FsmInv, SnapshotType
  <2>3. QED
    BY <1>7, <2>1, <2>2
<1>15. SurplusOfOneSegment'
  <2> SUFFICES ASSUME NEW r \in saved.recs, NEW b \in segments', b > saved.last
               PROVE  r.offset < b
    BY <1>1 DEF SurplusOfOneSegment
  <2>1. CASE b \in segments
    BY <2>1 DEF FsmInv, SurplusOfOneSegment
  <2>2. CASE b \notin segments
    <3>1. saved # NoSnapshot
      BY DEF NoSnapshot
    <3>2. PICK k \in saved.index .. applied : saved.recs = Prefix(k)
      BY <3>1 DEF FsmInv, SnapshotIsPrefix
    <3>3. k \in Int /\ k <= applied
      BY <1>4, <3>2 DEF FsmInv, SnapshotType
    <3>4. QED
      BY <1>12, <2>2, <3>2, <3>3
  <2>3. QED
    BY <2>1, <2>2
<1>16. QED
  BY <1>1, <1>2, <1>6, <1>13, <1>14, <1>15 DEF FsmInv

-----------------------------------------------------------------------------
(* Theorems *)

LEMMA FsmNextInv == FsmInv /\ [FsmNext]_fsmVars => FsmInv'
<1> SUFFICES ASSUME FsmInv, [FsmNext]_fsmVars
             PROVE  FsmInv'
  OBVIOUS
<1>1. CASE NewDistributedLog
  BY <1>1, NewDistributedLogInv
<1>2. ASSUME NEW v \in Value, Apply(v)
      PROVE  FsmInv'
  BY <1>2, ApplyInv
<1>3. ASSUME NEW off \in Offset, ReadRecord(off)
      PROVE  FsmInv'
  BY <1>3, ReadRecordInv
<1>4. CASE Snapshot
  BY <1>4, SnapshotInv
<1>5. CASE Persist
  BY <1>5, PersistInv
<1>6. CASE PersistClose
  BY <1>6, PersistCloseInv
<1>7. CASE PersistCancel
  BY <1>7, PersistCancelInv
<1>8. CASE CloseDistributedLog
  BY <1>8, CloseDistributedLogInv
<1>9. CASE UNCHANGED fsmVars
  <2>1. UNCHANGED <<vars, raft, entries, applied>> /\ snap' = snap /\ saved' = saved
    BY <1>9 DEF fsmVars, raftVars
  <2>2. Inv' /\ SameLog /\ AppliedOK'
    BY <2>1, LogAlone
  <2>3. QED
    BY <2>1, <2>2, SnapKept, SavedKept DEF FsmInv
<1>10. QED
  BY <1>1, <1>2, <1>3, <1>4, <1>5, <1>6, <1>7, <1>8, <1>9 DEF FsmNext

\* In every state of a node's first life its log is one of Log's Spec and holds
\* the records raft has applied, under the offsets they are to have.
THEOREM FsmInvariant == FsmSpec => []FsmInv
<1>1. QED
  BY FsmInitInv, FsmNextInv, PTL DEF FsmSpec

\* (*fsm).Snapshot hands Persist a Reader over the live log: what it copies while
\* records are applied and segments roll is a prefix of the applied records that
\* reaches at least to the snapshot's index.
THEOREM SnapshotsArePrefixes == FsmSpec => []SnapshotIsPrefix
<1>1. FsmInv => SnapshotIsPrefix
  BY DEF FsmInv
<1>2. QED
  BY <1>1, FsmInvariant, PTL

\* What Persist copies beyond the snapshot's index stays within the segment that
\* was active when the Reader was made.
THEOREM SurplusIsBounded == FsmSpec => []SurplusOfOneSegment
<1>1. FsmInv => SurplusOfOneSegment
  BY DEF FsmInv
<1>2. QED
  BY <1>1, FsmInvariant, PTL
=============================================================================
