--------------------------- MODULE LogStoreProofs ---------------------------
(***************************************************************************)
(* Proofs about LogStore: every step of raft on its log store is a step of *)
(* the log of Log's Spec, so that what LogProofs shows of the log, and of  *)
(* the commit log it implements, holds of the store; StoreInv adds that    *)
(* the commit log is raft's log.                                           *)
(***************************************************************************)
EXTENDS LogStore, LogProofs

USE SegmentAssumption, LogAssumption, LogStoreAssumption

-----------------------------------------------------------------------------
(* Numbers *)

\* Numbered is the upper end of the entries.
LEMMA LargestNumbered ==
  ASSUME NEW lo \in Nat, NEW n \in Nat, lo <= n,
         \/ lo < n
         \/ lo = 0
  PROVE  Max((lo + 1 .. n) \union {0}) = n
<1> DEFINE S == (lo + 1 .. n) \union {0}
<1>1. n \in S /\ \A y \in S : n >= y
  OBVIOUS
<1>2. \A x \in S : (\A y \in S : x >= y) => x = n
  BY <1>1
<1> HIDE DEF S
<1>3. Max(S) \in S /\ \A y \in S : Max(S) >= y
  BY <1>1, Zenon DEF Max
<1>4. Max(S) = n
  BY <1>2, <1>3, Zenon
<1>5. QED
  BY <1>4 DEF S

-----------------------------------------------------------------------------
(* The steps *)

LEMMA StoreInitInv == StoreInit => StoreInv
<1> SUFFICES ASSUME StoreInit
             PROVE  StoreInv
  OBVIOUS
<1>1. Inv
  BY InitInv DEF StoreInit
<1>2. DOMAIN entries = {}
  BY DEF StoreInit
<1>3. Max((0 + 1 .. 0) \union {0}) = 0
  BY LargestNumbered
<1>4. 0 + 1 .. 0 = {}
  OBVIOUS
<1>5. Numbered = 0
  BY <1>2, <1>3, <1>4 DEF Numbered
<1>6. NumbersOK
  <2>1. entries \in [DOMAIN entries -> Value]
    BY <1>2 DEF StoreInit
  <2>2. 0 < MaxOffset
    BY DEF Offset
  <2>3. QED
    BY <1>2, <1>4, <1>5, <2>1, <2>2 DEF NumbersOK, StoreInit
<1>7. nextBar = 1 /\ lowestBar = 1 /\ segments = {}
  BY DEF StoreInit, Init, nextBar, lowestBar
<1>8. StoredOK
  BY <1>2, <1>7 DEF StoredOK, StoreInit
<1>9. CompactionIsComplete
  BY DEF StoreInit, CompactionIsComplete
<1>10. QED
  BY <1>1, <1>6, <1>8, <1>9 DEF StoreInv

\* A step that changes neither raft's side nor what the log shows.
LEMMA HiddenStep ==
  ASSUME StoreInv, Inv', UNCHANGED raftVars, UNCHANGED <<lowestBar, nextBar, recordsBar>>,
         proc' = "open", segments \subseteq segments',
         \A b \in segments' : b \in segments /\ mem'[b].nextOffset = mem[b].nextOffset
  PROVE  StoreInv'
<1>1. NumbersOK'
  BY DEF StoreInv, NumbersOK, Numbered, raftVars
<1>2. StoredOK'
  BY DEF StoreInv, StoredOK, raftVars
<1>3. CompactionIsComplete'
  BY DEF StoreInv, CompactionIsComplete, raftVars
<1>4. QED
  BY <1>1, <1>2, <1>3 DEF StoreInv

LEMMA newLogStoreInv ==
  ASSUME StoreInv, newLogStore
  PROVE  StoreInv'
<1>1. NewLog /\ UNCHANGED raftVars /\ Inv /\ Inv'
  BY NewLogInv DEF newLogStore, StoreInv
<1>2. UNCHANGED <<lowestBar, nextBar, recordsBar>>
  BY <1>1, NewLogRefines DEF Abstract!vars
<1>3. proc' = "open" /\ cut = 0
  BY <1>1 DEF NewLog, StoreInv, StoredOK, Inv
<1>4. NumbersOK'
  BY <1>1 DEF StoreInv, NumbersOK, Numbered, raftVars
<1>5. StoredOK'
  BY <1>1, <1>2, <1>3 DEF StoreInv, StoredOK, raftVars
<1>6. CompactionIsComplete'
  BY <1>1, <1>3 DEF CompactionIsComplete, raftVars
<1>7. QED
  BY <1>1, <1>4, <1>5, <1>6 DEF StoreInv

LEMMA GetLogInv ==
  ASSUME StoreInv, NEW index \in Offset, GetLog(index)
  PROVE  StoreInv'
<1>1. Read(index) /\ UNCHANGED raftVars /\ Inv /\ Inv'
  BY ReadInv DEF GetLog, StoreInv
<1>2. UNCHANGED <<lowestBar, nextBar, recordsBar>>
  BY <1>1, ReadRefines DEF Abstract!Read
<1>3. proc' = "open" /\ segments' = segments
  BY <1>1 DEF Read
<1>4. \A b \in segments : mem'[b].nextOffset = mem[b].nextOffset
  BY <1>1, ReadKeeps DEF Kept, Inv, TypeOK
<1>5. QED
  BY <1>1, <1>2, <1>3, <1>4, HiddenStep

LEMMA StoreLogsInv ==
  ASSUME StoreInv, NEW n \in 1 .. MaxBatch, NEW records \in [1 .. n -> Value],
         StoreLogs(n, records)
  PROVE  StoreInv'
<1>1. /\ UNCHANGED <<vars, last, appended, cut>>
      /\ appended = Numbered /\ last + n < MaxOffset
      /\ DOMAIN entries' = DOMAIN entries \union (last + 1 .. last + n)
      /\ \A i \in DOMAIN entries' :
           entries'[i] = IF i <= last THEN entries[i] ELSE records[i - last]
      /\ entries' = [i \in DOMAIN entries' |-> entries'[i]]
  BY DEF StoreLogs
<1>2. /\ last \in Nat /\ cut \in Nat /\ n \in Nat /\ n > 0
      /\ last = Numbered /\ DOMAIN entries = cut + 1 .. last
      /\ cut > 0 => cut < last
      /\ \A i \in DOMAIN entries : entries[i] \in Value
  BY <1>1 DEF StoreInv, NumbersOK
<1>3. DOMAIN entries' = cut + 1 .. last + n
  BY <1>1, <1>2
<1>4. Numbered' = last + n
  <2>1. cut < last + n /\ last + n \in Nat
    BY <1>2
  <2>2. Max((cut + 1 .. last + n) \union {0}) = last + n
    BY <1>2, <2>1, LargestNumbered
  <2>3. QED
    BY <1>3, <2>2 DEF Numbered
<1>5. \A i \in DOMAIN entries' : entries'[i] \in Value
  <2> SUFFICES ASSUME NEW i \in DOMAIN entries'
               PROVE  entries'[i] \in Value
    OBVIOUS
  <2>1. CASE i <= last
    BY <1>1, <1>2, <1>3, <2>1
  <2>2. CASE ~(i <= last)
    <3>1. i - last \in 1 .. n
      BY <1>2, <1>3, <2>2
    <3>2. QED
      BY <1>1, <2>2, <3>1
  <2>3. QED
    BY <2>1, <2>2
<1>6. entries' \in [DOMAIN entries' -> Value]
  BY <1>1, <1>5
<1>7. NumbersOK'
  BY <1>1, <1>2, <1>3, <1>4, <1>6 DEF NumbersOK
<1>8. Inv'
  BY <1>1, NextInv DEF StoreInv
<1>9. UNCHANGED <<lowestBar, nextBar, recordsBar>>
  BY <1>1 DEF vars, lowestBar, nextBar, recordsBar, active, ValueAt, Holding, Frames
<1>10. StoredOK'
  <2>1. ASSUME NEW i \in DOMAIN entries', i <= appended
        PROVE  recordsBar[i] = entries'[i]
    <3>1. i \in DOMAIN entries /\ i <= last /\ entries'[i] = entries[i]
      BY <1>1, <1>2, <1>3, <2>1
    <3>2. QED
      BY <2>1, <3>1 DEF StoreInv, StoredOK
  <2>2. QED
    BY <1>1, <1>9, <2>1 DEF StoreInv, StoredOK, vars
<1>11. CompactionIsComplete'
  BY <1>1 DEF StoreInv, CompactionIsComplete, vars
<1>12. QED
  BY <1>7, <1>8, <1>10, <1>11 DEF StoreInv

LEMMA StoreNextInv ==
  ASSUME StoreInv, StoreNext
  PROVE  StoreInv'
<1>1. /\ appended < Numbered /\ Numbered \in Nat /\ appended \in Nat /\ last \in Nat
      /\ cut \in Nat /\ last <= appended /\ (cut > 0 => cut < last)
      /\ DOMAIN entries = cut + 1 .. Numbered
      /\ entries \in [DOMAIN entries -> Value]
      /\ Inv
  BY DEF StoreNext, StoreInv, NumbersOK
<1>2. PICK v \in Value : v = entries[appended + 1]
  <2>1. appended + 1 \in DOMAIN entries
    BY <1>1
  <2>2. QED
    BY <1>1, <2>1
<1>3. Append(v) /\ Inv'
  BY <1>1, <1>2, AppendInv DEF StoreNext
<1>4. /\ lowestBar' = lowestBar /\ nextBar' = nextBar + 1
      /\ recordsBar' = [o \in lowestBar .. nextBar |-> IF o = nextBar THEN v ELSE recordsBar[o]]
      /\ resp' = Appended(nextBar)
  BY <1>1, <1>3, AppendRefines DEF Abstract!Append, Abstract!Appended, Appended
<1>5. /\ appended' = appended + 1 /\ cut' = cut /\ entries' = entries
      /\ last' = IF appended + 1 = Numbered THEN Numbered ELSE last
  BY <1>4 DEF StoreNext, Appended
<1>6. NumbersOK'
  <2>1. Numbered' = Numbered
    BY <1>5 DEF Numbered
  <2>2. QED
    BY <1>1, <1>5, <2>1, SMTT(30) DEF StoreInv, NumbersOK
<1>7. /\ nextBar = appended + 1 /\ lowestBar <= cut + 1 /\ lowestBar \in Nat
      /\ segments # {}
      /\ \A i \in DOMAIN entries : i <= appended => recordsBar[i] = entries[i]
  BY <1>1, <1>3, Bars DEF StoreInv, StoredOK, Append, Inv
<1>8. StoredOK'
  <2>1. nextBar' = appended' + 1 /\ lowestBar' <= cut' + 1
    BY <1>4, <1>5, <1>7
  <2>2. ASSUME NEW i \in DOMAIN entries, i <= appended + 1
        PROVE  recordsBar'[i] = entries[i]
    <3>1. i \in lowestBar .. nextBar
      BY <1>1, <1>7, <2>2
    <3>2. CASE i = nextBar
      BY <1>2, <1>4, <1>7, <3>1, <3>2
    <3>3. CASE i # nextBar
      <4>1. i <= appended
        BY <1>1, <1>7, <2>2, <3>3
      <4>2. QED
        BY <1>4, <1>7, <3>1, <3>3, <4>1
    <3>4. QED
      BY <3>2, <3>3
  <2>3. proc' = "open"
    BY <1>3 DEF Append
  <2>4. QED
    BY <1>5, <2>1, <2>2, <2>3 DEF StoredOK
<1>9. CompactionIsComplete'
  <2> SUFFICES ASSUME cut > 0, NEW b \in segments'
               PROVE  mem'[b].nextOffset > cut + 1
    BY <1>5 DEF CompactionIsComplete
  <2>0. PICK a \in Offset : a = activeSegment
    BY <1>1 DEF Inv, TypeOK
  <2>1. /\ file'[a] = AppendedFile(v) /\ mem'[a] = AppendedMem(v)
        /\ a \in Nat /\ a \in segments /\ nextBar = mem[a].nextOffset
    BY <1>1, <1>3, <1>7, <2>0, AppendGrows, Bars
  <2>2. mem'[a].nextOffset = appended + 2
    <3>1. mem'[a].nextOffset = mem[a].nextOffset + 1
      BY <1>1, <1>3, <2>0, <2>1, AppendToActive
    <3>2. QED
      BY <1>1, <1>7, <2>1, <3>1, SMTT(30)
  <2>3. CASE b = a
    BY <1>1, <2>2, <2>3
  <2>4. CASE b # a /\ b \in segments
    <3>1. mem'[b].nextOffset = mem[b].nextOffset
      BY <1>1, <1>3, <2>0, <2>4, AppendKeeps DEF Kept
    <3>2. QED
      BY <2>4, <3>1 DEF StoreInv, CompactionIsComplete
  <2>5. CASE b \notin segments
    <3>1. b = activeSegment'
      BY <1>1, <1>3, <2>0, <2>5, AppendGrows
    <3>2. mem'[b].nextOffset = appended + 2
      BY <1>1, <1>3, <1>7, <2>0, <2>1, <3>1, AppendGrows, SMTT(30)
    <3>3. QED
      BY <1>1, <3>2
  <2>6. QED
    BY <2>3, <2>4, <2>5
<1>10. QED
  BY <1>3, <1>6, <1>8, <1>9 DEF StoreInv

\* compactLogs never asks for the record stored last: it is a Truncate of Log.
LEMMA compactLogsInv ==
  ASSUME StoreInv, NEW max \in Offset, compactLogs(max)
  PROVE  StoreInv'
<1>1. /\ proc = "open" /\ segments # {} /\ proc' = "open" /\ resp' = Truncated
      /\ TruncateTo(max) /\ last' = last /\ appended' = appended
      /\ max + TrailingLogs <= last /\ Min(segments) <= max
      /\ cut' = IF max > cut THEN max ELSE cut
      /\ DOMAIN entries' = DOMAIN entries \intersect (max + 1 .. MaxOffset)
      /\ \A i \in DOMAIN entries' : entries'[i] = entries[i]
      /\ entries' = [i \in DOMAIN entries' |-> entries'[i]]
  BY DEF compactLogs, DeleteRange, FirstIndex, LowestOffset, Restricted
<1>2. /\ Inv /\ Numbered \in Nat /\ appended \in Nat /\ last \in Nat /\ cut \in Nat
      /\ Numbered < MaxOffset /\ max \in Nat
      /\ last <= appended /\ appended <= Numbered
      /\ appended = Numbered => last = Numbered
      /\ cut > 0 => cut < last
      /\ DOMAIN entries = cut + 1 .. Numbered
      /\ \A i \in DOMAIN entries : entries[i] \in Value
  BY DEF StoreInv, NumbersOK, Offset
<1>3. /\ nextBar = appended + 1 /\ lowestBar <= cut + 1 /\ lowestBar \in Nat
      /\ \A i \in DOMAIN entries : i <= appended => recordsBar[i] = entries[i]
  BY <1>1, <1>2, Bars DEF StoreInv, StoredOK
<1>4. max + 1 <= last
  BY <1>1, <1>2
<1>5. Truncate(max)
  <2>1. nextBar = active.nextOffset
    BY <1>1 DEF nextBar
  <2>2. max + 1 < nextBar
    BY <1>2, <1>3, <1>4
  <2>3. QED
    BY <1>1, <2>1, <2>2 DEF Truncate, Compacts
<1>6. Inv'
  BY <1>2, <1>5, TruncateInv
<1>7. PICK lo \in lowestBar .. nextBar :
        /\ lo <= max + 1 \/ lo = lowestBar
        /\ lowestBar' = lo
        /\ recordsBar' = [o \in lo .. nextBar - 1 |-> recordsBar[o]]
        /\ nextBar' = nextBar
  BY <1>2, <1>5, <1>6, TruncateRefines DEF Abstract!Truncate
<1>8. cut' \in Nat /\ cut' < last /\ cut <= cut' /\ max <= cut'
  BY <1>1, <1>2, <1>4, SMTT(30)
<1>9. DOMAIN entries' = cut' + 1 .. Numbered
  BY <1>1, <1>2, <1>8, SMTT(30)
<1>10. NumbersOK'
  <2>1. Numbered' = Numbered
    <3>0. cut' \in Nat /\ Numbered \in Nat /\ cut' < Numbered /\ cut' <= Numbered
      BY <1>2, <1>8
    <3>1. Max((cut' + 1 .. Numbered) \union {0}) = Numbered
      BY <3>0, LargestNumbered
    <3>2. QED
      BY <1>9, <3>1 DEF Numbered
  <2>2. entries' \in [DOMAIN entries' -> Value]
    BY <1>1, <1>2
  <2>3. QED
    BY <1>1, <1>2, <1>8, <1>9, <2>1, <2>2 DEF NumbersOK
<1>11. StoredOK'
  <2>1. lowestBar' <= cut' + 1 /\ nextBar' = appended' + 1
    BY <1>1, <1>2, <1>3, <1>7, <1>8, SMTT(30)
  <2>2. ASSUME NEW i \in DOMAIN entries', i <= appended
        PROVE  recordsBar'[i] = entries'[i]
    <3>1. i \in DOMAIN entries /\ entries'[i] = entries[i] /\ recordsBar[i] = entries[i]
      BY <1>1, <1>3, <2>2
    <3>2. i \in lo .. nextBar - 1
      <4>1. i \in Nat /\ lo \in Nat /\ lo <= i
        <5>1. PICK c \in Nat, n \in Nat : c = cut' /\ n = Numbered
          BY <1>2, <1>8
        <5>2. i \in c + 1 .. n
          BY <1>9, <5>1
        <5>3. lo \in Nat
          BY <1>2, <1>3
        <5>4. lo <= c + 1
          BY <1>7, <2>1, <5>1
        <5>5. QED
          BY <5>2, <5>3, <5>4
      <4>2. nextBar - 1 = appended
        BY <1>2, <1>3
      <4>3. appended \in Nat
        BY <1>2
      <4>4. QED
        BY <2>2, <4>1, <4>2, <4>3
    <3>3. QED
      BY <1>7, <3>1, <3>2
  <2>3. QED
    BY <1>1, <2>1, <2>2 DEF StoredOK
<1>12. CompactionIsComplete'
  <2> SUFFICES ASSUME NEW b \in segments'
               PROVE  mem'[b].nextOffset > cut' + 1
    BY DEF CompactionIsComplete
  <2>1. b \in segments /\ b \notin Removable(max) /\ b \in Offset
    BY <1>1, <1>2 DEF TruncateTo, Inv, TypeOK
  <2>2. mem'[b].nextOffset = mem[b].nextOffset /\ mem[b].nextOffset \in Nat
    BY <1>1, <1>2, <2>1, TruncateKeeps, Numbers DEF Kept, Inv
  <2>3. mem[b].nextOffset > max + 1
    BY <1>2, <2>1, <2>2 DEF Removable
  <2>4. cut > 0 => mem[b].nextOffset > cut + 1
    BY <2>1 DEF StoreInv, CompactionIsComplete
  <2>5. QED
    BY <1>1, <1>2, <2>2, <2>3, <2>4, SMTT(30)
<1>13. QED
  BY <1>6, <1>10, <1>11, <1>12 DEF StoreInv

-----------------------------------------------------------------------------
(* Theorems *)

LEMMA StoreStepInv == StoreInv /\ [StoreStep]_storeVars => StoreInv'
<1> SUFFICES ASSUME StoreInv, [StoreStep]_storeVars
             PROVE  StoreInv'
  OBVIOUS
<1>1. CASE newLogStore
  BY <1>1, newLogStoreInv
<1>2. ASSUME NEW n \in 1 .. MaxBatch, NEW records \in [1 .. n -> Value],
             StoreLogs(n, records)
      PROVE  StoreInv'
  BY <1>2, StoreLogsInv
<1>3. CASE StoreNext
  BY <1>3, StoreNextInv
<1>4. ASSUME NEW index \in Offset, GetLog(index)
      PROVE  StoreInv'
  BY <1>4, GetLogInv
<1>5. ASSUME NEW max \in Offset, compactLogs(max)
      PROVE  StoreInv'
  BY <1>5, compactLogsInv
<1>6. CASE UNCHANGED storeVars
  <2>1. UNCHANGED vars /\ UNCHANGED raftVars
    BY <1>6 DEF storeVars
  <2>2. Inv'
    BY <2>1, NextInv DEF StoreInv
  <2>3. UNCHANGED <<lowestBar, nextBar, recordsBar>>
    BY <2>1 DEF vars, lowestBar, nextBar, recordsBar, active, ValueAt, Holding, Frames
  <2>4. NumbersOK'
    BY <2>1 DEF StoreInv, NumbersOK, Numbered, raftVars
  <2>5. StoredOK' /\ CompactionIsComplete'
    BY <2>1, <2>3 DEF StoreInv, StoredOK, CompactionIsComplete, vars, raftVars
  <2>6. QED
    BY <2>2, <2>4, <2>5 DEF StoreInv
<1>7. QED
  BY <1>1, <1>2, <1>3, <1>4, <1>5, <1>6 DEF StoreStep

\* In every state of the store that raft fills and compacts, the log is one of
\* Log's Spec and holds raft's entries under raft's indices.
THEOREM StoreInvariant == StoreSpec => []StoreInv
<1>1. QED
  BY StoreInitInv, StoreStepInv, PTL DEF StoreSpec

\* A DeleteRange of a compaction frees every segment that has no entry raft
\* keeps.
THEOREM CompactionFrees == StoreSpec => []CompactionIsComplete
<1>1. StoreInv => CompactionIsComplete
  BY DEF StoreInv
<1>2. QED
  BY <1>1, StoreInvariant, PTL

\* GetLog returns the entry that StoreLogs was given for the index, although
\* StoreLogs does not pass the index on and DeleteRange drops whole segments.
THEOREM GetLogIsRight == StoreSpec => []GetLogReturnsEntry
<1>1. ASSUME StoreInv
      PROVE  GetLogReturnsEntry
  <2> SUFFICES ASSUME proc = "open", NEW i \in DOMAIN entries, i <= last
               PROVE  GetLogResult(i) = [op |-> "Read", off |-> i, err |-> "nil",
                                         rec |-> [value |-> entries[i], offset |-> i]]
    BY DEF GetLogReturnsEntry
  <2>1. Inv /\ segments # {}
    BY <1>1 DEF StoreInv, Inv
  <2>2. /\ last \in Nat /\ appended \in Nat /\ cut \in Nat /\ i \in cut + 1 .. Numbered
        /\ last <= appended /\ Numbered \in Nat /\ Numbered < MaxOffset
    BY <1>1 DEF StoreInv, NumbersOK
  <2>3. /\ nextBar = appended + 1 /\ lowestBar <= cut + 1 /\ lowestBar \in Nat
    BY <1>1, <2>1, Bars DEF StoreInv, StoredOK
  <2>4. i \in lowestBar .. nextBar - 1 /\ i \in Offset /\ i <= appended
    BY <2>2, <2>3 DEF Offset
  <2>5. recordsBar[i] = entries[i]
    BY <1>1, <2>4 DEF StoreInv, StoredOK
  <2>6. ReadResponse(i) = Abstract!Consumed(i, recordsBar[i])
    BY <2>1, <2>4, ReadAnswers
  <2>7. QED
    BY <2>5, <2>6 DEF GetLogResult, Abstract!Consumed
<1>2. QED
  BY <1>1, StoreInvariant, PTL

\* FirstIndex .. LastIndex, which raft takes for the extent of its log, is the
\* range GetLog can return, and it ends with the record appended last.
THEOREM RangeIsRight == StoreSpec => []RangeIsReadable
<1>1. ASSUME StoreInv
      PROVE  RangeIsReadable
  <2> SUFFICES ASSUME proc = "open"
               PROVE  /\ segments # {}
                      /\ LastIndex = appended
                      /\ FirstIndex <= cut + 1
                      /\ \A i \in FirstIndex .. LastIndex : GetLogResult(i).err = "nil"
    BY DEF RangeIsReadable
  <2>1. Inv /\ segments # {}
    BY <1>1 DEF StoreInv, Inv
  <2>2. /\ nextBar = appended + 1 /\ lowestBar <= cut + 1 /\ lowestBar \in Nat
        /\ appended \in Nat /\ nextBar = mem[activeSegment].nextOffset
        /\ lowestBar = Min(segments) /\ nextBar \in Offset
    BY <1>1, <2>1, Bars DEF StoreInv, StoredOK, NumbersOK
  <2>3. LastIndex = appended
    <3>1. Max(segments) = activeSegment
      BY <2>1, ActiveIsMax
    <3>2. mem[Max(segments)].nextOffset = appended + 1
      BY <2>2, <3>1
    <3>3. QED
      BY <2>2, <3>2 DEF LastIndex, HighestOffset
  <2>4. FirstIndex = lowestBar
    BY <2>2 DEF FirstIndex, LowestOffset
  <2>5. ASSUME NEW i \in FirstIndex .. LastIndex
        PROVE  GetLogResult(i).err = "nil"
    <3>1. i \in lowestBar .. nextBar - 1 /\ i \in Offset
      BY <2>2, <2>3, <2>4 DEF Offset
    <3>2. ReadResponse(i) = Abstract!Consumed(i, recordsBar[i])
      BY <2>1, <3>1, ReadAnswers
    <3>3. QED
      BY <3>2 DEF GetLogResult, Abstract!Consumed
  <2>6. QED
    BY <2>1, <2>2, <2>3, <2>4, <2>5
<1>2. QED
  BY <1>1, StoreInvariant, PTL
=============================================================================
