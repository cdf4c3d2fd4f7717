-------------------------- MODULE LogFaultsProofs --------------------------
(***************************************************************************)
(* The log through kills and failed rolls, for every limit, record size    *)
(* and number of faults. After a kill an index counts as full, so that the *)
(* segment takes no further record and no entry is ever written twice; the *)
(* frames of a store go where the file and the buffer end.                 *)
(***************************************************************************)
EXTENDS LogFaults, LogProofs, FiniteSetTheorems

USE SegmentAssumption, LogAssumption

-----------------------------------------------------------------------------
(* One segment *)

\* MaxIndexBytes is no size at which the index takes a further entry.
LEMMA MappedIsFull ==
  /\ isMaxed(MaxIndexBytes) /\ Slots \in Nat /\ Slots >= 1
  /\ entWidth * Slots <= MaxIndexBytes /\ MaxIndexBytes < entWidth * Slots + entWidth
BY DEF isMaxed, entWidth, Slots

\* A file of a segment that is not there.
LEMMA EmptyOK == EmptyFile \in FileType /\ FileOK(EmptyFile) /\ EmptyFile.frames = {}
<1>1. Counts(EmptyFile, 0, 0)
  <2>1. \A j \in Slot : ~(j < 0) /\ EmptyFile.slot[j] = ZeroEntry
    BY MappedIsFull DEF EmptyFile, Slot
  <2>2. 0 \in 0 .. Slots /\ 0 = entWidth * 0
    BY MappedIsFull DEF entWidth
  <2>3. QED
    BY <2>1, <2>2 DEF Counts
<1>2. EmptyFile.frames = {} /\ EmptyFile.ilen = 0 /\ 0 \in 0 .. Slots
  BY MappedIsFull DEF EmptyFile
<1>3. FileOK(EmptyFile)
  BY <1>1, <1>2 DEF FileOK
<1>4. QED
  BY <1>2, <1>3, EmptyFileType

\* newSegment derives the next offset from the entry at the end of the index:
\* it is what the entries say, or one past an entry that may be another's.
LEMMA ReopenedOffset ==
  ASSUME NEW b \in Offset, NEW f \in FileType, FileOK(f)
  PROVE  /\ nextOffsetOf(b, f) \in Nat
         /\ nextOffsetOf(b, f) = b
              \/ \E j \in Slot : nextOffsetOf(b, f) = b + f.slot[j].off + 1
         /\ f.ilen = MaxIndexBytes \/ Counts(f, f.ilen, nextOffsetOf(b, f) - b)
<1>0. b \in Nat /\ f.ilen \in Nat /\ \A j \in Slot : f.slot[j].off \in Nat
  BY DEF Offset, FileType, Entry
<1>1. CASE f.ilen = MaxIndexBytes
  <2>1. f.ilen \div entWidth = Slots /\ f.ilen # 0
    BY <1>1 DEF Slots, entWidth
  <2>2. Slots - 1 \in Slot /\ Slots - 1 # -1 /\ ~(f.ilen < (Slots - 1) * entWidth + entWidth)
    BY <1>1, MappedIsFull DEF Slot, entWidth
  <2>3. IndexRead(f, f.ilen, -1) = [err |-> "nil", ent |-> f.slot[Slots - 1]]
    BY <2>1, <2>2 DEF IndexRead
  <2>4. nextOffsetOf(b, f) = b + f.slot[Slots - 1].off + 1
    BY <2>3 DEF nextOffsetOf, newIndexSize
  <2>5. b + f.slot[Slots - 1].off + 1 \in Nat
    BY <1>0, <2>2
  <2>6. QED
    BY <1>1, <2>2, <2>4, <2>5
<1>2. CASE f.ilen # MaxIndexBytes
  <2>1. PICK k \in 0 .. Slots : Counts(f, f.ilen, k)
    BY <1>2 DEF FileOK
  <2>2. k \in Nat /\ f.ilen = entWidth * k
    BY <2>1, MappedIsFull DEF Counts
  <2>3. k > 0 => k - 1 \in Slot /\ f.slot[k - 1].off = k - 1
    BY <2>1, MappedIsFull DEF Counts, Slot
  <2>4. f.ilen <= MaxIndexBytes
    BY <2>1, <2>2, MappedIsFull DEF entWidth
  <2>5. nextOffsetOf(b, f) = b + k
    BY <2>2, <2>3, <2>4, NextOffsetReopened
  <2>6. nextOffsetOf(b, f) - b = k /\ nextOffsetOf(b, f) \in Nat
    BY <1>0, <2>2, <2>5
  <2>7. k > 0 => nextOffsetOf(b, f) = b + f.slot[k - 1].off + 1
    BY <1>0, <2>2, <2>3, <2>5
  <2>8. k = 0 => nextOffsetOf(b, f) = b
    BY <1>0, <2>5
  <2>9. QED
    BY <2>1, <2>2, <2>3, <2>6, <2>7, <2>8
<1>3. QED
  BY <1>1, <1>2

\* What opening a segment makes of its files.
LEMMA OpenedOK ==
  ASSUME NEW b \in Offset, NEW f \in FileType, FileOK(f)
  PROVE  /\ newIndexFile(f) \in FileType /\ FileOK(newIndexFile(f))
         /\ newSegment(b, f) \in FaultObject
         /\ newSegment(b, f).buf = {} /\ newSegment(b, f).isize = f.ilen
         /\ newSegment(b, f).nextOffset = nextOffsetOf(b, f)
         /\ ObjectOK(b, newIndexFile(f), newSegment(b, f))
<1> DEFINE g == newIndexFile(f)
           m == newSegment(b, f)
<1>1. /\ g \in FileType /\ g.frames = f.frames /\ g.len = f.len /\ g.slot = f.slot
      /\ g.ilen = MaxIndexBytes
  BY NewIndexFileType
<1>2. /\ m.buf = {} /\ m.size = f.len /\ m.isize = f.ilen
      /\ m.nextOffset = nextOffsetOf(b, f) /\ m.open = TRUE
  BY DEF newSegment, newStore, newIndexSize
<1>3. m \in FaultObject
  <2>1. f.len \in Nat /\ f.ilen \in Nat /\ nextOffsetOf(b, f) \in Nat
    BY ReopenedOffset DEF FileType
  <2>2. QED
    BY <2>1 DEF newSegment, newStore, newIndexSize, FaultObject
<1> HIDE DEF g, m
<1>4. FileOK(g)
  BY <1>1 DEF FileOK
<1>5. m.nextOffset >= b
  <2>1. b \in Nat /\ \A j \in Slot : f.slot[j].off \in Nat
    BY DEF Offset, FileType, Entry
  <2>2. QED
    BY <1>2, <2>1, ReopenedOffset
<1>6. m.isize = MaxIndexBytes \/ Counts(g, m.isize, m.nextOffset - b)
  BY <1>1, <1>2, ReopenedOffset DEF Counts
<1>7. g.len <= m.size
  BY <1>1, <1>2 DEF FileType
<1>8. ObjectOK(b, g, m)
  BY <1>1, <1>2, <1>5, <1>6, <1>7 DEF ObjectOK
<1>9. QED
  BY <1>1, <1>2, <1>3, <1>4, <1>8 DEF g, m

\* A flush: the frames of the buffer follow those of the file.
LEMMA FlushedOK ==
  ASSUME NEW b \in Offset, NEW f \in FileType, NEW m \in FaultObject,
         FileOK(f), ObjectOK(b, f, m)
  PROVE  /\ FlushedFile(f, m) \in FileType /\ FlushedMem(m) \in FaultObject
         /\ FileOK(FlushedFile(f, m)) /\ ObjectOK(b, FlushedFile(f, m), FlushedMem(m))
         /\ FlushedFile(f, m).frames = f.frames \union m.buf
         /\ FlushedFile(f, m).slot = f.slot /\ FlushedFile(f, m).ilen = f.ilen
         /\ FlushedFile(f, m).len = m.size
         /\ FlushedMem(m).isize = m.isize /\ FlushedMem(m).nextOffset = m.nextOffset
         /\ FlushedMem(m).buf = {}
<1> DEFINE g == FlushedFile(f, m)
           n == FlushedMem(m)
<1>1. /\ g \in FileType /\ g.frames = f.frames \union m.buf /\ g.len = m.size
      /\ g.slot = f.slot /\ g.ilen = f.ilen
  BY DEF FlushedFile, FileType, FaultObject
<1>2. /\ n \in FaultObject /\ n.buf = {} /\ n.size = m.size /\ n.isize = m.isize
      /\ n.nextOffset = m.nextOffset /\ n.open = m.open
  BY DEF FlushedMem, FaultObject
<1> HIDE DEF g, n
<1>3. f.len \in Nat /\ m.size \in Nat /\ \A fr \in f.frames \union m.buf : fr.pos \in Nat
  BY DEF FileType, FaultObject, Frame
<1>4. \A fr \in g.frames : fr.pos < g.len
  BY <1>1, <1>3 DEF FileOK, ObjectOK
<1>5. \A fr, h \in g.frames : fr.pos = h.pos => fr = h
  <2>1. \A fr \in f.frames, h \in m.buf : fr.pos # h.pos
    BY <1>3 DEF FileOK, ObjectOK
  <2>2. QED
    BY <1>1, <2>1 DEF FileOK, ObjectOK
<1>6. FileOK(g)
  BY <1>1, <1>4, <1>5 DEF FileOK, ObjectOK
<1>7. ObjectOK(b, g, n)
  BY <1>1, <1>2, <1>3 DEF ObjectOK, Counts
<1>8. QED
  BY <1>1, <1>2, <1>6, <1>7 DEF g, n

\* Close cuts the index to the entries it has, or leaves it full.
LEMMA ClosedOK ==
  ASSUME NEW b \in Offset, NEW f \in FileType, NEW m \in FaultObject,
         FileOK(f), ObjectOK(b, f, m)
  PROVE  /\ CloseFile(f, m) \in FileType /\ CloseMem(m) \in FaultObject
         /\ FileOK(CloseFile(f, m))
         /\ CloseFile(f, m).frames = f.frames \union m.buf
         /\ CloseFile(f, m).slot = f.slot /\ CloseFile(f, m).ilen = m.isize
<1> DEFINE g == FlushedFile(f, m)
           c == CloseFile(f, m)
<1>1. /\ g \in FileType /\ FileOK(g) /\ g.slot = f.slot
      /\ g.frames = f.frames \union m.buf /\ g.len = m.size
  BY FlushedOK
<1>2. /\ c \in FileType /\ c.frames = g.frames /\ c.slot = g.slot /\ c.len = g.len
      /\ c.ilen = m.isize
  BY <1>1 DEF CloseFile, FileType, FaultObject
<1>3. CloseMem(m) \in FaultObject
  BY DEF CloseMem, FlushedMem, FaultObject
<1> HIDE DEF g, c
<1>4. c.ilen = MaxIndexBytes \/ Counts(c, c.ilen, m.nextOffset - b)
  BY <1>1, <1>2 DEF ObjectOK, Counts
<1>5. Counts(c, c.ilen, m.nextOffset - b) => m.nextOffset - b \in 0 .. Slots
  BY DEF Counts
<1>6. FileOK(c)
  BY <1>1, <1>2, <1>4, <1>5 DEF FileOK
<1>7. QED
  BY <1>1, <1>2, <1>3, <1>6 DEF c

\* A Close that is killed before the store is flushed cuts the index as well.
LEMMA CutOK ==
  ASSUME NEW b \in Offset, NEW f \in FileType, NEW m \in FaultObject,
         FileOK(f), ObjectOK(b, f, m)
  PROVE  /\ CutFile(f, m) \in FileType /\ FileOK(CutFile(f, m))
         /\ CutFile(f, m).frames = f.frames
         /\ CutFile(f, m).slot = f.slot /\ CutFile(f, m).ilen = m.isize
<1> DEFINE c == CutFile(f, m)
<1>1. /\ c \in FileType /\ c.frames = f.frames /\ c.slot = f.slot /\ c.len = f.len
      /\ c.ilen = m.isize
  BY DEF CutFile, FileType, FaultObject
<1> HIDE DEF c
<1>2. c.ilen = MaxIndexBytes \/ Counts(c, c.ilen, m.nextOffset - b)
  BY <1>1 DEF ObjectOK, Counts
<1>3. Counts(c, c.ilen, m.nextOffset - b) => m.nextOffset - b \in 0 .. Slots
  BY DEF Counts
<1>4. FileOK(c)
  BY <1>1, <1>2, <1>3 DEF FileOK
<1>5. QED
  BY <1>1, <1>4 DEF c

\* A frame goes to the end of the store, whatever becomes of its entry.
LEMMA StoredOK ==
  ASSUME NEW m \in FaultObject, NEW v \in Value, m.nextOffset < MaxOffset,
         NEW fr, fr = [pos |-> m.size, rec |-> NextRecord(m, v)]
  PROVE  /\ StoreAppend(m, NextRecord(m, v)) \in FaultObject
         /\ StoreAppend(m, NextRecord(m, v)).buf = m.buf \union {fr}
         /\ StoreAppend(m, NextRecord(m, v)).size > m.size
         /\ StoreAppend(m, NextRecord(m, v)).isize = m.isize
         /\ StoreAppend(m, NextRecord(m, v)).nextOffset = m.nextOffset
         /\ StoreAppend(m, NextRecord(m, v)).open = m.open
<1> DEFINE n == StoreAppend(m, NextRecord(m, v))
<1>1. m.nextOffset \in Offset /\ m.size \in Nat
  BY DEF FaultObject, Offset
<1>2. fr \in Frame
  BY <1>1 DEF Frame, NextRecord, Record
<1> PICK w \in Nat : w = Width[v][m.nextOffset]
  BY <1>1
<1>3. n = [m EXCEPT !.buf = @ \union {fr}, !.size = @ + recordLenBytes + w]
  BY DEF StoreAppend, NextRecord
<1>4. m.size + recordLenBytes + w \in Nat /\ m.size + recordLenBytes + w > m.size
  BY <1>1 DEF recordLenBytes
<1>5. m.buf \union {fr} \in SUBSET Frame
  BY <1>2 DEF FaultObject
<1> HIDE DEF n
<1>6. QED
  <2>1. /\ n \in FaultObject /\ n.buf = m.buf \union {fr}
        /\ n.size = m.size + recordLenBytes + w
        /\ n.isize = m.isize /\ n.nextOffset = m.nextOffset /\ n.open = m.open
    BY <1>3, <1>4, <1>5 DEF FaultObject
  <2>2. QED
    BY <1>4, <2>1 DEF n

\* The two files of a segment after an append: an entry at the end of the index,
\* or none when it is full.
LEMMA AppendedFileOK ==
  ASSUME NEW b \in Offset, NEW f \in FileType, NEW m \in FaultObject,
         FileOK(f), ObjectOK(b, f, m), m.nextOffset < MaxOffset
  PROVE  /\ SegmentAppendFile(b, f, m) \in FileType
         /\ FileOK(SegmentAppendFile(b, f, m))
         /\ SegmentAppendFile(b, f, m).frames = f.frames
         /\ SegmentAppendFile(b, f, m).len = f.len
         /\ SegmentAppendFile(b, f, m).ilen = f.ilen
         /\ isMaxed(m.isize) => SegmentAppendFile(b, f, m) = f
         /\ ~isMaxed(m.isize) =>
              /\ Counts(f, m.isize, m.nextOffset - b) /\ m.nextOffset - b \in Slot
              /\ SegmentAppendFile(b, f, m).slot =
                   [f.slot EXCEPT ![m.nextOffset - b] =
                                    [off |-> m.nextOffset - b, pos |-> m.size]]
<1>1. CASE isMaxed(m.isize)
  BY <1>1 DEF SegmentAppendFile
<1>2. CASE ~isMaxed(m.isize)
  <2>1. Counts(f, m.isize, m.nextOffset - b)
    BY <1>2, MappedIsFull DEF ObjectOK
  <2>2. m.nextOffset \in Nat /\ b \in Nat /\ m.nextOffset >= b /\ m.size \in Nat
    BY DEF FaultObject, Offset, ObjectOK
  <2> PICK k \in Nat : k = m.nextOffset - b
    BY <2>2
  <2>3. m.isize = entWidth * k
    BY <2>1 DEF Counts
  <2>4. k \in Slot /\ m.isize \div entWidth = k
    BY <1>2, <2>3, FreeSlot
  <2> PICK e : e = [off |-> k, pos |-> m.size]
    OBVIOUS
  <2>5. e \in Entry
    BY <2>2 DEF Entry, Offset
  <2>6. SegmentAppendFile(b, f, m) = [f EXCEPT !.slot[k] = e]
    BY <1>2, <2>4 DEF SegmentAppendFile
  <2> PICK g : g = SegmentAppendFile(b, f, m)
    OBVIOUS
  <2>7. /\ g \in FileType /\ g.frames = f.frames /\ g.len = f.len /\ g.ilen = f.ilen
        /\ g.slot = [f.slot EXCEPT ![k] = e]
    BY <2>4, <2>5, <2>6 DEF FileType
  <2>8. FileOK(g)
    BY <2>7 DEF FileOK, ObjectOK
  <2>9. QED
    BY <1>2, <2>1, <2>4, <2>7, <2>8
<1>3. QED
  BY <1>1, <1>2

\* ... and its object: a record more, or a frame that nobody will find.
LEMMA AppendedObjectOK ==
  ASSUME NEW b \in Offset, NEW f \in FileType, NEW m \in FaultObject, NEW v \in Value,
         FileOK(f), ObjectOK(b, f, m), m.nextOffset < MaxOffset
  PROVE  /\ SegmentAppendMem(m, v) \in FaultObject
         /\ ObjectOK(b, SegmentAppendFile(b, f, m), SegmentAppendMem(m, v))
         /\ SegmentAppendMem(m, v).isize # 0
         /\ isMaxed(m.isize) => SegmentAppendMem(m, v).isize = m.isize
                                  /\ SegmentAppendMem(m, v).nextOffset = m.nextOffset
         /\ ~isMaxed(m.isize) => SegmentAppendMem(m, v).nextOffset = m.nextOffset + 1
<1> PICK fr : fr = [pos |-> m.size, rec |-> NextRecord(m, v)]
  OBVIOUS
<1> PICK s : s = StoreAppend(m, NextRecord(m, v))
  OBVIOUS
<1> PICK g \in FileType : g = SegmentAppendFile(b, f, m)
  BY AppendedFileOK
<1>1. /\ s \in FaultObject /\ s.buf = m.buf \union {fr} /\ s.size > m.size
      /\ s.isize = m.isize /\ s.nextOffset = m.nextOffset /\ s.open = m.open
  BY StoredOK
<1>2. g.len = f.len /\ g.ilen = f.ilen
  BY AppendedFileOK, ZenonT(60)
<1>3. /\ f.len \in Nat /\ m.size \in Nat /\ s.size \in Nat /\ m.isize \in Nat
      /\ m.nextOffset \in Nat /\ b \in Nat /\ \A h \in m.buf : h.pos \in Nat
  BY <1>1 DEF FileType, FaultObject, Offset, Frame
<1>4. /\ g.len <= s.size
      /\ \A h \in s.buf : g.len <= h.pos /\ h.pos < s.size
      /\ \A h, i \in s.buf : h.pos = i.pos => h = i
  <2>1. fr.pos = m.size /\ f.len <= m.size
    BY DEF ObjectOK
  <2>2. \A h \in m.buf : f.len <= h.pos /\ h.pos < m.size
    BY DEF ObjectOK
  <2>3. \A h, i \in m.buf : h.pos = i.pos => h = i
    BY DEF ObjectOK
  <2>4. QED
    BY <1>1, <1>2, <1>3, <2>1, <2>2, <2>3
<1>5. CASE isMaxed(m.isize)
  <2>1. SegmentAppendMem(m, v) = s /\ g = f
    BY <1>5, AppendedFileOK DEF SegmentAppendMem
  <2>2. ObjectOK(b, f, s)
    BY <1>1, <1>4, <2>1 DEF ObjectOK
  <2>3. m.isize # 0
    BY <1>5 DEF isMaxed, entWidth
  <2>4. QED
    BY <1>1, <1>5, <2>1, <2>2, <2>3
<1>6. CASE ~isMaxed(m.isize)
  <2> PICK n : n = SegmentAppendMem(m, v)
    OBVIOUS
  <2>1. n = [s EXCEPT !.isize = @ + entWidth, !.nextOffset = @ + 1]
    BY <1>6 DEF SegmentAppendMem
  <2>2. /\ n \in FaultObject /\ n.buf = s.buf /\ n.size = s.size /\ n.open = s.open
        /\ n.isize = m.isize + entWidth /\ n.nextOffset = m.nextOffset + 1
    <3> PICK size \in Nat, off \in Nat : size = m.isize + entWidth /\ off = m.nextOffset + 1
      BY <1>3 DEF entWidth
    <3>1. s \in FaultObject /\ n = [s EXCEPT !.isize = size, !.nextOffset = off]
      BY <1>1, <2>1
    <3>2. QED
      BY <3>1 DEF FaultObject
  <2> PICK k \in Nat : k = m.nextOffset - b
    BY <1>3 DEF ObjectOK
  <2>3. /\ Counts(f, m.isize, k) /\ k \in Slot
        /\ g.slot = [f.slot EXCEPT ![k] = [off |-> k, pos |-> m.size]]
    BY <1>6, AppendedFileOK
  <2>4. n.nextOffset - b = k + 1 /\ n.isize = entWidth * (k + 1)
    BY <1>3, <2>2, <2>3 DEF Counts, entWidth
  <2>5. k + 1 \in 0 .. Slots
    BY <2>3, MappedIsFull DEF Slot
  <2>6. \A j \in Slot : IF j < k + 1 THEN g.slot[j].off = j ELSE g.slot[j] = ZeroEntry
    <3>1. SUFFICES ASSUME NEW j \in Slot
                   PROVE  IF j < k + 1 THEN g.slot[j].off = j ELSE g.slot[j] = ZeroEntry
      OBVIOUS
    <3>2. j \in Int /\ f.slot \in [Slot -> Entry]
      BY MappedIsFull DEF Slot, FileType
    <3>3. CASE j = k
      BY <2>3, <3>2, <3>3
    <3>4. CASE j # k
      <4>1. g.slot[j] = f.slot[j]
        BY <2>3, <3>2, <3>4
      <4>2. IF j < k THEN f.slot[j].off = j ELSE f.slot[j] = ZeroEntry
        BY <2>3 DEF Counts
      <4>3. j < k + 1 <=> j < k
        BY <3>2, <3>4, SMTT(30)
      <4>4. QED
        BY <4>1, <4>2, <4>3
    <3>5. QED
      BY <3>3, <3>4
  <2>7. Counts(g, n.isize, n.nextOffset - b)
    BY <2>4, <2>5, <2>6 DEF Counts
  <2>8. n.nextOffset >= b /\ n.isize # 0
    BY <1>3, <2>2 DEF ObjectOK, entWidth
  <2>9. ObjectOK(b, g, n)
    BY <1>1, <1>2, <1>4, <2>2, <2>7, <2>8 DEF ObjectOK
  <2>10. QED
    BY <1>6, <2>2, <2>8, <2>9
<1>7. QED
  BY <1>5, <1>6

-----------------------------------------------------------------------------
(* The calls that leave the directory alone *)

Kills == PairsOK /\ AckedBelow

\* A step that takes nothing away from base b: its frames stay, and an entry is
\* written only where there was none and to no store that has frames without it.
Extends(b) ==
  /\ file[b].frames \subseteq file'[b].frames
  /\ \A j \in Slot :
       \/ file'[b].slot[j] = file[b].slot[j]
       \/ /\ file'[b].slot[j].off = j /\ file[b].slot[j] = ZeroEntry
          /\ j = 0 => file[b].frames = {}

LEMMA NaturalOffsets == Offset \subseteq Nat /\ Slot \subseteq Nat
BY MappedIsFull DEF Offset, Slot

LEMMA FaultInitInv == FaultInit => FaultInv
<1> SUFFICES ASSUME FaultInit PROVE FaultInv
  OBVIOUS
<1>1. /\ stores = {} /\ indexes = {} /\ segments = {} /\ activeSegment = InitialOffset
      /\ proc = "closed" /\ DOMAIN acked = {} /\ faults = [kills |-> 0, failures |-> 0]
  BY DEF FaultInit, Init
<1>2. file = [b \in Offset |-> EmptyFile] /\ mem = [b \in Offset |-> NoSegment]
  BY DEF FaultInit, Init
<1>3. NoSegment \in FaultObject
  BY DEF NoSegment, FaultObject
<1>4. FaultTypeOK
  BY <1>1, <1>2, <1>3, EmptyOK DEF FaultTypeOK
<1>5. SegmentsOK
  BY <1>1, <1>2, EmptyOK DEF SegmentsOK
<1>6. FreshOK
  BY <1>1, <1>2, EmptyOK DEF FreshOK
<1>7. DirectoryOK
  BY <1>1 DEF DirectoryOK, Unopened
<1>8. PairsOK /\ AckedBelow
  BY <1>1 DEF PairsOK, AckedBelow
<1>9. QED
  BY <1>4, <1>5, <1>6, <1>7, <1>8 DEF FaultInv

\* What is known of an open log and its active segment.
LEMMA OpenLog ==
  ASSUME FaultInv, proc = "open"
  PROVE  /\ activeSegment \in segments /\ activeSegment \in Offset
         /\ activeSegment \in stores /\ activeSegment \in indexes
         /\ segments \subseteq Offset /\ \A b \in segments : b <= activeSegment
         /\ \A b \in segments : ObjectOK(b, file[b], mem[b])
         /\ \A b \in Offset : file[b] \in FileType /\ FileOK(file[b]) /\ mem[b] \in FaultObject
         /\ active = mem[activeSegment]
<1>1. activeSegment \in segments /\ segments \subseteq stores \intersect indexes
  BY DEF FaultInv, DirectoryOK
<1>2. \A b \in segments : b <= activeSegment
  BY DEF FaultInv, DirectoryOK
<1>3. \A b \in Offset : file[b] \in FileType /\ mem[b] \in FaultObject
  BY DEF FaultInv, FaultTypeOK
<1>4. QED
  BY <1>1, <1>2, <1>3 DEF FaultInv, SegmentsOK, FaultTypeOK, active

\* A call that changes neither the directory nor what its indexes count.
LEMMA KillsKept ==
  ASSUME Kills, FaultTypeOK, UNCHANGED <<stores, indexes, segments, activeSegment, proc, acked>>,
         proc = "open",
         \A c \in Offset : /\ file'[c].slot = file[c].slot
                           /\ mem'[c].isize = mem[c].isize
                           /\ mem'[c].nextOffset = mem[c].nextOffset
  PROVE  Kills'
<1>1. PairsOK'
  <2>1. \A b, c \in stores : b < c => \A j \in Slot : b + file'[b].slot[j].off < c
    BY DEF Kills, PairsOK, FaultTypeOK
  <2>2. \A b, c \in segments : b < c => mem'[b].nextOffset <= c
    BY DEF Kills, PairsOK, FaultTypeOK
  <2>3. QED
    BY <2>1, <2>2 DEF Kills, PairsOK
<1>2. AckedBelow'
  BY DEF Kills, AckedBelow, active, FaultTypeOK
<1>3. QED
  BY <1>1, <1>2 DEF Kills

\* Nothing happens, but for the answer.
LEMMA SameInv ==
  ASSUME FaultInv,
         UNCHANGED <<stores, indexes, file, mem, segments, activeSegment, proc, acked, faults>>
  PROVE  FaultInv'
<1>1. FaultTypeOK' /\ SegmentsOK' /\ FreshOK' /\ DirectoryOK'
  BY DEF FaultInv, FaultTypeOK, SegmentsOK, FreshOK, DirectoryOK, Unopened, Frames
<1>2. PairsOK => PairsOK'
  BY DEF PairsOK
<1>3. AckedBelow => AckedBelow'
  BY DEF AckedBelow, active
<1>4. QED
  BY <1>1, <1>2, <1>3 DEF FaultInv

\* A flush of segment b, by a Read or by a Reader.
LEMMA FlushFault ==
  ASSUME FaultInv, proc = "open", NEW b \in segments, Flushed(b),
         UNCHANGED <<stores, indexes, segments, activeSegment, proc, acked, faults>>
  PROVE  FaultInv' /\ \A c \in Offset : Extends(c)
<1>1. b \in Offset /\ file[b] \in FileType /\ mem[b] \in FaultObject
      /\ FileOK(file[b]) /\ ObjectOK(b, file[b], mem[b])
  BY OpenLog
<1> PICK f : f = FlushedFile(file[b], mem[b])
  OBVIOUS
<1> PICK m : m = FlushedMem(mem[b])
  OBVIOUS
<1>2. /\ f \in FileType /\ m \in FaultObject /\ FileOK(f) /\ ObjectOK(b, f, m)
      /\ f.frames = file[b].frames \union mem[b].buf /\ f.slot = file[b].slot
      /\ f.ilen = file[b].ilen /\ m.isize = mem[b].isize
      /\ m.nextOffset = mem[b].nextOffset /\ m.buf = {}
  BY <1>1, FlushedOK
<1>3. file' = [file EXCEPT ![b] = f] /\ mem' = [mem EXCEPT ![b] = m]
  BY DEF Flushed
<1>4. /\ file'[b] = f /\ mem'[b] = m
      /\ \A c \in Offset \ {b} : file'[c] = file[c] /\ mem'[c] = mem[c]
  BY <1>1, <1>3 DEF FaultInv, FaultTypeOK
<1>5. \A c \in Offset : /\ file'[c].slot = file[c].slot /\ file'[c].ilen = file[c].ilen
                        /\ mem'[c].isize = mem[c].isize
                        /\ mem'[c].nextOffset = mem[c].nextOffset
                        /\ Frames(c)' = Frames(c)
                        /\ file[c].frames \subseteq file'[c].frames
  BY <1>2, <1>4 DEF Frames
<1>6. FaultTypeOK'
  BY <1>1, <1>2, <1>3 DEF FaultInv, FaultTypeOK
<1>7. SegmentsOK'
  BY <1>2, <1>4, OpenLog DEF SegmentsOK, FaultInv
<1>8. FreshOK'
  <2>1. file[b].ilen # 0
    BY <1>1 DEF ObjectOK, entWidth
  <2>2. SUFFICES ASSUME NEW c \in Offset, c >= activeSegment
                 PROVE  /\ file'[c].ilen = 0 => file'[c].frames = {}
                        /\ c \in segments /\ mem'[c].isize = 0 => Frames(c)' = {}
    BY DEF FreshOK
  <2>3. c \in segments /\ mem'[c].isize = 0 => Frames(c)' = {}
    BY <1>5, <2>2 DEF FreshOK, FaultInv
  <2>4. file'[c].ilen = 0 => file'[c].frames = {}
    BY <1>4, <1>5, <2>1, <2>2 DEF FreshOK, FaultInv
  <2>5. QED
    BY <2>3, <2>4
<1>9. DirectoryOK'
  BY DEF FaultInv, DirectoryOK
<1>10. Kills => Kills'
  BY <1>5, KillsKept DEF FaultInv
<1>11. \A c \in Offset : Extends(c)
  BY <1>5 DEF Extends
<1>12. QED
  BY <1>6, <1>7, <1>8, <1>9, <1>10, <1>11 DEF FaultInv, Kills

LEMMA ReadAtFault ==
  ASSUME FaultInv, NEW b \in Offset, ReadAt(b), UNCHANGED <<acked, faults>>
  PROVE  FaultInv' /\ \A c \in Offset : Extends(c)
BY FlushFault DEF ReadAt

LEMMA ReadFault ==
  ASSUME FaultInv, NEW off \in Offset, Read(off), UNCHANGED <<acked, faults>>
  PROVE  FaultInv' /\ \A c \in Offset : Extends(c)
<1>1. CASE UNCHANGED <<file, mem>>
  <2>1. FaultInv'
    BY <1>1, SameInv DEF Read
  <2>2. \A c \in Offset : Extends(c)
    BY <1>1 DEF Extends
  <2>3. QED
    BY <2>1, <2>2
<1>2. CASE ~UNCHANGED <<file, mem>>
  <2>1. Holding(off) # {} /\ Flushed(Max(Holding(off)))
    BY <1>2 DEF Read
  <2>2. Holding(off) \subseteq segments /\ Holding(off) \subseteq Offset
    BY DEF Holding, FaultInv, FaultTypeOK
  <2>3. PICK x \in Holding(off) : \A y \in Holding(off) : y <= x
    BY <2>1, <2>2, LargestExists
  <2>4. \A y \in Holding(off) : x >= y
    BY <2>2, <2>3, NaturalOffsets
  <2>5. Max(Holding(off)) \in Holding(off)
    BY <2>4, Zenon DEF Max
  <2>6. QED
    BY <2>1, <2>2, <2>5, FlushFault DEF Read
<1>3. QED
  BY <1>1, <1>2

\* The index of the active segment, cut to its entries, leads to the offset that
\* the segment was at.
LEMMA CutCounts ==
  ASSUME FaultInv, proc = "open", AckedBelow,
         NEW a \in Offset, a = activeSegment, NEW g \in FileType, FileOK(g),
         g.ilen = mem[a].isize, g.slot = file[a].slot
  PROVE  \A o \in DOMAIN acked : ~isMaxed(g.ilen) => o < nextOffsetOf(a, g)
<1> PICK m \in FaultObject : m = mem[a]
  BY OpenLog
<1>1. SUFFICES ASSUME NEW o \in DOMAIN acked, ~isMaxed(g.ilen)
               PROVE  o < nextOffsetOf(a, g)
  OBVIOUS
<1>2. a \in segments
  BY OpenLog
<1>3. o < m.nextOffset
  BY <1>1 DEF AckedBelow, active
<1>4. Counts(g, m.isize, m.nextOffset - a)
  <2>1. m.isize = MaxIndexBytes \/ Counts(file[a], m.isize, m.nextOffset - a)
    BY <1>2, OpenLog DEF ObjectOK
  <2>2. QED
    BY <1>1, <2>1, MappedIsFull DEF Counts
<1>5. nextOffsetOf(a, g) \in Nat /\ Counts(g, g.ilen, nextOffsetOf(a, g) - a)
  BY <1>1, MappedIsFull, ReopenedOffset
<1>6. a \in Nat /\ m.nextOffset \in Nat
  BY NaturalOffsets DEF FaultObject
<1>7. entWidth * (m.nextOffset - a) = entWidth * (nextOffsetOf(a, g) - a)
  BY <1>4, <1>5 DEF Counts
<1>8. m.nextOffset = nextOffsetOf(a, g)
  BY <1>5, <1>6, <1>7 DEF entWidth
<1>9. QED
  BY <1>3, <1>8

\* Close flushes every store and cuts every index to its entries.
LEMMA CloseFault ==
  ASSUME FaultInv, Close, UNCHANGED <<acked, faults>>
  PROVE  FaultInv' /\ \A c \in Offset : Extends(c)
<1>0. proc = "open" /\ proc' = "closed" /\ UNCHANGED <<stores, indexes, segments, activeSegment>>
  BY DEF Close
<1>1. file' = [b \in Offset |-> IF b \in segments THEN CloseFile(file[b], mem[b]) ELSE file[b]]
  BY DEF Close
<1>2. mem' = [b \in Offset |-> IF b \in segments THEN CloseMem(mem[b]) ELSE mem[b]]
  BY DEF Close
<1>3. ASSUME NEW b \in segments
      PROVE  /\ CloseFile(file[b], mem[b]) \in FileType /\ CloseMem(mem[b]) \in FaultObject
             /\ FileOK(CloseFile(file[b], mem[b]))
             /\ CloseFile(file[b], mem[b]).frames = Frames(b)
             /\ CloseFile(file[b], mem[b]).slot = file[b].slot
             /\ CloseFile(file[b], mem[b]).ilen = mem[b].isize
  <2>1. /\ b \in Offset /\ file[b] \in FileType /\ mem[b] \in FaultObject
        /\ FileOK(file[b]) /\ ObjectOK(b, file[b], mem[b])
    BY <1>0, OpenLog
  <2>2. QED
    BY <2>1, ClosedOK DEF Frames
<1>4. ASSUME NEW b \in segments
      PROVE  /\ file'[b].slot = file[b].slot /\ file'[b].ilen = mem[b].isize
             /\ file'[b].frames = Frames(b) /\ FileOK(file'[b])
  <2>1. b \in Offset
    BY <1>0, OpenLog
  <2>2. file'[b] = CloseFile(file[b], mem[b])
    BY <1>1, <2>1
  <2>3. QED
    BY <1>3, <2>2
<1>5. \A b \in Offset \ segments : file'[b] = file[b]
  BY <1>1
<1>6. FaultTypeOK'
  <2>1. file' \in [Offset -> FileType]
    BY <1>0, <1>1, <1>3, OpenLog
  <2>2. mem' \in [Offset -> FaultObject]
    BY <1>0, <1>2, <1>3, OpenLog
  <2>3. QED
    BY <1>0, <2>1, <2>2 DEF FaultInv, FaultTypeOK
<1>7. SegmentsOK'
  BY <1>0, <1>4, <1>5 DEF SegmentsOK, FaultInv
<1>8. FreshOK'
  <2>1. SUFFICES ASSUME NEW b \in Offset, b >= activeSegment, file'[b].ilen = 0
                 PROVE  file'[b].frames = {}
    BY <1>0 DEF FreshOK
  <2>2. CASE b \in segments
    BY <1>0, <1>4, <2>1, <2>2 DEF FaultInv, FreshOK
  <2>3. CASE b \notin segments
    BY <1>5, <2>1, <2>3 DEF FaultInv, FreshOK
  <2>4. QED
    BY <2>2, <2>3
<1>9. DirectoryOK'
  BY <1>0, OpenLog DEF FaultInv, DirectoryOK
<1>10. \A b \in Offset : file'[b].slot = file[b].slot
  BY <1>4, <1>5
<1>11. PairsOK => PairsOK'
  <2> SUFFICES ASSUME PairsOK PROVE PairsOK'
    OBVIOUS
  <2>1. \A b, c \in stores : b < c => \A j \in Slot : b + file'[b].slot[j].off < c
    BY <1>10 DEF PairsOK, FaultInv, FaultTypeOK
  <2>2. QED
    BY <1>0, <2>1 DEF PairsOK
<1>12. PairsOK /\ AckedBelow => AckedBelow'
  <2> SUFFICES ASSUME PairsOK, AckedBelow PROVE AckedBelow'
    OBVIOUS
  <2> PICK a \in Offset, g \in FileType : a = activeSegment /\ g = file'[a]
    BY <1>0, <1>6, OpenLog DEF FaultTypeOK
  <2>1. g.ilen = mem[a].isize /\ g.slot = file[a].slot /\ FileOK(g)
    BY <1>0, <1>4, OpenLog
  <2>2. \A o \in DOMAIN acked : ~isMaxed(g.ilen) => o < nextOffsetOf(a, g)
    BY <1>0, <2>1, CutCounts
  <2>3. QED
    BY <1>0, <2>2 DEF AckedBelow
<1>13. \A c \in Offset : Extends(c)
  <2>1. \A c \in Offset : file[c].frames \subseteq file'[c].frames
    BY <1>4, <1>5 DEF Frames
  <2>2. QED
    BY <1>10, <2>1 DEF Extends
<1>14. QED
  BY <1>6, <1>7, <1>8, <1>9, <1>11, <1>12, <1>13 DEF FaultInv

-----------------------------------------------------------------------------
(* Kills and reopenings *)

\* The types of what a kill leaves: the files, and nothing open.
LEMMA KilledTypes ==
  ASSUME FaultInv, stores' \subseteq Offset, indexes' \subseteq Offset,
         file' \in [Offset -> FileType], proc' = "crashed",
         mem' = [b \in Offset |-> NoSegment], segments' = {},
         UNCHANGED activeSegment, DOMAIN acked' \subseteq DOMAIN acked, Fault
  PROVE  FaultTypeOK'
<1>1. NoSegment \in FaultObject
  BY DEF NoSegment, FaultObject
<1>2. faults' \in [kills : Nat, failures : Nat]
  BY DEF Fault, FaultInv, FaultTypeOK
<1>3. QED
  BY <1>1, <1>2 DEF FaultInv, FaultTypeOK

\* A kill is no failure.
LEMMA KillsOnly ==
  ASSUME FaultInv, Fault
  PROVE  faults'.failures = faults.failures
BY DEF Fault, FaultInv, FaultTypeOK

LEMMA CrashFault ==
  ASSUME FaultInv, Crash
  PROVE  FaultInv' /\ \A c \in Offset : Extends(c)
<1>0. /\ proc = "open" /\ Fault /\ UNCHANGED <<stores, indexes, file, activeSegment, acked>>
      /\ proc' = "crashed" /\ mem' = [b \in Offset |-> NoSegment] /\ segments' = {}
  BY DEF Crash, Killed
<1>1. FaultTypeOK'
  BY <1>0, KilledTypes DEF FaultInv, FaultTypeOK
<1>2. SegmentsOK' /\ FreshOK'
  BY <1>0 DEF FaultInv, SegmentsOK, FreshOK
<1>3. DirectoryOK'
  BY <1>0 DEF FaultInv, DirectoryOK
<1>4. PairsOK => PairsOK'
  BY <1>0 DEF PairsOK
<1>5. PairsOK => AckedBelow'
  <2> SUFFICES ASSUME PairsOK PROVE AckedBelow'
    OBVIOUS
  <2>1. \A b \in stores : ~(b > activeSegment)
    <3>1. \A b \in stores : b <= activeSegment
      BY <1>0 DEF PairsOK
    <3>2. stores \subseteq Nat /\ activeSegment \in Nat
      BY NaturalOffsets DEF FaultInv, FaultTypeOK
    <3>3. QED
      BY <3>1, <3>2
  <2>2. file[activeSegment].ilen = MaxIndexBytes
    BY <1>0, OpenLog DEF ObjectOK
  <2>3. QED
    BY <1>0, <2>1, <2>2, MappedIsFull DEF AckedBelow
<1>6. faults'.failures = faults.failures
  BY <1>0, KillsOnly
<1>7. \A c \in Offset : Extends(c)
  BY <1>0 DEF Extends
<1>8. QED
  BY <1>1, <1>2, <1>3, <1>4, <1>5, <1>6, <1>7 DEF FaultInv

\* setup opens the first segment when the log was never opened before.
LEMMA FirstOpened ==
  ASSUME FaultInv, Unopened
  PROVE  Opened = {InitialOffset}
<1>1. CASE stores = {}
  BY <1>1 DEF Unopened, Opened
<1>2. CASE stores = {InitialOffset}
  <2>1. {c \in stores : c < InitialOffset} = {} /\ {c \in indexes : c < InitialOffset} = {}
    BY <1>2 DEF Unopened, Offset
  <2>2. FilesBelow(InitialOffset) = 0
    <3>1. FilesBelow(InitialOffset) = Cardinality({}) + Cardinality({})
      BY <2>1, Zenon DEF FilesBelow
    <3>2. Cardinality({}) = 0
      BY FS_EmptySet, Zenon
    <3>3. QED
      BY <3>1, <3>2
  <2>3. 0 % 2 = 0
    OBVIOUS
  <2>4. QED
    BY <1>2, <2>2, <2>3 DEF Unopened, Opened, BasesFound
<1>3. QED
  BY <1>1, <1>2 DEF Unopened

\* setup opens the segment that was active, and no other directory is empty.
LEMMA OpenedFacts ==
  ASSUME FaultInv
  PROVE  /\ Opened \subseteq Offset /\ activeSegment \in Opened
         /\ Max(Opened) \in Opened /\ \A b \in Opened : b <= Max(Opened)
<1>1. Opened \subseteq Offset
  BY DEF Opened, BasesFound, FaultInv, FaultTypeOK
<1>2. activeSegment \in Opened
  <2>1. CASE activeSegment \in stores \intersect indexes
    BY <2>1 DEF Opened, BasesFound
  <2>2. CASE Unopened
    BY <2>2, FirstOpened DEF Unopened
  <2>3. QED
    BY <2>1, <2>2 DEF FaultInv, DirectoryOK
<1>3. PICK x \in Opened : \A y \in Opened : y <= x
  BY <1>1, <1>2, LargestExists
<1>4. \A y \in Opened : x >= y
  BY <1>1, <1>3, NaturalOffsets
<1>5. Max(Opened) \in Opened /\ \A y \in Opened : Max(Opened) >= y
  BY <1>4, Zenon DEF Max
<1>6. \A b \in Opened : b <= Max(Opened)
  BY <1>1, <1>5, NaturalOffsets
<1>7. QED
  BY <1>1, <1>2, <1>5, <1>6

\* After kills alone setup finds every base: the half one has pairs below it.
LEMMA AllFound ==
  ASSUME FaultInv, PairsOK, stores \union indexes # {}
  PROVE  Opened = stores /\ indexes \subseteq stores
<1>1. Opened = BasesFound /\ indexes \subseteq stores
  BY DEF Opened, PairsOK
<1>2. SUFFICES ASSUME NEW h \in stores, h \notin indexes PROVE FilesBelow(h) % 2 = 0
  BY <1>1 DEF BasesFound
<1>3. {c \in stores : c < h} = {c \in indexes : c < h}
  BY <1>1, <1>2 DEF PairsOK
<1>4. IsFiniteSet(Offset)
  BY FS_Interval DEF Offset
<1>5. IsFiniteSet({c \in stores : c < h})
  BY <1>4, FS_Subset DEF FaultInv, FaultTypeOK
<1> PICK n \in Nat : n = Cardinality({c \in stores : c < h})
  BY <1>5, FS_CardinalityType
<1>6. FilesBelow(h) = n + n
  BY <1>3 DEF FilesBelow
<1>7. (n + n) % 2 = 0
  OBVIOUS
<1>8. QED
  BY <1>6, <1>7

LEMMA NewLogFault ==
  ASSUME FaultInv, NewLog, UNCHANGED <<acked, faults>>
  PROVE  /\ FaultInv' /\ stores \subseteq stores' /\ indexes \subseteq indexes'
         /\ \A c \in Offset : Extends(c)
<1> PICK M : M = Max(Opened)
  OBVIOUS
<1> PICK O : O = Opened
  OBVIOUS
<1>0. /\ proc # "open" /\ proc' = "open" /\ stores' = stores \union O /\ indexes' = indexes \union O
      /\ segments' = O /\ activeSegment' = M
      /\ file' = [b \in Offset |-> IF b \in O THEN newIndexFile(file[b]) ELSE file[b]]
      /\ mem' = [b \in Offset |-> IF b \in O THEN newSegment(b, file[b]) ELSE NoSegment]
  BY DEF NewLog, setup
<1>1. O \subseteq Offset /\ activeSegment \in O /\ M \in O /\ \A b \in O : b <= M
  BY OpenedFacts
<1>2. \A b \in Offset : file[b] \in FileType /\ FileOK(file[b])
  BY DEF FaultInv, FaultTypeOK, SegmentsOK
<1>3. ASSUME NEW b \in Offset
      PROVE  /\ newIndexFile(file[b]) \in FileType /\ FileOK(newIndexFile(file[b]))
             /\ newIndexFile(file[b]).frames = file[b].frames
             /\ newIndexFile(file[b]).slot = file[b].slot
             /\ newIndexFile(file[b]).ilen = MaxIndexBytes
             /\ newSegment(b, file[b]) \in FaultObject
             /\ newSegment(b, file[b]).buf = {} /\ newSegment(b, file[b]).isize = file[b].ilen
             /\ newSegment(b, file[b]).nextOffset = nextOffsetOf(b, file[b])
             /\ ObjectOK(b, newIndexFile(file[b]), newSegment(b, file[b]))
  <2>1. file[b] \in FileType /\ FileOK(file[b])
    BY <1>2
  <2>2. QED
    BY <2>1, OpenedOK, NewIndexFileType
<1>4. NoSegment \in FaultObject
  BY DEF NoSegment, FaultObject
<1>5. FaultTypeOK'
  <2>1. file' \in [Offset -> FileType]
    BY <1>0, <1>2, <1>3
  <2>2. mem' \in [Offset -> FaultObject]
    BY <1>0, <1>3, <1>4
  <2>3. QED
    BY <1>0, <1>1, <2>1, <2>2 DEF FaultInv, FaultTypeOK
<1>6. ASSUME NEW b \in O
      PROVE  /\ b \in Offset /\ file'[b] = newIndexFile(file[b])
             /\ mem'[b] = newSegment(b, file[b])
  BY <1>0, <1>1
<1>7. \A b \in Offset \ O : file'[b] = file[b]
  BY <1>0
<1>8. SegmentsOK'
  <2>1. \A b \in Offset : FileOK(file'[b])
    BY <1>2, <1>3, <1>6, <1>7
  <2>2. \A b \in O : ObjectOK(b, file'[b], mem'[b])
    BY <1>3, <1>6
  <2>3. QED
    BY <1>0, <2>1, <2>2 DEF SegmentsOK
<1>9. FreshOK'
  <2>1. SUFFICES ASSUME NEW b \in Offset, b >= M
                 PROVE  /\ file'[b].ilen = 0 => file'[b].frames = {}
                        /\ b \in O /\ mem'[b].isize = 0 => Frames(b)' = {}
    BY <1>0 DEF FreshOK
  <2>2. b >= activeSegment
    BY <1>1, <2>1, NaturalOffsets
  <2>3. file[b].ilen = 0 => file[b].frames = {}
    BY <2>2 DEF FaultInv, FreshOK
  <2>4. CASE b \in O
    <3>1. file'[b].ilen = MaxIndexBytes /\ MaxIndexBytes # 0
      BY <1>3, <1>6, <2>4 DEF entWidth
    <3>2. mem'[b].isize = file[b].ilen /\ mem'[b].buf = {} /\ file'[b].frames = file[b].frames
      BY <1>3, <1>6, <2>4
    <3>3. QED
      BY <2>3, <3>1, <3>2 DEF Frames
  <2>5. CASE b \notin O
    BY <1>7, <2>3, <2>5
  <2>6. QED
    BY <2>4, <2>5
<1>10. DirectoryOK'
  BY <1>0, <1>1 DEF DirectoryOK
<1>11. \A b \in Offset : file'[b].slot = file[b].slot /\ file'[b].frames = file[b].frames
  BY <1>3, <1>6, <1>7
<1>12. ASSUME PairsOK, AckedBelow PROVE PairsOK' /\ AckedBelow'
  <2>1. stores' = O /\ indexes' = O /\ (stores # {} => O = stores) /\ (stores = {} => O = {M})
    <3>1. CASE stores \union indexes = {}
      BY <1>0, <1>1, <3>1 DEF Opened
    <3>2. CASE stores \union indexes # {}
      BY <1>0, <1>1, <1>12, <3>2, AllFound
    <3>3. QED
      BY <3>1, <3>2
  <2>2. \A b, c \in O : b < c => \A j \in Slot : b + file[b].slot[j].off < c
    <3>1. CASE stores # {}
      BY <1>12, <2>1, <3>1 DEF PairsOK
    <3>2. CASE stores = {}
      <4>1. O = {M} /\ M \in Nat
        BY <1>1, <2>1, <3>2, NaturalOffsets
      <4>2. \A b, c \in O : ~(b < c)
        BY <4>1
      <4>3. QED
        BY <4>2
    <3>3. QED
      BY <3>1, <3>2
  <2>3. \A b, c \in O : b < c => mem'[b].nextOffset <= c
    <3>1. SUFFICES ASSUME NEW b \in O, NEW c \in O, b < c PROVE nextOffsetOf(b, file[b]) <= c
      BY <1>3, <1>6
    <3>2. b \in Nat /\ c \in Nat /\ b \in Offset /\ \A j \in Slot : file[b].slot[j].off \in Nat
      BY <1>1, <1>2, NaturalOffsets DEF FileType, Entry
    <3>3. CASE nextOffsetOf(b, file[b]) = b
      BY <3>1, <3>2, <3>3
    <3>4. ASSUME NEW j \in Slot, nextOffsetOf(b, file[b]) = b + file[b].slot[j].off + 1
          PROVE  nextOffsetOf(b, file[b]) <= c
      BY <2>2, <3>1, <3>2, <3>4
    <3>5. QED
      BY <1>2, <3>2, <3>3, <3>4, ReopenedOffset
  <2>4. PairsOK'
    <3>1. \A b, c \in O : b < c => \A j \in Slot : b + file'[b].slot[j].off < c
      BY <1>1, <1>11, <2>2
    <3>2. QED
      BY <1>0, <1>1, <2>1, <2>3, <3>1 DEF PairsOK
  <2>5. AckedBelow'
    <3>1. SUFFICES ASSUME NEW o \in DOMAIN acked
                   PROVE  /\ \A b \in O : b > M => o < b
                          /\ ~isMaxed(mem'[M].isize) => o < mem'[M].nextOffset
      BY <1>0, <2>1 DEF AckedBelow, active
    <3>2. \A b \in O : ~(b > M)
      BY <1>1, NaturalOffsets
    <3>3. mem'[M].isize = file[M].ilen /\ mem'[M].nextOffset = nextOffsetOf(M, file[M])
      BY <1>1, <1>3, <1>6
    <3>4. CASE M = activeSegment
      BY <1>0, <1>12, <3>2, <3>3, <3>4 DEF AckedBelow
    <3>5. CASE M # activeSegment
      <4>1. M > activeSegment
        BY <1>1, <3>5, NaturalOffsets
      <4>2. M \in stores
        BY <1>1, <2>1, <3>5
      <4>3. o < M
        BY <1>12, <4>1, <4>2 DEF AckedBelow
      <4>4. mem'[M].nextOffset >= M /\ mem'[M].nextOffset \in Nat
        BY <1>0, <1>1, <1>5, <1>8 DEF SegmentsOK, ObjectOK, FaultTypeOK, FaultObject
      <4>5. o \in Nat /\ M \in Nat
        BY <1>1, NaturalOffsets DEF FaultInv, FaultTypeOK
      <4>6. QED
        BY <3>2, <4>3, <4>4, <4>5
    <3>6. QED
      BY <3>4, <3>5
  <2>6. QED
    BY <2>4, <2>5
<1>13. \A c \in Offset : Extends(c)
  BY <1>11 DEF Extends
<1>14. QED
  BY <1>0, <1>5, <1>8, <1>9, <1>10, <1>12, <1>13 DEF FaultInv

\* A NewLog that is killed has made files, but no entries and no records.
LEMMA CrashInNewLogFault ==
  ASSUME FaultInv, NEW at \in Offset, NEW stage \in RollStage, CrashInNewLog(at, stage)
  PROVE  /\ FaultInv' /\ stores \subseteq stores' /\ indexes \subseteq indexes'
         /\ \A c \in Offset : Extends(c)
<1> PICK O : O = Opened
  OBVIOUS
<1> PICK before : before = {b \in O : b < at}
  OBVIOUS
<1> PICK mapped : mapped = before \union (IF stage = "map" THEN {at} ELSE {})
  OBVIOUS
<1>0. /\ proc # "open" /\ at \in O /\ Fault /\ UNCHANGED <<activeSegment, acked>>
      /\ proc' = "crashed" /\ mem' = [b \in Offset |-> NoSegment] /\ segments' = {}
      /\ stores' = stores \union before \union {at}
      /\ indexes' = indexes \union before \union (IF stage = "store" THEN {} ELSE {at})
      /\ file' = [b \in Offset |-> IF b \in mapped THEN newIndexFile(file[b]) ELSE file[b]]
  BY DEF CrashInNewLog, Killed
<1>1. O \subseteq Offset /\ activeSegment \in O /\ before \subseteq O
  BY OpenedFacts
<1>2. \A b \in Offset : file[b] \in FileType /\ FileOK(file[b])
  BY DEF FaultInv, FaultTypeOK, SegmentsOK
<1>3. ASSUME NEW b \in Offset
      PROVE  /\ file'[b] \in FileType /\ FileOK(file'[b])
             /\ file'[b].frames = file[b].frames /\ file'[b].slot = file[b].slot
             /\ file'[b] = file[b] \/ file'[b].ilen = MaxIndexBytes
  <2>1. /\ newIndexFile(file[b]) \in FileType /\ FileOK(newIndexFile(file[b]))
        /\ newIndexFile(file[b]).frames = file[b].frames
        /\ newIndexFile(file[b]).slot = file[b].slot
        /\ newIndexFile(file[b]).ilen = MaxIndexBytes
    BY <1>2, OpenedOK, NewIndexFileType
  <2>2. file'[b] \in {newIndexFile(file[b]), file[b]}
    BY <1>0
  <2>3. QED
    BY <1>2, <2>1, <2>2
<1>4. stores' \subseteq Offset /\ indexes' \subseteq Offset
  BY <1>0, <1>1 DEF FaultInv, FaultTypeOK
<1>5. FaultTypeOK'
  <2>1. file' \in [Offset -> FileType]
    <3>1. DOMAIN file' = Offset /\ file' = [b \in Offset |-> file'[b]]
      BY <1>0
    <3>2. QED
      BY <1>3, <3>1
  <2>2. QED
    BY <1>0, <1>4, <2>1, KilledTypes
<1>6. SegmentsOK'
  BY <1>0, <1>3 DEF SegmentsOK
<1>7. FreshOK'
  <2>1. SUFFICES ASSUME NEW b \in Offset, b >= activeSegment, file'[b].ilen = 0
                 PROVE  file'[b].frames = {}
    BY <1>0 DEF FreshOK
  <2>2. file'[b] = file[b]
    BY <1>3, <2>1 DEF entWidth
  <2>3. QED
    BY <2>1, <2>2 DEF FaultInv, FreshOK
<1>8. Unopened =>
        /\ O = {InitialOffset} /\ activeSegment = InitialOffset
        /\ stores' = {InitialOffset} /\ indexes' \subseteq {InitialOffset}
  <2> SUFFICES ASSUME Unopened
               PROVE  /\ O = {InitialOffset} /\ activeSegment = InitialOffset
                      /\ stores' = {InitialOffset} /\ indexes' \subseteq {InitialOffset}
    OBVIOUS
  <2>1. O = {InitialOffset}
    BY FirstOpened
  <2>2. QED
    BY <1>0, <1>1, <2>1 DEF Unopened
<1>9. DirectoryOK'
  <2>1. CASE activeSegment \in stores \intersect indexes
    BY <1>0, <2>1 DEF DirectoryOK
  <2>2. CASE Unopened
    <3>1. indexes' = {} \/ InitialOffset \in indexes'
      BY <1>8, <2>2
    <3>2. QED
      BY <1>0, <1>8, <2>2, <3>1 DEF DirectoryOK, Unopened
  <2>3. QED
    BY <2>1, <2>2 DEF FaultInv, DirectoryOK
<1>10. ASSUME PairsOK, AckedBelow PROVE PairsOK' /\ AckedBelow'
  <2>1. CASE Unopened
    <3>1. stores' = {activeSegment} /\ indexes' \subseteq stores' /\ activeSegment \in Nat
      BY <1>1, <1>8, <2>1, NaturalOffsets
    <3>2. \A b, c \in stores' : ~(b < c)
      BY <3>1
    <3>3. PairsOK'
      BY <1>0, <3>1, <3>2 DEF PairsOK
    <3>4. \A b \in stores' : ~(b > activeSegment)
      BY <3>1
    <3>5. ASSUME NEW o \in DOMAIN acked, ~isMaxed(file'[activeSegment].ilen)
          PROVE  o < nextOffsetOf(activeSegment, file'[activeSegment])
      <4>1. file'[activeSegment] = file[activeSegment]
        BY <1>1, <1>3, <3>5, MappedIsFull
      <4>2. QED
        BY <1>0, <1>10, <3>5, <4>1 DEF AckedBelow
    <3>6. QED
      BY <1>0, <3>3, <3>4, <3>5 DEF AckedBelow
  <2>2. CASE activeSegment \in stores \intersect indexes
    <3>1. O = stores /\ indexes \subseteq stores
      BY <1>10, <2>2, AllFound
    <3>2. stores' = stores /\ indexes \subseteq indexes' /\ indexes' \subseteq stores
      BY <1>0, <1>1, <3>1
    <3>3. \A h \in stores' \ indexes', c \in stores' : c < h => c \in indexes'
      BY <1>10, <3>2 DEF PairsOK
    <3>4. \A b, c \in stores' : b < c => \A j \in Slot : b + file'[b].slot[j].off < c
      BY <1>1, <1>3, <1>10, <3>1, <3>2 DEF PairsOK
    <3>5. PairsOK'
      BY <1>0, <3>2, <3>3, <3>4 DEF PairsOK
    <3>6. ASSUME NEW o \in DOMAIN acked, ~isMaxed(file'[activeSegment].ilen)
          PROVE  o < nextOffsetOf(activeSegment, file'[activeSegment])
      <4>1. file'[activeSegment] = file[activeSegment]
        BY <1>1, <1>3, <3>6, MappedIsFull
      <4>2. QED
        BY <1>0, <1>10, <3>6, <4>1 DEF AckedBelow
    <3>7. AckedBelow'
      BY <1>0, <1>10, <3>2, <3>6 DEF AckedBelow
    <3>8. QED
      BY <3>5, <3>7
  <2>3. QED
    BY <2>1, <2>2 DEF FaultInv, DirectoryOK
<1>11. faults'.failures = faults.failures
  BY <1>0, KillsOnly
<1>12. \A c \in Offset : Extends(c)
  BY <1>3 DEF Extends
<1>13. QED
  BY <1>0, <1>5, <1>6, <1>7, <1>9, <1>10, <1>11, <1>12 DEF FaultInv

\* A Close that is killed has cut some indexes, and flushed some stores.
LEMMA CrashInCloseFault ==
  ASSUME FaultInv, NEW at \in Offset, NEW flushed \in BOOLEAN, CrashInClose(at, flushed)
  PROVE  FaultInv' /\ \A c \in Offset : Extends(c)
<1>0. /\ proc = "open" /\ Fault /\ UNCHANGED <<stores, indexes, activeSegment, acked>>
      /\ proc' = "crashed" /\ mem' = [b \in Offset |-> NoSegment] /\ segments' = {}
  BY DEF CrashInClose, Killed
<1>1. file' = [b \in Offset |->
                IF b \in segments /\ b <= at
                  THEN IF b = at /\ ~flushed THEN CutFile(file[b], mem[b])
                       ELSE CloseFile(file[b], mem[b])
                  ELSE file[b]]
  BY DEF CrashInClose
<1> PICK C : C = {b \in segments : b <= at}
  OBVIOUS
<1>2. C \subseteq segments /\ segments \subseteq Offset
  BY <1>0, OpenLog
<1>3. ASSUME NEW b \in C
      PROVE  /\ file'[b] \in FileType /\ FileOK(file'[b])
             /\ file[b].frames \subseteq file'[b].frames /\ file'[b].frames \subseteq Frames(b)
             /\ file'[b].slot = file[b].slot /\ file'[b].ilen = mem[b].isize
  <2>1. /\ b \in Offset /\ file[b] \in FileType /\ mem[b] \in FaultObject
        /\ FileOK(file[b]) /\ ObjectOK(b, file[b], mem[b])
    BY <1>0, <1>2, OpenLog
  <2>2. file'[b] \in {CutFile(file[b], mem[b]), CloseFile(file[b], mem[b])}
    BY <1>1, <2>1
  <2>3. QED
    BY <2>1, <2>2, ClosedOK, CutOK DEF Frames
<1>4. \A b \in Offset \ C : file'[b] = file[b]
  BY <1>1
<1>5. \A b \in Offset : /\ file'[b] \in FileType /\ FileOK(file'[b])
                        /\ file'[b].slot = file[b].slot
                        /\ file[b].frames \subseteq file'[b].frames
  <2>1. SUFFICES ASSUME NEW b \in Offset
                 PROVE  /\ file'[b] \in FileType /\ FileOK(file'[b])
                        /\ file'[b].slot = file[b].slot
                        /\ file[b].frames \subseteq file'[b].frames
    OBVIOUS
  <2>2. CASE b \in C
    BY <1>3, <2>2
  <2>3. CASE b \notin C
    BY <1>0, <1>4, <2>3, OpenLog
  <2>4. QED
    BY <2>2, <2>3
<1>6. FaultTypeOK'
  <2>1. file' \in [Offset -> FileType]
    <3>1. file' = [b \in Offset |-> file'[b]]
      BY <1>1
    <3>2. QED
      BY <1>5, <3>1
  <2>2. QED
    BY <1>0, <2>1, KilledTypes DEF FaultInv, FaultTypeOK
<1>7. SegmentsOK'
  BY <1>0, <1>5 DEF SegmentsOK
<1>8. FreshOK'
  <2>1. SUFFICES ASSUME NEW b \in Offset, b >= activeSegment, file'[b].ilen = 0
                 PROVE  file'[b].frames = {}
    BY <1>0 DEF FreshOK
  <2>2. CASE b \in C
    <3>1. Frames(b) = {}
      BY <1>0, <1>2, <1>3, <2>1, <2>2 DEF FaultInv, FreshOK
    <3>2. QED
      BY <1>3, <2>2, <3>1
  <2>3. CASE b \notin C
    BY <1>4, <2>1, <2>3 DEF FaultInv, FreshOK
  <2>4. QED
    BY <2>2, <2>3
<1>9. DirectoryOK'
  BY <1>0, OpenLog DEF DirectoryOK
<1>10. PairsOK => PairsOK'
  <2> SUFFICES ASSUME PairsOK PROVE PairsOK'
    OBVIOUS
  <2>1. \A b, c \in stores : b < c => \A j \in Slot : b + file'[b].slot[j].off < c
    BY <1>5 DEF PairsOK, FaultInv, FaultTypeOK
  <2>2. QED
    BY <1>0, <2>1 DEF PairsOK
<1>11. PairsOK /\ AckedBelow => AckedBelow'
  <2> SUFFICES ASSUME PairsOK, AckedBelow PROVE AckedBelow'
    OBVIOUS
  <2> PICK a \in Offset, g \in FileType : a = activeSegment /\ g = file'[a]
    BY <1>0, <1>5, OpenLog
  <2>1. \A b \in stores : ~(b > a)
    <3>1. \A b \in stores : b <= a
      BY <1>0 DEF PairsOK
    <3>2. stores \subseteq Nat /\ a \in Nat
      BY NaturalOffsets DEF FaultInv, FaultTypeOK
    <3>3. QED
      BY <3>1, <3>2
  <2>2. \A o \in DOMAIN acked : ~isMaxed(g.ilen) => o < nextOffsetOf(a, g)
    <3>1. CASE a \in C
      <4>1. g.ilen = mem[a].isize /\ g.slot = file[a].slot /\ FileOK(g)
        BY <1>3, <3>1
      <4>2. QED
        BY <1>0, <4>1, CutCounts
    <3>2. CASE a \notin C
      <4>1. g = file[a]
        BY <1>4, <3>2
      <4>2. g.ilen = MaxIndexBytes
        BY <1>0, <4>1, OpenLog DEF ObjectOK
      <4>3. QED
        BY <4>2, MappedIsFull
    <3>3. QED
      BY <3>1, <3>2
  <2>3. QED
    BY <1>0, <2>1, <2>2 DEF AckedBelow
<1>12. faults'.failures = faults.failures
  BY <1>0, KillsOnly
<1>13. \A c \in Offset : Extends(c)
  BY <1>5 DEF Extends
<1>14. QED
  BY <1>6, <1>7, <1>8, <1>9, <1>10, <1>11, <1>12, <1>13 DEF FaultInv

-----------------------------------------------------------------------------
(* Append, whole or in part *)

\* The active segment after an append: one entry more, which was free, or the
\* same index as before when it counts as full.
LEMMA ActiveAppended ==
  ASSUME FaultInv, proc = "open", active.nextOffset < MaxOffset, NEW v \in Value,
         NEW a \in Offset, a = activeSegment, NEW o \in Nat, o = active.nextOffset,
         NEW g, g = AppendedFile(v), NEW n, n = AppendedMem(v)
  PROVE  /\ g \in FileType /\ FileOK(g) /\ n \in FaultObject /\ ObjectOK(a, g, n)
         /\ n.isize # 0 /\ g.ilen = MaxIndexBytes /\ g.frames = file[a].frames
         /\ \A j \in Slot : \/ g.slot[j] = file[a].slot[j]
                            \/ /\ g.slot[j].off = j /\ file[a].slot[j] = ZeroEntry
                               /\ j = 0 => file[a].frames = {}
         /\ SegmentAppendErr(active) = "nil" =>
              /\ ~isMaxed(active.isize) /\ n.nextOffset = o + 1
              /\ o - a \in Slot /\ g.slot[o - a].off = o - a
              /\ \A j \in Slot : a + g.slot[j].off <= o
         /\ SegmentAppendErr(active) # "nil" =>
              /\ isMaxed(active.isize) /\ g = file[a]
              /\ n.isize = active.isize /\ n.nextOffset = o
<1> PICK f \in FileType, m \in FaultObject : f = file[a] /\ m = mem[a] /\ m = active
  BY OpenLog
<1>1. FileOK(f) /\ ObjectOK(a, f, m) /\ m.nextOffset < MaxOffset /\ a \in segments
  BY OpenLog
<1>2. g = SegmentAppendFile(a, f, m) /\ n = SegmentAppendMem(m, v)
  BY DEF AppendedFile, AppendedMem
<1>3. /\ g \in FileType /\ FileOK(g) /\ g.frames = f.frames /\ g.ilen = f.ilen
      /\ isMaxed(m.isize) => g = f
      /\ ~isMaxed(m.isize) =>
           /\ Counts(f, m.isize, o - a) /\ o - a \in Slot
           /\ g.slot = [f.slot EXCEPT ![o - a] = [off |-> o - a, pos |-> m.size]]
  BY <1>1, <1>2, AppendedFileOK
<1>4. /\ n \in FaultObject /\ ObjectOK(a, g, n) /\ n.isize # 0
      /\ isMaxed(m.isize) => n.isize = m.isize /\ n.nextOffset = m.nextOffset
      /\ ~isMaxed(m.isize) => n.nextOffset = m.nextOffset + 1
  BY <1>1, <1>2, AppendedObjectOK
<1>5. f.ilen = MaxIndexBytes
  BY <1>1 DEF ObjectOK
<1>6. SegmentAppendErr(active) = "nil" <=> ~isMaxed(m.isize)
  BY DEF SegmentAppendErr
<1>7. CASE isMaxed(m.isize)
  BY <1>3, <1>4, <1>5, <1>6, <1>7
<1>8. CASE ~isMaxed(m.isize)
  <2> PICK k \in Slot : k = o - a
    BY <1>3, <1>8
  <2>1. k \in Nat /\ a \in Nat /\ o = a + k /\ f.slot \in [Slot -> Entry]
    BY NaturalOffsets DEF FileType
  <2>2. \A j \in Slot : IF j < k THEN f.slot[j].off = j ELSE f.slot[j] = ZeroEntry
    BY <1>3, <1>8 DEF Counts
  <2>3. g.slot[k].off = k /\ \A j \in Slot \ {k} : g.slot[j] = f.slot[j]
    BY <1>3, <1>8, <2>1
  <2>4. f.slot[k] = ZeroEntry
    BY <2>1, <2>2
  <2>5. k = 0 => f.frames = {}
    <3>1. SUFFICES ASSUME k = 0 PROVE Frames(a) = {}
      BY DEF Frames
    <3>2. m.isize = 0
      BY <1>3, <1>8, <3>1 DEF Counts, entWidth
    <3>3. a >= activeSegment
      BY <2>1
    <3>4. QED
      BY <1>1, <3>2, <3>3 DEF FaultInv, FreshOK
  <2>6. \A j \in Slot : a + g.slot[j].off <= o
    <3>1. SUFFICES ASSUME NEW j \in Slot PROVE a + g.slot[j].off <= o
      OBVIOUS
    <3>2. j \in Nat
      BY NaturalOffsets
    <3>3. CASE j = k
      <4>1. g.slot[j].off = k
        BY <2>3, <3>3
      <4>2. QED
        BY <2>1, <4>1
    <3>4. CASE j # k /\ j < k
      BY <2>1, <2>2, <2>3, <3>2, <3>4
    <3>5. CASE j # k /\ ~(j < k)
      <4>1. g.slot[j].off = 0
        BY <2>2, <2>3, <3>5 DEF ZeroEntry
      <4>2. QED
        BY <2>1, <4>1
    <3>6. QED
      BY <3>3, <3>4, <3>5
  <2>7. QED
    BY <1>3, <1>4, <1>5, <1>6, <1>8, <2>3, <2>4, <2>5, <2>6
<1>9. QED
  BY <1>7, <1>8

\* The base the roll goes to is beyond every segment, and what may be there from
\* an earlier failure is in order and, if its index is empty, empty.
LEMMA NewBase ==
  ASSUME FaultInv, proc = "open", active.nextOffset < MaxOffset,
         NEW b, b = active.nextOffset + 1,
         NEW made, made = IF b \in stores \union indexes THEN file[b] ELSE EmptyFile
  PROVE  /\ b \in Offset /\ b > activeSegment /\ b \notin segments
         /\ b # activeSegment /\ active.nextOffset \in Nat
         /\ made \in FileType /\ FileOK(made) /\ (made.ilen = 0 => made.frames = {})
<1>1. /\ activeSegment \in Nat /\ active.nextOffset \in Nat
      /\ active.nextOffset >= activeSegment
  BY OpenLog, NaturalOffsets DEF ObjectOK, FaultObject
<1>2. b \in Offset /\ b > activeSegment
  BY <1>1 DEF Offset
<1>3. b \notin segments
  BY <1>1, <1>2, OpenLog
<1>4. file[b] \in FileType /\ FileOK(file[b])
  BY <1>2, OpenLog
<1>5. file[b].ilen = 0 => file[b].frames = {}
  BY <1>1, <1>2, NaturalOffsets DEF FaultInv, FreshOK
<1>6. QED
  BY <1>1, <1>2, <1>3, <1>4, <1>5, EmptyOK

\* After kills alone an entry of any segment stays below the next base, the one
\* of the roll included.
LEMMA RollSlots ==
  ASSUME FaultInv, PairsOK, proc = "open", active.nextOffset < MaxOffset,
         SegmentAppendErr(active) = "nil", NEW v \in Value,
         file'[activeSegment] = AppendedFile(v),
         NEW b, b = active.nextOffset + 1,
         \A c \in stores \ {activeSegment} : file'[c] = file[c]
  PROVE  /\ \A c, d \in stores \union {b} : c < d => \A j \in Slot : c + file'[c].slot[j].off < d
         /\ b \notin stores /\ \A c \in stores : c <= activeSegment
<1> PICK a \in Offset : a = activeSegment
  BY OpenLog
<1> PICK o \in Nat : o = active.nextOffset
  BY NewBase
<1>1. /\ b \in Nat /\ a \in Nat /\ b > a /\ b = o + 1
      /\ stores = segments /\ stores \subseteq Nat /\ \A c \in stores : c <= a
  BY NewBase, NaturalOffsets DEF PairsOK, FaultInv, FaultTypeOK
<1>2. b \notin stores
  BY <1>1
<1>3. file'[a] \in FileType /\ \A j \in Slot : a + file'[a].slot[j].off <= o
  BY ActiveAppended
<1>4. \A c \in stores : file'[c] \in FileType
  BY <1>3 DEF FaultInv, FaultTypeOK
<1>5. \A c \in stores, j \in Slot : file'[c].slot[j].off \in Nat
  BY <1>4, NaturalOffsets DEF FileType, Entry
<1>6. ASSUME NEW c \in stores \union {b}, NEW d \in stores \union {b}, c < d, NEW j \in Slot
      PROVE  c + file'[c].slot[j].off < d
  <2>1. c \in stores
    BY <1>1, <1>6
  <2>2. CASE c = a
    <3>1. d = b
      BY <1>1, <1>6, <2>2
    <3>2. QED
      BY <1>1, <1>3, <1>5, <2>1, <2>2, <3>1
  <2>3. CASE c # a
    <3>0. a \in stores
      BY OpenLog
    <3>1. file'[c] = file[c] /\ a \in stores /\ c < a
      <4>1. c \in Nat /\ c <= a /\ c < a
        BY <1>1, <2>1, <2>3
      <4>2. QED
        BY <2>1, <2>3, <3>0, <4>1
    <3>2. c + file'[c].slot[j].off < a
      BY <2>1, <3>1 DEF PairsOK
    <3>3. CASE d \in stores
      BY <1>6, <2>1, <3>1, <3>3 DEF PairsOK
    <3>4. CASE d = b
      BY <1>1, <1>5, <2>1, <3>2, <3>4
    <3>5. QED
      BY <3>3, <3>4
  <2>4. QED
    BY <2>2, <2>3
<1>7. QED
  BY <1>1, <1>2, <1>6

\* The answer tells whether the offset is acknowledged.
LEMMA Acknowledged ==
  ASSUME FaultInv, NEW v \in Value, AckedAppend(v)
  PROVE  /\ proc = "open" /\ proc' = "open" /\ active.nextOffset < MaxOffset
         /\ UNCHANGED faults
         /\ SegmentAppendErr(active) = "nil" =>
              DOMAIN acked' = DOMAIN acked \union {active.nextOffset}
         /\ SegmentAppendErr(active) # "nil" => acked' = acked
         /\ DOMAIN acked' \subseteq Offset
<1>1. /\ proc = "open" /\ proc' = "open" /\ active.nextOffset < MaxOffset /\ UNCHANGED faults
  BY DEF AckedAppend, Append
<1>2. resp' = IF SegmentAppendErr(active) = "nil" THEN Appended(active.nextOffset)
              ELSE AppendFailed("EOF")
  BY DEF AckedAppend, Append
<1>3. CASE SegmentAppendErr(active) = "nil"
  <2>1. resp'.err = "nil" /\ resp'.off = active.nextOffset
    BY <1>2, <1>3 DEF Appended
  <2>2. DOMAIN acked' = DOMAIN acked \union {active.nextOffset}
    BY <2>1 DEF AckedAppend
  <2>3. active.nextOffset \in Offset
    BY <1>1, NewBase DEF Offset
  <2>4. QED
    BY <1>1, <1>3, <2>2, <2>3 DEF FaultInv, FaultTypeOK
<1>4. CASE SegmentAppendErr(active) # "nil"
  <2>1. resp'.err = "EOF"
    BY <1>2, <1>4 DEF AppendFailed
  <2>2. acked' = acked
    BY <2>1 DEF AckedAppend
  <2>3. QED
    BY <1>1, <1>4, <2>2 DEF FaultInv, FaultTypeOK
<1>5. QED
  BY <1>3, <1>4

\* An append without a roll, whether it has written an entry or failed.
LEMMA AppendOnlyFault ==
  ASSUME FaultInv, NEW v \in Value, AckedAppend(v), AppendOnly(v)
  PROVE  FaultInv' /\ \A c \in Offset : Extends(c)
<1>0. /\ proc = "open" /\ proc' = "open" /\ active.nextOffset < MaxOffset /\ UNCHANGED faults
      /\ SegmentAppendErr(active) = "nil" =>
           DOMAIN acked' = DOMAIN acked \union {active.nextOffset}
      /\ SegmentAppendErr(active) # "nil" => acked' = acked
      /\ DOMAIN acked' \subseteq Offset
  BY Acknowledged
<1> PICK a \in Offset : a = activeSegment
  BY <1>0, OpenLog
<1> PICK o \in Nat : o = active.nextOffset
  BY <1>0, NewBase
<1> PICK g : g = AppendedFile(v)
  OBVIOUS
<1> PICK n : n = AppendedMem(v)
  OBVIOUS
<1>1. /\ g \in FileType /\ FileOK(g) /\ n \in FaultObject /\ ObjectOK(a, g, n)
      /\ n.isize # 0 /\ g.ilen = MaxIndexBytes /\ g.frames = file[a].frames
      /\ \A j \in Slot : \/ g.slot[j] = file[a].slot[j]
                         \/ /\ g.slot[j].off = j /\ file[a].slot[j] = ZeroEntry
                            /\ j = 0 => file[a].frames = {}
      /\ SegmentAppendErr(active) = "nil" => ~isMaxed(active.isize) /\ n.nextOffset = o + 1
      /\ SegmentAppendErr(active) # "nil" => isMaxed(active.isize) /\ n.isize = active.isize
  BY <1>0, ActiveAppended
<1>2. /\ file' = [file EXCEPT ![a] = g] /\ mem' = [mem EXCEPT ![a] = n]
      /\ UNCHANGED <<stores, indexes, segments, activeSegment>>
  BY DEF AppendOnly
<1>3. /\ file'[a] = g /\ mem'[a] = n
      /\ \A c \in Offset \ {a} : file'[c] = file[c] /\ mem'[c] = mem[c]
  BY <1>2 DEF FaultInv, FaultTypeOK
<1>4. FaultTypeOK'
  BY <1>0, <1>1, <1>2 DEF FaultInv, FaultTypeOK
<1>5. SegmentsOK'
  BY <1>0, <1>1, <1>2, <1>3, OpenLog DEF SegmentsOK
<1>6. FreshOK'
  <2>1. SUFFICES ASSUME NEW c \in Offset, c >= activeSegment
                 PROVE  /\ file'[c].ilen = 0 => file'[c].frames = {}
                        /\ c \in segments /\ mem'[c].isize = 0 => Frames(c)' = {}
    BY <1>2 DEF FreshOK
  <2>2. CASE c = a
    <3>1. file'[c].ilen # 0 /\ mem'[c].isize # 0
      BY <1>1, <1>3, <2>2 DEF entWidth
    <3>2. QED
      BY <3>1
  <2>3. CASE c # a
    <3>1. file'[c] = file[c] /\ mem'[c] = mem[c]
      BY <1>3, <2>3
    <3>2. QED
      BY <1>0, <2>1, <3>1 DEF FaultInv, FreshOK, Frames
  <2>4. QED
    BY <2>2, <2>3
<1>7. DirectoryOK'
  BY <1>0, <1>2 DEF FaultInv, DirectoryOK
<1>8. PairsOK => PairsOK'
  <2> SUFFICES ASSUME PairsOK PROVE PairsOK'
    OBVIOUS
  <2>1. stores = segments /\ stores \subseteq Nat /\ a \in Nat /\ \A b \in stores : b <= a
    BY <1>0, NaturalOffsets DEF PairsOK, FaultInv, FaultTypeOK
  <2>2. \A b, c \in stores : b < c => b \in Offset /\ b # a
    BY <2>1 DEF FaultInv, FaultTypeOK
  <2>3. \A b, c \in stores : b < c => file'[b] = file[b] /\ mem'[b] = mem[b]
    BY <1>3, <2>2
  <2>4. QED
    BY <1>0, <1>2, <2>3 DEF PairsOK
<1>9. PairsOK /\ AckedBelow => AckedBelow'
  <2> SUFFICES ASSUME PairsOK, AckedBelow PROVE AckedBelow'
    OBVIOUS
  <2>1. \A b \in stores : ~(b > a)
    BY <1>0, NaturalOffsets DEF PairsOK, FaultInv, FaultTypeOK
  <2>2. SUFFICES ASSUME NEW p \in DOMAIN acked', ~isMaxed(n.isize) PROVE p < n.nextOffset
    BY <1>0, <1>2, <1>3, <2>1 DEF AckedBelow, active
  <2>3. SegmentAppendErr(active) = "nil" /\ ~isMaxed(active.isize) /\ n.nextOffset = o + 1
    BY <1>1, <2>2
  <2>4. p \in Nat /\ (p \in DOMAIN acked \/ p = o)
    BY <1>0, <2>3, NaturalOffsets
  <2>5. p \in DOMAIN acked => p < o
    BY <1>0, <2>3 DEF AckedBelow
  <2>6. QED
    BY <2>3, <2>4, <2>5
<1>10. \A c \in Offset : Extends(c)
  BY <1>1, <1>3 DEF Extends
<1>11. QED
  BY <1>0, <1>4, <1>5, <1>6, <1>7, <1>8, <1>9, <1>10 DEF FaultInv

\* An append with its roll.
LEMMA AppendAndRollFault ==
  ASSUME FaultInv, NEW v \in Value, AckedAppend(v), AppendAndRoll(v),
         SegmentAppendErr(active) = "nil"
  PROVE  /\ FaultInv' /\ stores \subseteq stores' /\ indexes \subseteq indexes'
         /\ \A c \in stores \union indexes : Extends(c)
<1>0. /\ proc = "open" /\ proc' = "open" /\ active.nextOffset < MaxOffset /\ UNCHANGED faults
      /\ DOMAIN acked' = DOMAIN acked \union {active.nextOffset}
      /\ DOMAIN acked' \subseteq Offset
  BY Acknowledged
<1> PICK a \in Offset : a = activeSegment
  BY <1>0, OpenLog
<1> PICK o \in Nat : o = active.nextOffset
  BY <1>0, NewBase
<1> PICK g : g = AppendedFile(v)
  OBVIOUS
<1> PICK n : n = AppendedMem(v)
  OBVIOUS
<1> PICK b : b = o + 1
  OBVIOUS
<1> PICK made : made = IF b \in stores \union indexes THEN file[b] ELSE EmptyFile
  OBVIOUS
<1>1. /\ g \in FileType /\ FileOK(g) /\ n \in FaultObject /\ ObjectOK(a, g, n)
      /\ n.isize # 0 /\ g.ilen = MaxIndexBytes /\ g.frames = file[a].frames
      /\ \A j \in Slot : \/ g.slot[j] = file[a].slot[j]
                         \/ /\ g.slot[j].off = j /\ file[a].slot[j] = ZeroEntry
                            /\ j = 0 => file[a].frames = {}
      /\ ~isMaxed(active.isize) /\ n.nextOffset = o + 1
  BY <1>0, ActiveAppended
<1>2. /\ b \in Offset /\ b > a /\ b \notin segments /\ b # a
      /\ made \in FileType /\ FileOK(made) /\ (made.ilen = 0 => made.frames = {})
  BY <1>0, NewBase
<1> PICK f : f = newIndexFile(made)
  OBVIOUS
<1> PICK m : m = newSegment(b, made)
  OBVIOUS
<1>3. /\ f \in FileType /\ FileOK(f) /\ m \in FaultObject /\ ObjectOK(b, f, m)
      /\ m.buf = {} /\ m.isize = made.ilen
      /\ f.frames = made.frames /\ f.slot = made.slot /\ f.ilen = MaxIndexBytes
  BY <1>2, OpenedOK, NewIndexFileType
<1>4. /\ file' = [file EXCEPT ![a] = g, ![b] = f] /\ mem' = [mem EXCEPT ![a] = n, ![b] = m]
      /\ stores' = stores \union {b} /\ indexes' = indexes \union {b}
      /\ segments' = segments \union {b} /\ activeSegment' = b
  BY DEF AppendAndRoll
<1>5. /\ file'[a] = g /\ mem'[a] = n /\ file'[b] = f /\ mem'[b] = m
      /\ \A c \in Offset \ {a, b} : file'[c] = file[c] /\ mem'[c] = mem[c]
  BY <1>2, <1>4 DEF FaultInv, FaultTypeOK
<1>6. FaultTypeOK'
  <2>1. file' \in [Offset -> FileType] /\ mem' \in [Offset -> FaultObject]
    BY <1>1, <1>3, <1>4 DEF FaultInv, FaultTypeOK
  <2>2. QED
    BY <1>0, <1>2, <1>4, <2>1 DEF FaultInv, FaultTypeOK
<1>7. SegmentsOK'
  <2>1. \A c \in Offset : FileOK(file'[c])
    BY <1>0, <1>1, <1>3, <1>5, OpenLog, SMTT(30)
  <2>2. \A c \in segments \union {b} : ObjectOK(c, file'[c], mem'[c])
    <3>1. \A c \in segments \ {a} : c \in Offset \ {a, b} /\ ObjectOK(c, file[c], mem[c])
      BY <1>0, <1>2, OpenLog
    <3>2. QED
      BY <1>1, <1>3, <1>5, <3>1
  <2>3. QED
    BY <1>4, <2>1, <2>2 DEF SegmentsOK
<1>8. FreshOK'
  <2>1. SUFFICES ASSUME NEW c \in Offset, c >= b
                 PROVE  /\ file'[c].ilen = 0 => file'[c].frames = {}
                        /\ c \in segments \union {b} /\ mem'[c].isize = 0 => Frames(c)' = {}
    BY <1>4 DEF FreshOK
  <2>2. CASE c = b
    <3>1. file'[c].ilen # 0
      BY <1>3, <1>5, <2>2 DEF entWidth
    <3>2. mem'[c].isize = 0 => Frames(c)' = {}
      BY <1>2, <1>3, <1>5, <2>2 DEF Frames
    <3>3. QED
      BY <3>1, <3>2
  <2>3. CASE c # b
    <3>1. c > a /\ c >= activeSegment /\ c # a
      BY <1>2, <2>1, NaturalOffsets
    <3>2. c \notin segments
      BY <1>0, <3>1, NaturalOffsets, OpenLog
    <3>3. file'[c] = file[c]
      BY <1>5, <2>3, <3>1
    <3>4. QED
      BY <2>3, <3>1, <3>2, <3>3 DEF FaultInv, FreshOK
  <2>4. QED
    BY <2>2, <2>3
<1>9. DirectoryOK'
  <2>1. \A c \in segments \union {b} : c <= b
    <3>1. a \in Nat /\ b \in Nat /\ a < b
      BY <1>2, NaturalOffsets
    <3>2. \A c \in segments : c \in Nat /\ c <= a
      BY <1>0, OpenLog, NaturalOffsets
    <3>3. QED
      BY <3>1, <3>2
  <2>2. segments \subseteq stores \intersect indexes
    BY <1>0 DEF FaultInv, DirectoryOK
  <2>3. QED
    BY <1>0, <1>4, <2>1, <2>2 DEF DirectoryOK
<1>10. ASSUME PairsOK, AckedBelow PROVE PairsOK' /\ AckedBelow'
  <2>1. /\ \A c, d \in stores \union {b} : c < d => \A j \in Slot : c + file'[c].slot[j].off < d
        /\ b \notin stores /\ \A c \in stores : c <= a
    <3>1. \A c \in stores \ {a} : c \in Offset \ {a}
      BY DEF FaultInv, FaultTypeOK
    <3>2. b \notin stores
      <4>1. stores = segments
        BY <1>0, <1>10 DEF PairsOK
      <4>2. QED
        BY <1>2, <4>1
    <3>3. \A c \in stores \ {a} : file'[c] = file[c]
      BY <1>5, <3>1, <3>2
    <3>4. QED
      BY <1>0, <1>5, <1>10, <3>3, RollSlots
  <2>2. stores = indexes /\ segments = stores /\ stores \subseteq Nat /\ a \in Nat /\ b \in Nat
    BY <1>0, <1>2, <1>10, NaturalOffsets DEF PairsOK, FaultInv, FaultTypeOK
  <2>3. \A c, d \in segments \union {b} : c < d => mem'[c].nextOffset <= d
    <3>1. SUFFICES ASSUME NEW c \in segments \union {b}, NEW d \in segments \union {b}, c < d
                   PROVE  mem'[c].nextOffset <= d
      OBVIOUS
    <3>2. c \in segments
      BY <1>2, <2>1, <2>2, <3>1
    <3>3. CASE c = a
      <4>1. \A e \in segments : e \in Nat /\ e <= a
        BY <2>1, <2>2
      <4>2. d \notin segments
        BY <2>2, <3>1, <3>3, <4>1
      <4>3. d = b
        BY <3>1, <4>2
      <4>4. QED
        BY <1>1, <1>5, <2>2, <3>3, <4>3
    <3>4. CASE c # a
      <4>0. c \in Offset /\ c # b /\ a \in segments
        BY <1>0, <1>2, <3>2, OpenLog
      <4>1. mem'[c] = mem[c] /\ c < a /\ a \in segments
        <5>1. mem'[c] = mem[c]
          BY <1>5, <3>4, <4>0
        <5>2. c \in Nat /\ c <= a
          BY <2>1, <2>2, <3>2
        <5>3. QED
          BY <2>2, <3>4, <4>0, <5>1, <5>2
      <4>2. mem[c].nextOffset <= a /\ mem[c].nextOffset \in Nat
        BY <1>0, <1>10, <3>2, <4>1, OpenLog DEF PairsOK, FaultObject
      <4>3. CASE d = b
        BY <1>2, <2>2, <4>1, <4>2, <4>3
      <4>4. CASE d \in segments
        BY <1>0, <1>10, <3>1, <3>2, <4>1, <4>4 DEF PairsOK
      <4>5. QED
        BY <4>3, <4>4
    <3>5. QED
      BY <3>3, <3>4
  <2>4. PairsOK'
    <3>1. \A c \in stores \union {b} : c <= b
      BY <1>2, <2>1, <2>2
    <3>2. QED
      BY <1>0, <1>4, <2>1, <2>2, <2>3, <3>1 DEF PairsOK
  <2>5. AckedBelow'
    <3>1. \A c \in stores \union {b} : ~(c > b)
      BY <1>2, <2>1, <2>2
    <3>2. SUFFICES ASSUME NEW p \in DOMAIN acked' PROVE p < m.nextOffset
      BY <1>0, <1>4, <1>5, <3>1 DEF AckedBelow, active
    <3>3. p \in Nat /\ (p \in DOMAIN acked \/ p = o)
      BY <1>0, NaturalOffsets
    <3>4. p \in DOMAIN acked => p < o
      BY <1>0, <1>1, <1>10 DEF AckedBelow
    <3>5. m.nextOffset >= b /\ m.nextOffset \in Nat
      BY <1>3 DEF ObjectOK, FaultObject
    <3>6. QED
      BY <2>2, <3>3, <3>4, <3>5
  <2>6. QED
    BY <2>4, <2>5
<1>11. \A c \in stores \union indexes : Extends(c)
  <2>1. SUFFICES ASSUME NEW c \in stores \union indexes PROVE Extends(c)
    OBVIOUS
  <2>2. c \in Offset
    BY DEF FaultInv, FaultTypeOK
  <2>3. CASE c = a
    BY <1>1, <1>5, <2>3 DEF Extends
  <2>4. CASE c = b
    <3>1. file'[c].frames = file[c].frames /\ file'[c].slot = file[c].slot
      BY <1>3, <1>5, <2>1, <2>4
    <3>2. QED
      BY <3>1 DEF Extends
  <2>5. CASE c # a /\ c # b
    BY <1>5, <2>2, <2>5 DEF Extends
  <2>6. QED
    BY <2>3, <2>4, <2>5
<1>12. QED
  BY <1>0, <1>4, <1>6, <1>7, <1>8, <1>9, <1>10, <1>11 DEF FaultInv

\* What an append leaves in the directory when its roll does not come to its end.
LEMMA RollLeft ==
  ASSUME FaultInv, proc = "open", active.nextOffset < MaxOffset,
         SegmentAppendErr(active) = "nil",
         NEW v \in Value, NEW stage \in RollStage, RollLeaves(v, stage),
         NEW a \in Offset, a = activeSegment, NEW o \in Nat, o = active.nextOffset,
         NEW b, b = o + 1
  PROVE  /\ b \in Offset /\ b > a /\ b \notin segments /\ b # a
         /\ stores \subseteq stores' /\ stores' \subseteq stores \union {b}
         /\ indexes \subseteq indexes' /\ indexes' \subseteq indexes \union {b}
         /\ b \in indexes' \ indexes => b \in stores'
         /\ file' \in [Offset -> FileType] /\ \A c \in Offset : FileOK(file'[c])
         /\ file'[a] = AppendedFile(v) /\ \A c \in Offset \ {a, b} : file'[c] = file[c]
         /\ file'[b].ilen = 0 => file'[b].frames = {}
         /\ \A c \in stores \union indexes : Extends(c)
<1> PICK g : g = AppendedFile(v)
  OBVIOUS
<1> PICK n : n = AppendedMem(v)
  OBVIOUS
<1> PICK made : made = IF b \in stores \union indexes THEN file[b] ELSE EmptyFile
  OBVIOUS
<1> PICK e : e = IF stage = "none" THEN file[b]
                 ELSE IF stage = "map" THEN newIndexFile(made) ELSE made
  OBVIOUS
<1>1. /\ g \in FileType /\ FileOK(g) /\ g.frames = file[a].frames
      /\ \A j \in Slot : \/ g.slot[j] = file[a].slot[j]
                         \/ /\ g.slot[j].off = j /\ file[a].slot[j] = ZeroEntry
                            /\ j = 0 => file[a].frames = {}
  BY ActiveAppended
<1>2. /\ b \in Offset /\ b > a /\ b \notin segments /\ b # a
      /\ made \in FileType /\ FileOK(made) /\ (made.ilen = 0 => made.frames = {})
  BY NewBase
<1>3. /\ stores' = stores \union (IF stage = "none" THEN {} ELSE {b})
      /\ indexes' = indexes \union (IF stage \in {"index", "map"} THEN {b} ELSE {})
      /\ file' = [file EXCEPT ![a] = g, ![b] = e]
  <2>1. stores' = stores \union (IF stage = "none" THEN {} ELSE {b})
    BY DEF RollLeaves
  <2>2. indexes' = indexes \union (IF stage \in {"index", "map"} THEN {b} ELSE {})
    BY DEF RollLeaves
  <2>3. file' = [file EXCEPT ![a] = g, ![b] = e]
    <3>1. file \in [Offset -> FileType] /\ a \in Offset /\ b \in Offset /\ a # b
      BY <1>2 DEF FaultInv, FaultTypeOK
    <3>2. CASE stage = "none"
      BY <3>1, <3>2 DEF RollLeaves
    <3>3. CASE stage = "map"
      BY <3>1, <3>3 DEF RollLeaves
    <3>4. CASE stage \in {"store", "index"}
      BY <3>1, <3>4 DEF RollLeaves
    <3>5. QED
      BY <3>2, <3>3, <3>4 DEF RollStage
  <2>4. QED
    BY <2>1, <2>2, <2>3
<1>4. /\ stores \subseteq stores' /\ stores' \subseteq stores \union {b}
      /\ indexes \subseteq indexes' /\ indexes' \subseteq indexes \union {b}
      /\ b \in indexes' \ indexes => b \in stores'
  BY <1>3 DEF RollStage
<1>5. /\ file'[a] = g /\ file'[b] = e /\ \A c \in Offset \ {a, b} : file'[c] = file[c]
  BY <1>2, <1>3 DEF FaultInv, FaultTypeOK
<1>6. file[b] \in FileType /\ FileOK(file[b]) /\ (file[b].ilen = 0 => file[b].frames = {})
  <2>1. b >= activeSegment
    BY <1>2, NaturalOffsets
  <2>2. QED
    BY <1>2, <2>1, OpenLog DEF FaultInv, FreshOK
<1>7. /\ newIndexFile(made) \in FileType /\ FileOK(newIndexFile(made))
      /\ newIndexFile(made).frames = made.frames /\ newIndexFile(made).slot = made.slot
      /\ newIndexFile(made).ilen # 0
  BY <1>2, OpenedOK, NewIndexFileType DEF entWidth
<1>8. e \in FileType /\ FileOK(e) /\ (e.ilen = 0 => e.frames = {})
  BY <1>2, <1>6, <1>7
<1>9. b \in stores \union indexes => e.frames = file[b].frames /\ e.slot = file[b].slot
  BY <1>7
<1>10. file' \in [Offset -> FileType]
  BY <1>1, <1>3, <1>8 DEF FaultInv, FaultTypeOK
<1>11. \A c \in Offset : FileOK(file'[c])
  BY <1>1, <1>5, <1>8, OpenLog
<1>12. ASSUME NEW c \in stores \union indexes PROVE Extends(c)
  <2>1. c \in Offset
    BY DEF FaultInv, FaultTypeOK
  <2>2. CASE c = a
    BY <1>1, <1>5, <2>2 DEF Extends
  <2>3. CASE c = b
    BY <1>5, <1>9, <1>12, <2>3 DEF Extends
  <2>4. CASE c # a /\ c # b
    BY <1>5, <2>1, <2>4 DEF Extends
  <2>5. QED
    BY <2>2, <2>3, <2>4
<1>13. QED
  BY <1>2, <1>4, <1>5, <1>8, <1>10, <1>11, <1>12

LEMMA CrashInAppendFault ==
  ASSUME FaultInv, NEW v \in Value, NEW stage \in RollStage, CrashInAppend(v, stage)
  PROVE  /\ FaultInv' /\ stores \subseteq stores' /\ indexes \subseteq indexes'
         /\ \A c \in stores \union indexes : Extends(c)
<1>0. /\ proc = "open" /\ active.nextOffset < MaxOffset /\ SegmentAppendErr(active) = "nil"
      /\ RollLeaves(v, stage) /\ Fault /\ UNCHANGED <<activeSegment, acked>>
      /\ proc' = "crashed" /\ mem' = [c \in Offset |-> NoSegment] /\ segments' = {}
  BY DEF CrashInAppend, Killed
<1> PICK a \in Offset : a = activeSegment
  BY <1>0, OpenLog
<1> PICK o \in Nat : o = active.nextOffset
  BY <1>0, NewBase
<1> PICK g : g = AppendedFile(v)
  OBVIOUS
<1> PICK n : n = AppendedMem(v)
  OBVIOUS
<1> PICK b : b = o + 1
  OBVIOUS
<1>1. /\ b \in Offset /\ b > a /\ b \notin segments /\ b # a
      /\ stores \subseteq stores' /\ stores' \subseteq stores \union {b}
      /\ indexes \subseteq indexes' /\ indexes' \subseteq indexes \union {b}
      /\ b \in indexes' \ indexes => b \in stores'
      /\ file' \in [Offset -> FileType] /\ \A c \in Offset : FileOK(file'[c])
      /\ file'[a] = g /\ \A c \in Offset \ {a, b} : file'[c] = file[c]
      /\ file'[b].ilen = 0 => file'[b].frames = {}
      /\ \A c \in stores \union indexes : Extends(c)
  BY <1>0, RollLeft
<1>2. g.ilen = MaxIndexBytes /\ ~isMaxed(active.isize)
  BY <1>0, ActiveAppended
<1>3. FaultTypeOK'
  BY <1>0, <1>1, KilledTypes DEF FaultInv, FaultTypeOK
<1>4. SegmentsOK'
  BY <1>0, <1>1 DEF SegmentsOK
<1>5. FreshOK'
  <2>1. SUFFICES ASSUME NEW c \in Offset, c >= activeSegment, file'[c].ilen = 0
                 PROVE  file'[c].frames = {}
    BY <1>0 DEF FreshOK
  <2>2. c # a
    BY <1>1, <1>2, <2>1 DEF entWidth
  <2>3. CASE c = b
    BY <1>1, <2>1, <2>3
  <2>4. CASE c # b
    <3>1. file'[c] = file[c]
      BY <1>1, <2>2, <2>4
    <3>2. QED
      BY <2>1, <3>1 DEF FaultInv, FreshOK
  <2>5. QED
    BY <2>3, <2>4
<1>6. DirectoryOK'
  BY <1>0, <1>1, OpenLog DEF DirectoryOK
<1>7. ASSUME PairsOK, AckedBelow PROVE PairsOK' /\ AckedBelow'
  <2>1. stores = segments /\ stores = indexes
    BY <1>0, <1>7 DEF PairsOK
  <2>2. \A c \in stores \ {a} : c \in Offset \ {a, b}
    BY <1>1, <2>1 DEF FaultInv, FaultTypeOK
  <2>3. /\ \A c, d \in stores \union {b} : c < d => \A j \in Slot : c + file'[c].slot[j].off < d
        /\ b \notin stores /\ \A c \in stores : c <= a
    <3>1. \A c \in stores \ {a} : file'[c] = file[c]
      BY <1>1, <2>2
    <3>2. QED
      BY <1>0, <1>1, <1>7, <3>1, RollSlots
  <2>4. stores \subseteq Nat /\ a \in Nat /\ b \in Nat
    BY <1>1, NaturalOffsets DEF FaultInv, FaultTypeOK
  <2>5. PairsOK'
    <3>1. indexes' \subseteq stores'
      BY <1>1, <2>1
    <3>2. \A h \in stores' \ indexes', c \in stores' : c < h => c \in indexes'
      <4>1. SUFFICES ASSUME NEW h \in stores' \ indexes', NEW c \in stores', c < h
                     PROVE  c \in indexes'
        OBVIOUS
      <4>2. h = b
        BY <1>1, <2>1, <4>1
      <4>3. c # b
        BY <2>4, <4>1, <4>2
      <4>4. QED
        BY <1>1, <2>1, <4>1, <4>3
    <3>3. \A c, d \in stores' : c < d => \A j \in Slot : c + file'[c].slot[j].off < d
      BY <1>1, <2>3
    <3>4. QED
      BY <1>0, <3>1, <3>2, <3>3 DEF PairsOK
  <2>6. AckedBelow'
    <3>1. \A c \in stores' : c > a => c = b
      BY <1>1, <2>3, <2>4
    <3>2. isMaxed(file'[a].ilen)
      BY <1>1, <1>2, MappedIsFull
    <3>3. SUFFICES ASSUME NEW p \in DOMAIN acked PROVE p < b
      BY <1>0, <3>1, <3>2 DEF AckedBelow
    <3>4. p < o /\ p \in Nat
      BY <1>0, <1>2, <1>7, NaturalOffsets DEF AckedBelow, FaultInv, FaultTypeOK
    <3>5. QED
      BY <3>4
  <2>7. QED
    BY <2>5, <2>6
<1>8. faults'.failures = faults.failures
  BY <1>0, KillsOnly
<1>9. QED
  BY <1>1, <1>3, <1>4, <1>5, <1>6, <1>7, <1>8 DEF FaultInv

LEMMA AppendRollFailsFault ==
  ASSUME FaultInv, NEW v \in Value, NEW stage \in RollStage, AppendRollFails(v, stage)
  PROVE  /\ FaultInv' /\ stores \subseteq stores' /\ indexes \subseteq indexes'
         /\ \A c \in stores \union indexes : Extends(c)
<1>0. /\ proc = "open" /\ active.nextOffset < MaxOffset /\ SegmentAppendErr(active) = "nil"
      /\ RollLeaves(v, stage) /\ Failure /\ UNCHANGED <<segments, activeSegment, proc, acked>>
      /\ mem' = [mem EXCEPT ![activeSegment] = AppendedMem(v)]
  BY DEF AppendRollFails
<1> PICK a \in Offset : a = activeSegment
  BY <1>0, OpenLog
<1> PICK o \in Nat : o = active.nextOffset
  BY <1>0, NewBase
<1> PICK g : g = AppendedFile(v)
  OBVIOUS
<1> PICK n : n = AppendedMem(v)
  OBVIOUS
<1> PICK b : b = o + 1
  OBVIOUS
<1>1. /\ b \in Offset /\ b > a /\ b \notin segments /\ b # a
      /\ stores \subseteq stores' /\ stores' \subseteq stores \union {b}
      /\ indexes \subseteq indexes' /\ indexes' \subseteq indexes \union {b}
      /\ file' \in [Offset -> FileType] /\ \A c \in Offset : FileOK(file'[c])
      /\ file'[a] = g /\ \A c \in Offset \ {a, b} : file'[c] = file[c]
      /\ file'[b].ilen = 0 => file'[b].frames = {}
      /\ \A c \in stores \union indexes : Extends(c)
  BY <1>0, RollLeft
<1>2. g.ilen = MaxIndexBytes /\ n \in FaultObject /\ ObjectOK(a, g, n) /\ n.isize # 0
  BY <1>0, ActiveAppended
<1>3. mem'[a] = n /\ \A c \in Offset \ {a} : mem'[c] = mem[c]
  BY <1>0 DEF FaultInv, FaultTypeOK
<1>4. faults' \in [kills : Nat, failures : Nat] /\ faults'.failures # 0
  <2> PICK k \in Nat : k = faults.failures
    BY DEF FaultInv, FaultTypeOK
  <2>1. faults' = [faults EXCEPT !.failures = k + 1]
    BY <1>0 DEF Failure
  <2>2. k + 1 \in Nat /\ k + 1 # 0
    OBVIOUS
  <2>3. QED
    BY <2>1, <2>2 DEF FaultInv, FaultTypeOK
<1>5. FaultTypeOK'
  BY <1>0, <1>1, <1>2, <1>4 DEF FaultInv, FaultTypeOK
<1>6. SegmentsOK'
  <2>1. \A c \in segments \ {a} : c \in Offset \ {a, b} /\ ObjectOK(c, file[c], mem[c])
    BY <1>0, <1>1, OpenLog
  <2>2. \A c \in segments : ObjectOK(c, file'[c], mem'[c])
    <3>1. SUFFICES ASSUME NEW c \in segments PROVE ObjectOK(c, file'[c], mem'[c])
      OBVIOUS
    <3>2. CASE c = a
      <4>1. file'[a] = g /\ mem'[a] = n
        BY <1>1, <1>3, Zenon
      <4>2. QED
        BY <1>2, <3>2, <4>1, Zenon
    <3>3. CASE c # a
      <4>1. c \in Offset \ {a, b} /\ c \in Offset \ {a} /\ ObjectOK(c, file[c], mem[c])
        BY <2>1, <3>3
      <4>2. file'[c] = file[c] /\ mem'[c] = mem[c]
        BY <1>1, <1>3, <4>1, Zenon
      <4>3. QED
        BY <4>1, <4>2, Zenon
    <3>4. QED
      BY <3>2, <3>3, Zenon
  <2>3. QED
    BY <1>0, <1>1, <2>2 DEF SegmentsOK
<1>7. FreshOK'
  <2>1. SUFFICES ASSUME NEW c \in Offset, c >= activeSegment
                 PROVE  /\ file'[c].ilen = 0 => file'[c].frames = {}
                        /\ c \in segments /\ mem'[c].isize = 0 => Frames(c)' = {}
    BY <1>0 DEF FreshOK
  <2>2. CASE c = a
    <3>1. file'[c].ilen # 0 /\ mem'[c].isize # 0
      BY <1>1, <1>2, <1>3, <2>2 DEF entWidth
    <3>2. QED
      BY <3>1
  <2>3. CASE c = b
    BY <1>1, <2>3
  <2>4. CASE c # a /\ c # b
    <3>1. file'[c] = file[c] /\ mem'[c] = mem[c]
      BY <1>1, <1>3, <2>4
    <3>2. QED
      BY <1>0, <2>1, <3>1 DEF FaultInv, FreshOK, Frames
  <2>5. QED
    BY <2>2, <2>3, <2>4
<1>8. DirectoryOK'
  <2>1. segments \subseteq stores \intersect indexes
    BY <1>0 DEF FaultInv, DirectoryOK
  <2>2. QED
    BY <1>0, <1>1, <2>1, OpenLog DEF DirectoryOK
<1>9. QED
  BY <1>1, <1>4, <1>5, <1>6, <1>7, <1>8 DEF FaultInv

-----------------------------------------------------------------------------
(* Truncate, whole or in part *)

\* Raft never asks for the last record, so the active segment stays.
LEMMA ActiveStays ==
  ASSUME FaultInv, proc = "open", NEW lowest \in Offset, Compacts(lowest)
  PROVE  /\ Removable(lowest) \subseteq segments /\ activeSegment \notin Removable(lowest)
         /\ \A b \in Removable(lowest) : b \in Offset /\ b < activeSegment
<1>1. Removable(lowest) \subseteq segments /\ activeSegment \notin Removable(lowest)
  <2>1. active.nextOffset \in Nat /\ lowest \in Nat
    BY OpenLog, NaturalOffsets DEF FaultObject
  <2>2. ~(active.nextOffset <= lowest + 1)
    BY <2>1 DEF Compacts
  <2>3. QED
    BY <2>2 DEF Removable, active
<1>2. ASSUME NEW b \in Removable(lowest) PROVE b \in Offset /\ b < activeSegment
  <2>1. b \in Offset /\ activeSegment \in Offset /\ b <= activeSegment /\ b # activeSegment
    BY <1>1, OpenLog
  <2>2. b \in Nat /\ activeSegment \in Nat
    BY <2>1, NaturalOffsets
  <2>3. QED
    BY <2>1, <2>2
<1>3. QED
  BY <1>1, <1>2

LEMMA TruncateFault ==
  ASSUME FaultInv, NEW lowest \in Offset, AckedTruncate(lowest)
  PROVE  FaultInv'
<1> PICK gone : gone = Removable(lowest)
  OBVIOUS
<1>0. /\ proc = "open" /\ proc' = "open" /\ Compacts(lowest)
      /\ stores' = stores \ gone /\ indexes' = indexes \ gone /\ segments' = segments \ gone
      /\ file' = [b \in Offset |-> IF b \in gone THEN EmptyFile ELSE file[b]]
      /\ mem' = [b \in Offset |-> IF b \in gone THEN CloseMem(mem[b]) ELSE mem[b]]
      /\ UNCHANGED <<activeSegment, faults>>
  BY DEF AckedTruncate, Truncate, TruncateTo
<1>1. /\ gone \subseteq segments /\ activeSegment \notin gone
      /\ \A b \in gone : b \in Offset /\ b < activeSegment
  BY <1>0, ActiveStays
<1>2. DOMAIN acked' \subseteq DOMAIN acked
  BY DEF AckedTruncate, Unasked
<1>3. \A b \in Offset \ gone : file'[b] = file[b] /\ mem'[b] = mem[b]
  BY <1>0
<1>4. \A b \in gone : file'[b] = EmptyFile
  BY <1>0, <1>1
<1>5. FaultTypeOK'
  <2>1. ASSUME NEW b \in gone PROVE CloseMem(mem[b]) \in FaultObject
    <3>1. /\ b \in Offset /\ file[b] \in FileType /\ mem[b] \in FaultObject
          /\ FileOK(file[b]) /\ ObjectOK(b, file[b], mem[b])
      BY <1>0, <1>1, OpenLog
    <3>2. QED
      BY <3>1, ClosedOK
  <2>2. file' \in [Offset -> FileType]
    BY <1>0, EmptyOK, OpenLog
  <2>3. mem' \in [Offset -> FaultObject]
    BY <1>0, <2>1, OpenLog
  <2>4. QED
    BY <1>0, <1>2, <2>2, <2>3 DEF FaultInv, FaultTypeOK
<1>6. SegmentsOK'
  <2>1. \A b \in Offset : FileOK(file'[b])
    BY <1>0, <1>3, <1>4, EmptyOK, OpenLog
  <2>2. \A b \in segments \ gone : ObjectOK(b, file'[b], mem'[b])
    BY <1>0, <1>3, OpenLog
  <2>3. QED
    BY <1>0, <2>1, <2>2 DEF SegmentsOK
<1>7. FreshOK'
  <2>1. SUFFICES ASSUME NEW b \in Offset, b >= activeSegment
                 PROVE  /\ file'[b].ilen = 0 => file'[b].frames = {}
                        /\ b \in segments \ gone /\ mem'[b].isize = 0 => Frames(b)' = {}
    BY <1>0 DEF FreshOK
  <2>2. b \notin gone
    <3>1. b \in Nat /\ activeSegment \in Nat
      BY <1>0, OpenLog, NaturalOffsets
    <3>2. QED
      BY <1>1, <2>1, <3>1
  <2>3. file'[b] = file[b] /\ mem'[b] = mem[b]
    BY <1>3, <2>2
  <2>4. QED
    BY <1>0, <2>1, <2>3 DEF FaultInv, FreshOK, Frames
<1>8. DirectoryOK'
  BY <1>0, <1>1 DEF FaultInv, DirectoryOK
<1>9. PairsOK => PairsOK'
  <2> SUFFICES ASSUME PairsOK PROVE PairsOK'
    OBVIOUS
  <2>1. stores = indexes /\ segments = stores
    BY <1>0 DEF PairsOK
  <2>2. \A b \in stores \ gone : file'[b] = file[b] /\ mem'[b] = mem[b]
    BY <1>3 DEF FaultInv, FaultTypeOK
  <2>3. \A b, c \in stores \ gone : b < c => \A j \in Slot : b + file'[b].slot[j].off < c
    BY <2>2 DEF PairsOK
  <2>4. \A b, c \in segments \ gone : b < c => mem'[b].nextOffset <= c
    BY <1>0, <2>1, <2>2 DEF PairsOK
  <2>5. \A b \in stores \ gone : b <= activeSegment
    BY <1>0 DEF PairsOK
  <2>6. QED
    BY <1>0, <2>1, <2>3, <2>4, <2>5 DEF PairsOK
<1>10. AckedBelow => AckedBelow'
  <2>1. mem'[activeSegment] = mem[activeSegment]
    BY <1>0, <1>1, <1>3, OpenLog
  <2>2. QED
    BY <1>0, <1>2, <2>1 DEF AckedBelow, active
<1>11. QED
  BY <1>0, <1>5, <1>6, <1>7, <1>8, <1>9, <1>10 DEF FaultInv

\* A kill in the middle of Truncate: the half segment it leaves is the lowest.
LEMMA CrashInTruncateFault ==
  ASSUME FaultInv, NEW lowest \in Offset, NEW at \in Offset, CrashInTruncate(lowest, at)
  PROVE  FaultInv'
<1> PICK before : before = {b \in Removable(lowest) : b < at}
  OBVIOUS
<1> PICK closed : closed = FlushedFile(file[at], mem[at])
  OBVIOUS
<1> PICK half : half = [EmptyFile EXCEPT !.frames = closed.frames, !.len = closed.len]
  OBVIOUS
<1>0. /\ proc = "open" /\ proc' = "crashed" /\ Compacts(lowest) /\ at \in Removable(lowest)
      /\ stores' = stores \ before /\ indexes' = indexes \ (before \union {at})
      /\ file' = [b \in Offset |-> IF b \in before THEN EmptyFile
                                   ELSE IF b = at THEN half ELSE file[b]]
      /\ mem' = [b \in Offset |-> NoSegment] /\ segments' = {}
      /\ UNCHANGED activeSegment /\ Fault
  BY DEF CrashInTruncate
<1>1. /\ Removable(lowest) \subseteq segments /\ activeSegment \notin Removable(lowest)
      /\ \A b \in Removable(lowest) : b \in Offset /\ b < activeSegment
  BY <1>0, ActiveStays
<1>2. DOMAIN acked' \subseteq DOMAIN acked
  BY DEF CrashInTruncate, Unasked
<1>3. half \in FileType /\ FileOK(half) /\ half.slot = EmptyFile.slot
  <2>1. /\ file[at] \in FileType /\ mem[at] \in FaultObject
        /\ FileOK(file[at]) /\ ObjectOK(at, file[at], mem[at])
    BY <1>0, <1>1, OpenLog
  <2>2. closed \in FileType /\ FileOK(closed)
    BY <2>1, FlushedOK
  <2>3. /\ half \in FileType /\ half.frames = closed.frames /\ half.len = closed.len
        /\ half.slot = EmptyFile.slot /\ half.ilen = EmptyFile.ilen
    BY <2>2, EmptyOK DEF FileType
  <2>4. half.ilen = MaxIndexBytes \/ \E k \in 0 .. Slots : Counts(half, half.ilen, k)
    BY <2>3, EmptyOK DEF FileOK, Counts
  <2>5. QED
    BY <2>2, <2>3, <2>4 DEF FileOK
<1>4. \A b \in Offset : b \notin Removable(lowest) => file'[b] = file[b]
  BY <1>0
<1>5. FaultTypeOK'
  <2>1. file' \in [Offset -> FileType]
    BY <1>0, <1>3, EmptyOK, OpenLog
  <2>2. stores' \subseteq Offset /\ indexes' \subseteq Offset
    BY <1>0 DEF FaultInv, FaultTypeOK
  <2>3. QED
    BY <1>0, <1>2, <2>1, <2>2, KilledTypes
<1>6. SegmentsOK'
  BY <1>0, <1>3, EmptyOK, OpenLog DEF SegmentsOK
<1>7. FreshOK'
  <2>1. SUFFICES ASSUME NEW b \in Offset, b >= activeSegment, file'[b].ilen = 0
                 PROVE  file'[b].frames = {}
    BY <1>0 DEF FreshOK
  <2>2. b \notin Removable(lowest)
    BY <1>0, <1>1, <2>1, OpenLog, NaturalOffsets
  <2>3. QED
    BY <1>4, <2>1, <2>2 DEF FaultInv, FreshOK
<1>8. DirectoryOK'
  BY <1>0, <1>1, OpenLog DEF DirectoryOK
<1>9. PairsOK => PairsOK'
  <2> SUFFICES ASSUME PairsOK PROVE PairsOK'
    OBVIOUS
  <2>1. stores = indexes /\ segments = stores /\ at \in stores
    BY <1>0, <1>1 DEF PairsOK
  <2>2. ASSUME NEW c \in stores, c < at PROVE c \in before
    <3>1. mem[c].nextOffset <= at
      BY <1>0, <2>1, <2>2 DEF PairsOK
    <3>2. at <= mem[at].nextOffset /\ mem[at].nextOffset <= lowest + 1
      BY <1>0, <1>1, OpenLog DEF ObjectOK, Removable
    <3>3. mem[c].nextOffset \in Nat /\ mem[at].nextOffset \in Nat /\ at \in Nat /\ lowest \in Nat
      BY <1>0, <2>1, OpenLog, NaturalOffsets DEF FaultObject
    <3>4. mem[c].nextOffset <= lowest + 1
      BY <3>1, <3>2, <3>3
    <3>5. QED
      BY <2>1, <2>2, <3>4 DEF Removable
  <2>3. indexes' \subseteq stores'
    BY <1>0, <2>1
  <2>4. \A h \in stores' \ indexes', c \in stores' : c < h => c \in indexes'
    BY <1>0, <2>1, <2>2
  <2>5. ASSUME NEW b \in stores', NEW c \in stores', b < c, NEW j \in Slot
        PROVE  b + file'[b].slot[j].off < c
    <3>1. b \in stores /\ b \notin before /\ c \in stores /\ b \in Offset
      BY <1>0, <2>5 DEF FaultInv, FaultTypeOK
    <3>2. CASE b = at
      <4>1. file'[b] = half
        BY <1>0, <3>1, <3>2
      <4>2. file'[b].slot[j].off = 0
        BY <1>3, <4>1 DEF EmptyFile, ZeroEntry
      <4>3. b \in Nat
        BY <3>1, NaturalOffsets
      <4>4. QED
        BY <2>5, <4>2, <4>3
    <3>3. CASE b # at
      <4>1. file'[b] = file[b]
        BY <1>0, <3>1, <3>3
      <4>2. QED
        BY <2>5, <3>1, <4>1 DEF PairsOK
    <3>4. QED
      BY <3>2, <3>3
  <2>6. QED
    BY <1>0, <2>3, <2>4, <2>5 DEF PairsOK
<1>10. PairsOK => AckedBelow'
  <2> SUFFICES ASSUME PairsOK PROVE AckedBelow'
    OBVIOUS
  <2>1. \A b \in stores' : ~(b > activeSegment)
    <3>1. \A b \in stores' : b <= activeSegment
      BY <1>0 DEF PairsOK
    <3>2. stores' \subseteq Nat /\ activeSegment \in Nat
      BY <1>0, NaturalOffsets DEF FaultInv, FaultTypeOK
    <3>3. QED
      BY <3>1, <3>2
  <2>2. file'[activeSegment].ilen = MaxIndexBytes
    BY <1>0, <1>1, <1>4, OpenLog DEF ObjectOK
  <2>3. QED
    BY <1>0, <2>1, <2>2, MappedIsFull DEF AckedBelow
<1>11. faults'.failures = faults.failures
  BY <1>0, KillsOnly
<1>12. QED
  BY <1>5, <1>6, <1>7, <1>8, <1>9, <1>10, <1>11 DEF FaultInv

-----------------------------------------------------------------------------
(* Every step *)

\* A step that takes no file, no frame and no entry away.
Grows ==
  /\ stores \subseteq stores' /\ indexes \subseteq indexes'
  /\ \A b \in stores \union indexes : Extends(b)

LEMMA AppendFault ==
  ASSUME FaultInv, NEW v \in Value, AckedAppend(v)
  PROVE  FaultInv' /\ Grows
<1>1. CASE SegmentAppendErr(active) = "nil" /\ IsMaxed(AppendedMem(v))
  <2>1. AppendAndRoll(v)
    BY <1>1 DEF AckedAppend, Append
  <2>2. QED
    BY <1>1, <2>1, AppendAndRollFault DEF Grows
<1>2. CASE ~(SegmentAppendErr(active) = "nil" /\ IsMaxed(AppendedMem(v)))
  <2>1. AppendOnly(v)
    BY <1>2 DEF AckedAppend, Append
  <2>2. FaultInv' /\ \A c \in Offset : Extends(c)
    BY <2>1, AppendOnlyFault
  <2>3. stores \subseteq Offset /\ indexes \subseteq Offset
    BY DEF FaultInv, FaultTypeOK
  <2>4. QED
    BY <2>1, <2>2, <2>3 DEF Grows, AppendOnly
<1>3. QED
  BY <1>1, <1>2

\* One step of the log preserves the invariant, and only Truncate takes away.
LEMMA FaultStep ==
  ASSUME FaultInv, [FaultNext]_faultVars
  PROVE  FaultInv' /\ (Grows \/ TruncateStep)
<1>0. stores \subseteq Offset /\ indexes \subseteq Offset
  BY DEF FaultInv, FaultTypeOK
<1>1. CASE NewLog /\ UNCHANGED <<acked, faults>>
  BY <1>0, <1>1, NewLogFault DEF Grows
<1>2. ASSUME NEW v \in Value, AckedAppend(v)
      PROVE  FaultInv' /\ Grows
  BY <1>2, AppendFault
<1>3. ASSUME NEW off \in Offset, Read(off), UNCHANGED <<acked, faults>>
      PROVE  FaultInv' /\ Grows
  <2>1. FaultInv' /\ \A c \in Offset : Extends(c)
    BY <1>3, ReadFault
  <2>2. QED
    BY <1>0, <1>3, <2>1 DEF Grows, Read
<1>4. ASSUME NEW b \in Offset, ReadAt(b), UNCHANGED <<acked, faults>>
      PROVE  FaultInv' /\ Grows
  <2>1. FaultInv' /\ \A c \in Offset : Extends(c)
    BY <1>4, ReadAtFault
  <2>2. QED
    BY <1>0, <1>4, <2>1 DEF Grows, ReadAt
<1>5. ASSUME NEW lowest \in Offset, AckedTruncate(lowest)
      PROVE  FaultInv' /\ TruncateStep
  BY <1>5, TruncateFault DEF TruncateStep
<1>6. CASE Close /\ UNCHANGED <<acked, faults>>
  <2>1. FaultInv' /\ \A c \in Offset : Extends(c)
    BY <1>6, CloseFault
  <2>2. QED
    BY <1>0, <1>6, <2>1 DEF Grows, Close
<1>7. CASE Crash
  <2>1. FaultInv' /\ \A c \in Offset : Extends(c)
    BY <1>7, CrashFault
  <2>2. QED
    BY <1>0, <1>7, <2>1 DEF Grows, Crash
<1>8. ASSUME NEW v \in Value, NEW stage \in RollStage, CrashInAppend(v, stage)
      PROVE  FaultInv' /\ Grows
  BY <1>8, CrashInAppendFault DEF Grows
<1>9. ASSUME NEW v \in Value, NEW stage \in RollStage, AppendRollFails(v, stage)
      PROVE  FaultInv' /\ Grows
  BY <1>9, AppendRollFailsFault DEF Grows
<1>10. ASSUME NEW lowest \in Offset, NEW at \in Offset, CrashInTruncate(lowest, at)
       PROVE  FaultInv' /\ TruncateStep
  BY <1>10, CrashInTruncateFault DEF TruncateStep
<1>11. ASSUME NEW at \in Offset, NEW flushed \in BOOLEAN, CrashInClose(at, flushed)
       PROVE  FaultInv' /\ Grows
  <2>1. FaultInv' /\ \A c \in Offset : Extends(c)
    BY <1>11, CrashInCloseFault
  <2>2. QED
    BY <1>0, <1>11, <2>1 DEF Grows, CrashInClose
<1>12. ASSUME NEW at \in Offset, NEW stage \in RollStage \ {"none"}, CrashInNewLog(at, stage)
       PROVE  FaultInv' /\ Grows
  BY <1>0, <1>12, CrashInNewLogFault DEF Grows
<1>13. CASE UNCHANGED faultVars
  <2>1. UNCHANGED <<stores, indexes, file, mem, segments, activeSegment, proc, acked, faults>>
    BY <1>13 DEF faultVars, vars
  <2>2. FaultInv'
    BY <2>1, SameInv
  <2>3. Grows
    BY <2>1 DEF Grows, Extends
  <2>4. QED
    BY <2>2, <2>3
<1>14. CASE Unfaulted
  BY <1>1, <1>2, <1>3, <1>4, <1>5, <1>6, <1>14 DEF Unfaulted
<1>15. QED
  BY <1>7, <1>8, <1>9, <1>10, <1>11, <1>12, <1>13, <1>14 DEF FaultNext

\* Whatever kills and failed rolls leave behind, the files and the objects that
\* are opened on them stay in order: frames where the store ends, entries that an
\* index counts or a full index, the active segment with both of its files.
THEOREM FaultInvariant == FaultSpec => []FaultInv
<1>1. FaultInit => FaultInv
  BY FaultInitInv
<1>2. FaultInv /\ [FaultNext]_faultVars => FaultInv'
  BY FaultStep
<1>3. QED
  BY <1>1, <1>2, PTL DEF FaultSpec

\* As long as the process was only killed, in a call or between two, the offset
\* that the next successful Append will return was not returned before.
THEOREM OffsetsAreUnique == FaultSpec => []AckedOffsetsUnique
<1>1. FaultInv => AckedOffsetsUnique
  <2>1. SUFFICES ASSUME FaultInv, faults.failures = 0, proc = "open",
                        SegmentAppendErr(active) = "nil",
                        active.nextOffset \in DOMAIN acked
                 PROVE  FALSE
    BY DEF AckedOffsetsUnique
  <2>2. ~isMaxed(active.isize)
    BY <2>1 DEF SegmentAppendErr
  <2>3. active.nextOffset < active.nextOffset
    BY <2>1, <2>2 DEF FaultInv, AckedBelow
  <2>4. active.nextOffset \in Nat
    BY <2>1, OpenLog DEF FaultObject
  <2>5. QED
    BY <2>3, <2>4
<1>2. QED
  BY <1>1, FaultInvariant, PTL

\* An Append that is acknowledged has its entry in the index.
LEMMA AckedHasEntry ==
  ASSUME FaultInv, NEW v \in Value, AckedAppend(v), NEW p \in DOMAIN acked', p \notin DOMAIN acked
  PROVE  HasEntry(p)'
<1>1. /\ proc = "open" /\ active.nextOffset < MaxOffset
      /\ SegmentAppendErr(active) = "nil" /\ p = active.nextOffset
  BY Acknowledged
<1> PICK a \in Offset : a = activeSegment
  BY <1>1, OpenLog
<1> PICK o \in Nat : o = active.nextOffset
  BY <1>1, NewBase
<1> PICK g : g = AppendedFile(v)
  OBVIOUS
<1> PICK n : n = AppendedMem(v)
  OBVIOUS
<1>2. o - a \in Slot /\ g.slot[o - a].off = o - a
  BY <1>1, ActiveAppended
<1>3. active.nextOffset + 1 \in Offset /\ active.nextOffset + 1 # a
  BY <1>1, NewBase
<1>4. file'[a] = g
  <2>1. file \in [Offset -> FileType]
    BY DEF FaultInv, FaultTypeOK
  <2>2. CASE AppendAndRoll(v)
    BY <1>3, <2>1, <2>2 DEF AppendAndRoll
  <2>3. CASE AppendOnly(v)
    BY <2>1, <2>3 DEF AppendOnly
  <2>4. QED
    BY <2>2, <2>3 DEF AckedAppend, Append
<1>5. a \in indexes'
  BY <1>1, AppendFault, OpenLog DEF Grows
<1>6. QED
  BY <1>1, <1>2, <1>4, <1>5 DEF HasEntry

\* Only Append acknowledges.
LEMMA OnlyAppendAcks ==
  ASSUME [FaultNext]_faultVars
  PROVE  DOMAIN acked' \subseteq DOMAIN acked \/ \E v \in Value : AckedAppend(v)
<1>1. CASE Unfaulted
  BY <1>1 DEF Unfaulted, AckedTruncate, Unasked
<1>2. CASE Crash
  BY <1>2 DEF Crash, Killed
<1>3. ASSUME NEW v \in Value, NEW stage \in RollStage, CrashInAppend(v, stage)
      PROVE  acked' = acked
  BY <1>3 DEF CrashInAppend, Killed
<1>4. ASSUME NEW v \in Value, NEW stage \in RollStage, AppendRollFails(v, stage)
      PROVE  acked' = acked
  BY <1>4 DEF AppendRollFails
<1>5. ASSUME NEW lowest \in Offset, NEW at \in Offset, CrashInTruncate(lowest, at)
      PROVE  DOMAIN acked' \subseteq DOMAIN acked
  BY <1>5 DEF CrashInTruncate, Unasked
<1>6. ASSUME NEW at \in Offset, NEW flushed \in BOOLEAN, CrashInClose(at, flushed)
      PROVE  acked' = acked
  BY <1>6 DEF CrashInClose, Killed
<1>7. ASSUME NEW at \in Offset, NEW stage \in RollStage \ {"none"}, CrashInNewLog(at, stage)
      PROVE  acked' = acked
  BY <1>7 DEF CrashInNewLog, Killed
<1>8. CASE UNCHANGED faultVars
  BY <1>8 DEF faultVars
<1>9. QED
  BY <1>1, <1>2, <1>3, <1>4, <1>5, <1>6, <1>7, <1>8 DEF FaultNext

\* The index entry of a record is there when its Append is acknowledged, and no
\* kill, failed roll, reopening or later Append takes it away or writes over it.
THEOREM EntriesSurvive == FaultSpec => AckedEntriesSurvive
<1>1. ASSUME FaultInv, [FaultNext]_faultVars, NEW o \in DOMAIN acked'
      PROVE  HasEntry(o)' \/ (o \in DOMAIN acked /\ ~HasEntry(o)) \/ TruncateStep
  <2>1. Grows \/ TruncateStep
    BY <1>1, FaultStep
  <2>2. CASE o \notin DOMAIN acked
    BY <1>1, <2>2, OnlyAppendAcks, AckedHasEntry
  <2>3. ASSUME Grows, HasEntry(o) PROVE HasEntry(o)'
    <3>1. PICK b \in indexes : o - b \in Slot /\ file[b].slot[o - b].off = o - b
      BY <2>3 DEF HasEntry
    <3>2. b \in indexes' /\ Extends(b)
      BY <2>3 DEF Grows
    <3>3. file'[b].slot[o - b].off = o - b
      BY <3>1, <3>2 DEF Extends
    <3>4. QED
      BY <3>1, <3>2, <3>3 DEF HasEntry
  <2>4. QED
    BY <2>1, <2>2, <2>3
<1>2. ASSUME FaultInv, [FaultNext]_faultVars
      PROVE  [\A o \in DOMAIN acked' :
                \/ HasEntry(o)'
                \/ o \in DOMAIN acked /\ ~HasEntry(o)
                \/ TruncateStep]_faultVars
  BY <1>1, <1>2
<1>3. QED
  BY <1>2, FaultInvariant, PTL DEF FaultSpec, AckedEntriesSurvive

\* A record that its index entry leads to in the store file is found there for as
\* long as no Truncate is asked for it, whatever is killed or fails.
THEOREM DurableStays == FaultSpec => DurableRecordsStay
<1>1. ASSUME FaultInv, [FaultNext]_faultVars, NEW o, NEW v, Durable(o, v)
      PROVE  Durable(o, v)' \/ TruncateStep
  <2>1. FaultInv' /\ (Grows \/ TruncateStep)
    BY <1>1, FaultStep
  <2>2. SUFFICES ASSUME Grows PROVE Durable(o, v)'
    BY <2>1
  <2> PICK want : want = [err |-> "nil", rec |-> [value |-> v, offset |-> o]]
    OBVIOUS
  <2>3. PICK b \in stores \intersect indexes :
          /\ o - b \in Slot /\ file[b].slot[o - b].off = o - b
          /\ StoreRead(file[b], file[b].slot[o - b].pos) = want
    BY <1>1 DEF Durable
  <2> PICK k \in Slot : k = o - b
    BY <2>3
  <2> PICK pos : pos = file[b].slot[k].pos
    OBVIOUS
  <2>4. /\ b \in stores' /\ b \in indexes' /\ Extends(b) /\ b \in Offset
    BY <1>1, <2>2 DEF Grows, FaultInv, FaultTypeOK
  <2>5. PICK fr \in file[b].frames : fr.pos = pos
    <3>1. want.err = "nil" /\ StoreRead(file[b], pos) = want
      BY <2>3
    <3>2. \E fr \in file[b].frames : fr.pos = pos
      BY <3>1 DEF StoreRead
    <3>3. QED
      BY <3>2
  <2>6. file'[b].slot[k] = file[b].slot[k]
    <3>1. file[b].slot[k] = ZeroEntry => k = 0
      BY <2>3 DEF ZeroEntry
    <3>2. QED
      BY <2>4, <2>5, <3>1 DEF Extends
  <2>7. /\ \A x, y \in file[b].frames : x.pos = y.pos => x = y
        /\ \A x, y \in file'[b].frames : x.pos = y.pos => x = y
    BY <1>1, <2>1, <2>4 DEF FaultInv, SegmentsOK, FileOK
  <2>8. StoreRead(file[b], pos) = [err |-> "nil", rec |-> fr.rec]
    <3>1. (CHOOSE x \in file[b].frames : x.pos = pos) = fr
      BY <2>5, <2>7
    <3>2. QED
      BY <2>5, <3>1 DEF StoreRead
  <2>9. StoreRead(file'[b], pos) = [err |-> "nil", rec |-> fr.rec]
    <3>1. fr \in file'[b].frames
      BY <2>4, <2>5 DEF Extends
    <3>2. (CHOOSE x \in file'[b].frames : x.pos = pos) = fr
      BY <2>5, <2>7, <3>1
    <3>3. QED
      BY <2>5, <3>1, <3>2 DEF StoreRead
  <2>10. StoreRead(file'[b], file'[b].slot[k].pos) = want
    BY <2>3, <2>6, <2>8, <2>9
  <2>11. QED
    BY <2>3, <2>4, <2>6, <2>10 DEF Durable
<1>2. ASSUME FaultInv, [FaultNext]_faultVars
      PROVE  [\A o \in DOMAIN acked \intersect DOMAIN acked', v \in Value :
                v = acked[o] /\ Durable(o, v) => Durable(o, v)' \/ TruncateStep]_faultVars
  BY <1>1, <1>2
<1>3. QED
  BY <1>2, FaultInvariant, PTL DEF FaultSpec, DurableRecordsStay
=============================================================================
