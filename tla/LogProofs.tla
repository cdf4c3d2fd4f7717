------------------------------ MODULE LogProofs ------------------------------
(***************************************************************************)
(* Proofs about Log: Inv is an inductive invariant of Spec, for every set  *)
(* of values, every record size, every limit of a segment and every        *)
(* initial offset, and the safety properties follow from it.               *)
(***************************************************************************)
EXTENDS Log, WellFoundedInduction, TLAPS

USE SegmentAssumption, LogAssumption

-----------------------------------------------------------------------------
(* Sets of offsets *)

LEMMA SmallestExists ==
  ASSUME NEW S, S \subseteq Nat, S # {}
  PROVE  \E x \in S : \A y \in S : x <= y
<1> DEFINE R == OpToRel(<, Nat)
<1>1. IsWellFoundedOn(R, Nat)
  BY NatLessThanWellFounded, Zenon
<1> HIDE DEF R
<1>2. PICK x \in S : \A y \in S : ~ (<<y, x>> \in R)
  BY <1>1, WFMin, Zenon
<1>3. \A y \in S : ~ (y < x)
  BY <1>2 DEF R, OpToRel
<1>4. QED
  BY <1>3

LEMMA LargestExists ==
  ASSUME NEW S, S \subseteq Offset, S # {}
  PROVE  \E x \in S : \A y \in S : y <= x
<1> DEFINE T == {MaxOffset - x : x \in S}
<1>1. T \subseteq Nat
  BY DEF Offset
<1>2. T # {}
  <2>1. PICK x \in S : TRUE
    OBVIOUS
  <2>2. MaxOffset - x \in T
    BY <2>1
  <2>3. QED
    BY <2>2
<1>3. PICK t \in T : \A u \in T : t <= u
  BY <1>1, <1>2, SmallestExists
<1>4. PICK x \in S : t = MaxOffset - x
  BY <1>3
<1>5. \A y \in S : MaxOffset - x <= MaxOffset - y
  BY <1>3, <1>4
<1>6. QED
  BY <1>4, <1>5 DEF Offset

LEMMA MinIsSmallest ==
  ASSUME NEW S, S \subseteq Nat, S # {}
  PROVE  Min(S) \in S /\ \A y \in S : Min(S) <= y
<1>1. \E x \in S : \A y \in S : x <= y
  BY SmallestExists
<1>2. QED
  BY <1>1, Zenon DEF Min

-----------------------------------------------------------------------------
(* The operators of Segment *)

\* Reopening: the last of n index entries gives back the next offset.
LEMMA NextOffsetReopened ==
  ASSUME NEW b \in Offset, NEW f \in FileType, NEW n \in Nat,
         f.ilen = entWidth * n, f.ilen <= MaxIndexBytes,
         n > 0 => f.slot[n - 1].off = n - 1
  PROVE  nextOffsetOf(b, f) = b + n
<1>1. CASE n = 0
  BY <1>1 DEF nextOffsetOf, IndexRead, newIndexSize, entWidth, Offset
<1>2. CASE n > 0
  <2>1. f.ilen # 0 /\ f.ilen \div entWidth - 1 = n - 1
    BY <1>2 DEF entWidth, FileType
  <2>2. ~(f.ilen < (n - 1) * entWidth + entWidth)
    BY <1>2 DEF entWidth, FileType
  <2>3. IndexRead(f, f.ilen, -1) = [err |-> "nil", ent |-> f.slot[n - 1]]
    BY <2>1, <2>2 DEF IndexRead
  <2>4. QED
    BY <1>2, <2>3 DEF nextOffsetOf, newIndexSize, Offset
<1>3. QED
  BY <1>1, <1>2

\* An index that is not full has a free slot at its end.
LEMMA FreeSlot ==
  ASSUME NEW n \in Nat, ~isMaxed(entWidth * n)
  PROVE  /\ n \in Slot
         /\ (entWidth * n) \div entWidth = n
         /\ entWidth * n + entWidth = entWidth * (n + 1)
         /\ entWidth * (n + 1) <= MaxIndexBytes
BY DEF isMaxed, entWidth, Slot, Slots

\* A new segment is not full.
LEMMA NewSegmentHasRoom ==
  ASSUME NEW b \in Offset
  PROVE  /\ newSegment(b, EmptyFile) =
              [buf |-> {}, size |-> 0, isize |-> 0, nextOffset |-> b, open |-> TRUE]
         /\ ~IsMaxed(newSegment(b, EmptyFile))
<1>1. newSegment(b, EmptyFile) =
        [buf |-> {}, size |-> 0, isize |-> 0, nextOffset |-> b, open |-> TRUE]
  BY DEF newSegment, newStore, newIndexSize, nextOffsetOf, IndexRead, EmptyFile
<1>2. QED
  BY <1>1 DEF IsMaxed, isMaxed, entWidth

LEMMA EmptyFileType == EmptyFile \in FileType
<1>1. ZeroEntry \in Entry
  BY DEF ZeroEntry, Entry, Offset
<1>2. QED
  BY <1>1 DEF EmptyFile, FileType

LEMMA NoSegmentType == NoSegment \in ObjectType
BY DEF NoSegment, ObjectType, Offset

LEMMA NewIndexFileType ==
  ASSUME NEW f \in FileType
  PROVE  /\ newIndexFile(f) \in FileType
         /\ newIndexFile(f).frames = f.frames
         /\ newIndexFile(f).len = f.len
         /\ newIndexFile(f).slot = f.slot
         /\ newIndexFile(f).ilen = MaxIndexBytes
BY DEF newIndexFile, FileType

LEMMA FlushedType ==
  ASSUME NEW f \in FileType, NEW m \in ObjectType
  PROVE  /\ FlushedFile(f, m) \in FileType
         /\ FlushedFile(f, m).frames = f.frames \union m.buf
         /\ FlushedFile(f, m).len = m.size
         /\ FlushedFile(f, m).slot = f.slot
         /\ FlushedFile(f, m).ilen = f.ilen
         /\ FlushedMem(m) \in ObjectType
         /\ FlushedMem(m).buf = {}
         /\ FlushedMem(m).size = m.size
         /\ FlushedMem(m).isize = m.isize
         /\ FlushedMem(m).nextOffset = m.nextOffset
         /\ FlushedMem(m).open = m.open
BY DEF FlushedFile, FlushedMem, FileType, ObjectType

LEMMA CloseType ==
  ASSUME NEW f \in FileType, NEW m \in ObjectType
  PROVE  /\ CloseFile(f, m) \in FileType
         /\ CloseFile(f, m).frames = f.frames \union m.buf
         /\ CloseFile(f, m).len = m.size
         /\ CloseFile(f, m).slot = f.slot
         /\ CloseFile(f, m).ilen = m.isize
         /\ CloseMem(m) \in ObjectType
         /\ CloseMem(m).buf = {}
         /\ CloseMem(m).size = m.size
         /\ CloseMem(m).isize = m.isize
         /\ CloseMem(m).nextOffset = m.nextOffset
BY FlushedType DEF CloseFile, CloseMem, FlushedFile, FlushedMem, FileType, ObjectType

\* A successful append to a segment that has its index in step: one frame and
\* one entry more.
LEMMA AppendFileType ==
  ASSUME NEW b \in Offset, NEW f \in FileType, NEW m \in ObjectType,
         m.nextOffset >= b,
         m.isize = entWidth * (m.nextOffset - b), ~isMaxed(m.isize)
  PROVE  /\ SegmentAppendFile(b, f, m) \in FileType
         /\ SegmentAppendFile(b, f, m).frames = f.frames
         /\ SegmentAppendFile(b, f, m).ilen = f.ilen
         /\ SegmentAppendFile(b, f, m).slot =
              [f.slot EXCEPT ![m.nextOffset - b] =
                               [off |-> m.nextOffset - b, pos |-> m.size]]
         /\ m.nextOffset - b \in Slot
<1> DEFINE n == m.nextOffset - b
<1>1. n \in Nat /\ n \in Offset
  BY DEF ObjectType, Offset
<1>2. n \in Slot /\ m.isize \div entWidth = n
  BY <1>1, FreeSlot
<1>3. SegmentAppendFile(b, f, m) =
        [f EXCEPT !.slot[n] = [off |-> n, pos |-> m.size]]
  BY <1>2 DEF SegmentAppendFile
<1>4. [off |-> n, pos |-> m.size] \in Entry
  BY <1>1 DEF Entry, ObjectType
<1>5. QED
  BY <1>2, <1>3, <1>4 DEF FileType

LEMMA AppendMemType ==
  ASSUME NEW m \in ObjectType, NEW v \in Value,
         m.nextOffset < MaxOffset, ~isMaxed(m.isize)
  PROVE  /\ SegmentAppendMem(m, v) \in ObjectType
         /\ SegmentAppendMem(m, v).buf =
              m.buf \union {[pos |-> m.size, rec |-> NextRecord(m, v)]}
         /\ SegmentAppendMem(m, v).size = m.size + recordLenBytes + Width[v][m.nextOffset]
         /\ SegmentAppendMem(m, v).size > m.size
         /\ SegmentAppendMem(m, v).isize = m.isize + entWidth
         /\ SegmentAppendMem(m, v).nextOffset = m.nextOffset + 1
         /\ SegmentAppendMem(m, v).open = m.open
<1> DEFINE fr == [pos |-> m.size, rec |-> NextRecord(m, v)]
<1>1. fr \in Frame
  BY DEF Frame, NextRecord, Record, ObjectType
<1>2. Width[v][m.nextOffset] \in Nat
  BY DEF ObjectType
<1>3. SegmentAppendMem(m, v) =
        [m EXCEPT !.buf = @ \union {fr},
                  !.size = @ + recordLenBytes + Width[v][m.nextOffset],
                  !.isize = @ + entWidth, !.nextOffset = @ + 1]
  BY DEF SegmentAppendMem, StoreAppend, NextRecord, ObjectType
<1>4. /\ m.size + recordLenBytes + Width[v][m.nextOffset] \in Nat
      /\ m.size + recordLenBytes + Width[v][m.nextOffset] > m.size
      /\ m.isize + entWidth \in Nat
      /\ m.nextOffset + 1 \in Offset
  <2>1. m.size \in Nat /\ m.isize \in Nat /\ m.nextOffset \in Nat
    BY DEF ObjectType, Offset
  <2>2. m.nextOffset + 1 \in Offset
    BY <2>1, SMTT(30) DEF Offset
  <2>3. \A w \in Nat : m.size + recordLenBytes + w \in Nat /\ m.size + recordLenBytes + w > m.size
    BY <2>1 DEF recordLenBytes
  <2>4. m.isize + entWidth \in Nat
    BY <2>1 DEF entWidth
  <2>5. QED
    BY <1>2, <2>2, <2>3, <2>4
<1>5. m.buf \union {fr} \in SUBSET Frame
  BY <1>1 DEF ObjectType
<1>6. /\ SegmentAppendMem(m, v) \in ObjectType
      /\ SegmentAppendMem(m, v).buf = m.buf \union {fr}
      /\ SegmentAppendMem(m, v).size =
           m.size + recordLenBytes + Width[v][m.nextOffset]
      /\ SegmentAppendMem(m, v).isize = m.isize + entWidth
      /\ SegmentAppendMem(m, v).nextOffset = m.nextOffset + 1
      /\ SegmentAppendMem(m, v).open = m.open
  BY <1>3, <1>4, <1>5 DEF ObjectType
<1>7. QED
  BY <1>4, <1>6

-----------------------------------------------------------------------------
(* The steps *)

LEMMA InitInv == Init => Inv
BY EmptyFileType, NoSegmentType
   DEF Init, Inv, TypeOK, FilesAreSegments, AppendNeverFails, NoResponse

\* A segment whose frames, entries and range a step leaves alone.
LEMMA KeptOK ==
  ASSUME NEW b \in Offset, SegmentOK(b), Kept(b), ObjectMatchesFiles(b)'
  PROVE  SegmentOK(b)'
<1>1. \A fr \in Frames(b)' : FrameOK(b, fr)'
  BY DEF SegmentOK, FramesOK, FrameOK, FrameEnd, Kept
<1>2. FramesOK(b)'
  BY <1>1 DEF SegmentOK, FramesOK, FrameEnd, Kept
<1>3. \A j \in 0 .. mem'[b].nextOffset - b - 1 : EntryOK(b, j)'
  BY DEF SegmentOK, EntryOK, Kept
<1>4. QED
  BY <1>2, <1>3 DEF SegmentOK

\* A segment whose files and object a step leaves alone.
LEMMA Untouched ==
  ASSUME NEW b \in Offset, SegmentOK(b),
         file'[b] = file[b], mem'[b] = mem[b], proc' = proc
  PROVE  SegmentOK(b)'
<1>1. Kept(b)
  BY DEF Kept, Frames
<1>2. ObjectMatchesFiles(b)'
  BY DEF SegmentOK, ObjectMatchesFiles
<1>3. QED
  BY <1>1, <1>2, KeptOK

\* What the type invariant gives to arithmetic.
LEMMA Numbers ==
  ASSUME TypeOK
  PROVE  /\ segments \subseteq Offset /\ Offset \subseteq Nat
         /\ \A b \in Offset : /\ mem[b].nextOffset \in Nat
                              /\ mem[b].size \in Nat /\ mem[b].isize \in Nat
<1>1. Offset \subseteq Nat
  BY DEF Offset
<1>2. \A b \in Offset : mem[b] \in ObjectType
  BY DEF TypeOK
<1>3. \A b \in Offset : /\ mem[b].nextOffset \in Offset
                        /\ mem[b].size \in Nat /\ mem[b].isize \in Nat
  BY <1>2 DEF ObjectType
<1>4. QED
  BY <1>1, <1>3 DEF TypeOK

\* The slice of segments tells the largest base apart.
LEMMA ActiveIsMax ==
  ASSUME Inv, segments # {}
  PROVE  Max(segments) = activeSegment
<1>1. activeSegment \in segments /\ \A y \in segments : activeSegment >= y
  BY DEF Inv, ActiveOK, TypeOK, Offset
<1>2. Max(segments) \in segments /\ \A y \in segments : Max(segments) >= y
  BY <1>1, Zenon DEF Max
<1>3. segments \subseteq Nat
  BY Numbers DEF Inv
<1>4. \A x \in segments : (\A y \in segments : x >= y) => x = activeSegment
  BY <1>1, <1>3
<1>5. QED
  BY <1>2, <1>4, Zenon

\* The segments do not overlap: at most one of them holds an offset.
LEMMA HoldingIsOne ==
  ASSUME Inv, NEW off \in Offset, NEW b \in Holding(off)
  PROVE  Holding(off) = {b} /\ Max(Holding(off)) = b
<1>0. off \in Nat /\ \A c \in segments : c \in Nat /\ mem[c].nextOffset \in Nat
  BY Numbers DEF Inv
<1>1. \A c, d \in Holding(off) : ~(c < d)
  <2> SUFFICES ASSUME NEW c \in Holding(off), NEW d \in Holding(off), c < d
               PROVE  FALSE
    OBVIOUS
  <2>1. /\ c \in segments /\ d \in segments
        /\ off < mem[c].nextOffset /\ d <= off
    BY DEF Holding
  <2>2. c # activeSegment
    BY <2>1 DEF Inv, ActiveOK, TypeOK, Offset
  <2>3. mem[c].nextOffset <= d
    BY <2>1, <2>2 DEF Inv, SealedOK, TypeOK, Offset
  <2>4. QED
    BY <1>0, <2>1, <2>3
<1>2. Holding(off) = {b}
  <2>1. Holding(off) \subseteq Nat
    BY <1>0 DEF Holding
  <2>2. QED
    BY <1>1, <2>1
<1>3. b >= b
  BY DEF Holding, Inv, TypeOK, Offset
<1>4. Max({b}) = b
  BY <1>3, Zenon DEF Max
<1>5. QED
  BY <1>2, <1>4

\* A flush moves frames from the buffer to the file, and they stay the same.
LEMMA FlushKeeps ==
  ASSUME TypeOK, NEW b \in Offset, Flushed(b), NEW c \in Offset
  PROVE  Kept(c)
<1>1. file[b] \in FileType /\ mem[b] \in ObjectType
  BY DEF TypeOK
<1> DEFINE f == FlushedFile(file[b], mem[b])
           m == FlushedMem(mem[b])
<1>2. /\ f.frames = file[b].frames \union mem[b].buf /\ f.slot = file[b].slot
      /\ m.buf = {} /\ m.size = mem[b].size /\ m.nextOffset = mem[b].nextOffset
  BY <1>1, FlushedType
<1>3. /\ file' = [file EXCEPT ![b] = f] /\ mem' = [mem EXCEPT ![b] = m]
  BY DEF Flushed
<1> HIDE DEF f, m
<1>4. CASE c = b
  <2>1. file'[b] = f /\ mem'[b] = m
    BY <1>3 DEF TypeOK
  <2>2. QED
    BY <1>2, <1>4, <2>1 DEF Kept, Frames
<1>5. CASE c # b
  <2>1. file'[c] = file[c] /\ mem'[c] = mem[c]
    BY <1>3, <1>5 DEF TypeOK
  <2>2. QED
    BY <2>1 DEF Kept, Frames
<1>6. QED
  BY <1>4, <1>5

\* A flush moves frames from the buffer to the file and changes nothing else.
LEMMA FlushInv ==
  ASSUME Inv, proc = "open", NEW b \in segments, Flushed(b),
         UNCHANGED <<stores, indexes, segments, activeSegment, proc>>,
         AppendNeverFails'
  PROVE  Inv'
<1> USE DEF Inv
<1>1. b \in Offset /\ file[b] \in FileType /\ mem[b] \in ObjectType
  BY DEF TypeOK
<1> DEFINE f == FlushedFile(file[b], mem[b])
           m == FlushedMem(mem[b])
<1>2. /\ f \in FileType /\ f.frames = file[b].frames \union mem[b].buf
      /\ f.len = mem[b].size /\ f.slot = file[b].slot /\ f.ilen = file[b].ilen
      /\ m \in ObjectType /\ m.buf = {} /\ m.size = mem[b].size
      /\ m.isize = mem[b].isize /\ m.nextOffset = mem[b].nextOffset
      /\ m.open = mem[b].open
  BY <1>1, FlushedType
<1> HIDE DEF f, m
<1>3. /\ file' = [file EXCEPT ![b] = f]
      /\ mem' = [mem EXCEPT ![b] = m]
  BY DEF Flushed, f, m
<1>4. /\ file'[b] = f /\ mem'[b] = m
      /\ \A c \in Offset \ {b} : file'[c] = file[c] /\ mem'[c] = mem[c]
  BY <1>1, <1>3 DEF TypeOK
<1>5. TypeOK'
  BY <1>1, <1>2, <1>3 DEF TypeOK
<1>6. FilesAreSegments'
  BY <1>1, <1>4 DEF FilesAreSegments
<1>7. SegmentOK(b)'
  <2>1. Kept(b)
    BY <1>1, FlushKeeps
  <2>2. ObjectMatchesFiles(b)'
    BY <1>2, <1>4 DEF SegmentOK, ObjectMatchesFiles
  <2>3. QED
    BY <1>1, <2>1, <2>2, KeptOK
<1>8. \A c \in segments \ {b} : SegmentOK(c)'
  BY <1>4, Untouched DEF TypeOK
<1>9. \A c \in Offset : mem'[c].nextOffset = mem[c].nextOffset
  BY <1>2, <1>4
<1>10. \A c \in segments \ {activeSegment} : SealedOK(c)'
  BY <1>9 DEF SealedOK, TypeOK
<1>11. ActiveOK'
  <2>1. /\ mem'[activeSegment].size = mem[activeSegment].size
        /\ mem'[activeSegment].isize = mem[activeSegment].isize
    BY <1>2, <1>4 DEF TypeOK
  <2>2. QED
    BY <2>1 DEF ActiveOK, IsMaxed, active
<1>12. QED
  BY <1>5, <1>6, <1>7, <1>8, <1>10, <1>11

LEMMA ReadAtInv ==
  ASSUME Inv, NEW b \in Offset, ReadAt(b)
  PROVE  Inv'
<1>1. AppendNeverFails'
  BY DEF Inv, ReadAt, AppendNeverFails
<1>2. QED
  BY <1>1, FlushInv DEF ReadAt

LEMMA UnchangedInv ==
  ASSUME Inv, AppendNeverFails',
         UNCHANGED <<stores, indexes, file, mem, segments, activeSegment, proc>>
  PROVE  Inv'
<1>1. TypeOK' /\ FilesAreSegments'
  BY DEF Inv, TypeOK, FilesAreSegments
<1>2. segments # {} => ActiveOK'
  BY DEF Inv, ActiveOK, active
<1>3. \A b \in segments : SegmentOK(b)'
  BY Untouched DEF Inv, TypeOK
<1>4. \A b \in segments \ {activeSegment} : SealedOK(b)'
  BY DEF Inv, SealedOK
<1>5. QED
  BY <1>1, <1>2, <1>3, <1>4 DEF Inv

LEMMA ReadKeeps ==
  ASSUME Inv, NEW off \in Offset, Read(off), NEW b \in Offset
  PROVE  Kept(b)
<1>1. CASE UNCHANGED <<file, mem>>
  BY <1>1 DEF Kept, Frames
<1>2. CASE Holding(off) # {} /\ Flushed(Max(Holding(off)))
  <2>1. Max(Holding(off)) \in Offset
    BY <1>2, HoldingIsOne DEF Holding, Inv, TypeOK
  <2>2. QED
    BY <1>2, <2>1, FlushKeeps DEF Inv
<1>3. QED
  BY <1>1, <1>2 DEF Read

\* A Read flushes at most the store it reads from.
LEMMA ReadInv ==
  ASSUME Inv, NEW off \in Offset, Read(off)
  PROVE  Inv'
<1>1. AppendNeverFails'
  BY DEF Read, ReadResponse, OutOfRange, AppendNeverFails
<1>2. CASE UNCHANGED <<file, mem>>
  BY <1>1, <1>2, UnchangedInv DEF Read
<1>3. CASE Holding(off) # {} /\ Flushed(Max(Holding(off)))
  <2>1. Max(Holding(off)) \in segments
    BY <1>3, HoldingIsOne DEF Holding
  <2>2. QED
    BY <1>1, <1>3, <2>1, FlushInv DEF Read
<1>4. QED
  BY <1>2, <1>3 DEF Read

\* Close flushes every store, so that the files alone have all frames.
LEMMA CloseKeeps ==
  ASSUME TypeOK, Close, NEW b \in Offset
  PROVE  Kept(b)
<1>1. file[b] \in FileType /\ mem[b] \in ObjectType
  BY DEF TypeOK
<1>2. CASE b \in segments
  <2>1. file'[b] = CloseFile(file[b], mem[b]) /\ mem'[b] = CloseMem(mem[b])
    BY <1>2 DEF Close
  <2>2. QED
    BY <1>1, <2>1, CloseType DEF Kept, Frames
<1>3. CASE b \notin segments
  <2>1. file'[b] = file[b] /\ mem'[b] = mem[b]
    BY <1>3 DEF Close
  <2>2. QED
    BY <2>1 DEF Kept, Frames
<1>4. QED
  BY <1>2, <1>3

LEMMA CloseInv ==
  ASSUME Inv, Close
  PROVE  Inv'
<1> USE DEF Inv
<1>1. \A b \in segments :
        /\ b \in Offset
        /\ file'[b] = CloseFile(file[b], mem[b]) /\ mem'[b] = CloseMem(mem[b])
        /\ file[b] \in FileType /\ mem[b] \in ObjectType
  BY DEF Close, TypeOK
<1>2. \A b \in segments :
        /\ file'[b] \in FileType /\ Frames(b)' = Frames(b)
        /\ file'[b].len = mem[b].size /\ file'[b].slot = file[b].slot
        /\ file'[b].ilen = mem[b].isize
        /\ mem'[b] \in ObjectType /\ mem'[b].buf = {} /\ mem'[b].size = mem[b].size
        /\ mem'[b].isize = mem[b].isize /\ mem'[b].nextOffset = mem[b].nextOffset
  BY <1>1, CloseType DEF Frames
<1>3. \A b \in Offset \ segments : file'[b] = file[b] /\ mem'[b] = mem[b]
  BY DEF Close
<1>4. TypeOK'
  BY <1>2, <1>3 DEF Close, TypeOK
<1>5. FilesAreSegments'
  BY <1>3 DEF Close, FilesAreSegments
<1>6. \A b \in segments : SegmentOK(b)'
  <2> SUFFICES ASSUME NEW b \in segments
               PROVE  SegmentOK(b)'
    OBVIOUS
  <2>1. ObjectMatchesFiles(b)'
    <3>1. mem'[b].open \in BOOLEAN /\ proc' = "closed"
      BY <1>2 DEF Close, ObjectType
    <3>2. QED
      BY <1>2, <3>1 DEF SegmentOK, ObjectMatchesFiles
  <2>2. Kept(b) /\ b \in Offset
    BY <1>1, CloseKeeps
  <2>3. QED
    BY <2>1, <2>2, KeptOK
<1>7. \A b \in segments \ {activeSegment} : SealedOK(b)'
  <2>1. \A b \in segments : mem'[b].nextOffset = mem[b].nextOffset
    BY <1>2
  <2>2. segments' = segments
    BY DEF Close
  <2>3. QED
    BY <2>1, <2>2 DEF SealedOK
<1>8. ActiveOK'
  BY <1>2 DEF Close, ActiveOK, active, IsMaxed
<1>9. AppendNeverFails'
  BY DEF Close, AppendNeverFails
<1>10. QED
  BY <1>4, <1>5, <1>6, <1>7, <1>8, <1>9 DEF Close

LEMMA TruncateKeeps ==
  ASSUME NEW lowest, TruncateTo(lowest), NEW b \in Offset \ Removable(lowest)
  PROVE  Kept(b)
<1>1. file'[b] = file[b] /\ mem'[b] = mem[b]
  BY DEF TruncateTo
<1>2. QED
  BY <1>1 DEF Kept, Frames

\* Truncate removes a lower end of the segments: what is left still tiles.
LEMMA TruncateInv ==
  ASSUME Inv, NEW lowest \in Offset, Truncate(lowest)
  PROVE  Inv'
<1> USE DEF Inv
<1> DEFINE gone == Removable(lowest)
<1>1. /\ stores' = stores \ gone /\ indexes' = indexes \ gone
      /\ segments' = segments \ gone
      /\ file' = [b \in Offset |-> IF b \in gone THEN EmptyFile ELSE file[b]]
      /\ mem' = [b \in Offset |-> IF b \in gone THEN CloseMem(mem[b]) ELSE mem[b]]
      /\ activeSegment' = activeSegment /\ proc' = proc /\ proc = "open"
      /\ resp' = Truncated
  BY DEF Truncate, TruncateTo
<1>2. lowest \in Nat /\ \A c \in segments : c \in Nat /\ mem[c].nextOffset \in Nat
  BY Numbers
<1>3. activeSegment \in segments /\ activeSegment \notin gone
  <2>1. activeSegment \in segments
    BY <1>1 DEF ActiveOK
  <2>2. lowest + 1 < mem[activeSegment].nextOffset
    BY DEF Truncate, Compacts, active
  <2>3. QED
    BY <1>2, <2>1, <2>2 DEF Removable
<1>4. \A b \in Offset \ gone : file'[b] = file[b] /\ mem'[b] = mem[b]
  BY <1>1
<1>5. TypeOK'
  <2>1. \A b \in Offset : CloseMem(mem[b]) \in ObjectType
    BY CloseType DEF TypeOK
  <2>2. QED
    BY <1>1, <2>1, EmptyFileType DEF TypeOK
<1>6. FilesAreSegments'
  BY <1>1 DEF FilesAreSegments
<1>7. \A b \in segments' : SegmentOK(b)'
  BY <1>1, <1>4, Untouched DEF TypeOK
<1>8. \A b \in segments' \ {activeSegment'} : SealedOK(b)'
  <2> SUFFICES ASSUME NEW b \in segments \ gone, b # activeSegment
               PROVE  SealedOK(b)'
    BY <1>1
  <2> DEFINE c == mem[b].nextOffset
  <2>1. SealedOK(b) /\ b \in Offset
    BY DEF TypeOK
  <2>2. c \in segments /\ mem[c].nextOffset >= c
    BY <2>1 DEF SealedOK, SegmentOK, ObjectMatchesFiles
  <2>3. lowest + 1 < c
    BY <1>2 DEF Removable
  <2>4. c \notin gone
    BY <1>2, <2>2, <2>3 DEF Removable
  <2>5. mem'[b].nextOffset = c
    BY <1>4, <2>1
  <2>6. QED
    BY <1>1, <2>1, <2>2, <2>4, <2>5 DEF SealedOK
<1>9. ActiveOK'
  <2>1. mem'[activeSegment] = mem[activeSegment]
    BY <1>3, <1>4 DEF TypeOK
  <2>2. QED
    BY <1>1, <1>3, <2>1 DEF ActiveOK, active
<1>10. AppendNeverFails'
  BY <1>1 DEF AppendNeverFails, Truncated
<1>11. QED
  BY <1>1, <1>3, <1>5, <1>6, <1>7, <1>8, <1>9, <1>10

\* Opening a directory that Close left finds every segment as it was: the
\* frames are all in the file, and the last entry gives the next offset.
LEMMA Reopened ==
  ASSUME Inv, NewLog, segments # {}
  PROVE  /\ Opened = segments /\ segments' = segments
         /\ activeSegment' = activeSegment
         /\ \A b \in segments :
              /\ mem'[b] \in ObjectType /\ mem'[b].open
              /\ mem'[b].isize = mem[b].isize
              /\ file'[b] \in FileType /\ file'[b].ilen = MaxIndexBytes
              /\ Kept(b)
<1> USE DEF Inv
<1>0. /\ file' = [b \in Offset |->
                    IF b \in Opened THEN newIndexFile(file[b]) ELSE file[b]]
      /\ mem' = [b \in Offset |->
                   IF b \in Opened THEN newSegment(b, file[b]) ELSE NoSegment]
      /\ segments' = Opened /\ activeSegment' = Max(Opened)
      /\ proc = "closed" /\ proc' = "open"
  BY DEF NewLog, setup
<1>1. Opened = segments /\ segments \subseteq Offset
  BY DEF Opened, BasesFound, FilesAreSegments, TypeOK
<1>2. activeSegment' = activeSegment
  BY <1>0, <1>1, ActiveIsMax
<1> DEFINE Same(b) ==
      [buf |-> mem[b].buf, size |-> mem[b].size, isize |-> mem[b].isize,
       nextOffset |-> mem[b].nextOffset, open |-> TRUE]
<1>3. \A b \in segments : newSegment(b, file[b]) = Same(b)
  <2> SUFFICES ASSUME NEW b \in segments
               PROVE  newSegment(b, file[b]) = Same(b)
    OBVIOUS
  <2> DEFINE n == mem[b].nextOffset - b
  <2>1. b \in Nat /\ mem[b].nextOffset \in Nat /\ b \in Offset
    BY Numbers
  <2>2. /\ mem[b] \in ObjectType /\ file[b] \in FileType
    BY <2>1 DEF TypeOK
  <2>3. /\ n \in Nat /\ mem[b].isize = entWidth * n /\ mem[b].isize <= MaxIndexBytes
        /\ file[b].ilen = mem[b].isize /\ file[b].len = mem[b].size
        /\ mem[b].buf = {}
    BY <1>0, <2>1 DEF SegmentOK, ObjectMatchesFiles
  <2>4. n > 0 => file[b].slot[n - 1].off = n - 1
    <3>1. n > 0 => n - 1 \in 0 .. mem[b].nextOffset - b - 1
      BY <2>3
    <3>2. QED
      BY <3>1 DEF SegmentOK, EntryOK
  <2>5. nextOffsetOf(b, file[b]) = b + n
    BY <2>1, <2>2, <2>3, <2>4, NextOffsetReopened, ZenonT(60)
  <2>6. b + n = mem[b].nextOffset
    BY <2>1
  <2>7. QED
    BY <2>3, <2>5, <2>6 DEF newSegment, newStore, newIndexSize
<1>4. \A b \in segments :
        /\ mem'[b] = Same(b)
        /\ file'[b] = newIndexFile(file[b])
        /\ mem[b] \in ObjectType /\ file[b] \in FileType
  BY <1>0, <1>1, <1>3 DEF TypeOK
<1>5. \A b \in segments :
        /\ mem'[b] \in ObjectType /\ mem'[b].open = TRUE
        /\ mem'[b].size = mem[b].size /\ mem'[b].isize = mem[b].isize
        /\ mem'[b].nextOffset = mem[b].nextOffset /\ mem'[b].buf = mem[b].buf
  <2>1. \A m \in ObjectType :
          [buf |-> m.buf, size |-> m.size, isize |-> m.isize,
           nextOffset |-> m.nextOffset, open |-> TRUE] \in ObjectType
    BY DEF ObjectType
  <2>2. ASSUME NEW b \in segments
        PROVE  Same(b) \in ObjectType
    <3>1. mem[b] \in ObjectType
      BY <1>4
    <3>2. QED
      BY <2>1, <3>1
  <2>3. ASSUME NEW b \in segments
        PROVE  /\ Same(b).open = TRUE
               /\ Same(b).size = mem[b].size /\ Same(b).isize = mem[b].isize
               /\ Same(b).nextOffset = mem[b].nextOffset /\ Same(b).buf = mem[b].buf
    OBVIOUS
  <2> HIDE DEF Same
  <2>4. QED
    BY <1>4, <2>2, <2>3
<1>6. \A b \in segments :
        /\ file'[b] \in FileType /\ file'[b].frames = file[b].frames
        /\ file'[b].slot = file[b].slot /\ file'[b].ilen = MaxIndexBytes
  <2> SUFFICES ASSUME NEW b \in segments
               PROVE  /\ file'[b] \in FileType /\ file'[b].frames = file[b].frames
                      /\ file'[b].slot = file[b].slot /\ file'[b].ilen = MaxIndexBytes
    OBVIOUS
  <2>1. file'[b] = newIndexFile(file[b]) /\ file[b] \in FileType
    BY <1>4
  <2>2. QED
    BY <2>1, NewIndexFileType
<1>7. \A b \in segments : Kept(b)
  BY <1>5, <1>6 DEF Kept, Frames
<1>8. QED
  BY <1>0, <1>1, <1>2, <1>5, <1>6, <1>7

LEMMA NewLogInv ==
  ASSUME Inv, NewLog
  PROVE  Inv'
<1> USE DEF Inv
<1>1. /\ stores' = stores \union Opened /\ indexes' = indexes \union Opened
      /\ file' = [b \in Offset |->
                    IF b \in Opened THEN newIndexFile(file[b]) ELSE file[b]]
      /\ mem' = [b \in Offset |->
                   IF b \in Opened THEN newSegment(b, file[b]) ELSE NoSegment]
      /\ segments' = Opened /\ activeSegment' = Max(Opened)
      /\ proc = "closed" /\ proc' = "open" /\ resp' = resp
  BY DEF NewLog, setup
<1>2. AppendNeverFails'
  BY <1>1 DEF AppendNeverFails
<1>3. CASE segments = {}
  <2> DEFINE s == InitialOffset
  <2>1. Opened = {s} /\ s \in Offset
    BY <1>3 DEF Opened, FilesAreSegments
  <2>2. Max({s}) = s
    <3>1. s >= s
      BY <2>1 DEF Offset
    <3>2. QED
      BY <3>1, Zenon DEF Max
  <2>3. file[s] = EmptyFile
    BY <1>3, <2>1 DEF FilesAreSegments
  <2> DEFINE m == [buf |-> {}, size |-> 0, isize |-> 0, nextOffset |-> s, open |-> TRUE]
             f == newIndexFile(EmptyFile)
  <2>4. file'[s] = f /\ mem'[s] = m /\ ~IsMaxed(m)
    BY <1>1, <2>1, <2>3, NewSegmentHasRoom
  <2>5. /\ f \in FileType /\ f.frames = {} /\ f.ilen = MaxIndexBytes
        /\ m \in ObjectType
    BY <2>1, EmptyFileType, NewIndexFileType DEF EmptyFile, ObjectType
  <2>6. TypeOK'
    BY <1>1, <2>1, <2>2, <2>3, <2>4, <2>5, NoSegmentType DEF TypeOK
  <2>7. FilesAreSegments'
    BY <1>1, <1>3, <2>1 DEF FilesAreSegments
  <2>8. SegmentOK(s)'
    <3>1. Frames(s)' = {} /\ mem'[s].nextOffset - s - 1 = -1
      BY <2>1, <2>4, <2>5 DEF Frames, Offset
    <3>2. ObjectMatchesFiles(s)'
      BY <1>1, <2>1, <2>4, <2>5 DEF ObjectMatchesFiles, Offset, entWidth
    <3>3. QED
      BY <3>1, <3>2 DEF SegmentOK, FramesOK, FrameOK
  <2>9. ActiveOK'
    BY <1>1, <2>1, <2>2, <2>4 DEF ActiveOK, active, Offset
  <2>10. QED
    BY <1>1, <1>2, <2>1, <2>2, <2>6, <2>7, <2>8, <2>9
<1>4. CASE segments # {}
  <2>1. Opened = segments /\ segments \subseteq Offset
    BY <1>4, Reopened DEF TypeOK
  <2>2. activeSegment' = activeSegment
    BY <1>4, Reopened
  <2>3. \A b \in segments :
          /\ mem'[b] \in ObjectType /\ mem'[b].open /\ mem'[b].isize = mem[b].isize
          /\ file'[b] \in FileType /\ file'[b].ilen = MaxIndexBytes
          /\ Kept(b)
    BY <1>4, Reopened
  <2>4. \A b \in segments :
          mem'[b].size = mem[b].size /\ mem'[b].nextOffset = mem[b].nextOffset
    BY <2>3 DEF Kept
  <2>7. TypeOK'
    BY <1>1, <2>1, <2>2, <2>3, NoSegmentType DEF TypeOK
  <2>8. FilesAreSegments'
    BY <1>1, <2>1 DEF FilesAreSegments
  <2>9. \A b \in segments : SegmentOK(b)'
    <3> SUFFICES ASSUME NEW b \in segments
                 PROVE  SegmentOK(b)'
      OBVIOUS
    <3>1. Kept(b) /\ b \in Offset
      BY <2>1, <2>3
    <3>2. ObjectMatchesFiles(b)'
      <4>1. /\ mem'[b].nextOffset = mem[b].nextOffset /\ mem'[b].isize = mem[b].isize
            /\ mem'[b].open /\ file'[b].ilen = MaxIndexBytes /\ proc' = "open"
        BY <1>1, <2>3, <2>4
      <4>2. ObjectMatchesFiles(b)
        BY DEF SegmentOK
      <4>3. QED
        BY <4>1, <4>2 DEF ObjectMatchesFiles
    <3>3. QED
      BY <3>1, <3>2, KeptOK
  <2>10. \A b \in segments \ {activeSegment} : SealedOK(b)'
    <3>1. \A b \in segments : mem'[b].nextOffset = mem[b].nextOffset
      BY <2>4
    <3>2. segments' = segments
      BY <1>1, <2>1
    <3>3. QED
      BY <3>1, <3>2 DEF SealedOK
  <2>11. ActiveOK'
    BY <1>1, <1>4, <2>1, <2>2, <2>3, <2>4, ZenonT(60) DEF ActiveOK, active, IsMaxed
  <2>12. segments' = segments /\ proc' = "open"
    BY <1>1, <2>1
  <2>13. QED
    BY <1>2, <1>4, <2>2, <2>7, <2>8, <2>9, <2>10, <2>11, <2>12
<1>5. QED
  BY <1>3, <1>4

\* The append to the active segment, before the roll: a frame at the end of the
\* store, its entry at the end of the index.
LEMMA AppendToActive ==
  ASSUME Inv, NEW v \in Value, Append(v), NEW b \in Offset, b = activeSegment,
         file'[b] = AppendedFile(v), mem'[b] = AppendedMem(v)
  PROVE  /\ SegmentOK(b)'
         /\ file'[b] \in FileType /\ mem'[b] \in ObjectType
         /\ Frames(b)' = Frames(b) \union
                           {[pos |-> mem[b].size, rec |-> NextRecord(mem[b], v)]}
         /\ mem[b].nextOffset - b \in Slot
         /\ file'[b].slot = [file[b].slot EXCEPT ![mem[b].nextOffset - b] =
                               [off |-> mem[b].nextOffset - b, pos |-> mem[b].size]]
         /\ mem'[b].nextOffset = mem[b].nextOffset + 1
         /\ resp' = Appended(mem[b].nextOffset)
<1> DEFINE n == mem[b].nextOffset - b
           fr == [pos |-> mem[b].size, rec |-> NextRecord(mem[b], v)]
<1>1. /\ proc = "open" /\ proc' = "open" /\ mem[b].nextOffset < MaxOffset
      /\ b \in segments /\ b \in Offset
      /\ file[b] \in FileType /\ mem[b] \in ObjectType
  BY DEF Append, active, Inv, ActiveOK, TypeOK
<1>2. SegmentOK(b) /\ ~IsMaxed(mem[b])
  BY <1>1 DEF Inv, ActiveOK, active
<1>3. /\ mem[b].nextOffset >= b /\ mem[b].isize = entWidth * n
      /\ mem[b].open /\ file[b].ilen = MaxIndexBytes /\ ~isMaxed(mem[b].isize)
  BY <1>1, <1>2 DEF SegmentOK, ObjectMatchesFiles, IsMaxed
<1>4. b \in Nat /\ mem[b].nextOffset \in Nat /\ mem[b].size \in Nat /\ n \in Nat
  BY <1>1, <1>3 DEF ObjectType, Offset
<1>5. /\ file'[b] \in FileType /\ mem'[b] \in ObjectType
      /\ file'[b].frames = file[b].frames /\ file'[b].ilen = file[b].ilen
      /\ file'[b].slot = [file[b].slot EXCEPT ![n] = [off |-> n, pos |-> mem[b].size]]
      /\ n \in Slot
      /\ mem'[b].buf = mem[b].buf \union {fr}
      /\ mem'[b].size = FrameEnd(fr) /\ mem'[b].size > mem[b].size
      /\ mem'[b].isize = entWidth * (n + 1)
      /\ mem'[b].isize <= MaxIndexBytes
      /\ mem'[b].nextOffset = mem[b].nextOffset + 1
      /\ mem'[b].open = mem[b].open
  <2>1. /\ file'[b] = SegmentAppendFile(b, file[b], mem[b])
        /\ mem'[b] = SegmentAppendMem(mem[b], v)
    BY DEF AppendedFile, AppendedMem, active
  <2>2. PICK f \in FileType : f = file[b]
    BY <1>1
  <2>3. PICK m \in ObjectType : m = mem[b]
    BY <1>1
  <2>4. /\ m.nextOffset < MaxOffset /\ m.nextOffset >= b
        /\ m.isize = entWidth * (m.nextOffset - b) /\ ~isMaxed(m.isize)
    BY <1>1, <1>3, <2>3
  <2> DEFINE g == SegmentAppendFile(b, f, m)
             k == SegmentAppendMem(m, v)
  <2>5. /\ g \in FileType /\ g.frames = f.frames /\ g.ilen = f.ilen
        /\ g.slot = [f.slot EXCEPT ![m.nextOffset - b] =
                                     [off |-> m.nextOffset - b, pos |-> m.size]]
        /\ m.nextOffset - b \in Slot
    BY <2>4, AppendFileType
  <2>6. /\ k \in ObjectType
        /\ k.buf = m.buf \union {[pos |-> m.size, rec |-> NextRecord(m, v)]}
        /\ k.size = m.size + recordLenBytes + Width[v][m.nextOffset]
        /\ k.size > m.size /\ k.isize = m.isize + entWidth
        /\ k.nextOffset = m.nextOffset + 1
        /\ k.open = m.open
    BY <2>4, AppendMemType, Zenon
  <2>7. file'[b] = g /\ mem'[b] = k
    BY <2>1, <2>2, <2>3
  <2> HIDE DEF g, k
  <2>8. /\ file'[b] \in FileType /\ file'[b].frames = file[b].frames
        /\ file'[b].ilen = file[b].ilen /\ n \in Slot
        /\ file'[b].slot = [file[b].slot EXCEPT ![n] = [off |-> n, pos |-> mem[b].size]]
    BY <2>2, <2>3, <2>5, <2>7
  <2>9. /\ mem'[b] \in ObjectType /\ mem'[b].buf = mem[b].buf \union {fr}
        /\ mem'[b].size > mem[b].size
        /\ mem'[b].nextOffset = mem[b].nextOffset + 1
    BY <2>3, <2>6, <2>7
  <2>13. mem'[b].size = FrameEnd(fr)
    BY <2>3, <2>6, <2>7 DEF FrameEnd, NextRecord
  <2>10. mem'[b].open = mem[b].open
    BY <2>3, <2>6, <2>7, Zenon
  <2>11. mem'[b].isize = entWidth * (n + 1) /\ mem'[b].isize <= MaxIndexBytes
    <3>1. ~isMaxed(entWidth * n)
      BY <1>3
    <3>2. entWidth * n + entWidth = entWidth * (n + 1) /\ entWidth * (n + 1) <= MaxIndexBytes
      BY <1>4, <3>1, FreeSlot
    <3>3. QED
      BY <1>3, <2>3, <2>6, <2>7, <3>2
  <2>12. QED
    BY <2>8, <2>9, <2>10, <2>11, <2>13
<1> HIDE DEF n, fr
<1>6. Frames(b)' = Frames(b) \union {fr}
  BY <1>5 DEF Frames
<1>7. resp' = Appended(mem[b].nextOffset)
  BY <1>3 DEF Append, SegmentAppendErr, active
<1>8. ObjectMatchesFiles(b)'
  <2>1. mem[b].nextOffset + 1 - b = n + 1 /\ mem[b].nextOffset + 1 >= b
    BY <1>3, <1>4 DEF n
  <2>2. mem'[b].open
    BY <1>3, <1>5, Zenon
  <2>3. file'[b].ilen = MaxIndexBytes /\ proc' = "open"
    BY <1>1, <1>3, <1>5
  <2>4. mem'[b].nextOffset >= b /\ mem'[b].isize = entWidth * (mem'[b].nextOffset - b)
    <3>1. mem'[b].nextOffset = mem[b].nextOffset + 1 /\ mem'[b].isize = entWidth * (n + 1)
      BY <1>5
    <3>2. QED
      BY <1>4, <2>1, <3>1 DEF n, entWidth
  <2>5. QED
    BY <1>5, <2>2, <2>3, <2>4 DEF ObjectMatchesFiles
<1>9. FramesOK(b)'
  <2>1. fr.pos = mem[b].size /\ fr.rec.offset = mem[b].nextOffset /\ FramesOK(b)
    BY <1>2 DEF SegmentOK, fr, NextRecord
  <2>2. \A g \in Frames(b) : g.pos \in Nat /\ g.rec.offset \in Nat /\ FrameEnd(g) \in Nat
    <3>1. Frames(b) \subseteq Frame
      BY <1>1 DEF Frames, FileType, ObjectType
    <3>2. \A g \in Frame : /\ g.pos \in Nat /\ g.rec.offset \in Nat
                           /\ Width[g.rec.value][g.rec.offset] \in Nat
      BY SMTT(30) DEF Frame, Record, Offset
    <3>3. QED
      BY <3>1, <3>2 DEF FrameEnd, recordLenBytes
  <2>3. mem'[b].size \in Nat
    BY <1>5 DEF ObjectType
  <2>4. \A g \in Frames(b) : g.pos < mem[b].size
    <3>1. Frames(b) \subseteq Frame
      BY <1>1 DEF Frames, FileType, ObjectType
    <3>2. \A g \in Frame : g.pos < FrameEnd(g)
      BY DEF Frame, Record, FrameEnd, recordLenBytes
    <3>3. QED
      BY <1>4, <2>1, <2>2, <3>1, <3>2 DEF FramesOK, FrameOK
  <2>5. ASSUME NEW g \in Frames(b)
        PROVE  FrameOK(b, g)'
    <3>1. FrameOK(b, g)
      BY <2>1 DEF FramesOK
    <3>2. \E j \in 0 .. mem'[b].nextOffset - b - 1 : file'[b].slot[j].pos = g.pos
      <4>1. PICK j \in 0 .. mem[b].nextOffset - b - 1 : file[b].slot[j].pos = g.pos
        BY <3>1 DEF FrameOK
      <4>2. j \in 0 .. mem'[b].nextOffset - b - 1 /\ j # n /\ j \in Slot
        BY <1>4, <1>5, <4>1 DEF n, Slot, Slots, entWidth
      <4>3. file'[b].slot[j] = file[b].slot[j]
        BY <1>1, <1>5, <4>2 DEF FileType
      <4>4. QED
        BY <4>1, <4>2, <4>3
    <3>3. g.rec.offset < mem'[b].nextOffset
      BY <1>4, <1>5, <2>2, <3>1 DEF FrameOK
    <3>4. FrameEnd(g) <= mem'[b].size
      BY <1>4, <1>5, <2>2, <2>3, <3>1 DEF FrameOK
    <3>5. FrameEnd(g) \in {mem'[b].size} \union {h.pos : h \in Frames(b)'}
      BY <1>6, <2>1, <3>1 DEF FrameOK
    <3>6. QED
      BY <3>2, <3>3, <3>4, <3>5 DEF FrameOK, FrameEnd
  <2>6. ASSUME NEW g \in Frames(b)', g = fr
        PROVE  FrameOK(b, g)'
    <3>1. n \in 0 .. mem'[b].nextOffset - b - 1
      BY <1>4, <1>5 DEF n
    <3>2. file'[b].slot[n].pos = g.pos
      BY <1>1, <1>5, <2>1, <2>6 DEF FileType
    <3>3. g.rec.offset < mem'[b].nextOffset
      BY <1>4, <1>5, <2>1, <2>6
    <3>4. FrameEnd(g) <= mem'[b].size /\ FrameEnd(g) \in {mem'[b].size}
      BY <1>5, <2>3, <2>6
    <3>5. QED
      BY <3>1, <3>2, <3>3, <3>4 DEF FrameOK, FrameEnd
  <2>7. ASSUME NEW g \in Frames(b)', NEW h \in Frames(b)'
        PROVE  /\ g.pos = h.pos => g = h
               /\ g.rec.offset < h.rec.offset => FrameEnd(g) <= h.pos
    <3>1. CASE g \in Frames(b) /\ h \in Frames(b)
      BY <2>1, <3>1 DEF FramesOK
    <3>2. CASE g \in Frames(b) /\ h = fr
      BY <1>4, <2>1, <2>2, <2>4, <3>2 DEF FramesOK, FrameOK
    <3>3. CASE g = fr /\ h \in Frames(b)
      BY <1>4, <2>1, <2>2, <2>4, <3>3 DEF FramesOK, FrameOK
    <3>4. CASE g = fr /\ h = fr
      BY <1>4, <2>1, <3>4
    <3>5. QED
      BY <1>6, <3>1, <3>2, <3>3, <3>4
  <2>8. \A g \in Frames(b)' : FrameOK(b, g)'
    BY <1>6, <2>5, <2>6
  <2>9. QED
    BY <2>7, <2>8 DEF FramesOK, FrameEnd
<1>10. \A j \in 0 .. mem'[b].nextOffset - b - 1 : EntryOK(b, j)'
  <2> SUFFICES ASSUME NEW j \in 0 .. mem'[b].nextOffset - b - 1
               PROVE  EntryOK(b, j)'
    OBVIOUS
  <2>1. j \in 0 .. n
    BY <1>4, <1>5 DEF n
  <2>2. CASE j = n
    <3>1. file'[b].slot[j] = [off |-> n, pos |-> mem[b].size]
      BY <1>1, <1>5, <2>2 DEF FileType
    <3>2. fr.pos = mem[b].size /\ fr.rec.offset = b + j
      BY <1>4, <2>2 DEF NextRecord, fr, n
    <3>3. QED
      BY <1>6, <2>2, <3>1, <3>2 DEF EntryOK
  <2>3. CASE j # n
    <3>1. j \in 0 .. mem[b].nextOffset - b - 1
      <4>1. j \in 0 .. n - 1
        BY <1>4, <2>1, <2>3
      <4>2. QED
        BY <4>1 DEF n
    <3>2. EntryOK(b, j)
      BY <1>2, <3>1 DEF SegmentOK
    <3>3. file'[b].slot[j] = file[b].slot[j]
      <4>1. j \in Slot
        BY <1>4, <1>5, <2>1 DEF Slot, Slots, entWidth
      <4>2. QED
        BY <1>1, <1>5, <2>3, <4>1 DEF FileType
    <3>4. QED
      BY <1>6, <3>2, <3>3 DEF EntryOK
  <2>4. QED
    BY <2>2, <2>3
<1>11. SegmentOK(b)'
  BY <1>8, <1>9, <1>10 DEF SegmentOK
<1>12. QED
  BY <1>5, <1>6, <1>7, <1>11 DEF n, fr

\* An append, with or without a roll, leaves the sealed segments alone.
LEMMA AppendKeeps ==
  ASSUME Inv, NEW v \in Value, Append(v), NEW b \in segments, b # activeSegment
  PROVE  Kept(b)
<1>1. b \in Offset /\ b \in Nat /\ activeSegment \in Offset /\ activeSegment \in Nat
  BY Numbers DEF Inv, TypeOK
<1>2. file'[b] = file[b] /\ mem'[b] = mem[b]
  <2>1. CASE AppendOnly(v)
    BY <1>1, <2>1 DEF AppendOnly, Inv, TypeOK
  <2>2. CASE AppendAndRoll(v)
    <3>1. PICK r : r = active.nextOffset + 1
      OBVIOUS
    <3>2. r # b
      <4>1. b <= activeSegment
        BY DEF Inv, ActiveOK
      <4>2. mem[activeSegment].nextOffset \in Nat /\ activeSegment <= mem[activeSegment].nextOffset
        BY <1>1, Numbers DEF Inv, ActiveOK, SegmentOK, ObjectMatchesFiles
      <4>3. QED
        BY <1>1, <3>1, <4>1, <4>2 DEF active
    <3>3. PICK f, m : /\ file' = [file EXCEPT ![activeSegment] = AppendedFile(v), ![r] = f]
                      /\ mem' = [mem EXCEPT ![activeSegment] = AppendedMem(v), ![r] = m]
      BY <2>2, <3>1, Zenon DEF AppendAndRoll
    <3>4. QED
      BY <1>1, <3>2, <3>3 DEF Inv, TypeOK
  <2>3. QED
    BY <2>1, <2>2 DEF Append
<1>3. QED
  BY <1>2 DEF Kept, Frames

LEMMA AppendInv ==
  ASSUME Inv, NEW v \in Value, Append(v)
  PROVE  Inv'
<1> USE DEF Inv
<1>0. PICK a \in Offset : a = activeSegment
  BY DEF TypeOK
<1>1. /\ proc = "open" /\ proc' = "open" /\ mem[a].nextOffset < MaxOffset
      /\ a \in segments /\ a \in Offset /\ ~isMaxed(mem[a].isize)
      /\ SegmentOK(a)
  BY <1>0 DEF Append, active, ActiveOK, TypeOK, IsMaxed
<1>2. \A c \in segments : c \in Nat /\ c \in Offset /\ mem[c].nextOffset \in Nat
  BY Numbers
<1>3. a <= mem[a].nextOffset
  BY <1>1 DEF SegmentOK, ObjectMatchesFiles
<1>4. CASE AppendOnly(v) /\ ~IsMaxed(AppendedMem(v))
  <2>1. /\ file'[a] = AppendedFile(v) /\ mem'[a] = AppendedMem(v)
        /\ \A c \in Offset \ {a} : file'[c] = file[c] /\ mem'[c] = mem[c]
        /\ UNCHANGED <<stores, indexes, segments, activeSegment>>
    BY <1>0, <1>1, <1>4 DEF AppendOnly, TypeOK
  <2>2. /\ SegmentOK(a)' /\ file'[a] \in FileType /\ mem'[a] \in ObjectType
        /\ resp' = Appended(mem[a].nextOffset)
    BY <1>0, <2>1, AppendToActive
  <2>3. TypeOK'
    BY <1>0, <1>1, <1>4, <2>1, <2>2 DEF TypeOK, AppendOnly
  <2>4. FilesAreSegments'
    BY <1>0, <1>1, <2>1 DEF FilesAreSegments
  <2>5. \A c \in segments \ {a} : SegmentOK(c)'
    BY <1>1, <1>2, <2>1, Untouched
  <2>6. \A c \in segments \ {a} : SealedOK(c)'
    BY <1>0, <1>2, <2>1 DEF SealedOK
  <2>7. ActiveOK'
    BY <1>0, <1>1, <1>4, <2>1 DEF ActiveOK, active
  <2>8. AppendNeverFails'
    BY <2>2 DEF AppendNeverFails, Appended
  <2>9. QED
    BY <1>0, <1>1, <2>1, <2>2, <2>3, <2>4, <2>5, <2>6, <2>7, <2>8
<1>5. CASE AppendAndRoll(v)
  <2>0. PICK r \in Offset : r = mem[a].nextOffset + 1
    BY <1>1, <1>2 DEF Offset
  <2> DEFINE f == newIndexFile(EmptyFile)
             m == [buf |-> {}, size |-> 0, isize |-> 0, nextOffset |-> r, open |-> TRUE]
  <2>1. r \in Nat /\ r > a
    BY <1>1, <1>2, <1>3, <2>0
  <2>2. r \notin segments
    BY <1>0, <1>1, <1>2, <2>1 DEF ActiveOK
  <2>3. r \notin stores \union indexes /\ file[r] = EmptyFile
    BY <2>1, <2>2 DEF FilesAreSegments
  <2>4. newSegment(r, EmptyFile) = m /\ ~IsMaxed(m)
    BY <2>1, NewSegmentHasRoom
  <2>5. /\ stores' = stores \union {r} /\ indexes' = indexes \union {r}
        /\ segments' = segments \union {r} /\ activeSegment' = r
        /\ file' = [file EXCEPT ![a] = AppendedFile(v), ![r] = f]
        /\ mem' = [mem EXCEPT ![a] = AppendedMem(v), ![r] = m]
    BY <1>0, <1>5, <2>0, <2>3, <2>4 DEF AppendAndRoll, active
  <2> HIDE DEF m, f
  <2>6. /\ file'[a] = AppendedFile(v) /\ mem'[a] = AppendedMem(v)
        /\ file'[r] = f /\ mem'[r] = m
        /\ \A c \in Offset \ {a, r} : file'[c] = file[c] /\ mem'[c] = mem[c]
    BY <1>1, <1>2, <2>1, <2>5 DEF TypeOK
  <2>7. /\ SegmentOK(a)' /\ file'[a] \in FileType /\ mem'[a] \in ObjectType
        /\ mem'[a].nextOffset = r /\ resp' = Appended(mem[a].nextOffset)
    BY <1>0, <2>0, <2>6, AppendToActive
  <2>8. /\ f \in FileType /\ f.frames = {} /\ f.ilen = MaxIndexBytes
        /\ m \in ObjectType /\ m.buf = {} /\ m.isize = 0 /\ m.nextOffset = r /\ m.open
    BY <2>1, EmptyFileType, NewIndexFileType DEF EmptyFile, ObjectType, f, m
  <2>9. TypeOK'
    BY <1>1, <2>1, <2>5, <2>6, <2>7, <2>8, ZenonT(60) DEF TypeOK
  <2>10. FilesAreSegments'
    BY <1>1, <2>5, <2>6 DEF FilesAreSegments
  <2>11. SegmentOK(r)'
    <3>1. Frames(r)' = {} /\ mem'[r].nextOffset - r - 1 = -1
      BY <2>1, <2>6, <2>8 DEF Frames
    <3>2. ObjectMatchesFiles(r)'
      BY <1>1, <2>1, <2>6, <2>8 DEF ObjectMatchesFiles, entWidth
    <3>3. QED
      BY <3>1, <3>2 DEF SegmentOK, FramesOK, FrameOK
  <2>12. \A c \in segments \ {a} : SegmentOK(c)'
    BY <1>1, <1>2, <2>2, <2>6, Untouched
  <2>13. SealedOK(a)'
    <3>1. \A c \in segments' : c > a => r <= c
      BY <1>0, <1>1, <1>2, <2>1, <2>5 DEF ActiveOK
    <3>2. mem'[a].nextOffset = r /\ r \in segments' /\ a < r
      BY <1>1, <1>2, <2>1, <2>5, <2>7
    <3>3. QED
      BY <3>1, <3>2 DEF SealedOK
  <2>14. \A c \in segments \ {a} : SealedOK(c)'
    <3> SUFFICES ASSUME NEW c \in segments \ {a}
                 PROVE  SealedOK(c)'
      OBVIOUS
    <3>1. SealedOK(c) /\ mem'[c].nextOffset = mem[c].nextOffset
      BY <1>0, <1>2, <2>2, <2>6
    <3>2. mem[c].nextOffset <= a
      BY <1>0, <1>1, <3>1 DEF SealedOK, ActiveOK
    <3>3. mem[c].nextOffset <= r
      BY <1>1, <1>2, <2>1, <3>2
    <3>4. QED
      <4>1. /\ c < mem'[c].nextOffset /\ mem'[c].nextOffset \in segments'
        BY <2>5, <3>1 DEF SealedOK
      <4>2. \A d \in segments' : d > c => mem'[c].nextOffset <= d
        BY <2>5, <3>1, <3>3 DEF SealedOK
      <4>3. QED
        BY <4>1, <4>2 DEF SealedOK
  <2>15. ActiveOK'
    <3>1. active' = m /\ activeSegment' = r /\ r \in segments'
      BY <2>5, <2>6 DEF active
    <3>2. \A c \in segments' : c <= r
      BY <1>0, <1>1, <1>2, <2>1, <2>5 DEF ActiveOK
    <3>3. ~IsMaxed(active)'
      BY <2>4, <3>1 DEF IsMaxed
    <3>4. QED
      BY <3>1, <3>2, <3>3 DEF ActiveOK
  <2>16. AppendNeverFails'
    BY <2>7 DEF AppendNeverFails, Appended
  <2>17. QED
    BY <1>0, <1>1, <2>5, <2>7, <2>9, <2>10, <2>11, <2>12, <2>13, <2>14, <2>15, <2>16
<1>6. QED
  BY <1>0, <1>1, <1>4, <1>5 DEF Append, SegmentAppendErr, active

-----------------------------------------------------------------------------
(* Theorems *)

\* Every step of the log, and every stuttering step, keeps the invariant.
LEMMA NextInv == Inv /\ [Next]_vars => Inv'
<1> SUFFICES ASSUME Inv, [Next]_vars
             PROVE  Inv'
  OBVIOUS
<1>1. CASE NewLog
  BY <1>1, NewLogInv
<1>2. ASSUME NEW v \in Value, Append(v)
      PROVE  Inv'
  BY <1>2, AppendInv
<1>3. ASSUME NEW off \in Offset, Read(off)
      PROVE  Inv'
  BY <1>3, ReadInv
<1>4. ASSUME NEW b \in Offset, ReadAt(b)
      PROVE  Inv'
  BY <1>4, ReadAtInv
<1>5. ASSUME NEW lowest \in Offset, Truncate(lowest)
      PROVE  Inv'
  BY <1>5, TruncateInv
<1>6. CASE Close
  BY <1>6, CloseInv
<1>7. CASE UNCHANGED vars
  <2>1. AppendNeverFails'
    BY <1>7 DEF Inv, AppendNeverFails, vars
  <2>2. QED
    BY <1>7, <2>1, UnchangedInv DEF vars
<1>8. QED
  BY <1>1, <1>2, <1>3, <1>4, <1>5, <1>6, <1>7 DEF Next

\* Inv holds in every state of a log that is closed before it is opened again:
\* the directory is the slice of segments, each segment's object agrees with
\* its files and the active segment has room.
THEOREM InvInvariant == Spec => []Inv
<1>1. QED
  BY InitInv, NextInv, PTL DEF Spec

\* The files, the segment objects and the offsets keep their types.
THEOREM TypeCorrect == Spec => []TypeOK
<1>1. Inv => TypeOK
  BY DEF Inv
<1>2. QED
  BY <1>1, InvInvariant, PTL

\* (*Log).Append never finds the index of the active segment full: the roll at
\* the end of the previous Append, and the truncation of the index by Close,
\* always leave room for an entry.
THEOREM AppendsSucceed == Spec => []AppendNeverFails
<1>1. Inv => AppendNeverFails
  BY DEF Inv
<1>2. QED
  BY <1>1, InvInvariant, PTL

\* A segment has as many index entries as offsets.
LEMMA EntriesAreOffsets ==
  ASSUME Inv, NEW b \in segments
  PROVE  Entries(b) = mem[b].nextOffset - b
<1>1. /\ b \in Nat /\ mem[b].nextOffset \in Nat
  BY Numbers DEF Inv
<1>2. mem[b].nextOffset >= b /\ mem[b].isize = entWidth * (mem[b].nextOffset - b)
  BY DEF Inv, SegmentOK, ObjectMatchesFiles
<1>3. PICK n \in Nat : n = mem[b].nextOffset - b
  BY <1>1, <1>2
<1>4. (entWidth * n) \div entWidth = n
  BY DEF entWidth
<1>5. QED
  BY <1>2, <1>3, <1>4 DEF Entries

\* The segments of log.go's slice tile the offsets: (*Log).Read, which looks
\* for baseOffset <= off < nextOffset, finds one segment for every offset
\* between the lowest and the highest.
THEOREM SegmentsTileTheLog == Spec => []SegmentsTile
<1>1. ASSUME Inv
      PROVE  SegmentsTile
  <2>1. segments # {} => activeSegment = Max(segments)
    BY <1>1, ActiveIsMax
  <2>2. ASSUME NEW b \in segments
        PROVE  mem[b].nextOffset = b + Entries(b)
    <3>1. b \in Nat /\ mem[b].nextOffset \in Nat
      BY <1>1, Numbers DEF Inv
    <3>2. QED
      BY <1>1, <3>1, EntriesAreOffsets
  <2>3. ASSUME NEW b \in segments, b # activeSegment
        PROVE  /\ b < mem[b].nextOffset
               /\ mem[b].nextOffset = Min({c \in segments : c > b})
    <3> DEFINE S == {c \in segments : c > b}
    <3>1. SealedOK(b) /\ segments \subseteq Nat /\ mem[b].nextOffset \in Nat
      BY <1>1, <2>3, Numbers DEF Inv
    <3>2. mem[b].nextOffset \in S /\ \A c \in S : mem[b].nextOffset <= c
      BY <3>1 DEF SealedOK
    <3>3. \A x \in S : (\A y \in S : x <= y) => x = mem[b].nextOffset
      BY <3>1, <3>2
    <3> HIDE DEF S
    <3>4. Min(S) \in S /\ \A y \in S : Min(S) <= y
      BY <3>2, Zenon DEF Min
    <3>5. Min(S) = mem[b].nextOffset
      BY <3>3, <3>4, Zenon
    <3>6. QED
      BY <3>1, <3>5 DEF S, SealedOK
  <2>4. QED
    BY <2>1, <2>2, <2>3 DEF SegmentsTile
<1>2. QED
  BY <1>1, InvInvariant, PTL

\* (*segment).Read's two hops agree: every entry of an index leads to the frame
\* of the record that carries the offset asked for.
THEOREM IndexAgreesWithStore == Spec => []IndexLeadsToRecord
<1>1. ASSUME Inv
      PROVE  IndexLeadsToRecord
  <2> SUFFICES ASSUME NEW b \in segments, NEW j \in 0 .. Entries(b) - 1
               PROVE  EntryOK(b, j)
    BY DEF IndexLeadsToRecord, EntryOK
  <2>1. Entries(b) = mem[b].nextOffset - b
    BY <1>1, EntriesAreOffsets
  <2>2. SegmentOK(b)
    BY <1>1 DEF Inv
  <2>3. QED
    BY <2>1, <2>2 DEF SegmentOK
<1>2. QED
  BY <1>1, InvInvariant, PTL

\* Decoding a store frame by frame from byte 0, as a Reader does, meets the
\* records of the segment's index and no other, in offset order.
THEOREM ReadersSeeTheLog == Spec => []ReaderStreamIsTheLog
<1>1. ASSUME Inv
      PROVE  ReaderStreamIsTheLog
  <2> SUFFICES ASSUME NEW b \in segments
               PROVE  /\ \A fr \in Frames(b) :
                           /\ \E j \in 0 .. Entries(b) - 1 : file[b].slot[j].pos = fr.pos
                           /\ FrameEnd(fr) \in {mem[b].size} \union {g.pos : g \in Frames(b)}
                      /\ \A fr, g \in Frames(b) :
                           fr.rec.offset < g.rec.offset => FrameEnd(fr) <= g.pos
    BY DEF ReaderStreamIsTheLog
  <2>1. Entries(b) = mem[b].nextOffset - b
    BY <1>1, EntriesAreOffsets
  <2>2. FramesOK(b)
    BY <1>1 DEF Inv, SegmentOK
  <2>3. QED
    BY <2>1, <2>2 DEF FramesOK, FrameOK
<1>2. QED
  BY <1>1, InvInvariant, PTL

\* Whatever the log does with a segment that is no longer active, a flush of a
\* Reader, a Close or a reopening, its frames, entries and range stay.
THEOREM SealedStaySealed == Spec => SealedSegmentsAreFrozen
<1>1. ASSUME Inv, [Next]_vars, NEW b \in segments \intersect segments', b # activeSegment
      PROVE  Kept(b)
  <2>0. TypeOK /\ b \in Offset
    BY <1>1 DEF Inv, TypeOK
  <2>1. CASE NewLog
    BY <1>1, <2>1, Reopened
  <2>2. ASSUME NEW v \in Value, Append(v)
        PROVE  Kept(b)
    BY <1>1, <2>2, AppendKeeps
  <2>3. ASSUME NEW off \in Offset, Read(off)
        PROVE  Kept(b)
    BY <1>1, <2>0, <2>3, ReadKeeps
  <2>4. ASSUME NEW c \in Offset, ReadAt(c)
        PROVE  Kept(b)
    BY <2>0, <2>4, FlushKeeps DEF ReadAt
  <2>5. ASSUME NEW lowest \in Offset, Truncate(lowest)
        PROVE  Kept(b)
    <3>1. TruncateTo(lowest) /\ b \notin Removable(lowest)
      BY <1>1, <2>5 DEF Truncate, TruncateTo
    <3>2. QED
      BY <2>0, <3>1, TruncateKeeps
  <2>6. CASE Close
    BY <2>0, <2>6, CloseKeeps
  <2>7. CASE UNCHANGED vars
    BY <2>7 DEF vars, Kept, Frames
  <2>8. QED
    BY <1>1, <2>1, <2>2, <2>3, <2>4, <2>5, <2>6, <2>7 DEF Next
<1>2. ASSUME Inv, [Next]_vars
      PROVE  [\A b \in segments \intersect segments' : b # activeSegment => Kept(b)]_vars
  BY <1>1, <1>2
<1>3. QED
  BY <1>2, InvInvariant, PTL DEF Spec, SealedSegmentsAreFrozen

-----------------------------------------------------------------------------
(* Refinement: the segmented log is the commit log its callers see *)

\* One segment holds each offset between the lowest and the next: the largest
\* base that is not above the offset.
LEMMA OffsetsAreHeld ==
  ASSUME Inv, segments # {}, NEW off \in Nat, Min(segments) <= off, off < active.nextOffset
  PROVE  off \in Offset /\ Holding(off) # {}
<1>0. /\ segments \subseteq Offset /\ segments \subseteq Nat
      /\ \A c \in segments : mem[c].nextOffset \in Nat
      /\ activeSegment \in segments
  BY Numbers DEF Inv, ActiveOK
<1>1. off \in Offset
  <2>1. mem[activeSegment].nextOffset \in Offset
    BY DEF Inv, TypeOK, ObjectType
  <2>2. QED
    BY <2>1 DEF active, Offset
<1>2. Min(segments) \in segments
  BY <1>0, MinIsSmallest
<1> DEFINE S == {c \in segments : c <= off}
<1>3. S \subseteq Offset /\ S # {}
  BY <1>0, <1>2
<1>4. PICK b \in S : \A c \in S : c <= b
  BY <1>3, LargestExists
<1>5. off < mem[b].nextOffset
  <2>1. CASE b = activeSegment
    BY <2>1 DEF active
  <2>2. CASE b # activeSegment
    <3>1. b < mem[b].nextOffset /\ mem[b].nextOffset \in segments
      BY <2>2 DEF Inv, SealedOK
    <3>2. mem[b].nextOffset \notin S
      BY <1>0, <1>4, <3>1
    <3>3. QED
      BY <1>0, <3>1, <3>2
  <2>3. QED
    BY <2>1, <2>2
<1>6. b \in Holding(off)
  BY <1>4, <1>5 DEF Holding
<1>7. QED
  BY <1>1, <1>6

\* No segment holds an offset outside of that range.
LEMMA HeldAreInRange ==
  ASSUME Inv, NEW off \in Offset, NEW b \in Holding(off)
  PROVE  Min(segments) <= off /\ off < active.nextOffset
<1>0. /\ segments \subseteq Nat /\ off \in Nat
      /\ \A c \in segments : mem[c].nextOffset \in Nat
      /\ activeSegment \in segments /\ b \in segments
      /\ b <= off /\ off < mem[b].nextOffset
  BY Numbers DEF Inv, ActiveOK, Holding
<1>1. Min(segments) \in segments /\ Min(segments) <= b
  BY <1>0, MinIsSmallest
<1>2. off < mem[activeSegment].nextOffset
  <2>1. CASE b = activeSegment
    BY <1>0, <2>1
  <2>2. CASE b # activeSegment
    <3>1. mem[b].nextOffset <= activeSegment
      BY <1>0, <2>2 DEF Inv, SealedOK, ActiveOK
    <3>2. activeSegment <= mem[activeSegment].nextOffset
      BY <1>0 DEF Inv, SegmentOK, ObjectMatchesFiles
    <3>3. /\ mem[b].nextOffset \in Nat /\ activeSegment \in Nat
          /\ mem[activeSegment].nextOffset \in Nat
      BY <1>0
    <3>4. QED
      BY <1>0, <3>1, <3>2, <3>3
  <2>3. QED
    BY <2>1, <2>2
<1>3. Min(segments) <= off
  <2>1. Min(segments) \in Nat /\ b \in Nat
    BY <1>0, <1>1
  <2>2. QED
    BY <1>0, <1>1, <2>1
<1>4. QED
  BY <1>2, <1>3 DEF active

\* The frame a record is read from, and what it says of itself.
FrameAt(b, j) == CHOOSE fr \in Frames(b) : fr.pos = file[b].slot[j].pos

LEMMA FrameOfOffset ==
  ASSUME Inv, NEW off \in Offset, NEW b \in Holding(off)
  PROVE  /\ FrameAt(b, off - b) \in Frames(b)
         /\ FrameAt(b, off - b).pos = file[b].slot[off - b].pos
         /\ FrameAt(b, off - b).rec \in Record
         /\ FrameAt(b, off - b).rec.offset = off
         /\ ValueAt(off) = FrameAt(b, off - b).rec.value
<1>0. /\ b \in segments /\ b \in Nat /\ b \in Offset /\ off \in Nat
      /\ mem[b].nextOffset \in Nat /\ b <= off /\ off < mem[b].nextOffset
  BY Numbers DEF Inv, Holding
<1>1. PICK j \in 0 .. mem[b].nextOffset - b - 1 : j = off - b
  BY <1>0
<1>2. SegmentOK(b)
  BY <1>0 DEF Inv
<1>3. PICK fr \in Frames(b) : fr.pos = file[b].slot[j].pos /\ fr.rec.offset = b + j
  BY <1>2 DEF SegmentOK, EntryOK
<1>4. FrameAt(b, j) \in Frames(b) /\ FrameAt(b, j).pos = file[b].slot[j].pos
  BY <1>3, Zenon DEF FrameAt
<1>5. FrameAt(b, j) = fr
  BY <1>2, <1>3, <1>4 DEF SegmentOK, FramesOK
<1>6. fr.rec \in Record
  <2>1. Frames(b) \subseteq Frame
    BY <1>0 DEF Frames, Inv, TypeOK, FileType, ObjectType
  <2>2. QED
    BY <2>1 DEF Frame
<1>7. Max(Holding(off)) = b
  BY HoldingIsOne
<1>8. ValueAt(off) = FrameAt(b, j).rec.value
  BY <1>1, <1>7 DEF ValueAt, FrameAt
<1>9. QED
  BY <1>0, <1>1, <1>3, <1>4, <1>5, <1>6, <1>8

LEMMA HeldByOne ==
  Inv => \A off \in Offset : \A b \in Holding(off) : Max(Holding(off)) = b
BY HoldingIsOne

LEMMA HeldByOneNext ==
  Inv' => (\A off \in Offset : \A b \in Holding(off) : Max(Holding(off)) = b)'
BY HeldByOne, PTL

\* A value stays the same when its entry and its frame do.
LEMMA ValueSame ==
  ASSUME Inv, Inv', NEW b \in segments, b \in segments', Frames(b) \subseteq Frames(b)',
         NEW off \in Offset, b <= off, off < mem[b].nextOffset, off < mem'[b].nextOffset,
         file'[b].slot[off - b] = file[b].slot[off - b]
  PROVE  ValueAt(off)' = ValueAt(off)
<1>1. b \in Holding(off) /\ b \in Holding(off)'
  BY DEF Holding
<1>2. /\ FrameAt(b, off - b) \in Frames(b)
      /\ FrameAt(b, off - b).pos = file[b].slot[off - b].pos
      /\ ValueAt(off) = FrameAt(b, off - b).rec.value
  BY <1>1, FrameOfOffset
<1>3. PICK fr \in Frames(b)' : fr = FrameAt(b, off - b)
  BY <1>2
<1> DEFINE gr == CHOOSE g \in Frames(b)' : g.pos = file'[b].slot[off - b].pos
<1>4. fr.pos = file'[b].slot[off - b].pos
  BY <1>2, <1>3
<1>5. gr \in Frames(b)' /\ gr.pos = file'[b].slot[off - b].pos
  BY <1>4, Zenon
<1>6. \A g, h \in Frames(b)' : g.pos = h.pos => g = h
  BY DEF Inv, SegmentOK, FramesOK
<1>7. gr = fr
  BY <1>4, <1>5, <1>6, Zenon
<1>8. Max(Holding(off))' = b
  BY <1>1, HeldByOneNext
<1>9. ValueAt(off)' = gr.rec.value
  BY <1>8 DEF ValueAt
<1>10. QED
  BY <1>2, <1>3, <1>7, <1>9

\* The range of the commit log, in terms of the segments.
LEMMA Bars ==
  ASSUME Inv, segments # {}
  PROVE  /\ lowestBar = Min(segments) /\ nextBar = mem[activeSegment].nextOffset
         /\ lowestBar \in segments /\ \A b \in segments : lowestBar <= b
         /\ lowestBar \in Nat /\ nextBar \in Nat /\ nextBar \in Offset
         /\ activeSegment \in segments /\ activeSegment \in Nat
         /\ lowestBar <= activeSegment /\ activeSegment <= nextBar
<1>1. /\ segments \subseteq Nat /\ activeSegment \in segments
      /\ mem[activeSegment].nextOffset \in Nat
      /\ activeSegment <= mem[activeSegment].nextOffset
  BY Numbers DEF Inv, ActiveOK, SegmentOK, ObjectMatchesFiles
<1>2. mem[activeSegment].nextOffset \in Offset
  BY DEF Inv, TypeOK, ObjectType
<1>3. lowestBar = Min(segments) /\ nextBar = mem[activeSegment].nextOffset
  BY DEF lowestBar, nextBar, active
<1>4. Min(segments) \in segments /\ \A b \in segments : Min(segments) <= b
  BY <1>1, MinIsSmallest
<1>5. QED
  BY <1>1, <1>2, <1>3, <1>4

\* Each offset of the range has its segment.
LEMMA RangeIsHeld ==
  ASSUME Inv, segments # {}, NEW off \in lowestBar .. nextBar - 1
  PROVE  /\ off \in Offset
         /\ \E b \in segments : b <= off /\ off < mem[b].nextOffset
<1>1. off \in Nat /\ Min(segments) <= off /\ off < active.nextOffset
  BY Bars DEF active
<1>2. off \in Offset /\ Holding(off) # {}
  BY <1>1, OffsetsAreHeld
<1>3. QED
  BY <1>2 DEF Holding

\* A step that keeps every segment is not visible.
LEMMA KeptIsHidden ==
  ASSUME Inv, Inv', segments # {}, segments' = segments, activeSegment' = activeSegment,
         \A b \in segments : Kept(b)
  PROVE  UNCHANGED <<lowestBar, nextBar, recordsBar>>
<1>1. activeSegment \in segments
  BY DEF Inv, ActiveOK
<1>2. lowestBar' = lowestBar /\ nextBar' = nextBar
  BY <1>1 DEF lowestBar, nextBar, active, Kept
<1>3. ASSUME NEW off \in lowestBar .. nextBar - 1
      PROVE  ValueAt(off)' = ValueAt(off)
  <2>1. PICK b \in segments : b <= off /\ off < mem[b].nextOffset
    BY RangeIsHeld
  <2>2. off \in Offset
    BY RangeIsHeld
  <2>3. Kept(b)
    OBVIOUS
  <2>4. QED
    BY <2>1, <2>2, <2>3, ValueSame DEF Kept
<1>4. recordsBar' = [off \in lowestBar .. nextBar - 1 |-> ValueAt(off)']
  BY <1>2 DEF recordsBar
<1>5. recordsBar' = recordsBar
  BY <1>3, <1>4 DEF recordsBar
<1>6. QED
  BY <1>2, <1>5

LEMMA InitRefines == Init => Abstract!Init
<1> SUFFICES ASSUME Init
             PROVE  Abstract!Init
  OBVIOUS
<1>1. lowestBar = InitialOffset /\ nextBar = InitialOffset
  BY DEF Init, lowestBar, nextBar
<1>2. InitialOffset .. InitialOffset - 1 = {}
  BY DEF Offset
<1>3. recordsBar = [off \in {} |-> ValueAt(off)]
  BY <1>1, <1>2, Zenon DEF recordsBar
<1>4. recordsBar = [o \in {} |-> o]
  BY <1>3
<1>5. QED
  BY <1>1, <1>4 DEF Init, Abstract!Init, NoResponse, Abstract!NoResponse

LEMMA NewLogRefines ==
  ASSUME Inv, Inv', NewLog
  PROVE  UNCHANGED Abstract!vars
<1>1. resp' = resp
  BY DEF NewLog
<1>2. CASE segments # {}
  <2>1. UNCHANGED <<lowestBar, nextBar, recordsBar>>
    BY <1>2, Reopened, KeptIsHidden
  <2>2. QED
    BY <1>1, <2>1 DEF Abstract!vars
<1>3. CASE segments = {}
  <2> DEFINE s == InitialOffset
  <2>1. Opened = {s} /\ s \in Offset /\ s \in Nat
    BY <1>3 DEF Opened, Inv, FilesAreSegments, Offset
  <2>2. Max({s}) = s /\ Min({s}) = s
    <3>1. s >= s /\ s <= s
      BY <2>1
    <3>2. QED
      BY <3>1, Zenon DEF Max, Min
  <2>3. segments' = {s} /\ activeSegment' = s
    BY <2>1, <2>2 DEF NewLog, setup
  <2>4. file[s] = EmptyFile
    BY <1>3, <2>1 DEF Inv, FilesAreSegments
  <2>5. mem'[s].nextOffset = s
    <3>1. mem'[s] = newSegment(s, EmptyFile)
      BY <2>1, <2>4 DEF NewLog, setup
    <3>2. QED
      BY <2>1, <3>1, NewSegmentHasRoom
  <2>6. lowestBar' = s /\ nextBar' = s /\ lowestBar = s /\ nextBar = s
    BY <1>3, <2>2, <2>3, <2>5 DEF lowestBar, nextBar, active
  <2>7. s .. s - 1 = {}
    BY <2>1
  <2>8. recordsBar = [o \in {} |-> ValueAt(o)] /\ recordsBar' = [o \in {} |-> ValueAt(o)']
    <3>1. lowestBar .. nextBar - 1 = {} /\ (lowestBar .. nextBar - 1)' = {}
      BY <2>6, <2>7
    <3>2. QED
      BY <3>1 DEF recordsBar
  <2>9. recordsBar' = recordsBar
    BY <2>8
  <2>10. QED
    BY <1>1, <2>6, <2>9 DEF Abstract!vars
<1>4. QED
  BY <1>2, <1>3

LEMMA CloseRefines ==
  ASSUME Inv, Inv', Close
  PROVE  UNCHANGED Abstract!vars
<1>1. \A b \in segments : Kept(b)
  BY CloseKeeps DEF Inv, TypeOK
<1>2. /\ segments # {} /\ segments' = segments /\ activeSegment' = activeSegment
      /\ resp' = resp
  BY DEF Inv, Close
<1>3. UNCHANGED <<lowestBar, nextBar, recordsBar>>
  BY <1>1, <1>2, KeptIsHidden
<1>4. QED
  BY <1>2, <1>3 DEF Abstract!vars

LEMMA ReadAtRefines ==
  ASSUME Inv, Inv', NEW b \in Offset, ReadAt(b)
  PROVE  UNCHANGED Abstract!vars
<1>1. \A c \in segments : Kept(c)
  BY FlushKeeps DEF Inv, TypeOK, ReadAt
<1>2. /\ segments # {} /\ segments' = segments /\ activeSegment' = activeSegment
      /\ resp' = resp
  BY DEF Inv, ReadAt
<1>3. UNCHANGED <<lowestBar, nextBar, recordsBar>>
  BY <1>1, <1>2, KeptIsHidden
<1>4. QED
  BY <1>2, <1>3 DEF Abstract!vars

\* What (*Log).Read answers is the record of the commit log, or that the offset
\* is out of its range.
LEMMA ReadAnswers ==
  ASSUME Inv, segments # {}, NEW off \in Offset
  PROVE  ReadResponse(off) =
           IF off \in lowestBar .. nextBar - 1
             THEN Abstract!Consumed(off, recordsBar[off]) ELSE OutOfRange(off)
<1>1. CASE Holding(off) = {}
  <2>1. off \notin lowestBar .. nextBar - 1
    BY <1>1, RangeIsHeld DEF Holding
  <2>2. QED
    BY <1>1, <2>1 DEF ReadResponse
<1>2. CASE Holding(off) # {}
  <2>1. PICK b \in Holding(off) : TRUE
    BY <1>2
  <2>2. Max(Holding(off)) = b
    BY HeldByOne
  <2>3. off \in lowestBar .. nextBar - 1
    BY HeldAreInRange, Bars DEF active, Offset
  <2>4. /\ b \in segments /\ b \in Nat /\ off \in Nat /\ mem[b].nextOffset \in Nat
        /\ b <= off /\ off < mem[b].nextOffset
        /\ mem[b] \in ObjectType /\ file[b] \in FileType
        /\ mem[b].isize = entWidth * (mem[b].nextOffset - b)
    BY Numbers DEF Holding, Inv, TypeOK, SegmentOK, ObjectMatchesFiles
  <2>5. PICK j \in Nat : j = off - b
    BY <2>4
  <2>6. IndexRead(file[b], mem[b].isize, j) = [err |-> "nil", ent |-> file[b].slot[j]]
    <3>1. PICK k \in Nat : k = mem[b].nextOffset - b
      BY <2>4
    <3>2. j + 1 <= k
      BY <2>4, <2>5, <3>1
    <3>3. mem[b].isize # 0 /\ ~(mem[b].isize < j * entWidth + entWidth) /\ j # -1
      BY <2>4, <3>1, <3>2 DEF entWidth
    <3>4. QED
      BY <3>3 DEF IndexRead
  <2> DEFINE f == FlushedFile(file[b], mem[b])
             fr == FrameAt(b, j)
  <2>7. f.frames = Frames(b)
    BY <2>4, FlushedType DEF Frames
  <2>8. /\ fr \in Frames(b) /\ fr.pos = file[b].slot[j].pos
        /\ fr.rec \in Record /\ fr.rec.offset = off /\ ValueAt(off) = fr.rec.value
    BY <2>5, FrameOfOffset
  <2>9. StoreRead(f, file[b].slot[j].pos) = [err |-> "nil", rec |-> fr.rec]
    <3>1. \E g \in f.frames : g.pos = file[b].slot[j].pos
      BY <2>7, <2>8
    <3> HIDE DEF f
    <3>2. QED
      BY <2>7, <3>1 DEF StoreRead, FrameAt
  <2>10. SegmentRead(b, file[b], mem[b], off) = [err |-> "nil", rec |-> fr.rec]
    BY <2>5, <2>6, <2>9 DEF SegmentRead
  <2> HIDE DEF fr, f
  <2>11. ReadResponse(off) = [op |-> "Read", off |-> off, err |-> "nil", rec |-> fr.rec]
    BY <1>2, <2>2, <2>10 DEF ReadResponse
  <2>12. fr.rec = [value |-> ValueAt(off), offset |-> off]
    BY <2>8 DEF Record
  <2>13. recordsBar[off] = ValueAt(off)
    BY <2>3 DEF recordsBar
  <2>14. QED
    BY <2>3, <2>11, <2>12, <2>13 DEF Abstract!Consumed
<1>3. QED
  BY <1>1, <1>2

LEMMA ReadRefines ==
  ASSUME Inv, Inv', NEW off \in Offset, Read(off)
  PROVE  Abstract!Read(off)
<1>1. /\ segments # {} /\ segments' = segments /\ activeSegment' = activeSegment
      /\ resp' = ReadResponse(off)
  BY DEF Inv, Read
<1>2. \A b \in segments : Kept(b)
  BY ReadKeeps DEF Inv, TypeOK
<1>3. UNCHANGED <<lowestBar, nextBar, recordsBar>>
  BY <1>1, <1>2, KeptIsHidden
<1>4. QED
  BY <1>1, <1>3, ReadAnswers DEF Abstract!Read, OutOfRange, Abstract!OutOfRange

\* What Append does to the segments: the active one grows by the record, and the
\* new base of a roll lies above all others.
LEMMA AppendGrows ==
  ASSUME Inv, NEW v \in Value, Append(v), NEW a \in Offset, a = activeSegment
  PROVE  /\ file'[a] = AppendedFile(v) /\ mem'[a] = AppendedMem(v)
         /\ segments \subseteq segments'
         /\ \A b \in segments' \ segments : b > a /\ b = activeSegment'
         /\ mem'[activeSegment'].nextOffset = mem[a].nextOffset + 1
<1> USE DEF Inv
<1>1. /\ a \in segments /\ a \in Nat /\ mem[a].nextOffset \in Nat
      /\ a <= mem[a].nextOffset /\ mem[a].nextOffset < MaxOffset
  BY Numbers DEF Append, active, ActiveOK, SegmentOK, ObjectMatchesFiles
<1>2. CASE AppendOnly(v)
  <2>1. /\ file'[a] = AppendedFile(v) /\ mem'[a] = AppendedMem(v)
        /\ segments' = segments /\ activeSegment' = a
    BY <1>2 DEF AppendOnly, TypeOK
  <2>2. QED
    BY <2>1, AppendToActive
<1>3. CASE AppendAndRoll(v)
  <2>1. PICK r \in Offset : r = mem[a].nextOffset + 1
    BY <1>1 DEF Offset
  <2>2. r \in Nat /\ r > a /\ r # a
    BY <1>1, <2>1
  <2>3. r \notin segments
    BY <2>2 DEF ActiveOK, TypeOK, Offset
  <2>4. r \notin stores \union indexes
    BY <2>3 DEF FilesAreSegments
  <2>5. newSegment(r, EmptyFile).nextOffset = r
    BY NewSegmentHasRoom
  <2>6. /\ segments' = segments \union {r} /\ activeSegment' = r
        /\ file' = [file EXCEPT ![a] = AppendedFile(v), ![r] = newIndexFile(EmptyFile)]
        /\ mem' = [mem EXCEPT ![a] = AppendedMem(v), ![r] = newSegment(r, EmptyFile)]
    BY <1>3, <2>1, <2>4 DEF AppendAndRoll, active
  <2>7. /\ file'[a] = AppendedFile(v) /\ mem'[a] = AppendedMem(v)
        /\ mem'[r] = newSegment(r, EmptyFile)
    BY <2>2, <2>6 DEF TypeOK
  <2>8. QED
    BY <2>1, <2>2, <2>5, <2>6, <2>7
<1>4. QED
  BY <1>2, <1>3 DEF Append

LEMMA AppendRefines ==
  ASSUME Inv, Inv', NEW v \in Value, Append(v)
  PROVE  Abstract!Append(v)
<1>0. PICK a \in Offset : a = activeSegment
  BY DEF Inv, TypeOK
<1>1. /\ segments # {} /\ a \in segments /\ a \in Nat
      /\ nextBar = mem[a].nextOffset /\ nextBar \in Nat /\ lowestBar \in Nat
      /\ a <= nextBar /\ nextBar \in Offset
  BY <1>0, Bars DEF Append, Inv
<1>2. /\ file'[a] = AppendedFile(v) /\ mem'[a] = AppendedMem(v)
      /\ segments \subseteq segments'
      /\ \A b \in segments' \ segments : b > a
      /\ mem'[activeSegment'].nextOffset = mem[a].nextOffset + 1
  BY <1>0, AppendGrows
<1>3. PICK fr \in Frames(a)' :
        /\ fr.pos = mem[a].size /\ fr.rec.value = v
        /\ Frames(a)' = Frames(a) \union {fr}
  <2>1. Frames(a)' = Frames(a) \union
                      {[pos |-> mem[a].size, rec |-> NextRecord(mem[a], v)]}
    BY <1>0, <1>2, AppendToActive
  <2>2. QED
    BY <2>1 DEF NextRecord
<1>4. PICK n \in Slot : n = mem[a].nextOffset - a
  BY <1>0, <1>2, AppendToActive
<1>5. /\ file'[a].slot = [file[a].slot EXCEPT ![n] = [off |-> n, pos |-> mem[a].size]]
      /\ mem'[a].nextOffset = mem[a].nextOffset + 1
      /\ resp' = Appended(mem[a].nextOffset)
  BY <1>0, <1>2, <1>4, AppendToActive
<1>6. nextBar' = nextBar + 1
  BY <1>1, <1>2 DEF nextBar, active
<1>7. lowestBar' = lowestBar
  <2>1. /\ segments \subseteq Nat /\ segments' \subseteq Nat
        /\ segments' # {} /\ \A b \in segments : lowestBar <= b
    <3>1. segments' \subseteq Offset
      BY DEF Inv, TypeOK
    <3>2. QED
      BY <1>1, <1>2, <3>1, Numbers, Bars DEF Inv, Offset
  <2>2. Min(segments') \in segments' /\ \A b \in segments' : Min(segments') <= b
    BY <2>1, MinIsSmallest
  <2>3. lowestBar \in segments' /\ lowestBar <= a
    BY <1>0, <1>1, <1>2, Bars
  <2>4. \A b \in segments' : lowestBar <= b
    <3>1. ASSUME NEW b \in segments' \ segments
          PROVE  lowestBar <= b
      <4>1. b > a /\ b \in Nat
        BY <1>2, <2>1, <3>1
      <4>2. QED
        BY <1>1, <2>3, <4>1
    <3>2. QED
      BY <2>1, <3>1
  <2>5. Min(segments') <= lowestBar /\ lowestBar <= Min(segments') /\ Min(segments') \in Nat
    BY <2>1, <2>2, <2>3, <2>4
  <2>6. Min(segments') = lowestBar
    BY <1>1, <2>5
  <2>7. QED
    BY <2>1, <2>6 DEF lowestBar
<1>8. ASSUME NEW off \in lowestBar .. nextBar - 1
      PROVE  ValueAt(off)' = ValueAt(off)
  <2>1. PICK b \in segments : b <= off /\ off < mem[b].nextOffset
    BY <1>1, RangeIsHeld
  <2>2. off \in Offset /\ off \in Nat /\ b \in segments'
    BY <1>1, <1>2, RangeIsHeld DEF Offset
  <2>3. CASE b # a
    <3>1. Kept(b)
      BY <1>0, <2>3, AppendKeeps
    <3>2. QED
      BY <2>1, <2>2, <3>1, ValueSame DEF Kept
  <2>4. CASE b = a
    <3>1. off - a # n /\ off - a \in Slot
      BY <1>1, <1>4, <2>1, <2>2, <2>4 DEF Slot, Slots, entWidth
    <3>2. file'[a].slot[off - a] = file[a].slot[off - a]
      BY <1>5, <3>1 DEF Inv, TypeOK, FileType
    <3>3. off < mem'[a].nextOffset
      BY <1>1, <1>5, <2>1, <2>2, <2>4
    <3>4. QED
      BY <1>3, <2>1, <2>2, <2>4, <3>2, <3>3, ValueSame
  <2>5. QED
    BY <2>3, <2>4
<1>9. ASSUME NEW off \in Offset, off = nextBar
      PROVE  ValueAt(off)' = v
  <2>1. a \in Holding(off)'
    BY <1>1, <1>2, <1>5, <1>9 DEF Holding
  <2>2. Max(Holding(off))' = a
    BY <2>1, HeldByOneNext
  <2> DEFINE gr == CHOOSE g \in Frames(a)' : g.pos = file'[a].slot[n].pos
  <2>3. file'[a].slot[n].pos = fr.pos
    BY <1>3, <1>5 DEF Inv, TypeOK, FileType
  <2>4. gr \in Frames(a)' /\ gr.pos = file'[a].slot[n].pos
    BY <2>3, Zenon
  <2>5. \A g, h \in Frames(a)' : g.pos = h.pos => g = h
    BY <1>1, <1>2 DEF Inv, SegmentOK, FramesOK
  <2>6. gr = fr
    BY <2>3, <2>4, <2>5, Zenon
  <2>7. off - a = n
    BY <1>1, <1>4, <1>9
  <2>8. ValueAt(off)' = gr.rec.value
    BY <2>2, <2>7 DEF ValueAt
  <2>9. QED
    BY <1>3, <2>6, <2>8
<1>10. recordsBar' = [o \in lowestBar .. nextBar |->
                        IF o = nextBar THEN v ELSE recordsBar[o]]
  <2>1. recordsBar' = [o \in lowestBar .. nextBar |-> ValueAt(o)']
    <3>1. (nextBar + 1) - 1 = nextBar
      BY <1>1
    <3>2. (lowestBar .. nextBar - 1)' = lowestBar .. nextBar
      BY <1>6, <1>7, <3>1
    <3>3. QED
      BY <3>2 DEF recordsBar
  <2>2. ASSUME NEW o \in lowestBar .. nextBar
        PROVE  ValueAt(o)' = IF o = nextBar THEN v ELSE recordsBar[o]
    <3>1. CASE o = nextBar
      BY <1>1, <1>9, <3>1
    <3>2. CASE o # nextBar
      <4>1. o \in lowestBar .. nextBar - 1
        BY <1>1, <3>2
      <4>2. QED
        BY <1>8, <3>2, <4>1 DEF recordsBar
    <3>3. QED
      BY <3>1, <3>2
  <2>3. QED
    BY <2>1, <2>2
<1>11. QED
  BY <1>1, <1>5, <1>6, <1>7, <1>10 DEF Abstract!Append, Abstract!Appended, Appended

\* Truncate drops a lower end of the range, no further than it was asked to.
LEMMA TruncateRefines ==
  ASSUME Inv, Inv', NEW asked \in Offset, Truncate(asked)
  PROVE  Abstract!Truncate(asked)
<1> DEFINE gone == Removable(asked)
<1>1. /\ TruncateTo(asked) /\ segments' = segments \ gone
      /\ activeSegment' = activeSegment /\ resp' = Truncated
      /\ asked + 1 < mem[activeSegment].nextOffset
  BY DEF Truncate, TruncateTo, Compacts, active
<1>2. segments # {}
  BY DEF Truncate, Inv
<1>3. /\ lowestBar \in Nat /\ lowestBar \in segments /\ \A b \in segments : lowestBar <= b
      /\ nextBar = mem[activeSegment].nextOffset /\ nextBar \in Nat
      /\ activeSegment \in segments /\ activeSegment \in Nat
      /\ activeSegment <= nextBar
  BY <1>2, Bars
<1>4. /\ asked \in Nat /\ segments \subseteq Nat /\ segments \subseteq Offset
      /\ \A b \in segments : mem[b].nextOffset \in Nat
  BY Numbers DEF Inv
<1>5. activeSegment \in segments'
  BY <1>1, <1>3, <1>4 DEF Removable
<1>6. \A b \in segments' : Kept(b)
  BY <1>1, <1>4, TruncateKeeps
<1>7. nextBar' = nextBar
  <2>1. mem'[activeSegment].nextOffset = mem[activeSegment].nextOffset
    BY <1>5, <1>6 DEF Kept
  <2>2. QED
    BY <1>1, <1>3, <1>5, <2>1 DEF nextBar, active
<1>8. PICK lo \in segments' : lo = lowestBar' /\ \A b \in segments' : lo <= b
  <2>1. segments' \subseteq Nat /\ segments' # {}
    BY <1>1, <1>4, <1>5
  <2>2. Min(segments') \in segments' /\ \A b \in segments' : Min(segments') <= b
    BY <2>1, MinIsSmallest
  <2>3. lowestBar' = Min(segments')
    BY <2>1 DEF lowestBar
  <2>4. QED
    BY <2>2, <2>3
<1>9. lo \in lowestBar .. nextBar
  <2>1. lo \in segments /\ lo \in Nat /\ lo <= activeSegment /\ lowestBar <= lo
    BY <1>1, <1>3, <1>4, <1>5, <1>8
  <2>2. QED
    BY <1>3, <2>1
<1>10. lo <= asked + 1 \/ lo = lowestBar
  <2>1. CASE gone = {}
    <3>1. lowestBar \in segments' /\ lo \in segments
      BY <1>1, <1>3, <1>8, <2>1
    <3>2. lo <= lowestBar /\ lowestBar <= lo
      BY <1>3, <1>8, <3>1
    <3>3. QED
      BY <1>3, <1>4, <3>1, <3>2
  <2>2. CASE gone # {}
    <3>1. gone \subseteq Offset
      BY <1>4 DEF Removable
    <3>2. PICK c \in gone : \A d \in gone : d <= c
      BY <2>2, <3>1, LargestExists
    <3>3. /\ c \in segments /\ c # activeSegment /\ c \in Nat
          /\ mem[c].nextOffset <= asked + 1 /\ mem[c].nextOffset \in Nat
      BY <1>1, <1>4, <1>5 DEF Removable
    <3>4. c < mem[c].nextOffset /\ mem[c].nextOffset \in segments
      BY <3>3 DEF Inv, SealedOK
    <3>5. mem[c].nextOffset \in segments'
      BY <1>1, <3>2, <3>3, <3>4
    <3>6. lo <= mem[c].nextOffset /\ lo \in Nat
      BY <1>1, <1>4, <1>8, <3>5
    <3>7. QED
      BY <1>4, <3>3, <3>6
  <2>3. QED
    BY <2>1, <2>2
<1>11. ASSUME NEW off \in lo .. nextBar - 1
       PROVE  ValueAt(off)' = ValueAt(off)
  <2>1. off \in lowestBar .. nextBar - 1 /\ off \in Nat /\ lo \in Nat
    BY <1>3, <1>9
  <2>2. off \in Offset
    BY <1>2, <2>1, RangeIsHeld
  <2>3. PICK b \in segments : b <= off /\ off < mem[b].nextOffset
    BY <1>2, <2>1, RangeIsHeld
  <2>4. b \in segments'
    <3>1. CASE b = activeSegment
      BY <1>5, <3>1
    <3>2. CASE b # activeSegment
      <4>1. SUFFICES ASSUME b \in gone
                     PROVE  FALSE
        BY <1>1
      <4>2. mem[b].nextOffset <= asked + 1
        BY <4>1 DEF Removable
      <4>3. \A c \in segments : c > b => mem[b].nextOffset <= c
        BY <3>2 DEF Inv, SealedOK
      <4>4. lo \in segments /\ lo <= off /\ b \in Nat /\ mem[b].nextOffset \in Nat
        BY <1>1, <1>4, <1>8, <2>1
      <4>5. lo # b /\ ~(lo > b)
        BY <1>1, <1>8, <2>1, <2>3, <4>1, <4>3, <4>4
      <4>6. lo < b
        BY <2>1, <4>4, <4>5
      <4>7. lo # activeSegment
        BY <1>3, <2>1, <4>4, <4>6 DEF Inv, ActiveOK
      <4>8. mem[lo].nextOffset <= b /\ mem[lo].nextOffset \in Nat
        BY <1>4, <4>4, <4>6, <4>7 DEF Inv, SealedOK
      <4>9. lo \in gone
        BY <1>4, <2>3, <4>2, <4>4, <4>8, b < mem[b].nextOffset DEF Removable
      <4>10. QED
        BY <1>1, <1>8, <4>9
    <3>3. QED
      BY <3>1, <3>2
  <2>5. Kept(b)
    BY <1>6, <2>4
  <2>6. QED
    BY <2>2, <2>3, <2>4, <2>5, ValueSame DEF Kept
<1>12. recordsBar' = [o \in lo .. nextBar - 1 |-> recordsBar[o]]
  <2>1. recordsBar' = [o \in lo .. nextBar - 1 |-> ValueAt(o)']
    BY <1>7, <1>8 DEF recordsBar
  <2>2. ASSUME NEW o \in lo .. nextBar - 1
        PROVE  ValueAt(o)' = recordsBar[o]
    <3>1. o \in lowestBar .. nextBar - 1
      BY <1>3, <1>9
    <3>2. QED
      BY <1>11, <3>1 DEF recordsBar
  <2>3. QED
    BY <2>1, <2>2
<1>13. QED
  BY <1>1, <1>3, <1>7, <1>8, <1>9, <1>10, <1>12
     DEF Abstract!Truncate, Abstract!Truncated, Truncated

LEMMA NextRefines ==
  ASSUME Inv, Inv', [Next]_vars
  PROVE  [Abstract!Next]_(Abstract!vars)
<1>1. CASE NewLog
  BY <1>1, NewLogRefines
<1>2. ASSUME NEW v \in Value, Append(v)
      PROVE  Abstract!Next
  BY <1>2, AppendRefines DEF Abstract!Next
<1>3. ASSUME NEW off \in Offset, Read(off)
      PROVE  Abstract!Next
  BY <1>3, ReadRefines DEF Abstract!Next
<1>4. ASSUME NEW b \in Offset, ReadAt(b)
      PROVE  UNCHANGED Abstract!vars
  BY <1>4, ReadAtRefines
<1>5. ASSUME NEW asked \in Offset, Truncate(asked)
      PROVE  Abstract!Next
  BY <1>5, TruncateRefines DEF Abstract!Next
<1>6. CASE Close
  BY <1>6, CloseRefines
<1>7. CASE UNCHANGED vars
  <2>1. UNCHANGED <<lowestBar, nextBar, recordsBar, resp>>
    BY <1>7 DEF vars, lowestBar, nextBar, recordsBar, active, ValueAt, Holding, Frames
  <2>2. QED
    BY <2>1 DEF Abstract!vars
<1>8. QED
  BY <1>1, <1>2, <1>3, <1>4, <1>5, <1>6, <1>7 DEF Next

\* The segmented log of log.go, with its buffers, rolls, flushes by Readers,
\* truncations, closings and reopenings, is the commit log that server.go's
\* CommitLog interface promises: dense offsets, records that never change and
\* answers that name the record asked for.
THEOREM LogIsACommitLog == Spec => ImplementsCommitLog
<1>1. Inv /\ Inv' /\ [Next]_vars => [Abstract!Next]_(Abstract!vars)
  BY NextRefines
<1>2. QED
  BY <1>1, InitRefines, InvInvariant, PTL DEF Spec, ImplementsCommitLog, Abstract!Spec
=============================================================================
