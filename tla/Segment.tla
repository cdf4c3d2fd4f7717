------------------------------- MODULE Segment -------------------------------
(***************************************************************************)
(* internal/log/store.go, index.go and segment.go as operators.            *)
(*                                                                         *)
(* A segment is two files and an object that has them open:                *)
(*                                                                         *)
(*   a FILE pair  [frames, len, slot, ilen]                                *)
(*     frames : what the .store file holds, a set of length-prefixed       *)
(*              frames: the byte position, and the record in it            *)
(*     len    : length of the .store file in bytes                         *)
(*     slot   : the fixed-width entries of the .index file; the file is    *)
(*              mapped shared, so a write to the map is a write to it      *)
(*     ilen   : length of the .index file in bytes                         *)
(*   an OBJECT    [buf, size, isize, nextOffset, open]                     *)
(*     buf        : frames still in the store's bufio.Writer               *)
(*     size       : store.size, bytes in the file and in the buffer        *)
(*     isize      : index.size, bytes of index entries                     *)
(*     nextOffset : segment.nextOffset                                     *)
(*     open       : the files are open and the index is mapped             *)
(*                                                                         *)
(* baseOffset is the name of the files, and the key of both in module Log. *)
(* Frames are kept whole: the buffer (4096 bytes) is taken not to overflow *)
(* between two flushes, as with MaxStoreBytes at its default of 1024.      *)
(***************************************************************************)
EXTENDS Integers

CONSTANTS
  Value,          \* what a client puts in a record
  MaxOffset,      \* bound of the model: offsets are 0 .. MaxOffset
  Width,          \* Width[v][o]: bytes of a marshalled record, value v at offset o
  MaxStoreBytes,  \* Config.Segment.MaxStoreBytes
  MaxIndexBytes   \* Config.Segment.MaxIndexBytes

recordLenBytes == 8
entWidth == 12

Offset == 0 .. MaxOffset

\* NewLog replaces a zero limit by 1024; an index of less than one entry could
\* never take a record.
ASSUME SegmentAssumption ==
  /\ MaxOffset \in Nat
  /\ Width \in [Value -> [Offset -> Nat]]
  /\ MaxStoreBytes \in Nat \ {0}
  /\ MaxIndexBytes \in Nat
  /\ MaxIndexBytes >= entWidth

Record == [value : Value, offset : Offset]
Frame  == [pos : Nat, rec : Record]
Entry  == [off : Offset, pos : Nat]
Slots  == MaxIndexBytes \div entWidth
Slot   == 0 .. Slots - 1

ZeroEntry == [off |-> 0, pos |-> 0]

FileType ==
  [frames : SUBSET Frame, len : Nat, slot : [Slot -> Entry], ilen : Nat]
ObjectType ==
  [buf : SUBSET Frame, size : Nat, isize : Nat, nextOffset : Offset, open : BOOLEAN]

\* What an open with O_CREATE makes of a file that is not there.
EmptyFile ==
  [frames |-> {}, len |-> 0, slot |-> [i \in Slot |-> ZeroEntry], ilen |-> 0]

NoSegment ==
  [buf |-> {}, size |-> 0, isize |-> 0, nextOffset |-> 0, open |-> FALSE]

-----------------------------------------------------------------------------
(* store *)

\* newStore: an empty buffer, and the size the file has.
newStore(f) == [buf |-> {}, size |-> f.len]

\* A mutant: the length prefix is not counted.
StoreAppendShort(m, rec) ==
  [m EXCEPT !.buf  = @ \union {[pos |-> m.size, rec |-> rec]},
            !.size = @ + Width[rec.value][rec.offset]]

\* (*store).Append: the frame goes to the buffer, at the position where the
\* file and the buffer end.
StoreAppend(m, rec) ==
  [m EXCEPT !.buf  = @ \union {[pos |-> m.size, rec |-> rec]},
            !.size = @ + recordLenBytes + Width[rec.value][rec.offset]]

\* s.buf.Flush(), which Read, ReadAt and Close call first.
FlushedFile(f, m) == [f EXCEPT !.frames = @ \union m.buf, !.len = m.size]
FlushedMem(m) == [m EXCEPT !.buf = {}]

\* (*store).Read on a flushed file: the frame that starts at pos, or an error
\* at the end of the file. A position inside another frame reads its bytes as
\* a length: the outcome is garbage.
StoreRead(f, pos) ==
  IF \E fr \in f.frames : fr.pos = pos
    THEN [err |-> "nil", rec |-> (CHOOSE fr \in f.frames : fr.pos = pos).rec]
  ELSE IF pos >= f.len THEN [err |-> "EOF"]
  ELSE [err |-> "garbage"]

-----------------------------------------------------------------------------
(* index *)

\* newIndex: the size is the length the file has before it is grown to
\* MaxIndexBytes for the map.
newIndexSize(f) == f.ilen

\* A mutant: the file is opened with O_TRUNC.
newIndexFileCleared(f) ==
  [f EXCEPT !.ilen = MaxIndexBytes, !.slot = [i \in Slot |-> ZeroEntry]]

newIndexFile(f) == [f EXCEPT !.ilen = MaxIndexBytes]

\* (*index).Read(in), with in = -1 for the last entry.
IndexRead(f, isize, in) ==
  LET out == IF in = -1 THEN isize \div entWidth - 1 ELSE in
  IN IF isize = 0 \/ isize < out * entWidth + entWidth
       THEN [err |-> "EOF"]
       ELSE [err |-> "nil", ent |-> f.slot[out]]

\* (*index).isMaxed
isMaxed(isize) == MaxIndexBytes < isize + entWidth

-----------------------------------------------------------------------------
(* segment *)

\* A mutant: the last entry is taken for the next free offset.
nextOffsetShort(b, f) ==
  LET last == IndexRead(f, newIndexSize(f), -1)
  IN IF last.err = "EOF" THEN b ELSE b + last.ent.off

\* newSegment: nextOffset follows the last index entry.
nextOffsetOf(b, f) ==
  LET last == IndexRead(f, newIndexSize(f), -1)
  IN IF last.err = "EOF" THEN b ELSE b + last.ent.off + 1

newSegment(b, f) ==
  [buf        |-> newStore(f).buf,
   size       |-> newStore(f).size,
   isize      |-> newIndexSize(f),
   nextOffset |-> nextOffsetOf(b, f),
   open       |-> TRUE]

\* The record (*segment).Append marshals: it carries its own offset.
NextRecord(m, v) == [value |-> v, offset |-> m.nextOffset]

\* (*segment).Append writes the store, then the index. When the index is full
\* the frame stays in the store and the call fails with io.EOF.
SegmentAppendErr(m) == IF isMaxed(m.isize) THEN "EOF" ELSE "nil"

\* A mutant: the position of the record's bytes instead of its frame's.
SegmentAppendFilePastPrefix(b, f, m) ==
  IF isMaxed(m.isize) THEN f
  ELSE [f EXCEPT !.slot[m.isize \div entWidth] =
                   [off |-> m.nextOffset - b, pos |-> m.size + recordLenBytes]]

SegmentAppendFile(b, f, m) ==
  IF isMaxed(m.isize) THEN f
  ELSE [f EXCEPT !.slot[m.isize \div entWidth] =
                   [off |-> m.nextOffset - b, pos |-> m.size]]

SegmentAppendMem(m, v) ==
  LET stored == StoreAppend(m, NextRecord(m, v))
  IN IF isMaxed(m.isize) THEN stored
     ELSE [stored EXCEPT !.isize = @ + entWidth, !.nextOffset = @ + 1]

\* (*segment).Read: the index entry of the offset, then the frame it points to.
\* The store is flushed only when there is an entry.
SegmentRead(b, f, m, off) ==
  LET ent == IndexRead(f, m.isize, off - b)
  IN IF ent.err = "EOF" THEN ent ELSE StoreRead(FlushedFile(f, m), ent.ent.pos)

\* (*segment).IsMaxed
IsMaxed(m) ==
  \/ m.size >= MaxStoreBytes
  \/ m.isize >= MaxIndexBytes
  \/ isMaxed(m.isize)

\* Mutants: Close leaves the index file at its mapped length; Close does not
\* flush the store.
CloseFileUntruncated(f, m) == FlushedFile(f, m)
CloseFileUnflushed(f, m) == [f EXCEPT !.ilen = m.isize]

\* (*segment).Close: the index is synced, unmapped and cut to the entries it
\* has, the store is flushed.
CloseFile(f, m) == [FlushedFile(f, m) EXCEPT !.ilen = m.isize]
CloseMem(m) == [FlushedMem(m) EXCEPT !.open = FALSE]
=============================================================================
