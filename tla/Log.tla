--------------------------------- MODULE Log ---------------------------------
(***************************************************************************)
(* internal/log/log.go: a log is a directory of segments, the last of them *)
(* active. Every exported method holds l.mu for its whole body, so each is *)
(* one action; only the reads of a Reader (ReadAt) run outside l.mu, under *)
(* the lock of one store.                                                  *)
(*                                                                         *)
(*   stores, indexes : the listing of Dir, the base offsets that have a    *)
(*                     .store and a .index file                            *)
(*   file            : file[b], what the two files of base offset b hold   *)
(*   mem             : mem[b], the segment object with base offset b       *)
(*   segments        : l.segments as the set of its base offsets; the      *)
(*                     slice is ascending, since setup sorts the names and *)
(*                     newSegment is only ever called with off + 1         *)
(*   activeSegment   : l.activeSegment, by its base offset                 *)
(*   proc            : whether the process has the log open                *)
(*   resp            : what the last call returned                         *)
(*                                                                         *)
(* Spec is a log whose owner closes it before it opens it again and whose  *)
(* Truncate comes from raft's compaction. LogFaults adds the rest.         *)
(***************************************************************************)
EXTENDS Segment, FiniteSetsExt

CONSTANT InitialOffset   \* Config.Segment.InitialOffset

ASSUME LogAssumption == InitialOffset \in Offset

VARIABLES stores, indexes, file, mem, segments, activeSegment, proc, resp

vars == <<stores, indexes, file, mem, segments, activeSegment, proc, resp>>

NoResponse    == [op |-> "none"]
Appended(off) == [op |-> "Append", off |-> off, err |-> "nil"]
AppendFailed(err) == [op |-> "Append", err |-> err]
Truncated     == [op |-> "Truncate", err |-> "nil"]
OutOfRange(off) ==
  [op |-> "Read", off |-> off, err |-> "ErrOffsetOutOfRange"]

active == mem[activeSegment]

\* highestOffset and LowestOffset. The highest of an empty log that starts at
\* 0 is 0 as well.
HighestOffset ==
  LET off == mem[Max(segments)].nextOffset IN IF off = 0 THEN 0 ELSE off - 1
LowestOffset == Min(segments)

-----------------------------------------------------------------------------
Init ==
  /\ stores = {} /\ indexes = {}
  /\ file = [b \in Offset |-> EmptyFile]
  /\ mem = [b \in Offset |-> NoSegment]
  /\ segments = {}
  /\ activeSegment = InitialOffset
  /\ proc = "closed"
  /\ resp = NoResponse

\* The bases setup opens. It sorts the base offsets of all files and steps
\* over every second one as the duplicate of the one before.
FilesBelow(b) ==
  Cardinality({c \in stores : c < b}) + Cardinality({c \in indexes : c < b})

BasesFound ==
  {b \in stores \union indexes :
     b \in stores \intersect indexes \/ FilesBelow(b) % 2 = 0}

\* setup, which NewLog runs on a new Log: a segment for each base found, or a
\* first one at InitialOffset. The last one opened is active.
Opened == IF stores \union indexes = {} THEN {InitialOffset} ELSE BasesFound

setup ==
  /\ stores' = stores \union Opened
  /\ indexes' = indexes \union Opened
  /\ file' = [b \in Offset |-> IF b \in Opened THEN newIndexFile(file[b]) ELSE file[b]]
  /\ mem' = [b \in Offset |-> IF b \in Opened THEN newSegment(b, file[b]) ELSE NoSegment]
  /\ segments' = Opened
  /\ activeSegment' = Max(Opened)

NewLog ==
  /\ proc # "open"
  /\ setup
  /\ proc' = "open"
  /\ UNCHANGED resp

\* The append to the active segment, without the roll.
AppendedFile(v) == SegmentAppendFile(activeSegment, file[activeSegment], active)
AppendedMem(v)  == SegmentAppendMem(active, v)

AppendOnly(v) ==
  /\ file' = [file EXCEPT ![activeSegment] = AppendedFile(v)]
  /\ mem' = [mem EXCEPT ![activeSegment] = AppendedMem(v)]
  /\ UNCHANGED <<stores, indexes, segments, activeSegment>>

\* l.newSegment(off + 1) after the append, in a directory that has no file of
\* that base.
AppendAndRoll(v) ==
  LET b == active.nextOffset + 1
      fresh == IF b \in stores \union indexes THEN file[b] ELSE EmptyFile
  IN /\ stores' = stores \union {b}
     /\ indexes' = indexes \union {b}
     /\ file' = [file EXCEPT ![activeSegment] = AppendedFile(v),
                             ![b] = newIndexFile(fresh)]
     /\ mem' = [mem EXCEPT ![activeSegment] = AppendedMem(v),
                           ![b] = newSegment(b, fresh)]
     /\ segments' = segments \union {b}
     /\ activeSegment' = b

\* Append: a full index fails the call before the roll is considered.
Append(v) ==
  /\ proc = "open"
  /\ active.open
  /\ active.nextOffset < MaxOffset
  /\ IF SegmentAppendErr(active) = "nil" /\ IsMaxed(AppendedMem(v))
       THEN AppendAndRoll(v) ELSE AppendOnly(v)
  /\ resp' = IF SegmentAppendErr(active) = "nil"
               THEN Appended(active.nextOffset) ELSE AppendFailed("EOF")
  /\ UNCHANGED proc

\* The segment Read takes: the last one whose range has the offset.
Holding(off) == {b \in segments : b <= off /\ off < mem[b].nextOffset}

ReadResponse(off) ==
  IF Holding(off) = {} THEN OutOfRange(off)
  ELSE LET b == Max(Holding(off))
           r == SegmentRead(b, file[b], mem[b], off)
       IN IF r.err = "nil"
            THEN [op |-> "Read", off |-> off, err |-> "nil", rec |-> r.rec]
            ELSE [op |-> "Read", off |-> off, err |-> r.err]

\* store.Read flushes the buffer, but only once the index gave an entry.
Flushed(b) ==
  /\ file' = [file EXCEPT ![b] = FlushedFile(@, mem[b])]
  /\ mem' = [mem EXCEPT ![b] = FlushedMem(@)]

Read(off) ==
  /\ proc = "open"
  /\ \A b \in segments : mem[b].open
  /\ IF Holding(off) = {} THEN UNCHANGED <<file, mem>>
     ELSE LET b == Max(Holding(off))
          IN IF IndexRead(file[b], mem[b].isize, off - b).err = "nil"
               THEN Flushed(b) ELSE UNCHANGED <<file, mem>>
  /\ resp' = ReadResponse(off)
  /\ UNCHANGED <<stores, indexes, segments, activeSegment, proc>>

\* A read of a Reader, outside l.mu: it flushes the store it has reached. What
\* it returns is the store's frames, up to its end.
ReadAt(b) ==
  /\ proc = "open"
  /\ b \in segments
  /\ mem[b].open
  /\ Flushed(b)
  /\ UNCHANGED <<stores, indexes, segments, activeSegment, proc, resp>>

\* A mutant: one record too far.
RemovableTooFar(lowest) == {b \in segments : mem[b].nextOffset <= lowest + 2}

\* Truncate closes and removes every segment that ends at lowest or before.
Removable(lowest) == {b \in segments : mem[b].nextOffset <= lowest + 1}

TruncateTo(lowest) ==
  LET gone == Removable(lowest)
  IN /\ stores' = stores \ gone
     /\ indexes' = indexes \ gone
     /\ file' = [b \in Offset |-> IF b \in gone THEN EmptyFile ELSE file[b]]
     /\ mem' = [b \in Offset |-> IF b \in gone THEN CloseMem(mem[b]) ELSE mem[b]]
     /\ segments' = segments \ gone
     /\ UNCHANGED activeSegment

\* Raft's compaction leaves its trailing logs alone (TrailingLogs > 0), so it
\* never asks for the last record of the log.
Compacts(lowest) == lowest + 1 < active.nextOffset

Truncate(lowest) ==
  /\ proc = "open"
  /\ Compacts(lowest)
  /\ TruncateTo(lowest)
  /\ resp' = Truncated
  /\ UNCHANGED proc

Close ==
  /\ proc = "open"
  /\ \A b \in segments : mem[b].open
  /\ file' = [b \in Offset |-> IF b \in segments THEN CloseFile(file[b], mem[b])
                                                 ELSE file[b]]
  /\ mem' = [b \in Offset |-> IF b \in segments THEN CloseMem(mem[b]) ELSE mem[b]]
  /\ proc' = "closed"
  /\ UNCHANGED <<stores, indexes, segments, activeSegment, resp>>

Next ==
  \/ NewLog
  \/ \E v \in Value : Append(v)
  \/ \E off \in Offset : Read(off)
  \/ \E b \in Offset : ReadAt(b)
  \/ \E lowest \in Offset : Truncate(lowest)
  \/ Close

Spec == Init /\ [][Next]_vars

-----------------------------------------------------------------------------
(* Properties *)

TypeOK ==
  /\ stores \subseteq Offset /\ indexes \subseteq Offset
  /\ file \in [Offset -> FileType]
  /\ mem \in [Offset -> ObjectType]
  /\ segments \subseteq Offset
  /\ activeSegment \in Offset
  /\ proc \in {"open", "closed", "crashed"}

\* The frames of segment b, in the file or still in the buffer, in the order
\* of their positions the whole of what a Reader returns for b.
Frames(b) == file[b].frames \union mem[b].buf

Entries(b) == mem[b].isize \div entWidth

\* The segments tile the log: each sealed segment ends where the next one
\* begins, and only the active segment can be empty.
SegmentsTile ==
  /\ segments # {} => activeSegment = Max(segments)
  /\ \A b \in segments :
       /\ mem[b].nextOffset = b + Entries(b)
       /\ b # activeSegment =>
            /\ b < mem[b].nextOffset
            /\ mem[b].nextOffset = Min({c \in segments : c > b})

\* The index and the store agree: entry j of segment b leads to the frame of
\* the record that says of itself that its offset is b + j.
IndexLeadsToRecord ==
  \A b \in segments : \A j \in 0 .. Entries(b) - 1 :
    /\ file[b].slot[j].off = j
    /\ \E fr \in Frames(b) :
         fr.pos = file[b].slot[j].pos /\ fr.rec.offset = b + j

\* The byte after a frame, where the next one begins.
FrameEnd(fr) == fr.pos + recordLenBytes + Width[fr.rec.value][fr.rec.offset]

\* A Reader's stream is the log: every frame of a store has its index entry
\* and no two frames overlap, so that decoding length by length from byte 0
\* meets exactly the indexed records, in offset order, up to the end.
ReaderStreamIsTheLog ==
  \A b \in segments :
    /\ \A fr \in Frames(b) :
         /\ \E j \in 0 .. Entries(b) - 1 : file[b].slot[j].pos = fr.pos
         /\ FrameEnd(fr) \in {mem[b].size} \union {g.pos : g \in Frames(b)}
    /\ \A fr, g \in Frames(b) :
         fr.rec.offset < g.rec.offset => FrameEnd(fr) <= g.pos

\* The roll at the end of an Append leaves an active segment with room for one
\* more index entry, so that no Append fails half-way with a frame stored and
\* no entry for it.
AppendNeverFails == resp.op = "Append" => resp.err = "nil"

\* The step leaves the frames, the entries and the range of segment b alone.
Kept(b) ==
  /\ Frames(b)' = Frames(b)
  /\ file'[b].slot = file[b].slot
  /\ mem'[b].size = mem[b].size
  /\ mem'[b].nextOffset = mem[b].nextOffset

\* A segment that is no longer active is sealed: until Truncate removes it no
\* call, Close or reopen changes a frame, an entry or the range of it.
SealedSegmentsAreFrozen ==
  [][\A b \in segments \intersect segments' : b # activeSegment => Kept(b)]_vars

-----------------------------------------------------------------------------
(* Inductive invariant *)

\* The directory is the slice of segments, and what is not there is empty.
FilesAreSegments ==
  /\ stores = segments /\ indexes = segments
  /\ \A b \in Offset \ segments : file[b] = EmptyFile

\* What the object of segment b says of its two files, open or closed.
ObjectMatchesFiles(b) ==
  /\ mem[b].nextOffset >= b
  /\ mem[b].isize = entWidth * (mem[b].nextOffset - b)
  /\ mem[b].isize <= MaxIndexBytes
  /\ proc = "open" => mem[b].open /\ file[b].ilen = MaxIndexBytes
  /\ proc = "closed" => /\ file[b].ilen = mem[b].isize
                        /\ file[b].len = mem[b].size
                        /\ mem[b].buf = {}

\* Entry j of segment b, and the one frame at its position.
EntryOK(b, j) ==
  /\ file[b].slot[j].off = j
  /\ \E fr \in Frames(b) :
       fr.pos = file[b].slot[j].pos /\ fr.rec.offset = b + j

\* Each frame of segment b has its entry and an offset of the segment's range,
\* and ends where another frame or the room for the next one begins.
FrameOK(b, fr) ==
  /\ \E j \in 0 .. mem[b].nextOffset - b - 1 : file[b].slot[j].pos = fr.pos
  /\ fr.rec.offset < mem[b].nextOffset
  /\ FrameEnd(fr) <= mem[b].size
  /\ FrameEnd(fr) \in {mem[b].size} \union {g.pos : g \in Frames(b)}

FramesOK(b) ==
  /\ \A fr \in Frames(b) : FrameOK(b, fr)
  /\ \A fr, g \in Frames(b) :
       /\ fr.pos = g.pos => fr = g
       /\ fr.rec.offset < g.rec.offset => FrameEnd(fr) <= g.pos

SegmentOK(b) ==
  /\ ObjectMatchesFiles(b)
  /\ FramesOK(b)
  /\ \A j \in 0 .. mem[b].nextOffset - b - 1 : EntryOK(b, j)

\* Where segment b ends, the next one begins.
SealedOK(b) ==
  /\ b < mem[b].nextOffset
  /\ mem[b].nextOffset \in segments
  /\ \A c \in segments : c > b => mem[b].nextOffset <= c

ActiveOK ==
  /\ activeSegment \in segments
  /\ \A b \in segments : b <= activeSegment
  /\ ~IsMaxed(active)

\* What each step of Spec preserves, and the properties above rest on.
Inv ==
  /\ TypeOK
  /\ proc \in {"open", "closed"}
  /\ proc = "open" => segments # {}
  /\ segments # {} => ActiveOK
  /\ FilesAreSegments
  /\ \A b \in segments : SegmentOK(b)
  /\ \A b \in segments \ {activeSegment} : SealedOK(b)
  /\ AppendNeverFails

-----------------------------------------------------------------------------
(* Refinement *)

ValueAt(off) ==
  LET b == Max(Holding(off))
  IN (CHOOSE fr \in Frames(b) : fr.pos = file[b].slot[off - b].pos).rec.value

lowestBar == IF segments = {} THEN InitialOffset ELSE Min(segments)
nextBar == IF segments = {} THEN InitialOffset ELSE active.nextOffset
recordsBar == [off \in lowestBar .. nextBar - 1 |-> ValueAt(off)]

Abstract == INSTANCE CommitLog
  WITH lowest <- lowestBar, next <- nextBar, records <- recordsBar

\* The segmented log, with its buffers, files, rolls and reopenings, is the
\* commit log its callers see.
ImplementsCommitLog == Abstract!Spec
=============================================================================
