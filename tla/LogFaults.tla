------------------------------ MODULE LogFaults ------------------------------
(***************************************************************************)
(* Log when things go wrong: the process is killed between two calls or in *)
(* the middle of one, or a roll cannot open its files. A kill keeps what   *)
(* is in the files, the mapped index entries among them, and loses the     *)
(* buffers of the stores.                                                  *)
(*                                                                         *)
(*   acked : the records whose Append returned no error, by offset, as     *)
(*           long as nobody asked for them to be removed                   *)
(*   faults : how many kills there were, and other failures                *)
(***************************************************************************)
EXTENDS Log

CONSTANTS
  MaxFaults, \* bound of the model: faults in one behaviour
  MaxBytes   \* bound of the model: bytes a store may have when Append is called

VARIABLES acked, faults

faultVars == <<vars, acked, faults>>

FaultInit == Init /\ acked = [o \in {} |-> o] /\ faults = [kills |-> 0, failures |-> 0]

MayFault == faults.kills + faults.failures < MaxFaults
Fault   == MayFault /\ faults' = [faults EXCEPT !.kills = @ + 1]
Failure == MayFault /\ faults' = [faults EXCEPT !.failures = @ + 1]

Unasked(o) == [p \in DOMAIN acked \ o |-> acked[p]]

-----------------------------------------------------------------------------
(* The calls of Log, and what the caller may rely on after them. *)

AckedAppend(v) ==
  /\ active.size <= MaxBytes
  /\ Append(v)
  /\ acked' = IF resp'.err = "nil"
                THEN [o \in DOMAIN acked \union {resp'.off} |->
                        IF o = resp'.off THEN v ELSE acked[o]]
                ELSE acked
  /\ UNCHANGED faults

AckedTruncate(lowest) ==
  Truncate(lowest) /\ acked' = Unasked(0 .. lowest) /\ UNCHANGED faults

Unfaulted ==
  \/ NewLog /\ UNCHANGED <<acked, faults>>
  \/ \E v \in Value : AckedAppend(v)
  \/ \E off \in Offset : Read(off) /\ UNCHANGED <<acked, faults>>
  \/ \E b \in Offset : ReadAt(b) /\ UNCHANGED <<acked, faults>>
  \/ \E lowest \in Offset : AckedTruncate(lowest)
  \/ Close /\ UNCHANGED <<acked, faults>>

-----------------------------------------------------------------------------
(* Faults *)

\* The objects are gone; the files stay as they are.
Killed ==
  /\ proc' = "crashed"
  /\ mem' = [b \in Offset |-> NoSegment]
  /\ segments' = {}
  /\ resp' = NoResponse
  /\ UNCHANGED <<activeSegment, acked>>

Crash ==
  /\ proc = "open"
  /\ Fault
  /\ Killed
  /\ UNCHANGED <<stores, indexes, file>>

\* How far l.newSegment came: its files as they are left.
\*   "none" nothing, "store" the .store file, "index" an empty .index file too,
\*   "map" the .index file at its full length, not mapped yet.
RollStage == {"none", "store", "index", "map"}

RollLeaves(v, stage) ==
  LET b == active.nextOffset + 1
      made == IF b \in stores \union indexes THEN file[b] ELSE EmptyFile
  IN /\ stores' = stores \union (IF stage = "none" THEN {} ELSE {b})
     /\ indexes' = indexes \union (IF stage \in {"index", "map"} THEN {b} ELSE {})
     /\ file' = [file EXCEPT ![activeSegment] = AppendedFile(v),
                             ![b] = CASE stage = "none" -> @
                                      [] stage = "map" -> newIndexFile(made)
                                      [] OTHER -> made]

\* An Append that is killed once the index entry is written, or in the roll.
CrashInAppend(v, stage) ==
  /\ proc = "open" /\ active.open /\ active.nextOffset < MaxOffset
  /\ SegmentAppendErr(active) = "nil"
  /\ stage # "none" => IsMaxed(AppendedMem(v))
  /\ RollLeaves(v, stage)
  /\ Fault
  /\ Killed

\* An Append whose roll fails (no file descriptor, no space, no map): the
\* record is in the log, the caller gets the error with the offset.
AppendRollFails(v, stage) ==
  /\ proc = "open" /\ active.open /\ active.nextOffset < MaxOffset
  /\ SegmentAppendErr(active) = "nil"
  /\ IsMaxed(AppendedMem(v))
  /\ RollLeaves(v, stage)
  /\ mem' = [mem EXCEPT ![activeSegment] = AppendedMem(v)]
  /\ resp' = [op |-> "Append", off |-> active.nextOffset, err |-> "newSegment"]
  /\ Failure
  /\ UNCHANGED <<segments, activeSegment, proc, acked>>

\* A Truncate that is killed in segment.Remove of at: the segments before it
\* are gone, at is closed and its index removed, its store not yet.
CrashInTruncate(lowest, at) ==
  /\ proc = "open"
  /\ Compacts(lowest)
  /\ at \in Removable(lowest)
  /\ LET before == {b \in Removable(lowest) : b < at}
         closed == FlushedFile(file[at], mem[at])
     IN /\ stores' = stores \ before
        /\ indexes' = indexes \ (before \union {at})
        /\ file' = [b \in Offset |->
                      IF b \in before THEN EmptyFile
                      ELSE IF b = at
                        THEN [EmptyFile EXCEPT !.frames = closed.frames, !.len = closed.len]
                        ELSE file[b]]
  /\ proc' = "crashed"
  /\ mem' = [b \in Offset |-> NoSegment]
  /\ segments' = {}
  /\ resp' = NoResponse
  /\ acked' = Unasked(0 .. lowest)
  /\ Fault
  /\ UNCHANGED activeSegment

\* (*index).Close of a segment that is killed before its store is flushed.
CutFile(f, m) == [f EXCEPT !.ilen = m.isize]

\* A Close that is killed in segment.Close of at: the segments before it are
\* closed, its index is cut to its entries, and its store is flushed or not.
CrashInClose(at, flushed) ==
  /\ proc = "open" /\ \A b \in segments : mem[b].open
  /\ at \in segments
  /\ file' = [b \in Offset |->
                IF b \in segments /\ b <= at
                  THEN IF b = at /\ ~flushed THEN CutFile(file[b], mem[b])
                       ELSE CloseFile(file[b], mem[b])
                  ELSE file[b]]
  /\ Fault
  /\ Killed
  /\ UNCHANGED <<stores, indexes>>

\* A NewLog that is killed in newSegment of at: the segments before it have their
\* files and are mapped, and the files of at are as the stage says.
CrashInNewLog(at, stage) ==
  /\ proc # "open"
  /\ at \in Opened
  /\ LET before == {b \in Opened : b < at}
         mapped == before \union (IF stage = "map" THEN {at} ELSE {})
     IN /\ stores' = stores \union before \union {at}
        /\ indexes' = indexes \union before \union (IF stage = "store" THEN {} ELSE {at})
        /\ file' = [b \in Offset |-> IF b \in mapped THEN newIndexFile(file[b]) ELSE file[b]]
  /\ Fault
  /\ Killed

FaultNext ==
  \/ Unfaulted
  \/ Crash
  \/ \E v \in Value, stage \in RollStage : CrashInAppend(v, stage)
  \/ \E v \in Value, stage \in RollStage : AppendRollFails(v, stage)
  \/ \E lowest, at \in Offset : CrashInTruncate(lowest, at)
  \/ \E at \in Offset, flushed \in BOOLEAN : CrashInClose(at, flushed)
  \/ \E at \in Offset, stage \in RollStage \ {"none"} : CrashInNewLog(at, stage)

FaultSpec == FaultInit /\ [][FaultNext]_faultVars

-----------------------------------------------------------------------------
(* Properties *)

\* Offset o has its entry in an index file.
HasEntry(o) ==
  \E b \in indexes : o - b \in Slot /\ file[b].slot[o - b].off = o - b

\* ... and the entry leads to the record with value v in the store file.
Durable(o, v) ==
  \E b \in stores \intersect indexes :
    /\ o - b \in Slot /\ file[b].slot[o - b].off = o - b
    /\ StoreRead(file[b], file[b].slot[o - b].pos) =
         [err |-> "nil", rec |-> [value |-> v, offset |-> o]]

TruncateStep ==
  \E lowest \in Offset :
    AckedTruncate(lowest) \/ \E at \in Offset : CrashInTruncate(lowest, at)

\* An offset that Append handed out is never handed out a second time,
\* whatever was lost or left behind by kills and half-done truncations, and
\* whichever segment setup then made the active one. (After a failed roll it
\* may be: setup takes the halves of different segments for one.)
AckedOffsetsUnique ==
  /\ faults.failures = 0
  /\ proc = "open" /\ active.open /\ SegmentAppendErr(active) = "nil"
  => active.nextOffset \notin DOMAIN acked

\* The index entry of an acknowledged record is in the mapped file when Append
\* returns, and then outlives kills, failed rolls and reopenings: only a
\* Truncate takes it away, no later Append overwrites it.
AckedEntriesSurvive ==
  [][\A o \in DOMAIN acked' :
       \/ HasEntry(o)'
       \/ o \in DOMAIN acked /\ ~HasEntry(o)
       \/ TruncateStep]_faultVars

\* A record whose frame has left the buffer is safe: its index entry leads to
\* it through kills, failed rolls, reopenings and the Appends that fail on a
\* full index, until a Truncate.
DurableRecordsStay ==
  [][\A o \in DOMAIN acked \intersect DOMAIN acked', v \in Value :
       v = acked[o] /\ Durable(o, v) => Durable(o, v)' \/ TruncateStep]_faultVars

-----------------------------------------------------------------------------
(* The inductive invariant *)

\* As ObjectType and TypeOK, but for the offset after a kill: it may be one past
\* the bound.
FaultObject ==
  [buf : SUBSET Frame, size : Nat, isize : Nat, nextOffset : Nat, open : BOOLEAN]

FaultTypeOK ==
  /\ stores \subseteq Offset /\ indexes \subseteq Offset /\ segments \subseteq Offset
  /\ file \in [Offset -> FileType] /\ mem \in [Offset -> FaultObject]
  /\ activeSegment \in Offset /\ proc \in {"open", "closed", "crashed"}
  /\ DOMAIN acked \subseteq Offset /\ faults \in [kills : Nat, failures : Nat]

\* An index of this size has k entries, and nothing behind them.
Counts(f, size, k) ==
  /\ k \in 0 .. Slots /\ size = entWidth * k
  /\ \A j \in Slot : IF j < k THEN f.slot[j].off = j ELSE f.slot[j] = ZeroEntry

\* No two frames of a store begin at one position, and the length of an index is
\* the one it is mapped with or says how many entries it has.
FileOK(f) ==
  /\ \A fr \in f.frames : fr.pos < f.len
  /\ \A fr, g \in f.frames : fr.pos = g.pos => fr = g
  /\ f.ilen = MaxIndexBytes \/ \E k \in 0 .. Slots : Counts(f, f.ilen, k)

\* The object of an open segment: what is in the buffer follows the file, and
\* isize and nextOffset both count the entries, unless a kill has left the index
\* at its full length.
ObjectOK(b, f, m) ==
  /\ m.open /\ f.ilen = MaxIndexBytes /\ m.nextOffset >= b
  /\ f.len <= m.size
  /\ \A fr \in m.buf : f.len <= fr.pos /\ fr.pos < m.size
  /\ \A fr, g \in m.buf : fr.pos = g.pos => fr = g
  /\ m.isize = MaxIndexBytes \/ Counts(f, m.isize, m.nextOffset - b)

SegmentsOK ==
  /\ \A b \in Offset : FileOK(file[b])
  /\ proc = "open" => \A b \in segments : ObjectOK(b, file[b], mem[b])

\* From the active segment on, a store whose index counts as empty is empty.
FreshOK ==
  \A b \in Offset : b >= activeSegment =>
    /\ file[b].ilen = 0 => file[b].frames = {}
    /\ proc = "open" /\ b \in segments /\ mem[b].isize = 0 => Frames(b) = {}

\* The directory before the log has been opened for the first time: empty, or
\* with the one file that a kill has left in it.
Unopened ==
  /\ activeSegment = InitialOffset /\ proc # "open"
  /\ stores \subseteq {InitialOffset} /\ indexes = {}

\* The active segment has both files, from its first opening on.
DirectoryOK ==
  /\ Unopened \/ activeSegment \in stores \intersect indexes
  /\ proc = "open" => /\ activeSegment \in segments
                      /\ segments \subseteq stores \intersect indexes
                      /\ \A b \in segments : b <= activeSegment

\* What kills alone leave behind: one store at most without its index, every
\* file below it in its pair, so that setup finds it; and no entry of a segment
\* that reaches into the next.
PairsOK ==
  /\ indexes \subseteq stores
  /\ \A h \in stores \ indexes, c \in stores : c < h => c \in indexes
  /\ \A b, c \in stores : b < c => \A j \in Slot : b + file[b].slot[j].off < c
  /\ proc # "crashed" => stores = indexes /\ \A b \in stores : b <= activeSegment
  /\ proc = "open" => /\ segments = stores
                      /\ \A b, c \in segments : b < c => mem[b].nextOffset <= c

\* The acknowledged offsets are below the next one, as long as there is one.
AckedBelow ==
  \A o \in DOMAIN acked :
    /\ \A b \in stores : b > activeSegment => o < b
    /\ IF proc = "open" THEN ~isMaxed(active.isize) => o < active.nextOffset
       ELSE ~isMaxed(file[activeSegment].ilen) =>
              o < nextOffsetOf(activeSegment, file[activeSegment])

\* What each step of FaultSpec preserves.
FaultInv ==
  /\ FaultTypeOK /\ SegmentsOK /\ FreshOK /\ DirectoryOK
  /\ faults.failures = 0 => PairsOK /\ AckedBelow
=============================================================================
