--------------------------------- MODULE Fsm ---------------------------------
(***************************************************************************)
(* The finite-state machine of internal/log/distributed.go on the files of *)
(* one node: raft gives it committed entries to apply, has it snapshot its *)
(* log and restore it. Apply, Snapshot and Restore run in one goroutine of *)
(* raft, Persist in another, on a Reader of the live log.                  *)
(*                                                                         *)
(*   raft    : "new", "up", "restoring" (in NewRaft), "down" or "failed"   *)
(*   entries : the committed entries by index, the records among them only *)
(*   applied : raft's last applied index                                   *)
(*   snap    : the Persist under way: the index of the snapshot, the       *)
(*             segments left to copy, the last one of all, and the records *)
(*             copied so far                                               *)
(*   saved   : the newest snapshot in raft's snapshot store (retain = 1)   *)
(*                                                                         *)
(* FsmSpec is one life of a node, RecoverSpec what comes after it.         *)
(***************************************************************************)
EXTENDS Log

VARIABLES raft, entries, applied, snap, saved

raftVars == <<raft, entries, applied, snap, saved>>
fsmVars == <<vars, raftVars>>

NoSnapshot == [index |-> -1, todo |-> {}, last |-> 0, recs |-> {}]

FsmInit ==
  /\ Init
  /\ raft = "new" /\ applied = 0
  /\ entries = [i \in {} |-> i]
  /\ snap = NoSnapshot /\ saved = NoSnapshot

\* The records of the first k entries, with the offsets they are to have.
Prefix(k) == {[value |-> entries[i], offset |-> InitialOffset + i - 1] : i \in 1 .. k}

-----------------------------------------------------------------------------
(* NewDistributedLog *)

setupLog == NewLog

\* Raft starts on an empty directory.
NewDistributedLog ==
  /\ raft = "new"
  /\ setupLog
  /\ raft' = "up"
  /\ UNCHANGED <<entries, applied, snap, saved>>

\* The next entry, old or new, is v.
NextEntry(v) ==
  /\ applied < MaxOffset
  /\ applied + 1 \in DOMAIN entries => v = entries[applied + 1]
  /\ entries' = [i \in DOMAIN entries \union {applied + 1} |->
                   IF i = applied + 1 THEN v ELSE entries[i]]

\* Apply of the next entry. What Append returns is the answer to the caller;
\* raft goes on to the next entry after an error too.
Apply(v) ==
  /\ raft = "up"
  /\ NextEntry(v)
  /\ Append(v)
  /\ applied' = applied + 1
  /\ UNCHANGED <<raft, snap, saved>>

ReadRecord(off) == raft = "up" /\ Read(off) /\ UNCHANGED raftVars

\* Snapshot: a Reader over the stores that there are now. Raft asks for one
\* when something was applied since the last, and for one at a time.
Snapshot ==
  /\ raft = "up" /\ snap = NoSnapshot /\ applied > saved.index
  /\ \A b \in segments : mem[b].open
  /\ snap' = [index |-> applied, todo |-> segments, last |-> Max(segments), recs |-> {}]
  /\ UNCHANGED <<vars, raft, entries, applied, saved>>

\* Mutants: the file without the buffer; whatever segments there are by now.
CopiedUnflushed(b) == {fr.rec : fr \in file[b].frames}
LeftNow(b) == {c \in segments : c > b}

\* What io.Copy has of store b when it meets the end of it. Every read has
\* flushed the store, and frames are whole: both are under the store's lock.
Copied(b) == {fr.rec : fr \in Frames(b)}

\* What io.MultiReader has left after the store of b.
Left(b) == snap.todo \ {b}

\* Persist copies the next store. Records are applied meanwhile.
Persist ==
  /\ snap.todo # {}
  /\ LET b == Min(snap.todo)
     IN /\ ReadAt(b)
        /\ snap' = [snap EXCEPT !.recs = @ \union Copied(b), !.todo = Left(b)]
  /\ UNCHANGED <<raft, entries, applied, saved>>

\* sink.Close: the snapshot takes the place of the one before.
PersistClose ==
  /\ snap # NoSnapshot /\ snap.todo = {}
  /\ saved' = snap /\ snap' = NoSnapshot
  /\ UNCHANGED <<vars, raft, entries, applied>>

\* A read or a write failed: sink.Cancel.
PersistCancel ==
  /\ snap # NoSnapshot
  /\ snap' = NoSnapshot
  /\ UNCHANGED <<vars, raft, entries, applied, saved>>

\* Close: raft.Shutdown waits for raft's goroutines, then the log is closed.
CloseDistributedLog ==
  /\ raft = "up" /\ snap = NoSnapshot
  /\ Close
  /\ raft' = "down"
  /\ UNCHANGED <<entries, applied, snap, saved>>

FsmNext ==
  \/ NewDistributedLog
  \/ \E v \in Value : Apply(v)
  \/ \E off \in Offset : ReadRecord(off)
  \/ Snapshot
  \/ Persist
  \/ PersistClose
  \/ PersistCancel
  \/ CloseDistributedLog

FsmSpec == FsmInit /\ [][FsmNext]_fsmVars

-----------------------------------------------------------------------------
(* A node that comes back, and one that is sent a snapshot *)

\* Reset: Remove closes the log and removes its directory; setup then finds no
\* directory to read. The segments stay in l.segments, closed.
Reset ==
  /\ proc = "open"
  /\ \A b \in segments : mem[b].open
  /\ stores' = {} /\ indexes' = {}
  /\ file' = [b \in Offset |-> EmptyFile]
  /\ mem' = [b \in Offset |-> IF b \in segments THEN CloseMem(mem[b]) ELSE mem[b]]
  /\ resp' = [op |-> "Reset", err |-> "ENOENT"]
  /\ UNCHANGED <<segments, activeSegment, proc>>

\* Restore: nothing to do without a record; the first record makes it reset the
\* log, which fails.
Restore(recs) == IF recs = {} THEN UNCHANGED vars ELSE Reset

\* A leader that has compacted its log sends this node its snapshot, with the
\* record v that it has not got yet. Raft puts it in its snapshot store before it
\* calls Restore, keeps its last applied index when that fails, and runs on.
InstallSnapshot(v) ==
  /\ raft = "up" /\ snap = NoSnapshot
  /\ NextEntry(v)
  /\ LET new == [value |-> v, offset |-> InitialOffset + applied]
     IN saved' = [NoSnapshot EXCEPT !.index = applied + 1,
                                    !.recs = Prefix(applied) \union {new}]
  /\ Restore(saved'.recs)
  /\ UNCHANGED <<raft, applied, snap>>

\* NewDistributedLog on what the process has left: raft first restores its
\* snapshot, or begins to apply at its first entry if it has none.
Restart ==
  /\ raft = "down"
  /\ setupLog
  /\ applied' = 0
  /\ raft' = IF saved = NoSnapshot THEN "up" ELSE "restoring"
  /\ UNCHANGED <<entries, snap, saved>>

\* setupRaft returns an error: of a directory, a store or the bootstrapping.
setupRaftFails ==
  /\ raft \in {"new", "down"}
  /\ setupLog
  /\ raft' = "failed"
  /\ UNCHANGED <<entries, applied, snap, saved>>

\* NewRaft returns the error of Restore, and NewDistributedLog with it.
RestoreAtStart ==
  /\ raft = "restoring"
  /\ Restore(saved.recs)
  /\ IF saved.recs = {} THEN raft' = "up" /\ applied' = saved.index
     ELSE raft' = "failed" /\ UNCHANGED applied
  /\ UNCHANGED <<entries, snap, saved>>

\* The process is killed, or touches the unmapped index of a closed segment.
Killed ==
  /\ raft = "up"
  /\ raft' = "down" /\ snap' = NoSnapshot
  /\ proc' = "crashed"
  /\ mem' = [b \in Offset |-> NoSegment]
  /\ segments' = {}
  /\ resp' = NoResponse
  /\ UNCHANGED <<stores, indexes, file, activeSegment, entries, applied, saved>>

RecoverNext ==
  \/ FsmNext
  \/ \E v \in Value : InstallSnapshot(v)
  \/ Restart
  \/ setupRaftFails
  \/ RestoreAtStart
  \/ Killed

RecoverSpec == FsmInit /\ [][RecoverNext]_fsmVars

-----------------------------------------------------------------------------
(* Properties *)

\* A snapshot is a prefix of what was committed that reaches at least to its
\* index: however the copying of the stores interleaves with Apply, reads and
\* rolls, no record is missing from the middle or from the store's buffer.
SnapshotIsPrefix ==
  saved # NoSnapshot =>
    \E k \in saved.index .. applied : saved.recs = Prefix(k)

\* What a snapshot has beyond its index, which raft will apply once more to a
\* node that restores it, is limited to the segment that was active when it was
\* taken: it does not run after the log while the log grows.
SurplusOfOneSegment ==
  \A r \in saved.recs : \A b \in segments : b > saved.last => r.offset < b

\* Restore and Reset, says log.go, make a log anew: on a node that is up the log
\* holds the records of the entries raft has applied to it, no more, no less.
LogIsApplied ==
  raft = "up" => UNION {Copied(b) : b \in {c \in segments : mem[c].open}} = Prefix(applied)

-----------------------------------------------------------------------------
(* Inductive invariant of FsmSpec *)

SnapshotType ==
  [index : Int, todo : SUBSET Offset, last : Offset, recs : SUBSET Record]

\* The log as its callers see it (see Refinement in Log) has the records of the
\* entries applied, from InitialOffset on.
AppliedOK ==
  /\ applied \in Nat
  /\ entries \in [1 .. applied -> Value]
  /\ lowestBar = InitialOffset /\ nextBar = InitialOffset + applied
  /\ \A i \in 1 .. applied : recordsBar[InitialOffset + i - 1] = entries[i]
  /\ raft \in {"new", "up", "down"}
  /\ raft = "up" <=> proc = "open"

\* A Persist under way has copied all records below the first segment left, and
\* the segments left are those up to the one that was active at the Snapshot.
SnapOK ==
  snap # NoSnapshot =>
    /\ snap.index \in 0 .. applied
    /\ snap.last \in segments
    /\ InitialOffset + snap.index <= mem[snap.last].nextOffset
    /\ \/ \E first \in segments :
            /\ first <= snap.last
            /\ snap.todo = {b \in segments : first <= b /\ b <= snap.last}
            /\ snap.recs = Prefix(first - InitialOffset)
       \/ /\ snap.todo = {}
          /\ \E k \in snap.index .. applied : snap.recs = Prefix(k)
    /\ \A r \in snap.recs : \A b \in segments : b > snap.last => r.offset < b

\* What each step of FsmSpec preserves: the log stays a log of Spec and holds
\* what was applied, and the snapshots are prefixes of that.
FsmInv ==
  /\ Inv
  /\ snap \in SnapshotType /\ saved \in SnapshotType
  /\ raft = "new" => snap = NoSnapshot /\ saved = NoSnapshot
  /\ AppliedOK
  /\ SnapOK
  /\ SnapshotIsPrefix
  /\ SurplusOfOneSegment
=============================================================================
