------------------------------ MODULE LogStore ------------------------------
(***************************************************************************)
(* The logStore of internal/log/distributed.go: a Log that starts at index *)
(* 1, given to raft as the place for its own entries. Raft's side of it    *)
(* (github.com/hashicorp/raft, external) is what raft believes its log     *)
(* holds, and who calls the store:                                         *)
(*                                                                         *)
(*   entries  : the entries raft has numbered, by index, those of the      *)
(*              StoreLogs call under way included                          *)
(*   last     : raft's last log index: StoreLogs has returned up to there  *)
(*   appended : how far the StoreLogs call under way has come              *)
(*   cut      : the largest index raft asked to have removed               *)
(*                                                                         *)
(* Raft's main goroutine calls StoreLogs, which takes the lock of the log  *)
(* once for each record; the snapshot goroutine compacts with DeleteRange  *)
(* and the replication goroutines call GetLog meanwhile.                   *)
(***************************************************************************)
EXTENDS Log

CONSTANTS
  TrailingLogs, \* raft.Config.TrailingLogs: entries a compaction leaves alone
  MaxBatch      \* bound of the model: records of one StoreLogs

ASSUME LogStoreAssumption ==
  /\ InitialOffset = 1
  /\ TrailingLogs \in Nat \ {0}
  /\ MaxBatch \in Nat

VARIABLES entries, last, appended, cut

raftVars == <<entries, last, appended, cut>>
storeVars == <<vars, raftVars>>

Numbered == Max(DOMAIN entries \union {0})
Restricted(indices) == [i \in DOMAIN entries \intersect indices |-> entries[i]]

StoreInit ==
  /\ Init
  /\ entries = [i \in {} |-> i]
  /\ last = 0 /\ appended = 0 /\ cut = 0

newLogStore == NewLog /\ UNCHANGED raftVars

\* FirstIndex, LastIndex, and what GetLog makes of the record at an index.
FirstIndex == LowestOffset
LastIndex  == HighestOffset
GetLogResult(index) == ReadResponse(index)

\* A replication goroutine, or the one that applies, asks for an entry.
GetLog(index) ==
  /\ index \in DOMAIN entries /\ index <= last
  /\ Read(index)
  /\ UNCHANGED raftVars

\* StoreLogs is called with entries that raft has numbered on from its last.
StoreLogs(n, records) ==
  /\ proc = "open" /\ appended = Numbered
  /\ last + n < MaxOffset
  /\ entries' = [i \in DOMAIN entries \union (last + 1 .. last + n) |->
                   IF i <= last THEN entries[i] ELSE records[i - last]]
  /\ UNCHANGED <<vars, last, appended, cut>>

\* A mutant: StoreLogs returns to raft after the first record.
StoreNextEarly ==
  /\ appended < Numbered
  /\ Append(entries[appended + 1])
  /\ appended' = appended + 1
  /\ last' = Numbered
  /\ UNCHANGED <<entries, cut>>

\* The loop of StoreLogs. The index raft gave the record is not passed on: the
\* log numbers it. Raft moves its last index when the call has returned; after
\* an error it gives the entries of the call up.
StoreNext ==
  /\ appended < Numbered
  /\ Append(entries[appended + 1])
  /\ IF resp'.err = "nil"
       THEN /\ appended' = appended + 1
            /\ last' = IF appended' = Numbered THEN Numbered ELSE last
            /\ UNCHANGED entries
       ELSE /\ appended' = last
            /\ entries' = Restricted(1 .. last)
            /\ UNCHANGED last
  /\ UNCHANGED cut

\* Mutants: one record too far; the lower bound instead of the upper.
DeleteRangeTooFar(min, max) == TruncateTo(max + 1)
DeleteRangeToMin(min, max) == TruncateTo(min)

\* DeleteRange: min is not used.
DeleteRange(min, max) == TruncateTo(max)

\* raft's compactLogs, in the snapshot goroutine: from FirstIndex up to the
\* snapshot, but for the last TrailingLogs entries. Its idea of the last index
\* may be old when it calls. (Without a segment FirstIndex would panic.)
compactLogs(max) ==
  /\ proc = "open" /\ segments # {}
  /\ FirstIndex <= max /\ max + TrailingLogs <= last
  /\ DeleteRange(FirstIndex, max)
  /\ entries' = Restricted(max + 1 .. MaxOffset)
  /\ cut' = IF max > cut THEN max ELSE cut
  /\ resp' = Truncated
  /\ UNCHANGED <<proc, last, appended>>

StoreStep ==
  \/ newLogStore
  \/ \E n \in 1 .. MaxBatch : \E records \in [1 .. n -> Value] : StoreLogs(n, records)
  \/ StoreNext
  \/ \E index \in Offset : GetLog(index)
  \/ \E max \in Offset : compactLogs(max)

StoreSpec == StoreInit /\ [][StoreStep]_storeVars

-----------------------------------------------------------------------------
(* What raft does to the store beyond that *)

\* A follower's log conflicts with its leader's from index i on: appendEntries
\* removes i .. last before it stores the leader's entries.
deleteConflict(i) ==
  /\ proc = "open" /\ appended = Numbered
  /\ i \in DOMAIN entries
  /\ DeleteRange(i, last)
  /\ entries' = Restricted(1 .. i - 1)
  /\ last' = i - 1 /\ appended' = i - 1
  /\ resp' = Truncated
  /\ UNCHANGED <<proc, cut>>

ConflictSpec ==
  StoreInit /\ [][StoreStep \/ \E i \in Offset : deleteConflict(i)]_storeVars

-----------------------------------------------------------------------------
(* Properties *)

\* logStore is raft's log: while compactions and batches interleave, GetLog
\* gives raft, for every index it stored and did not remove, the entry it
\* stored there under that index.
GetLogReturnsEntry ==
  proc = "open" =>
    \A i \in DOMAIN entries :
      i <= last =>
        GetLogResult(i) = [op |-> "Read", off |-> i, err |-> "nil",
                           rec |-> [value |-> entries[i], offset |-> i]]

\* The range the store reports is the range it can return: no gap up to the
\* record appended last, and nothing missing that raft did not remove.
RangeIsReadable ==
  proc = "open" =>
    /\ segments # {}
    /\ LastIndex = appended
    /\ FirstIndex <= cut + 1
    /\ \A i \in FirstIndex .. LastIndex : GetLogResult(i).err = "nil"

\* A compaction frees what it can: of the entries raft removed only those stay
\* that share a segment with one it keeps.
CompactionIsComplete ==
  cut > 0 => \A b \in segments : mem[b].nextOffset > cut + 1

-----------------------------------------------------------------------------
(* Inductive invariant *)

\* Raft's numbers: it has not removed anything but the entries up to cut, a
\* compaction leaves some of the stored ones, and a call that has stored its
\* last record has returned.
NumbersOK ==
  /\ last \in Nat /\ appended \in Nat /\ cut \in Nat
  /\ Numbered \in Nat /\ Numbered < MaxOffset
  /\ DOMAIN entries = cut + 1 .. Numbered
  /\ entries \in [DOMAIN entries -> Value]
  /\ cut > 0 => cut < last
  /\ last <= appended /\ appended <= Numbered
  /\ appended = Numbered => last = Numbered

\* The log as its callers see it (see Refinement in Log) has what StoreLogs has
\* appended, under raft's indices.
StoredOK ==
  /\ nextBar = appended + 1
  /\ lowestBar <= cut + 1
  /\ \A i \in DOMAIN entries : i <= appended => recordsBar[i] = entries[i]
  /\ proc = "closed" => segments = {} /\ cut = 0

\* What each step of StoreSpec preserves: the log stays a log of Spec, and it
\* is raft's.
StoreInv == Inv /\ NumbersOK /\ StoredOK /\ CompactionIsComplete
=============================================================================
