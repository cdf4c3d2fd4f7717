# proglog, verified

TLA+ models of [proglog](../src/README.md), a distributed commit log in Go, with
TLC configurations that check them on small instances and TLAPS proofs of every
safety property that the runs check. `PROJECT.json` is the index: it maps every
definition to the lines it models and lists the runs, mutants, findings, hazards
and theorems.

## 1. The system

A node runs an *agent*, which owns a *distributed log*, a gRPC *server* in front
of it and a *membership* that gossips through serf. The distributed log is
hashicorp/raft around two instances of the same on-disk *log*: one holds the
users' records and is raft's finite-state machine, the other is the *log store*
where raft keeps its own entries. A log is a list of *segments*; a segment is a
*store* (length-prefixed records) and an *index* (fixed-width entries, memory
mapped).

| Component | State it keeps | Operations | Correct when |
|---|---|---|---|
| store (`store.go`) | file, write buffer, size | Append, Read, ReadAt, Close | a position that was returned leads to the frame written there |
| index (`index.go`) | mapped file, size | Read, Write, isMaxed, Close | entry *j* is the *j*-th record's; the size on reopening is the size on closing |
| segment (`segment.go`) | base and next offset | newSegment, Append, Read, IsMaxed, Remove, Close | store and index never disagree; nextOffset survives a reopen |
| log (`log.go`) | segments, the active one, `mu` | NewLog/setup, Append, Read, Reader, Truncate, Close, Remove, Reset | offsets are dense, records immutable, only Truncate removes, from the low end |
| log store (`distributed.go`) | a log from index 1 | FirstIndex, LastIndex, GetLog, StoreLogs, DeleteRange | raft gets back what it stored, under its index |
| distributed log (`distributed.go`) | raft, the log of records | NewDistributedLog, Append/apply, fsm.Apply, Snapshot, Restore, Join, Leave, GetServers, Close | all nodes hold the same records at the same offsets; an acknowledged offset names its record everywhere |
| membership (`membership.go`) | serf, its event channel | eventHandler, handleJoin, handleLeave, Leave | raft's configuration follows the members |
| server (`server.go`) | none of its own | Produce, Consume, the two streams, GetServers | a stream delivers each offset once, in order |
| load balancer (`picker.go`, `resolver.go`) | leader, followers, cursor | ResolveNow, Build, Pick | Produce goes to the leader the resolver last saw |
| agent (`agent.go`) | the above | New, serve, Shutdown | each part starts after what it needs and Shutdown ends |

Interactions. Clients call the server, which calls the distributed log. Append
goes to raft, raft calls StoreLogs of every node's log store, and once the entry
is committed fsm.Apply on every node, which appends to the log of records; the
leader's result is the answer. Reads go to the local log of records directly.
Raft's main loop, its replication goroutines, the one that runs the fsm and the
one that takes snapshots use the log store and the log at the same time; the
`RWMutex` of the log and the mutex of each store are all that orders them. serf's
events reach the distributed log through Join and Leave.

What is hard in this code: the length of an index file means two different
things while it is open and while it is closed; acknowledged records wait in a
buffer; a roll makes two files; the log numbers raft's entries itself; Truncate
has one bound and raft's DeleteRange two; raft, the log store and the log of
records are persistent on their own and meet again at a restart; a proposal may
be committed after its caller was told that it failed; serf's events reach every
node but only the leader can act on them; a client learns of a leader only when a
connection breaks; a snapshot is copied from the live log; raft and gRPC share a
port; and Shutdown is called by three goroutines, one of them because of what
Shutdown itself does. `PROJECT.json` lists each of these under "hazards", at its
line, with the properties that cover it.

## 2. Modules

| Module | Models | Form |
|---|---|---|
| `Segment` | store, index, segment | operators on the two files and on the object that has them open |
| `CommitLog` | what a log promises its callers | abstract specification |
| `Log` | log.go on top of `Segment` | state machine, its properties, inductive invariant, refinement of `CommitLog` |
| `LogFaults` | kills, failing rolls | extends `Log` |
| `LogStore` | the logStore and raft's calls of it | extends `Log` |
| `Fsm` | Apply, Snapshot, Persist, Restore and restarts on the files of one node | extends `Log` |
| `DistributedLog` | a cluster, raft external | state machine, liveness |
| `LoadBalance` | picker.go, resolver.go, GetServers | state machine, liveness |
| `Membership` | membership.go, Join and Leave | state machine, liveness |
| `Server` | the handlers of server.go, the authorizer's answers | actions, safety properties |
| `Agent` | agent.go, run of main.go, the stream layer | extends `Server`; state machine, liveness |
| `LogProofs` | theorems about `Log`, its refinement of `CommitLog` among them | TLAPS |
| `LogFaultsProofs`, `LogStoreProofs`, `FsmProofs` | theorems about `LogFaults`, `LogStore` and `Fsm`, on top of `LogProofs` | TLAPS |
| `DistributedLogProofs`, `LoadBalanceProofs`, `MembershipProofs` | theorems about the modules of these names | TLAPS |
| `AgentProofs` | theorems about `Agent` and the handlers of `Server` in it | TLAPS |
| `MC*` | constants for TLC | |

**Segment.** A file pair is `[frames, len, slot, ilen]`, an open segment
`[buf, size, isize, nextOffset, open]`. Bytes are counted, not stored: a frame
takes 8 bytes and `Width[v][o]` for the marshalled record, which depends on the
offset because the record carries it (proto3 leaves out a zero). The index is
mapped shared, so a Write changes the file at once; a store's frame waits in
`buf` until Read, ReadAt or Close flush it. `newIndexSize` takes the length of
the file *before* `newIndexFile` grows it to `MaxIndexBytes`; `CloseFile` cuts it
back. `index.Write` failing after `store.Append` leaves the frame without an
entry, as in the code.

**Log.** Every exported method holds `l.mu` for its whole body and is one action
(Append includes its roll, Truncate the removal of every segment). What a Reader
does happens outside `l.mu`, under the lock of one store: `ReadAt` is an action of
its own. `l.segments` is the set of base offsets, since the slice is always
ascending. setup's trick of stepping over every second file name is `BasesFound`,
which differs from "one segment per base" exactly when a file has no pair.
`Remove` is Close and a deletion of the directory and appears as part of Reset, in
`Fsm`.

**LogFaults.** A kill at any point between the calls (`Crash`), in an Append after
its index entry or at each stage of the roll (`CrashInAppend`), in a Truncate
between the removal of a segment's two files (`CrashInTruncate`). The files stay,
buffers are lost. `CrashInClose` is a kill in the Close of one segment, after its index
is cut and before or after its store is flushed; `CrashInNewLog` one in setup, at each
stage of opening a segment, the first one of an empty directory included. `AppendRollFails` is the roll returning an error at one of those
stages with the process going on. `acked` remembers what was acknowledged and not
yet asked to be removed. A kill of the process, not of the
machine: the page cache survives.

**LogStore.** `Log` with `InitialOffset = 1`, and raft's view beside it: the
entries it has numbered, the last index it believes in, how far the StoreLogs
under way has come. StoreLogs takes the lock once per record, so `StoreNext` is one
action per record and compactions (`compactLogs`, by the snapshot goroutine) and
GetLog interleave with it. Two specifications: `StoreSpec` with what a lone leader
does, and `ConflictSpec`, which adds raft's removal of a conflicting suffix.

**Fsm.** `Log` as the log of records, and raft around it: the committed entries, the
index applied last, the snapshot being persisted and the one saved. Apply and
Snapshot run in one goroutine of raft and are one action each; Persist runs in
another, on the Reader that Snapshot made, and is one action per store: it reads
the store to its end, flushing it, while records are applied and the log rolls.
Several reads of one store are one step here, since a store only grows. `FsmSpec` is
one life of a node, from NewDistributedLog to Close, which waits for Persist.
`RecoverSpec` adds what follows: a kill; NewDistributedLog on the files that are
left, with raft restoring its snapshot or applying from the first entry again; and
a snapshot sent by a leader, which raft saves before it calls Restore; and
setupRaft returning an error, whatever of its steps it comes from. Restore without a record changes nothing; with one it
calls Reset, which closes the segments, removes the directory and fails in setup.

**DistributedLog.** The log of records of a node is the sequence that `Log`
implements. Raft is external: one agreed log `rlog` (a node's raft log is a
prefix of it), commitment by a majority, elections of a node whose log is longest
among the voters, futures that fail on loss of leadership. `apply` and
`applyRefused` are (*DistributedLog).apply with its ways to fail; a client whose
call failed may try again, with the same record. `applyAppend` is fsm.Apply; that the
local log takes the record is `AppendNeverFails` of `Log`, proved for a log that was
closed properly, and `Fsm` has the Append that may fail on the files of one node (a node
whose Append failed would be one record behind the others from then on). `Kill`
stops a node for good (`Fsm` has what a restart finds). All of it before the first
snapshot, which raft takes after 8192 entries.

**LoadBalance.** One client connection to a cluster of fixed membership. ResolveNow
takes `r.mu` and asks; GetServers on the other side asks raft for the leader once
per server, so it is one step per server (`answer`) with elections in between;
`UpdateState` is the rest of ResolveNow together with what gRPC's base balancer does
with the addresses. That balancer is external: a connection per address *with its
attributes*, a call of `Picker.Build` whenever the set of ready ones changes, a new
ResolveNow when a connection is lost or cannot be made. Build keeps the former
leader when no ready connection is marked as one, as in the code, and takes any
of them when two are (the order of a Go map). `current` is kept modulo a multiple
of every possible number of followers, which the code's `% len` cannot tell from
the counter itself.

**Membership.** serf (external) gives every member's handler the same events in the
same order. The handler is one goroutine and waits for raft in each call: Join is
one step that reads the configuration, then one per RemoveServer and one for
AddVoter (`job`), with everything else in between; handleLeave is one call. Raft's
configuration and leadership are external: a change needs a majority of the
configuration that results and blocks without it, a node that does not lead gets
`ErrNotLeader`, an address that is taken is refused. A server counts for a majority while
it runs at the address that the configuration has for it (`Reached`). A node that crashed
comes back after serf has noticed, as a member that joins (`NewMembership`), or before
(`Return`): then the others hear nothing, or of an update when its rpc_addr is another
one, and the handler has no case for that (`handleUpdate`). In `Spec` the bootstrapping
node leads or nobody does, and nodes go one after the other, so that a majority is
left (`KeepsQuorum`); in `LeaveSpec` anybody leaves in order, the leader too, and
anybody is elected. `latest` and `served` number the events about a node and say
which of them a leader has carried out.

**Server.** One call per client, each in a goroutine of its own (`rpc`). The commit
log under it is the distributed log of this node, a sequence: a handler's Append
ends with the record applied (`AppendApplied`) or with an error (`AppendFails`), after
which raft may still apply the record (`late`); records of other nodes come in
between (`Replicated`). ProduceStream is Recv, Produce, Send in a loop, each a step;
ConsumeStream looks at its context, reads, and tries again at once when the offset is
out of range. authenticate may refuse a call, and a Read may fail in a segment
(`ReadFails`); both end the call with an error, a stream too. A client may cancel at any time, and what is sent after that fails. A
consumer's offset and a producer's count of requests are both `no`.

**Agent.** One process. `NewAgent` runs the setup functions in the order of
`Following`, each of which may fail and end the process; setupLog and setupServer
register their matchers with the mux, and only `serve` makes the mux hand out
connections. A raft peer that dials meanwhile waits (`peer`). `WaitForLeader` needs a
leader that this raft has heard of, by an election of its own or through an accepted
connection. Shutdown is a sequence of steps per caller: the lock and the flag, Leave,
GracefulStop in two steps (it closes the listener, which is the root listener of the
mux; it then waits for the open calls), Close. Three goroutines call it: main on
a signal, serve when the mux ends, and the goroutine of the gRPC server when its
listener fails while it was not told to stop. When main returns, nothing moves any
more (`Exited`). cmux, grpc, serf and raft are external.

## 3. What the runs check

| Run | Result | States | |
|---|---|---|---|
| `log` | pass | 51,069 | all safety properties of `Log`, the inductive invariant, and refinement of `CommitLog` |
| `log_faults` | pass | 571,914 | kills and failing rolls: what is left of the promises |
| `raft_log_store` | pass | 47,006 | GetLog, the index range and compaction under interleaved batches |
| `raft_log_conflict` | violation | | `GetLogReturnsEntry` after raft removes a conflicting suffix |
| `snapshot` | pass | 171,402 | what a snapshot of the live log holds |
| `node_recovery` | violation | | `LogIsApplied` on a node that is given a snapshot |
| `cluster` | pass | 92,441 | agreement of the logs and of acknowledged offsets |
| `cluster_progress` | pass | 31,801 | every call returns, every acknowledged record reaches every node that is up |
| `load_balance` | pass | 229,564 | where calls go while leaders change and connections break |
| `membership` | pass | 329,659 | raft's configuration against joins, leaves, crashes and lost leadership |
| `membership_leader_leaves` | violation | | `LeaversAreRemoved` when the leader leaves |
| `agent` | pass | 221,800 | calls, streams, setup, connections and Shutdown of one process |

The passing runs of the storage layer, the cluster, the load balancer and the membership
also check the inductive invariant that section 4 proves for their module, the type
invariant included: `Inv`, `FaultInv`, `StoreInv`, `FsmInv`. Those of `Server` and `Agent`
(`ServerInv`, `AgentInv`) are left to the proofs.

The properties:

* `SegmentsTile`: sealed segments end where the next begins. `IndexLeadsToRecord`:
  entry *j* of a segment leads to the frame of the record that carries offset
  base + *j*. `ReaderStreamIsTheLog`: decoding a store from byte 0 meets exactly
  the indexed records; a frame without an entry, which `index.Write` failing would
  leave, would shift what a Reader (and so a snapshot) returns.
* `AppendNeverFails`: the roll always comes early enough. It rests on IsMaxed, on
  Close truncating the index and on setup choosing the right active segment.
* `SealedSegmentsAreFrozen`: Readers hold sealed stores outside the lock; nothing
  a call, a Close or a reopen does changes such a segment.
* `ImplementsCommitLog`: `Log` with its buffers, rolls and reopenings refines
  `CommitLog`, with `recordsBar` reading each value through index and store.
* `AckedOffsetsUnique`, `AckedEntriesSurvive`, `DurableRecordsStay`: what is left of
  the promises after a fault. Offsets, index entries and the records that left the
  buffer survive; unflushed records do not. Offsets are unique after kills, not
  after failed rolls (see below), so that the property leaves those out.
* `GetLogReturnsEntry`, `RangeIsReadable`, `CompactionIsComplete`: the contract of
  raft's LogStore, while another goroutine compacts.
* `LogsAgree`, `AckedOffsetNamesRecord`: agreement among nodes, the stopped ones
  included, across leader changes and retries. `CallsReturn`,
  `AckedIsReplicated`: progress.
* `ProduceGoesToListedLeader`, `ConsumeIsServed`, `FailoverIsNoticed`: the picker never
  sends a Produce to a server that the last list does not call a leader although it
  keeps stale leaders; Consume always gets a ready connection; after the death of
  a server Produce ends up at the leader the others settled on.
* `ConfigFollowsMembers`: the configuration is right about each node whose last event a
  leader carried out, whatever happened to the earlier ones and whatever still waits
  about others; events that were dropped are the matter of `LeaversAreRemoved`.
  `HandlerCatchesUp`: no event hangs or ends the handler.
* `SnapshotIsPrefix`: whatever is applied, read or rolled while Persist copies the
  stores, the snapshot is a prefix of the committed records and reaches its index.
  It may reach further, and raft will then apply the surplus again to whoever
  restores it; `SurplusOfOneSegment` bounds that by the segment that was active.
* `StreamFollowsLog`, `AnswersNameRecords`, `OneInDoubt`: a consumer gets the records from
  its offset on, each once and in order; a producer's answers are its own records'
  offsets, in order; and when a producer's stream ends, in whatever way, only the
  record after the last answer is in doubt. `TailIsDelivered`: a record that is
  appended after a consumer ran past the end reaches it, unless the stream was cancelled
  or ended with an error.
* `NilMeansClosed`, `NoHandlerOnClosedLog`, `ShutdownFindsItsParts`: Shutdown called by
  several goroutines at once reports no end that is still under way, closes the log
  under no handler, and never meets a part that is not there yet.
  `HangsOnlyOnStreams`: a signal ends the process, if clients let go of their
  streams; TLC refutes it without that condition, which is the cost of GracefulStop
  together with a ConsumeStream that does not end.
* `PeerReachesRaft`: the matcher of the gRPC server, which takes anything, comes after
  raft's. `BootstrapNodeLeads`: WaitForLeader comes before the mux is served, so that
  a node with Bootstrap set comes up only if it is elected itself. Started again in
  a cluster that has another leader, it cannot hear of it and fails after 3 seconds.

Each has a mutant, a plausible slip in the code (a Close that does not truncate, a
length prefix not counted, `<= lowest + 2` in Truncate, a StoreLogs that
returns early, ...) under which TLC finds it violated.

### Findings

1. **DeleteRange ignores its lower bound** (`raft_log_conflict`,
   distributed.go:436). Removing a conflicting tail empties the log store.
2. **Reset cannot succeed, and so Restore cannot** (`node_recovery`, log.go:139). setup
   reads the directory that Reset has just removed. A node that is given a snapshot
   loses its records, keeps closed segments and goes on; one that has a snapshot of
   its own cannot be started again.
3. **A leader that leaves is not removed** (`membership_leader_leaves`,
   membership.go:107). The others get the event while they do not lead and drop it;
   the one that leads next is never told.

Met while modelling, without a run of their own:

* A log that was killed finds its index files at their full length and takes them
  for full (index.go:34). A sealed segment gets the wrong nextOffset, and Truncate
  removes it together with records above its bound; the active segment refuses
  every Append with `io.EOF` before it could roll.
* An acknowledged record that a kill took with the buffer leaves its index entry behind.
  The entry leads past the end of the store, until an Append (one that is refused by a
  full index, or one after a kill in Close, segment.go:113) writes another record there:
  Read of the lost offset then returns that record, with another offset in it.
* The log store is never closed (distributed.go:251), so that this happens to raft's
  log at every orderly restart.
* A node that is started again before its first snapshot applies its entries a
  second time, to a log that has the records already (distributed.go:147; `Restart`
  of `Fsm` is a second way to break `LogIsApplied`).
* A roll that fails between its two files makes setup skip the wrong halves, so that
  an old segment becomes active and hands its offsets out again (log.go:68, the
  reason for `faults.failures = 0` in `AckedOffsetsUnique`).
* Join removes the id that joins where it means the server it found
  (distributed.go:213).
* A node that is back with another rpc_addr before serf noticed its crash keeps its old
  address in raft's configuration: the update is no case of the handler's switch
  (membership.go:75).
* After a Shutdown that failed the next one returns nil although nothing more was
  stopped (agent.go:222, the second half of `NilMeansClosed`).

### Bounds

* `MCLog`: offsets up to 6, two sizes of record. `MaxIndexBytes = 30` is two
  entries and a rest, `MaxStoreBytes = 26` is more than two small records and less
  than a large one: segments roll because of the index after two small records
  and because of the store after one large one, and up to seven segments exist at
  once.
  That covers every pairing of a roll with a reopen, a Read of each segment and
  a Truncate on either side of a boundary; more offsets only repeat these.
* `LogFaults`: `MaxFaults = 2` (a fault, and one in the recovery from it);
  `MaxBytes` bounds the store that failing Appends of a full segment go on to grow.
  `MaxIndexBytes = 40` is three entries and a rest: with two, a sealed segment that
  is found at its full length has the nextOffset it should have.
* `MCLogStore`: indices 1 to 6, batches of up to 2 records that straddle a roll;
  `MaxStoreBytes = 30` is exactly one large record, `MaxIndexBytes = 40` three
  entries. `TrailingLogs = 1` is the smallest that keeps an entry behind a
  snapshot (raft's default is 10240).
* `MCFsm`: offsets up to 5 and the sizes of `MCLogFaults`: segments of one to three
  records, so that a snapshot has up to three stores to copy and the log rolls behind
  it; `MCFsmRecover` uses the same.
* `MCDistributedLog`: three nodes, one may stop, so that there is always a
  majority; three entries and two tries per record are enough for a record that is
  committed after its call failed, its retry, and a record of another client
  between. Nodes and values are symmetric in the safety run; the liveness run
  uses no symmetry, and one record with three tries.
* `MCLoadBalance`: three servers, of which one may die, and one loss of a connection
  or failed question besides; leaders change without bound.
* `MCMembership`: three nodes, four addresses (one is free for a node that comes
  back) and five changes: two joins, a leave that is lost with the leadership, and
  the return at another address. `MCMembershipLeader` needs three: two joins
  and the leave.
* `MCAgent`: a client that may only write, with a call or a stream of two requests, and
  one that may only read, with one call each (`Calls` lists which; a stream begins at
  offset 0, a single Consume of the reader at 1); two records,
  which another node may write as well; one raft peer, which dials while the node is
  set up; a bootstrapping node. Two requests are enough for one that fails and one
  after it, two records for one before and one after the end of the log was met.

Deadlock is checked except for the cluster, the membership, the life of a node and
the process, which come to an end: by their bounds, or because the code does.

### Fairness

`FairSpec` has weak fairness of `Commit`, of `Replicate(n)` and `applyAppend(n)`
for each node, and of an election *while there is no leader*. Raft has a
replication goroutine per follower that retries, a loop that applies what is
committed, and election timers that fire until there is a leader. Nothing is
assumed of clients, of kills, or of elections while there is a leader; but a
bound on the number of entries and calls stands for clients that stop, and
leaders may change for ever only as long as elections succeed each other without
the rest being starved: `Commit` and `Replicate` stay enabled across an election.

`LoadBalance`: weak fairness of the steps of ResolveNow once gRPC wants it, and of
connecting and failing to connect for each connection, since gRPC retries with a
backoff. Nothing is assumed of leaders, kills or lost connections. `Membership`: of
the event handler of each node, which is a goroutine of its own and is enabled only
when raft can answer, of serf noticing a crash, of an election while there is
no leader, and in `LeaveSpec` of a Shutdown going on to close the log. `Agent`: of
each handler once it has a request (raft ends every Append, in one way or the
other) and of each goroutine that is in Shutdown; nothing of clients, signals,
elections, setup or failures.

## 4. What is proved

Every invariant and every action property of the passing runs is a theorem, for all
values of the constants that the named assumptions allow:

| Module | Theorems, each `Spec => []P`, `Spec => P` for an action property or the refinement |
|---|---|
| `LogProofs` | `InvInvariant`, `TypeCorrect`, `AppendsSucceed`, `SegmentsTileTheLog`, `IndexAgreesWithStore`, `ReadersSeeTheLog`, `SealedStaySealed`, `LogIsACommitLog` |
| `LogFaultsProofs` | `FaultInvariant`, `OffsetsAreUnique`, `EntriesSurvive`, `DurableStays` |
| `LogStoreProofs` | `StoreInvariant`, `GetLogIsRight`, `RangeIsRight`, `CompactionFrees` |
| `FsmProofs` | `FsmInvariant`, `SnapshotsArePrefixes`, `SurplusIsBounded` |
| `DistributedLogProofs` | `InvInvariant`, `TypeCorrect`, `NodesAgree`, `AnswersAreRight` |
| `LoadBalanceProofs` | `InvInvariant`, `TypeCorrect`, `ProduceFindsLeader`, `ConsumeFindsServer` |
| `MembershipProofs` | `InvInvariant`, `TypeCorrect`, `ConfigIsRight` |
| `AgentProofs` | `InvInvariant`, `HandlersInvariant`, `AgentInvariant`, `StreamsFollowTheLog`, `AnswersAreRight`, `DoubtIsBounded`, `NilIsHonest`, `HandlersHaveALog`, `PartsAreThere`, `PeersReachRaft`, `BootstrapWaitsForItself` |

They are about the same specifications as the runs: `StoreSpec` without the removal of
a conflicting suffix, `FsmSpec` for one life of a node, `Spec` of `Membership` with the
bootstrapping node as the only leader. Where the specification states fairness the proofs
do not use it.

**Assumptions.** `SegmentAssumption` and `LogAssumption`: the types of the constants, and
that an index has room for one entry. `LogStoreAssumption`: raft's log begins at 1 and at
least one log trails. `ClusterAssumption` and `MembershipAssumption`: finitely many
nodes, and `Nobody` is none. `LoadBalanceAssumption`: `Servers` is a finite list and
`Cycle` a multiple of each number of followers. `ServerAssumption`: the types of the
policy and of the calls. TLC evaluates them in every run.

**Log.** None of the properties is inductive alone. That Append succeeds
needs a free slot in the active index, which an Append keeps only because it rolls
when the segment is full (`ActiveOK`), and which a reopen keeps only because the
object it builds is the one that was closed. So `Inv` says of every segment, open
or closed, what its object and its files know of each other
(`ObjectMatchesFiles`): the index size is 12 bytes for each offset of the range; the
file has the full length while the log is open and exactly that size while it is
closed. With `EntryOK` for the last entry, `NextOffsetReopened` shows that
newSegment computes the same nextOffset again (`NewLogInv`). That entries keep
leading to their frames when a new one is appended needs that frames have
different positions below the size (`FramesOK`). That setup reopens the segments,
all of them and no more, and picks the right one as active, needs the directory to
be the list of segments (`FilesAreSegments`), which Truncate and the roll keep
because no file exists beyond a sealed segment's end (`SealedOK`). `NextInv` has one
lemma per action: `NewLogInv`, `AppendInv` (with `AppendToActive` for the append
without the roll), `ReadInv` and `ReadAtInv` (over `FlushInv`), `TruncateInv`,
`CloseInv`. For a Reader the frames have to come in order and without gaps as well:
each ends where another or the free room begins (`FrameOK`), and a smaller offset lies
before a larger one. The refinement rests on `OffsetsAreHeld`, that exactly one segment
holds each offset between the lowest and the next; then a step of `Log` either keeps
the value read through index and store at each offset, adds one, or cuts the low end.

**LogFaults.** `Inv` does not survive a kill, and `FaultInv` says what does. An index that
was mapped when the process died counts as full when it is found again, so that its
segment takes no further entry: `Counts` holds of every index or its size is
`MaxIndexBytes`, and an entry is only ever written to a slot that is free (`Extends`).
Frames are written where the store ends, and no two begin at one position (`FileOK`,
`ObjectOK`). A store at or above the active base whose index counts as empty is empty
(`FreshOK`): without that the first entry of an index could be mistaken for the zeros
that stood there. The active segment has both its files from its first opening on
(`DirectoryOK`), so that setup finds it in spite of its counting by twos; before, the
directory is empty or has the one file that a kill in NewLog left (`Unopened`). After kills
alone more holds (`PairsOK`): one store at most has no index, and every file below it
has its pair, so that the files below it are even in number and setup opens it too
(`AllFound`); and no entry of a segment reaches into the next one. From that, `AckedBelow`:
what was acknowledged lies below the next offset as long as Append can still succeed. A
failed roll breaks `PairsOK`, which is why uniqueness is stated for kills alone.
An index that a kill in Close has cut says how many entries it has, as one that was
closed does (`CutCounts`): the offsets go on behind them although the store lacks their
records. `FaultStep` has one lemma per action and shows besides that each step either takes
nothing away (`Grows`) or is a Truncate; both action properties follow from it.

**LogStore** and **Fsm.** Every step of these is a step of `Log` and one of raft, so
`Inv` holds throughout, and what is new is said of the log as its callers see it, with
the refinement's `recordsBar`: it holds what StoreLogs has appended under raft's
indices (`StoredOK`), or the records of the entries applied (`AppliedOK`). For a
snapshot `SnapOK` describes a Persist under way: it has copied all records below the
first segment that it has left to read, and those it has left lie between that one and
the one that was active. The copy of one store is the range of one segment because the
segments tile the log.

**DistributedLog.** A committed entry is stored by a majority (`CommittedIsStored`); two
majorities of a finite set meet, so the node with the longest log among the voters has
the entry, and an election cuts nothing that is committed. Then every node's log is a
prefix of raft's log up to `commit`, and every answer names an entry in it.

**LoadBalance.** The picker fits the ready connections (`PickerIsBuilt`), and these carry
the attributes of the last list (`ConnectionsAreListed`). A leader that Build kept although
the list no longer names it is not among the ready connections, because gRPC makes a
new connection when the attributes of an address change.

**Membership.** The events about a node are numbered. Those that wait in the queue of the
leader are later than the one it carried out last, they are in order, and the last of
them tells the truth (`EventOK`); a job is the one that the head of the queue asks for
(`JobOK`); an update counts among the events about a node, so that what is said of the
last one is not said of a node that came back unnoticed; and an id is in the configuration once (`ConfigOK`), so that the step that
ends a job leaves exactly the server that the event is about.

**Server and Agent.** A producer has one request under way at a time, so that what raft
has of it or may still get is bounded by its answers (`Reach`), and no request is in
the log twice. During setup the parts are those of the steps that are done, and nobody
can call Shutdown before the mux is served (`SettingUp`); afterwards one caller at most
holds the lock, and it finds each part in the state that the steps before it left
(`OneShutsDown`).

Only model-checked, because liveness under fairness, and so ENABLED, is beyond this
prover: `AckedIsReplicated`, `CallsReturn`, `FailoverIsNoticed`, `HandlerCatchesUp`,
`TailIsDelivered`, `HangsOnlyOnStreams`. The three violations are TLC's too.

## 5. What is not modelled

* Bytes: frames are whole. A store's buffer (4096 bytes) is taken not to overflow
  between two flushes, so that a kill loses whole frames.
* uint32 relative offsets, uint64 positions and sizes: no run comes near the
  limits, which a segment of bounded size does not reach either.
* Raft, serf, cmux and gRPC themselves; TLS and how the policy file is read; logging,
  tracing and the health service: libraries and I/O. Of the authorizer only its
  answer is there. `nearestMultiple` has no caller; `replicator.go` is commented out
  as a whole; `_httpLogServer` is not part of the program; `api/v1` is generated.
* Kills inside one system call, and in a Remove before the index file is gone, which
  leaves that segment as a kill in its Close does; a Close or a Remove that returns an error.
* What Restore does after a Reset that works: no Reset does.
* Resolver.Close, which only closes a connection.
* An election is by all nodes that are up; a partitioned old leader that does not
  know of its successor is inside raft and not visible through the calls here,
  but for `ErrLeadershipLost`.

## 6. Plan

In this order; done so far: 1 to 8.

1. `Segment`, `Log`, `CommitLog`: the storage engine and its promise.
2. `LogFaults`: what is left of it after kills and failing calls.
3. `LogStore`, `DistributedLog`: raft's two uses of the log.
4. `LogProofs`: the inductive invariant of `Log`.
5. `Membership`, `LoadBalance`: who is in the cluster, and who is asked.
6. `Fsm`: snapshots of the live log, Restore and restarts.
7. `Server` and `Agent`: the streams, the order of setup, the shared port, Shutdown.
8. Proofs of the safety properties of every module, with the refinement of `CommitLog`.
9. Further theorems: `Server`'s sequence of records as the commit log of `CommitLog`, so
   that the promise of the storage layer reaches the handlers; the step from `Log` to the
   sequences of `DistributedLog`.
