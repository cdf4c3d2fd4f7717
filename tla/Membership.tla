----------------------------- MODULE Membership -----------------------------
(***************************************************************************)
(* internal/discovery/membership.go with Join and Leave of the distributed *)
(* log: serf tells every node who joins and who is gone, and the node that *)
(* is raft's leader brings raft's configuration into line. serf and raft   *)
(* are external.                                                           *)
(*                                                                         *)
(*   status  : status[n] in the eyes of serf; "crashed" until it notices   *)
(*   addr    : addr[n], the rpc_addr of node n                             *)
(*   running : the nodes whose raft runs; a node that leaves stops it last *)
(*   events  : events[n], what serf has for the event handler of n         *)
(*   handler : handler[n], "run" or, after it returned, "done"             *)
(*   job     : job[n], the Join that the handler of n is in                *)
(*   config  : raft's configuration, a set of servers                      *)
(*   leader  : raft's leader                                               *)
(*   latest  : latest[n], how many events there were about node n          *)
(*   served  : served[n], the last of them that a leader has carried out   *)
(*   changes : nodes that came and went, leaders that lost their office    *)
(***************************************************************************)
EXTENDS Integers, FiniteSets, Sequences, SequencesExt

CONSTANTS
  Node, Addr, Nobody,
  Bootstrap,    \* the node the cluster is started with
  BootstrapAddr,
  MaxChanges    \* bound of the model

ASSUME MembershipAssumption ==
  /\ Bootstrap \in Node /\ BootstrapAddr \in Addr /\ Nobody \notin Node
  /\ IsFiniteSet(Node) /\ MaxChanges \in Nat

VARIABLES status, addr, running, events, handler, job, config, leader,
          latest, served, changes

memberVars == <<status, addr, running, latest, changes>>
raftVars == <<config, leader>>
vars == <<memberVars, events, handler, job, raftVars, served>>

ServerOf(n, a) == [id |-> n, addr |-> a]
Event(type, n, a, no) == [type |-> type, id |-> n, addr |-> a, no |-> no]

Gone(e) == e.type \in {"leave", "failed"}

Idle == [st |-> "idle"]

\* Raft keeps its leader while a majority of the configuration runs, where the
\* configuration says.
Reached(servers) == {s \in servers : s.id \in running /\ s.addr = addr[s.id]}
Quorum(servers) == 2 * Cardinality(Reached(servers)) > Cardinality(servers)

Alive == {n \in Node : status[n] = "alive"}
Member(n) == status[n] \in {"alive", "crashed"}

Init ==
  /\ status = [n \in Node |-> IF n = Bootstrap THEN "alive" ELSE "out"]
  /\ addr = [n \in Node |-> BootstrapAddr]
  /\ running = {Bootstrap}
  /\ events = [n \in Node |-> IF n = Bootstrap
                            THEN <<Event("join", n, BootstrapAddr, 0)>> ELSE <<>>]
  /\ handler = [n \in Node |-> IF n = Bootstrap THEN "run" ELSE "done"]
  /\ job = [n \in Node |-> Idle]
  /\ config = {ServerOf(Bootstrap, BootstrapAddr)}
  /\ leader = Bootstrap
  /\ latest = [n \in Node |-> 0] /\ served = [n \in Node |-> 0]
  /\ changes = 0

-----------------------------------------------------------------------------
(* serf, external *)

Change == changes < MaxChanges /\ changes' = changes + 1

\* Every node that is a member hears of it, in the same order.
Tell(type, n) ==
  /\ latest' = [latest EXCEPT ![n] = @ + 1]
  /\ events' = [m \in Node |->
                  IF m \in Alive THEN Append(events[m], Event(type, n, addr[n], latest'[n]))
                  ELSE events[m]]

\* Node n starts, with an address that no other member has; a server that is
\* gone may still have it in raft's configuration. It hears of every member.
Starts(n, a) ==
  /\ n \notin running
  /\ \A m \in Node \ {n} : Member(m) => addr[m] # a
  /\ Change
  /\ status' = [status EXCEPT ![n] = "alive"]
  /\ addr' = [addr EXCEPT ![n] = a]
  /\ running' = running \union {n}
  /\ handler' = [handler EXCEPT ![n] = "run"]
  /\ UNCHANGED <<job, raftVars, served>>

Members(n) == SetToSeq({Event("join", k, addr'[k], latest'[k]) : k \in Alive \union {n}})

\* NewMembership on node n, which the others take for a member that joins.
NewMembership(n, a) ==
  /\ status[n] \in {"out", "left", "failed"}
  /\ Starts(n, a)
  /\ latest' = [latest EXCEPT ![n] = @ + 1]
  /\ events' = [m \in Node |->
       IF m = n THEN Members(n)
       ELSE IF m \in Alive THEN Append(events[m], Event("join", n, a, latest'[n]))
       ELSE events[m]]

\* NewMembership on a node that is back before serf has noticed that it was gone:
\* the others hear nothing, or of an update when it has another rpc_addr.
Return(n, a) ==
  /\ status[n] = "crashed"
  /\ Starts(n, a)
  /\ latest' = IF a = addr[n] THEN latest ELSE [latest EXCEPT ![n] = @ + 1]
  /\ events' = [m \in Node |->
       IF m = n THEN Members(n)
       ELSE IF m \in Alive /\ a # addr[n]
         THEN Append(events[m], Event("update", n, a, latest'[n]))
       ELSE events[m]]

\* (*Membership).Leave, which Shutdown of the agent calls first.
Leave(n) ==
  /\ n \in Alive
  /\ Change
  /\ Tell("leave", n)
  /\ status' = [status EXCEPT ![n] = "left"]
  /\ UNCHANGED <<addr, running, handler, job, raftVars, served>>

\* Later on Shutdown closes the log, and raft with it.
CloseLog(n) ==
  /\ status[n] = "left" /\ n \in running
  /\ running' = running \ {n}
  /\ handler' = [handler EXCEPT ![n] = "done"]
  /\ events' = [events EXCEPT ![n] = <<>>]
  /\ job' = [job EXCEPT ![n] = Idle]
  /\ leader' = IF leader = n THEN Nobody ELSE leader
  /\ UNCHANGED <<status, addr, latest, changes, config, served>>

Crash(n) ==
  /\ n \in Alive
  /\ Change
  /\ status' = [status EXCEPT ![n] = "crashed"]
  /\ running' = running \ {n}
  /\ handler' = [handler EXCEPT ![n] = "done"]
  /\ events' = [events EXCEPT ![n] = <<>>]
  /\ job' = [job EXCEPT ![n] = Idle]
  /\ UNCHANGED <<addr, latest, raftVars, served>>

NoticeFailed(n) ==
  /\ status[n] = "crashed"
  /\ status' = [status EXCEPT ![n] = "failed"]
  /\ Tell("failed", n)
  /\ UNCHANGED <<addr, running, handler, job, raftVars, served, changes>>

-----------------------------------------------------------------------------
(* The event handler of node n *)

Handles(n) == handler[n] = "run" /\ events[n] # <<>> /\ job[n] = Idle

\* The handler is through with an event, which raft has carried out or not.
Done(n, carriedOut) ==
  LET e == Head(events[n])
  IN /\ events' = [events EXCEPT ![n] = Tail(@)]
     /\ served' = IF carriedOut THEN [served EXCEPT ![e.id] = e.no] ELSE served

\* An update is no case of the switch, and goes by.
handleUpdate(n) ==
  /\ Handles(n) /\ Head(events[n]).type = "update"
  /\ Done(n, FALSE)
  /\ UNCHANGED <<memberVars, handler, job, raftVars>>

\* A mutant: return for continue.
handleLocalReturns(n) ==
  /\ Handles(n) /\ Head(events[n]).id = n
  /\ Done(n, FALSE)
  /\ handler' = [handler EXCEPT ![n] = "done"]
  /\ UNCHANGED <<memberVars, job, raftVars>>

\* An event about the node itself: a join is passed over, and the handler
\* returns when the node is gone.
handleLocal(n) ==
  /\ Handles(n) /\ Head(events[n]).id = n /\ Head(events[n]).type # "update"
  /\ Done(n, FALSE)
  /\ handler' = IF Head(events[n]).type = "join" THEN handler
                ELSE [handler EXCEPT ![n] = "done"]
  /\ UNCHANGED <<memberVars, job, raftVars>>

\* The servers that Join stumbles over in the configuration it reads.
Matches(id, a) == {s \in config : s.id = id \/ s.addr = a}

\* A mutant: a server has joined when its id is there.
JoinedById(id, a) == \E s \in config : s.id = id

Joined(id, a) == ServerOf(id, a) \in config

\* Join reads the configuration. The loop removes the joining id once for each
\* match; a server that is there as it is has joined.
Join(n) ==
  /\ Handles(n) /\ Head(events[n]).id # n /\ Head(events[n]).type = "join"
  /\ LET e == Head(events[n])
     IN IF Joined(e.id, e.addr)
          THEN Done(n, n = leader) /\ UNCHANGED job
          ELSE /\ job' = [job EXCEPT ![n] =
                    [st |-> "join", id |-> e.id, addr |-> e.addr,
                     removals |-> Cardinality(Matches(e.id, e.addr))]]
               /\ UNCHANGED <<events, served>>
  /\ UNCHANGED <<memberVars, handler, raftVars>>

\* raft.RemoveServer, which needs a majority of the servers that stay.
RemoveServer(id) ==
  LET rest == {s \in config : s.id # id}
  IN Quorum(rest) /\ config' = rest

\* raft.AddVoter puts the server in, or its new address. An address that
\* another server has is refused.
AddVoterErr(id, a) == \E s \in config : s.id # id /\ s.addr = a
AddVoter(id, a) ==
  LET added == {s \in config : s.id # id} \union {ServerOf(id, a)}
  IN Quorum(added) /\ config' = added

\* A call of raft that fails, on a node that does not lead (any more) or for
\* its arguments: the handler logs the error and is through with the event.
GivesUp(n) ==
  /\ job' = [job EXCEPT ![n] = Idle]
  /\ Done(n, FALSE)
  /\ UNCHANGED config

\* The rest of Join: one step for each call of raft it waits for.
JoinRemoves(n) ==
  /\ job[n].st = "join" /\ job[n].removals > 0
  /\ \/ n # leader /\ GivesUp(n)
     \/ /\ n = leader
        /\ RemoveServer(job[n].id)
        /\ job' = [job EXCEPT ![n].removals = @ - 1]
        /\ UNCHANGED <<events, served>>
  /\ UNCHANGED <<memberVars, handler, leader>>

JoinAdds(n) ==
  /\ job[n].st = "join" /\ job[n].removals = 0
  /\ \/ (n # leader \/ AddVoterErr(job[n].id, job[n].addr)) /\ GivesUp(n)
     \/ /\ n = leader /\ ~AddVoterErr(job[n].id, job[n].addr)
        /\ AddVoter(job[n].id, job[n].addr)
        /\ job' = [job EXCEPT ![n] = Idle]
        /\ Done(n, TRUE)
  /\ UNCHANGED <<memberVars, handler, leader>>

\* handleLeave: Leave of the distributed log.
handleLeave(n) ==
  /\ Handles(n) /\ Head(events[n]).id # n /\ Gone(Head(events[n]))
  /\ \/ n # leader /\ GivesUp(n)
     \/ /\ n = leader
        /\ RemoveServer(Head(events[n]).id)
        /\ Done(n, TRUE)
        /\ UNCHANGED job
  /\ UNCHANGED <<memberVars, handler, leader>>

eventHandler(n) ==
  \/ handleUpdate(n) \/ handleLocal(n) \/ handleLeave(n)
  \/ Join(n) \/ JoinRemoves(n) \/ JoinAdds(n)

-----------------------------------------------------------------------------
(* Raft, external *)

\* The leader gives up its office, but goes on to run.
StepDown ==
  /\ leader # Nobody
  /\ Change
  /\ leader' = Nobody
  /\ UNCHANGED <<status, addr, running, latest, events, handler, job, config, served>>

Elect(n) ==
  /\ leader = Nobody /\ n \in running
  /\ \E s \in config : s.id = n
  /\ Quorum(config)
  /\ leader' = n
  /\ UNCHANGED <<memberVars, events, handler, job, config, served>>

\* The bootstrapping node leads or nobody does, and it keeps its quorum whatever
\* comes of the events it has still to handle: nodes go one after the other, as
\* an operator has to see to it, since raft waits for a majority without limit.
Pending(n) == \E i \in DOMAIN events[Bootstrap] : events[Bootstrap][i].id = n

KeepsQuorum(n, servers) ==
  LET steady == {s \in Reached(servers) : s.id \in Alive \ {n} /\ ~Pending(s.id)}
      unsure == {s \in Reached(servers) : s.id # n /\ Pending(s.id)}
  IN n # Bootstrap /\ 2 * Cardinality(steady) > Cardinality(servers \ unsure)

MayLeave(n) == KeepsQuorum(n, {s \in config : s.id # n})

MayStop(n) ==
  /\ KeepsQuorum(n, config)
  /\ \A i \in DOMAIN events[Bootstrap] :
       ~(events[Bootstrap][i].id = n /\ events[Bootstrap][i].type = "join")

Next ==
  \/ StepDown
  \/ Elect(Bootstrap)
  \/ \E n \in Node :
       \/ \E a \in Addr : NewMembership(n, a) \/ Return(n, a)
       \/ MayLeave(n) /\ Leave(n)
       \/ MayStop(n) /\ (CloseLog(n) \/ Crash(n))
       \/ NoticeFailed(n)
       \/ eventHandler(n)

\* The event handler is a goroutine of its own, serf notices a failure, and raft
\* elects.
Fairness ==
  /\ \A n \in Node : WF_vars(eventHandler(n)) /\ WF_vars(NoticeFailed(n))
  /\ WF_vars(Elect(Bootstrap))

Spec == Init /\ [][Next]_vars /\ Fairness

\* Any node leaves, the leader too, and the others elect another one.
LeaveNext ==
  \E n \in Node :
    \/ \E a \in Addr : NewMembership(n, a)
    \/ Leave(n) \/ CloseLog(n) \/ eventHandler(n) \/ Elect(n)

LeaveSpec ==
  /\ Init /\ [][LeaveNext]_vars
  /\ \A n \in Node : WF_vars(eventHandler(n)) /\ WF_vars(CloseLog(n)) /\ WF_vars(Elect(n))

-----------------------------------------------------------------------------
(* Properties *)

Message == [type : {"join", "update", "leave", "failed"}, id : Node, addr : Addr, no : Nat]
Joining == [st : {"join"}, id : Node, addr : Addr, removals : Nat]

\* The type invariant. The Join that a handler is in is about the event at the
\* head of its queue.
TypeOK ==
  /\ status \in [Node -> {"out", "alive", "left", "crashed", "failed"}]
  /\ addr \in [Node -> Addr] /\ running \subseteq Node
  /\ events \in [Node -> Seq(Message)]
  /\ handler \in [Node -> {"run", "done"}]
  /\ job \in [Node -> {Idle} \union Joining]
  /\ config \subseteq [id : Node, addr : Addr]
  /\ leader \in Node \union {Nobody}
  /\ latest \in [Node -> Nat] /\ served \in [Node -> Nat] /\ changes \in Nat
  /\ \A n \in Node : job[n] # Idle =>
       events[n] # <<>> /\ Head(events[n]).id = job[n].id

ServersOf(n) == {s \in config : s.id = n}

\* Raft's configuration is right about every node whose last event a leader has
\* carried out, whatever else the handler has still to do or is in the middle
\* of: the members are voters at the address they have now, the others are out.
\* Earlier events of the node may have been lost while nobody led, in the middle
\* of a Join too.
ConfigFollowsMembers ==
  \A n \in Node : served[n] = latest[n] =>
    ServersOf(n) = IF Member(n) THEN {ServerOf(n, addr[n])} ELSE {}

-----------------------------------------------------------------------------
(* The inductive invariant *)

\* Where raft does not run nothing handles events; the bootstrapping node never
\* goes, and nobody else leads.
RunningOK ==
  /\ \A n \in Node \ running : handler[n] = "done" /\ job[n] = Idle
  /\ Bootstrap \in running /\ leader \in {Bootstrap, Nobody}
  /\ status[Bootstrap] = "alive" /\ latest[Bootstrap] = 0

\* A server is in the configuration once.
ConfigOK ==
  /\ IsFiniteSet(config)
  /\ \A s, t \in config : s.id = t.id => s = t

\* An event that waits for the leader has not been carried out, and is followed
\* by the later ones about the same node. The last one tells the truth.
EventOK(q, i) ==
  LET e == q[i]
  IN /\ served[e.id] < e.no /\ e.no <= latest[e.id]
     /\ e.no = latest[e.id] => e.addr = addr[e.id] /\ (Gone(e) <=> ~Member(e.id))
     /\ \A j \in i + 1 .. Len(q) : q[j].id = e.id => e.no < q[j].no

QueueOK ==
  \A i \in 1 .. Len(events[Bootstrap]) :
    events[Bootstrap][i].id # Bootstrap => EventOK(events[Bootstrap], i)

\* The leader is in the Join that the head of its queue asks for.
JobOK ==
  job[Bootstrap] # Idle =>
    LET e == Head(events[Bootstrap])
    IN e.type = "join" /\ e.id # Bootstrap /\ e.addr = job[Bootstrap].addr

\* What each step of Spec preserves.
Inv ==
  /\ TypeOK /\ RunningOK /\ ConfigOK /\ QueueOK /\ JobOK
  /\ \A n \in Node : served[n] <= latest[n]
  /\ ConfigFollowsMembers

-----------------------------------------------------------------------------
(* Liveness *)

\* No call of raft that the handler waits for holds it up for ever: it gets to
\* the end of its events when a leader stays.
HandlerCatchesUp == <>[](leader = Bootstrap) => <>[](events[Bootstrap] = <<>>)

\* distributed.go says that Leave removes the server from the cluster: a node
\* that left, and stays away, is in the configuration no longer in the end, as
\* long as there is a leader.
LeaversAreRemoved ==
  \A n \in Node :
    <>[](status[n] = "left" /\ leader # Nobody) => <>[](\A s \in config : s.id # n)
=============================================================================
