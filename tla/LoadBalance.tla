----------------------------- MODULE LoadBalance -----------------------------
(***************************************************************************)
(* internal/loadbalance: a client that resolves the servers of a cluster   *)
(* and picks one for each call. gRPC's base balancer, between the two, is  *)
(* external: it keeps a connection (SubConn) for each address with its     *)
(* attributes, so that a server whose is_leader changes gets a new one,    *)
(* and builds a picker whenever the set of ready connections changes. It   *)
(* asks the resolver again when a connection is lost or cannot be made.    *)
(*                                                                         *)
(*   leader    : what raft.Leader() says on the server the resolver asks   *)
(*   up        : the servers that run                                      *)
(*   wanted    : gRPC has asked for ResolveNow                             *)
(*   asking    : a ResolveNow holds r.mu and waits for GetServers          *)
(*   answer    : is_leader of the servers GetServers has come to           *)
(*   listed    : is_leader by server, as UpdateState was last told         *)
(*   subConns, ready : connections there are, and those that are ready     *)
(*   pLeader, followers, current : the fields of Picker                    *)
(*   losses    : connections lost and questions that failed                *)
(*                                                                         *)
(* One client connection in the process, and a configuration that does not *)
(* change.                                                                 *)
(***************************************************************************)
EXTENDS Integers, FiniteSets, Sequences, SequencesExt

CONSTANTS
  Servers,  \* the servers of raft's configuration, in its order
  Nobody,   \* no server, no connection
  Target,   \* the server the resolver asks
  Cycle,    \* current is kept modulo Cycle, a multiple of every number of followers
  MaxLosses \* bound of the model

Server == ToSet(Servers)
SubConn == [node : Server, isLeader : BOOLEAN]

ASSUME LoadBalanceAssumption ==
  /\ Servers \in Seq(Server) /\ Target \in Server
  /\ Nobody \notin Server \union SubConn
  /\ Cycle \in Nat \ {0} /\ \A n \in 1 .. Len(Servers) : Cycle % n = 0

VARIABLES leader, up, wanted, asking, answer, listed, subConns, ready,
          pLeader, followers, current, losses

resolverVars == <<wanted, asking, answer>>
pickerVars == <<pLeader, followers>>
vars == <<leader, up, resolverVars, listed, subConns, ready, pickerVars, current, losses>>

\* Build of the Resolver ends in a first ResolveNow.
Init ==
  /\ leader = Nobody /\ up = Server
  /\ wanted = TRUE /\ asking = FALSE /\ answer = <<>>
  /\ listed = [n \in Server |-> FALSE]
  /\ subConns = {} /\ ready = {}
  /\ pLeader = Nobody /\ followers = <<>> /\ current = 0
  /\ losses = 0

-----------------------------------------------------------------------------
(* Picker *)

Leaders(R) == {sc \in R : sc.isLeader}

\* Mutants: the followers are not reset; a leader, once found, is kept.
BuildOnTop(R) ==
  /\ pLeader' \in IF Leaders(R) = {} THEN {pLeader} ELSE Leaders(R)
  /\ \E new \in SetToSeqs(R \ Leaders(R)) : followers' = followers \o new
BuildOnce(R) ==
  /\ pLeader' \in IF Leaders(R) = {} \/ pLeader # Nobody THEN {pLeader} ELSE Leaders(R)
  /\ followers' \in SetToSeqs(R \ Leaders(R))

\* Build goes through the ready connections in the order of a map. The last
\* one marked as the leader stays; with none the former leader does.
Build(R) ==
  /\ pLeader' \in IF Leaders(R) = {} THEN {pLeader} ELSE Leaders(R)
  /\ followers' \in SetToSeqs(R \ Leaders(R))

\* The follower after the one current stands for.
nextFollower == followers[((current + 1) % Len(followers)) + 1]

\* A mutant: Produce is balanced like Consume.
PickAny(method) ==
  IF followers = <<>> THEN pLeader ELSE nextFollower

\* What Pick returns; Nobody is ErrNoSubConnAvailable.
PickResult(method) ==
  IF method = "Produce" \/ followers = <<>> THEN pLeader
  ELSE IF method = "Consume" THEN nextFollower
  ELSE Nobody

\* A call of a client. Only the choice of a follower changes anything.
Pick(method) ==
  /\ method = "Consume" /\ followers # <<>>
  /\ current' = (current + 1) % Cycle
  /\ UNCHANGED <<leader, up, resolverVars, listed, subConns, ready, pickerVars, losses>>

-----------------------------------------------------------------------------
(* Resolver *)

\* ResolveNow takes the lock and calls GetServers.
ResolveNow ==
  /\ wanted /\ ~asking
  /\ wanted' = FALSE /\ asking' = TRUE /\ answer' = <<>>
  /\ UNCHANGED <<leader, up, listed, subConns, ready, pickerVars, current, losses>>

\* The loop of GetServers asks raft who leads once for each server.
GetServers ==
  /\ asking /\ Len(answer) < Len(Servers)
  /\ answer' = Append(answer, leader = Servers[Len(answer) + 1])
  /\ UNCHANGED <<leader, up, wanted, asking, listed, subConns, ready, pickerVars,
                 current, losses>>

\* GetServers returns an error: logged, and nothing is updated.
GetServersFails ==
  /\ asking
  /\ losses < MaxLosses /\ losses' = losses + 1
  /\ asking' = FALSE /\ answer' = <<>>
  /\ UNCHANGED <<leader, up, wanted, listed, subConns, ready, pickerVars, current>>

\* Of the ready connections, those that the addresses still ask for (external).
StillReady(conns) == ready \intersect conns

\* The rest of ResolveNow, and what the balancer makes of the addresses.
UpdateState ==
  /\ asking /\ Len(answer) = Len(Servers)
  /\ listed' = [n \in Server |-> \E i \in 1 .. Len(Servers) : Servers[i] = n /\ answer[i]]
  /\ subConns' = {[node |-> n, isLeader |-> listed'[n]] : n \in Server}
  /\ ready' = StillReady(subConns')
  /\ Build(ready')
  /\ asking' = FALSE /\ answer' = <<>>
  /\ UNCHANGED <<leader, up, wanted, current, losses>>

-----------------------------------------------------------------------------
(* External: connections, servers and raft *)

Connect(sc) ==
  /\ sc \in subConns \ ready /\ sc.node \in up
  /\ ready' = ready \union {sc}
  /\ Build(ready')
  /\ UNCHANGED <<leader, up, resolverVars, listed, subConns, current, losses>>

ConnectFails(sc) ==
  /\ sc \in subConns /\ sc.node \notin up
  /\ ~wanted /\ wanted' = TRUE
  /\ UNCHANGED <<leader, up, asking, answer, listed, subConns, ready, pickerVars,
                 current, losses>>

Lose(conns) ==
  /\ ready' = ready \ conns
  /\ Build(ready')
  /\ wanted' = TRUE
  /\ UNCHANGED <<leader, asking, answer, listed, subConns, current>>

Disconnect(sc) ==
  /\ sc \in ready
  /\ losses < MaxLosses /\ losses' = losses + 1
  /\ Lose({sc})
  /\ UNCHANGED up

\* One server dies, not the one that is asked; if it led, it is taken for the
\* leader until an election.
Kill(n) ==
  /\ up = Server /\ n # Target
  /\ Lose({sc \in ready : sc.node = n})
  /\ up' = up \ {n}
  /\ UNCHANGED losses

\* The server that is asked learns of another leader, or of there being none.
LeaderChanges(n) ==
  /\ n \in (up \union {Nobody}) \ {leader}
  /\ leader' = n
  /\ UNCHANGED <<up, resolverVars, listed, subConns, ready, pickerVars, current, losses>>

Next ==
  \/ ResolveNow \/ GetServers \/ GetServersFails \/ UpdateState
  \/ \E method \in {"Produce", "Consume", "GetServers"} : Pick(method)
  \/ \E sc \in SubConn : Connect(sc) \/ ConnectFails(sc) \/ Disconnect(sc)
  \/ \E n \in Server : Kill(n)
  \/ \E n \in Server \union {Nobody} : LeaderChanges(n)

\* gRPC runs the resolver when it is wanted, keeps connecting, and asks again
\* each time it fails.
Fairness ==
  /\ WF_vars(ResolveNow) /\ WF_vars(GetServers) /\ WF_vars(UpdateState)
  /\ \A sc \in SubConn : WF_vars(Connect(sc)) /\ WF_vars(ConnectFails(sc))

Spec == Init /\ [][Next]_vars /\ Fairness

-----------------------------------------------------------------------------
(* Properties *)

\* The type invariant. Only connections that the balancer keeps are ready.
TypeOK ==
  /\ leader \in Server \union {Nobody} /\ up \subseteq Server
  /\ wanted \in BOOLEAN /\ asking \in BOOLEAN
  /\ answer \in Seq(BOOLEAN) /\ Len(answer) <= Len(Servers)
  /\ listed \in [Server -> BOOLEAN]
  /\ subConns \subseteq SubConn /\ ready \subseteq subConns
  /\ pLeader \in SubConn \union {Nobody}
  /\ followers \in Seq(SubConn) /\ current \in 0 .. Cycle - 1

\* Build forgets no leader, so that what Pick returns for Produce may be a
\* connection of long ago. It can carry a call only if it is ready, and then
\* its server is one that the list applied last calls the leader.
ProduceGoesToListedLeader ==
  \A sc \in ready : PickResult("Produce") = sc => listed[sc.node]

\* As long as any connection is ready Consume gets one that is ready, even when
\* the list names no leader or two, or has just changed.
ConsumeIsServed == ready # {} => PickResult("Consume") \in ready

-----------------------------------------------------------------------------
(* The inductive invariant *)

\* The connections are those the list of servers asks for, each with the
\* attributes it has there.
ConnectionsAreListed ==
  /\ \A sc \in subConns : sc.isLeader = listed[sc.node]
  /\ ready \subseteq subConns /\ IsFiniteSet(ready)

\* The picker is the one Build makes of the ready connections, but for a leader
\* it may have kept: that one was called a leader when it was found.
PickerIsBuilt ==
  /\ pLeader # Nobody => pLeader.isLeader
  /\ Leaders(ready) # {} => pLeader \in Leaders(ready)
  /\ followers \in Seq(ready)
  /\ followers = <<>> => ready = Leaders(ready)

\* What each step preserves: the picker fits the connections that are ready, and
\* those fit the last list the resolver was given.
Inv == TypeOK /\ ConnectionsAreListed /\ PickerIsBuilt

-----------------------------------------------------------------------------
(* Liveness *)

\* A client comes to know of a failover: when a server is down and the others
\* have settled on a leader, Produce goes to that leader in the end, although
\* the resolver may have asked in the middle of the election, or in vain. (But
\* when its first question fails nothing is connected and nothing asks again.)
FailoverIsNoticed ==
  \A n \in Server :
    <>[](leader = n /\ n \in up /\ up # Server /\ subConns # {}) =>
      <>[](PickResult("Produce") = [node |-> n, isLeader |-> TRUE] /\ pLeader \in ready)
=============================================================================
