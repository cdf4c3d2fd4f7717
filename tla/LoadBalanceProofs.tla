-------------------------- MODULE LoadBalanceProofs --------------------------
(***************************************************************************)
(* The picker's safety for any list of servers and any number of losses.   *)
(* Every step that touches the connections ends in a Build, so that the    *)
(* picker agrees with the ready connections whatever the resolver, raft    *)
(* and the network do between two Builds.                                  *)
(***************************************************************************)
EXTENDS LoadBalance, FiniteSetTheorems, SequenceTheorems, TLAPS

-----------------------------------------------------------------------------
(* Build *)

\* The followers are listed once each; the list is empty for an empty set only.
LEMMA ListOfSet ==
  ASSUME NEW S, IsFiniteSet(S), NEW f \in SetToSeqs(S)
  PROVE  f \in Seq(S) /\ (f = <<>> => S = {})
<1> PICK n \in Nat : n = Cardinality(S)
  BY FS_CardinalityType
<1>1. f \in [1 .. n -> S]
  BY DEF SetToSeqs
<1>2. f \in Seq(S) /\ Len(f) = n
  BY <1>1
<1>3. f = <<>> => n = 0
  BY <1>2, EmptySeq
<1>4. n = 0 => S = {}
  BY FS_EmptySet
<1>5. QED
  BY <1>2, <1>3, <1>4

\* Whatever set of ready connections Build is given, the picker fits it.
LEMMA BuildFits ==
  ASSUME Inv, ready' \subseteq SubConn, IsFiniteSet(ready'), Build(ready')
  PROVE  /\ PickerIsBuilt'
         /\ pLeader' \in SubConn \union {Nobody} /\ followers' \in Seq(SubConn)
<1> PICK R : R = ready'
  OBVIOUS
<1>1. R \subseteq SubConn /\ IsFiniteSet(R) /\ Leaders(R) \subseteq R
  BY DEF Leaders
<1>2. /\ pLeader' \in IF Leaders(R) = {} THEN {pLeader} ELSE Leaders(R)
      /\ followers' \in SetToSeqs(R \ Leaders(R))
  BY DEF Build
<1>3. IsFiniteSet(R \ Leaders(R))
  BY <1>1, FS_Subset
<1>4. /\ followers' \in Seq(R \ Leaders(R))
      /\ followers' = <<>> => R \ Leaders(R) = {}
  BY <1>2, <1>3, ListOfSet
<1>5. followers' \in Seq(R) /\ followers' \in Seq(SubConn)
  <2>1. \A T : R \ Leaders(R) \subseteq T => followers' \in Seq(T)
    BY <1>4
  <2>2. QED
    BY <1>1, <2>1
<1>6. /\ Leaders(R) # {} => pLeader' \in Leaders(R)
      /\ Leaders(R) = {} => pLeader' = pLeader
  BY <1>2
<1>7. \A sc \in Leaders(R) : sc.isLeader /\ sc \in SubConn
  BY <1>1, Zenon DEF Leaders
<1>8. pLeader \in SubConn \union {Nobody} /\ (pLeader # Nobody => pLeader.isLeader)
  BY Zenon DEF Inv, TypeOK, PickerIsBuilt
<1>9. pLeader' \in SubConn \union {Nobody} /\ (pLeader' # Nobody => pLeader'.isLeader)
  BY <1>6, <1>7, <1>8, Zenon
<1>10. followers' = <<>> => R = Leaders(R)
  BY <1>1, <1>4
<1>11. PickerIsBuilt'
  BY <1>5, <1>6, <1>9, <1>10, Zenon DEF PickerIsBuilt, Leaders
<1>12. QED
  BY <1>5, <1>9, <1>11

-----------------------------------------------------------------------------
(* The invariant *)

LEMMA InitInv == Init => Inv
<1> SUFFICES ASSUME Init PROVE Inv
  OBVIOUS
<1>1. TypeOK
  <2>1. answer \in Seq(BOOLEAN) /\ Len(answer) <= Len(Servers) /\ followers \in Seq(SubConn)
    BY LoadBalanceAssumption DEF Init
  <2>2. current \in 0 .. Cycle - 1
    BY LoadBalanceAssumption DEF Init
  <2>3. listed \in [Server -> BOOLEAN]
    BY DEF Init
  <2>4. QED
    BY <2>1, <2>2, <2>3, Zenon DEF Init, TypeOK
<1>2. ConnectionsAreListed
  BY FS_EmptySet DEF Init, ConnectionsAreListed
<1>3. PickerIsBuilt
  BY DEF Init, PickerIsBuilt, Leaders
<1>4. QED
  BY <1>1, <1>2, <1>3 DEF Inv

\* Steps of the resolver before its answer is complete, of raft, and of Pick: no
\* connection and no picker changes.
LEMMA ElsewhereInv ==
  ASSUME Inv, UNCHANGED <<listed, subConns, ready, pLeader, followers>>,
         leader' \in Server \union {Nobody}, up' \subseteq Server,
         wanted' \in BOOLEAN, asking' \in BOOLEAN,
         answer' \in Seq(BOOLEAN), Len(answer') <= Len(Servers),
         current' \in 0 .. Cycle - 1
  PROVE  Inv'
<1>1. TypeOK'
  BY DEF Inv, TypeOK
<1>2. ConnectionsAreListed'
  BY Zenon DEF Inv, ConnectionsAreListed
<1>3. PickerIsBuilt'
  BY Zenon DEF Inv, PickerIsBuilt, Leaders
<1>4. QED
  BY <1>1, <1>2, <1>3 DEF Inv

LEMMA PickInv ==
  ASSUME Inv, NEW method, Pick(method)
  PROVE  Inv'
<1>1. current' \in 0 .. Cycle - 1
  BY LoadBalanceAssumption DEF Inv, TypeOK, Pick
<1>2. QED
  BY <1>1, ElsewhereInv DEF Inv, TypeOK, Pick, resolverVars, pickerVars

LEMMA ResolveNowInv ==
  ASSUME Inv, ResolveNow
  PROVE  Inv'
<1>1. answer' \in Seq(BOOLEAN) /\ Len(answer') <= Len(Servers)
  BY LoadBalanceAssumption DEF ResolveNow
<1>2. QED
  BY <1>1, ElsewhereInv DEF Inv, TypeOK, ResolveNow, pickerVars

LEMMA GetServersInv ==
  ASSUME Inv, GetServers
  PROVE  Inv'
<1>1. answer' \in Seq(BOOLEAN) /\ Len(answer') <= Len(Servers)
  <2> PICK x \in BOOLEAN : x = (leader = Servers[Len(answer) + 1])
    OBVIOUS
  <2>1. answer' = Append(answer, x)
    BY DEF GetServers
  <2>2. QED
    BY <2>1, LoadBalanceAssumption DEF Inv, TypeOK, GetServers
<1>2. QED
  BY <1>1, ElsewhereInv DEF Inv, TypeOK, GetServers, pickerVars

LEMMA GetServersFailsInv ==
  ASSUME Inv, GetServersFails
  PROVE  Inv'
<1>1. answer' \in Seq(BOOLEAN) /\ Len(answer') <= Len(Servers)
  BY LoadBalanceAssumption DEF GetServersFails
<1>2. QED
  BY <1>1, ElsewhereInv DEF Inv, TypeOK, GetServersFails, pickerVars

LEMMA ConnectFailsInv ==
  ASSUME Inv, NEW sc \in SubConn, ConnectFails(sc)
  PROVE  Inv'
  BY ElsewhereInv DEF Inv, TypeOK, ConnectFails, pickerVars

LEMMA LeaderChangesInv ==
  ASSUME Inv, NEW n \in Server \union {Nobody}, LeaderChanges(n)
  PROVE  Inv'
  BY ElsewhereInv DEF Inv, TypeOK, LeaderChanges, resolverVars, pickerVars

\* A step that changes the ready connections rebuilds the picker for them.
LEMMA RebuiltInv ==
  ASSUME Inv, Build(ready'), ready' \subseteq subConns', IsFiniteSet(ready'),
         subConns' \subseteq SubConn, listed' \in [Server -> BOOLEAN],
         \A sc \in subConns' : sc.isLeader = listed'[sc.node],
         leader' = leader, up' \subseteq Server,
         wanted' \in BOOLEAN, asking' \in BOOLEAN,
         answer' \in Seq(BOOLEAN), Len(answer') <= Len(Servers), current' = current
  PROVE  Inv'
<1>1. ready' \subseteq SubConn
  OBVIOUS
<1>2. /\ PickerIsBuilt'
      /\ pLeader' \in SubConn \union {Nobody} /\ followers' \in Seq(SubConn)
  BY <1>1, BuildFits
<1>3. TypeOK'
  BY <1>2 DEF Inv, TypeOK
<1>4. ConnectionsAreListed'
  BY Zenon DEF ConnectionsAreListed
<1>5. QED
  BY <1>2, <1>3, <1>4 DEF Inv

\* A connection whose server has another is_leader now is gone.
LEMMA UpdateStateInv ==
  ASSUME Inv, UpdateState
  PROVE  Inv'
<1>1. listed' \in [Server -> BOOLEAN]
  <2> DEFINE said(n) == \E i \in 1 .. Len(Servers) : Servers[i] = n /\ answer[i]
  <2>1. listed' = [n \in Server |-> said(n)]
    BY DEF UpdateState
  <2>2. \A n \in Server : said(n) \in BOOLEAN
    OBVIOUS
  <2> HIDE DEF said
  <2>3. QED
    BY <2>1, <2>2, Zenon
<1>2. subConns' = {[node |-> n, isLeader |-> listed'[n]] : n \in Server}
  BY DEF UpdateState
<1>3. subConns' \subseteq SubConn /\ \A sc \in subConns' : sc.isLeader = listed'[sc.node]
  <2> SUFFICES ASSUME NEW sc \in subConns'
               PROVE  sc \in SubConn /\ sc.isLeader = listed'[sc.node]
    OBVIOUS
  <2>1. PICK n \in Server : sc = [node |-> n, isLeader |-> listed'[n]]
    BY <1>2
  <2>2. PICK b \in BOOLEAN : b = listed'[n]
    BY <1>1
  <2>3. sc = [node |-> n, isLeader |-> b]
    BY <2>1, <2>2, Zenon
  <2>4. sc \in SubConn /\ sc.isLeader = b /\ sc.node = n
    BY <2>3, Zenon DEF SubConn
  <2>5. QED
    BY <2>2, <2>4, Zenon
<1>4. ready' \subseteq subConns' /\ IsFiniteSet(ready')
  BY FS_Subset DEF UpdateState, StillReady, Inv, ConnectionsAreListed
<1>5. answer' \in Seq(BOOLEAN) /\ Len(answer') <= Len(Servers) /\ asking' \in BOOLEAN
  <2>1. answer' = <<>> /\ asking' = FALSE
    BY Zenon DEF UpdateState
  <2>2. answer' \in Seq(BOOLEAN) /\ Len(answer') <= Len(Servers)
    BY <2>1, LoadBalanceAssumption
  <2>3. asking' \in BOOLEAN
    BY <2>1, Zenon
  <2>4. QED
    BY <2>2, <2>3
<1>6. UNCHANGED <<leader, up, wanted, current>> /\ Build(ready')
  BY DEF UpdateState
<1>7. up' \subseteq Server /\ wanted' \in BOOLEAN
  BY <1>6 DEF Inv, TypeOK
<1>8. QED
  BY <1>1, <1>3, <1>4, <1>5, <1>6, <1>7, RebuiltInv, Zenon

\* The other steps that end in a Build leave the list and its connections alone.
LEMMA ReadyChangesInv ==
  ASSUME Inv, Build(ready'), ready' \subseteq subConns, IsFiniteSet(ready'),
         UNCHANGED <<leader, asking, answer, listed, subConns, current>>,
         up' \subseteq Server, wanted' \in BOOLEAN
  PROVE  Inv'
<1>1. /\ subConns' \subseteq SubConn /\ listed' \in [Server -> BOOLEAN] /\ asking' \in BOOLEAN
      /\ answer' \in Seq(BOOLEAN) /\ Len(answer') <= Len(Servers)
  BY DEF Inv, TypeOK
<1>2. \A sc \in subConns' : sc.isLeader = listed'[sc.node]
  BY Zenon DEF Inv, ConnectionsAreListed
<1>3. QED
  BY <1>1, <1>2, RebuiltInv, Zenon

LEMMA ConnectInv ==
  ASSUME Inv, NEW sc \in SubConn, Connect(sc)
  PROVE  Inv'
<1>1. ready' \subseteq subConns /\ IsFiniteSet(ready')
  BY FS_AddElement DEF Connect, Inv, ConnectionsAreListed
<1>2. up' \subseteq Server /\ wanted' \in BOOLEAN
  BY DEF Connect, Inv, TypeOK, resolverVars
<1>3. QED
  BY <1>1, <1>2, ReadyChangesInv DEF Connect, resolverVars

LEMMA LoseInv ==
  ASSUME Inv, NEW conns, Lose(conns), up' \subseteq Server
  PROVE  Inv'
<1>1. ready' \subseteq subConns /\ IsFiniteSet(ready')
  BY FS_Subset DEF Lose, Inv, ConnectionsAreListed
<1>2. wanted' \in BOOLEAN
  BY DEF Lose
<1>3. QED
  BY <1>1, <1>2, ReadyChangesInv DEF Lose

LEMMA NextInv == Inv /\ [Next]_vars => Inv'
<1> SUFFICES ASSUME Inv, [Next]_vars PROVE Inv'
  OBVIOUS
<1>1. CASE ResolveNow
  BY <1>1, ResolveNowInv
<1>2. CASE GetServers
  BY <1>2, GetServersInv
<1>3. CASE GetServersFails
  BY <1>3, GetServersFailsInv
<1>4. CASE UpdateState
  BY <1>4, UpdateStateInv
<1>5. ASSUME NEW method \in {"Produce", "Consume", "GetServers"}, Pick(method) PROVE Inv'
  BY <1>5, PickInv
<1>6. ASSUME NEW sc \in SubConn, Connect(sc) \/ ConnectFails(sc) PROVE Inv'
  BY <1>6, ConnectInv, ConnectFailsInv
<1>7. ASSUME NEW sc \in SubConn, Disconnect(sc) PROVE Inv'
  <2>1. up' \subseteq Server
    BY <1>7 DEF Disconnect, Inv, TypeOK
  <2>2. QED
    BY <1>7, <2>1, LoseInv DEF Disconnect
<1>8. ASSUME NEW n \in Server, Kill(n) PROVE Inv'
  <2>1. up' \subseteq Server
    BY <1>8 DEF Kill, Inv, TypeOK
  <2>2. QED
    BY <1>8, <2>1, LoseInv DEF Kill
<1>9. ASSUME NEW n \in Server \union {Nobody}, LeaderChanges(n) PROVE Inv'
  BY <1>9, LeaderChangesInv
<1>10. CASE UNCHANGED vars
  BY <1>10, ElsewhereInv DEF vars, resolverVars, pickerVars, Inv, TypeOK
<1>11. QED
  BY <1>1, <1>2, <1>3, <1>4, <1>5, <1>6, <1>7, <1>8, <1>9, <1>10 DEF Next

-----------------------------------------------------------------------------
(* Theorems *)

\* The inductive invariant of the client holds in every state.
THEOREM InvInvariant == Spec => []Inv
<1>1. QED
  BY InitInv, NextInv, PTL DEF Spec

\* The variables of resolver, balancer and picker keep their types.
THEOREM TypeCorrect == Spec => []TypeOK
<1>1. Inv => TypeOK
  BY DEF Inv
<1>2. QED
  BY <1>1, InvInvariant, PTL

\* A Produce that gets a usable connection goes to a server that the last list
\* calls the leader, although Build never forgets a leader it once found.
THEOREM ProduceFindsLeader == Spec => []ProduceGoesToListedLeader
<1>1. Inv => ProduceGoesToListedLeader
  <2> SUFFICES ASSUME Inv, NEW sc \in ready, pLeader = sc PROVE listed[sc.node]
    BY DEF ProduceGoesToListedLeader, PickResult
  <2>1. sc \in subConns /\ sc \in SubConn
    BY DEF Inv, ConnectionsAreListed, TypeOK
  <2>2. sc # Nobody
    BY <2>1, LoadBalanceAssumption
  <2>3. sc.isLeader /\ sc.isLeader = listed[sc.node]
    BY <2>1, <2>2, Zenon DEF Inv, ConnectionsAreListed, PickerIsBuilt
  <2>4. QED
    BY <2>3, Zenon
<1>2. QED
  BY <1>1, InvInvariant, PTL

\* While any connection is ready Consume is given a ready one: a follower, or the
\* leader when there is none.
THEOREM ConsumeFindsServer == Spec => []ConsumeIsServed
<1>1. Inv => ConsumeIsServed
  <2> SUFFICES ASSUME Inv, ready # {} PROVE PickResult("Consume") \in ready
    BY DEF ConsumeIsServed
  <2>1. CASE followers = <<>>
    <3>1. Leaders(ready) = ready /\ pLeader \in Leaders(ready)
      BY <2>1 DEF Inv, PickerIsBuilt
    <3>2. QED
      BY <2>1, <3>1 DEF PickResult
  <2>2. CASE followers # <<>>
    <3>1. followers \in Seq(ready) /\ Len(followers) \in Nat \ {0} /\ current \in Nat
      <4>1. followers \in Seq(ready)
        BY DEF Inv, PickerIsBuilt
      <4>2. Len(followers) \in Nat \ {0}
        BY <2>2, <4>1, EmptySeq
      <4>3. current \in Nat
        BY LoadBalanceAssumption DEF Inv, TypeOK
      <4>4. QED
        BY <4>1, <4>2, <4>3
    <3>2. ((current + 1) % Len(followers)) + 1 \in 1 .. Len(followers)
      BY <3>1
    <3>3. nextFollower \in ready
      BY <3>1, <3>2 DEF nextFollower
    <3>4. QED
      BY <2>2, <3>3 DEF PickResult
  <2>3. QED
    BY <2>1, <2>2
<1>2. QED
  BY <1>1, InvInvariant, PTL
=============================================================================
