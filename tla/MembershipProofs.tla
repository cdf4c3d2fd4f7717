-------------------------- MODULE MembershipProofs --------------------------
(***************************************************************************)
(* Raft's configuration follows serf's members, for any number of nodes    *)
(* and changes. The events of a node are numbered: those that wait for the *)
(* leader are later than what was carried out, and the last of them tells  *)
(* the truth, so that whatever was lost before it is made good by it.      *)
(***************************************************************************)
EXTENDS Membership, FiniteSetTheorems, SequenceTheorems, TLAPS

USE MembershipAssumption

-----------------------------------------------------------------------------
(* Lists and queues *)

\* A finite set can be listed.
LEMMA SetAsList ==
  ASSUME NEW S, IsFiniteSet(S)
  PROVE  SetToSeq(S) \in Seq(S)
<1> PICK k \in Nat : k = Cardinality(S)
  BY FS_CardinalityType
<1>1. PICK f : f \in Bijection(1 .. k, S)
  BY FS_CardinalityType DEF ExistsBijection
<1>2. f \in [1 .. k -> S] /\ IsInjective(f)
  BY <1>1 DEF Bijection, Injection, IsInjective
<1>3. SetToSeq(S) \in [1 .. k -> S]
  BY <1>2, Zenon DEF SetToSeq
<1>4. QED
  BY <1>3

\* The events that a node that starts is told of: one for each member.
LEMMA MembersAsList ==
  ASSUME TypeOK, NEW n \in Node, NEW a \in [Node -> Addr], NEW l \in [Node -> Nat]
  PROVE  SetToSeq({Event("join", k, a[k], l[k]) : k \in Alive \union {n}}) \in Seq(Message)
<1> DEFINE M == Alive \union {n}
           f == [k \in M |-> Event("join", k, a[k], l[k])]
           S == {Event("join", k, a[k], l[k]) : k \in M}
<1>1. M \subseteq Node /\ IsFiniteSet(M)
  BY FS_Subset DEF Alive
<1>2. f \in Surjection(M, S)
  BY DEF Surjection
<1>3. IsFiniteSet(S)
  BY <1>1, <1>2, FS_Surjection
<1>4. S \subseteq Message
  BY <1>1 DEF Event, Message
<1>5. SetToSeq(S) \in Seq(S)
  BY <1>3, SetAsList
<1> HIDE DEF S, M, f
<1>6. SetToSeq(S) \in Seq(Message)
  BY <1>4, <1>5
<1>7. QED
  BY <1>6 DEF S, M

\* The event at the head of a queue, and the queue without it.
LEMMA Popping ==
  ASSUME NEW S, NEW q \in Seq(S), q # <<>>
  PROVE  /\ Head(q) \in S /\ Head(q) = q[1] /\ 1 \in 1 .. Len(q)
         /\ Tail(q) \in Seq(S) /\ Len(Tail(q)) = Len(q) - 1
         /\ \A i \in 1 .. Len(q) - 1 : Tail(q)[i] = q[i + 1]
OBVIOUS

\* Append leaves the events that wait where they are.
LEMMA Appending ==
  ASSUME NEW S, NEW q \in Seq(S), NEW e \in S
  PROVE  /\ Append(q, e) \in Seq(S) /\ Append(q, e) # <<>>
         /\ Len(Append(q, e)) = Len(q) + 1
         /\ Append(q, e)[Len(q) + 1] = e
         /\ \A i \in 1 .. Len(q) : Append(q, e)[i] = q[i]
         /\ q # <<>> => Head(Append(q, e)) = Head(q)
<1>1. /\ Append(q, e) \in Seq(S) /\ Len(Append(q, e)) = Len(q) + 1
      /\ Append(q, e)[Len(q) + 1] = e
      /\ \A i \in 1 .. Len(q) : Append(q, e)[i] = q[i]
  OBVIOUS
<1>2. Append(q, e) # <<>>
  BY <1>1
<1>3. ASSUME q # <<>> PROVE Head(Append(q, e)) = Head(q)
  <2>1. Head(q) = q[1] /\ 1 \in 1 .. Len(q)
    BY <1>3
  <2>2. Head(Append(q, e)) = Append(q, e)[1]
    BY <1>1, <1>2
  <2>3. QED
    BY <1>1, <2>1, <2>2
<1>4. QED
  BY <1>1, <1>2, <1>3

-----------------------------------------------------------------------------
(* The initial states *)

LEMMA InitInv == Init => Inv
<1> SUFFICES ASSUME Init PROVE Inv
  OBVIOUS
<1>1. TypeOK
  <2>1. events \in [Node -> Seq(Message)]
    <3>1. Event("join", Bootstrap, BootstrapAddr, 0) \in Message
      BY DEF Event, Message
    <3>2. <<Event("join", Bootstrap, BootstrapAddr, 0)>> \in Seq(Message) /\ <<>> \in Seq(Message)
      BY <3>1
    <3>3. QED
      BY <3>2 DEF Init
  <2>2. /\ status \in [Node -> {"out", "alive", "left", "crashed", "failed"}]
        /\ handler \in [Node -> {"run", "done"}] /\ addr \in [Node -> Addr]
        /\ latest \in [Node -> Nat] /\ served \in [Node -> Nat] /\ changes \in Nat
    BY DEF Init
  <2>3. running \subseteq Node /\ leader \in Node \union {Nobody}
    BY DEF Init
  <2>4. config \subseteq [id : Node, addr : Addr]
    BY DEF Init, ServerOf
  <2>5. job \in [Node -> {Idle} \union Joining] /\ \A n \in Node : job[n] = Idle
    BY DEF Init
  <2>6. QED
    BY <2>1, <2>2, <2>3, <2>4, <2>5 DEF TypeOK
<1>2. RunningOK
  BY DEF Init, RunningOK
<1>3. ConfigOK
  BY FS_Singleton DEF Init, ConfigOK
<1>4. QueueOK
  BY DEF Init, QueueOK, Event
<1>5. JobOK
  BY DEF Init, JobOK
<1>6. \A n \in Node : served[n] <= latest[n]
  BY DEF Init
<1>7. ConfigFollowsMembers
  BY DEF Init, ConfigFollowsMembers, ServersOf, ServerOf, Member
<1>8. QED
  BY <1>1, <1>2, <1>3, <1>4, <1>5, <1>6, <1>7 DEF Inv

-----------------------------------------------------------------------------
(* What the leader and the configuration are about *)

\* The part of the invariant that is about the leader's queue and raft's
\* configuration.
Carried == QueueOK /\ JobOK /\ ConfigOK /\ ConfigFollowsMembers
             /\ \A n \in Node : served[n] <= latest[n]

\* Nothing changes for the leader: not its queue, its Join or the configuration,
\* and no node becomes a member or ceases to be one.
LEMMA Quiet ==
  ASSUME Inv, UNCHANGED <<addr, latest, served, config>>,
         events'[Bootstrap] = events[Bootstrap], job'[Bootstrap] = job[Bootstrap],
         \A n \in Node : Member(n)' = Member(n)
  PROVE  Carried'
<1>1. QueueOK'
  <2> PICK q \in Seq(Message) : q = events[Bootstrap]
    BY DEF Inv, TypeOK
  <2>1. SUFFICES ASSUME NEW i \in 1 .. Len(q), q[i].id # Bootstrap PROVE EventOK(q, i)'
    BY DEF QueueOK
  <2>2. q[i] \in Message
    OBVIOUS
  <2>3. EventOK(q, i)
    BY <2>1 DEF Inv, QueueOK
  <2>4. QED
    BY <2>2, <2>3 DEF EventOK, Message
<1>2. JobOK'
  BY DEF Inv, JobOK
<1>3. ConfigOK' /\ \A n \in Node : served'[n] <= latest'[n]
  BY DEF Inv, ConfigOK
<1>4. ConfigFollowsMembers'
  BY DEF Inv, ConfigFollowsMembers, ServersOf
<1>5. QED
  BY <1>1, <1>2, <1>3, <1>4 DEF Carried

\* serf tells the leader of a change of node n, which is true now and which
\* nobody has carried out yet.
LEMMA Told ==
  ASSUME Inv, NEW n \in Node \ {Bootstrap}, NEW e \in Message,
         e.id = n, e.no = latest[n] + 1,
         e.addr = addr'[n], Gone(e) <=> ~Member(n)',
         events'[Bootstrap] = Append(events[Bootstrap], e),
         latest' = [latest EXCEPT ![n] = @ + 1],
         \A m \in Node \ {n} : addr'[m] = addr[m] /\ status'[m] = status[m],
         UNCHANGED <<served, config>>, job'[Bootstrap] = job[Bootstrap]
  PROVE  Carried'
<1> PICK q \in Seq(Message) : q = events[Bootstrap]
  BY DEF Inv, TypeOK
<1>0. latest \in [Node -> Nat] /\ served \in [Node -> Nat] /\ \A m \in Node : served[m] <= latest[m]
  BY DEF Inv, TypeOK
<1>1. QueueOK'
  <2> PICK r \in Seq(Message) : r = Append(q, e)
    BY Appending
  <2>1. SUFFICES ASSUME NEW i \in 1 .. Len(q) + 1, r[i].id # Bootstrap PROVE EventOK(r, i)'
    BY Appending DEF QueueOK
  <2>2. Len(r) = Len(q) + 1 /\ r[Len(q) + 1] = e /\ \A j \in 1 .. Len(q) : r[j] = q[j]
    BY Appending
  <2>3. CASE i = Len(q) + 1
    <3>1. r[i] = e /\ i + 1 .. Len(r) = {}
      BY <2>2, <2>3
    <3>2. latest'[n] = latest[n] + 1 /\ served'[n] <= latest[n]
      BY <1>0
    <3>3. served[n] \in Nat /\ latest[n] \in Nat /\ e.no \in Nat
      BY <1>0 DEF Message
    <3>4. served'[e.id] < e.no /\ e.no <= latest'[e.id]
      BY <3>2, <3>3
    <3>5. QED
      BY <3>1, <3>4, SMTT(30) DEF EventOK
  <2>4. CASE i \in 1 .. Len(q)
    <3>1. r[i] = q[i] /\ q[i] \in Message
      BY <2>2, <2>4
    <3>2. EventOK(q, i)
      <4>1. QueueOK
        BY DEF Inv
      <4>2. q[i].id # Bootstrap
        BY <2>1, <3>1
      <4>3. QED
        BY <2>4, <4>1, <4>2, ZenonT(30) DEF QueueOK
    <3> PICK k \in Node, no \in Nat : k = q[i].id /\ no = q[i].no
      BY <3>1 DEF Message
    <3>3. served[k] < no /\ no <= latest[k] /\ latest[k] \in Nat /\ served[k] \in Nat
      BY <1>0, <3>2 DEF EventOK
    <3>4. CASE k = n
      <4>1. no < latest'[k] /\ latest'[k] = e.no
        BY <1>0, <3>3, <3>4
      <4>2. \A j \in i + 1 .. Len(r) : r[j].id = k => no < r[j].no
        <5>1. SUFFICES ASSUME NEW j \in i + 1 .. Len(r), r[j].id = k PROVE no < r[j].no
          OBVIOUS
        <5>2. CASE j = Len(q) + 1
          BY <2>2, <4>1, <5>2
        <5>3. CASE j \in i + 1 .. Len(q)
          BY <2>2, <3>2, <5>1, <5>3 DEF EventOK
        <5>4. QED
          BY <2>2, <5>2, <5>3
      <4>3. latest'[k] \in Nat /\ no # latest'[k] /\ no <= latest'[k]
        BY <1>0, <3>3, <3>4, SMTT(30)
      <4>4. QED
        <5>1. k = r[i].id /\ no = r[i].no
          BY <3>1, Zenon
        <5>2. served'[k] < no /\ no <= latest'[k]
          BY <3>3, <4>3
        <5>3. served'[r[i].id] < r[i].no /\ r[i].no <= latest'[r[i].id] /\ r[i].no # latest'[r[i].id]
          BY <4>3, <5>1, <5>2, Zenon
        <5>4. \A j \in i + 1 .. Len(r) : r[j].id = r[i].id => r[i].no < r[j].no
          <6>1. SUFFICES ASSUME NEW j \in i + 1 .. Len(r), r[j].id = r[i].id PROVE r[i].no < r[j].no
            OBVIOUS
          <6>2. r[j].id = k
            BY <5>1, <6>1, Zenon
          <6>3. no < r[j].no
            BY <4>2, <6>2, Zenon
          <6>4. QED
            BY <5>1, <6>3, Zenon
        <5>5. QED
          BY <5>3, <5>4, Zenon DEF EventOK
    <3>5. CASE k # n
      <4>1. latest'[k] = latest[k] /\ addr'[k] = addr[k] /\ status'[k] = status[k]
        BY <1>0, <3>5
      <4>2. Member(k)' = Member(k)
        BY <4>1 DEF Member
      <4>3. \A j \in i + 1 .. Len(r) : r[j].id = k => no < r[j].no
        BY <2>2, <3>2, <3>5 DEF EventOK
      <4>4. QED
        <5>1. served'[k] < no /\ no <= latest'[k]
          BY <3>3, <4>1
        <5>2. no = latest'[k] => /\ q[i].addr = addr'[k]
                                 /\ Gone(q[i]) <=> ~Member(k)'
          <6>1. no = latest[k] => q[i].addr = addr[k] /\ (Gone(q[i]) <=> ~Member(k))
            BY <3>2, Zenon DEF EventOK
          <6>2. QED
            BY <4>1, <4>2, <6>1, Zenon
        <5>3. QED
          <6>1. k = r[i].id /\ no = r[i].no /\ q[i] = r[i]
            BY <3>1
          <6>2. QED
            <7>1. served'[r[i].id] < r[i].no /\ r[i].no <= latest'[r[i].id]
              BY <5>1, <6>1, Zenon
            <7>2. r[i].no = latest'[r[i].id] => /\ r[i].addr = addr'[r[i].id]
                                                /\ Gone(r[i]) <=> ~Member(r[i].id)'
              BY <5>2, <6>1, Zenon
            <7>3. \A j \in i + 1 .. Len(r) : r[j].id = r[i].id => r[i].no < r[j].no
              <8>1. SUFFICES ASSUME NEW j \in i + 1 .. Len(r), r[j].id = r[i].id PROVE r[i].no < r[j].no
                OBVIOUS
              <8>2. r[j].id = k
                BY <6>1, <8>1, Zenon
              <8>3. no < r[j].no
                BY <4>3, <8>2, Zenon
              <8>4. QED
                BY <6>1, <8>3, Zenon
            <7>4. QED
              BY <7>1, <7>2, <7>3, Zenon DEF EventOK
    <3>6. QED
      BY <3>4, <3>5
  <2>5. QED
    BY <2>3, <2>4
<1>2. JobOK'
  <2>1. SUFFICES ASSUME job[Bootstrap] # Idle
                 PROVE  /\ Head(Append(q, e)).type = "join" /\ Head(Append(q, e)).id # Bootstrap
                        /\ Head(Append(q, e)).addr = job[Bootstrap].addr
    BY DEF JobOK
  <2>2. q # <<>>
    BY <2>1 DEF Inv, TypeOK
  <2>3. Head(Append(q, e)) = Head(q)
    BY <2>2, Appending
  <2>4. QED
    BY <2>1, <2>3 DEF Inv, JobOK
<1>3. ConfigOK' /\ \A m \in Node : served'[m] <= latest'[m]
  BY <1>0 DEF Inv, ConfigOK
<1>4. ConfigFollowsMembers'
  <2>1. SUFFICES ASSUME NEW m \in Node, served[m] = latest'[m]
                 PROVE  ServersOf(m)' = IF Member(m)' THEN {ServerOf(m, addr'[m])} ELSE {}
    BY DEF ConfigFollowsMembers
  <2>2. m # n
    BY <1>0, <2>1
  <2>3. served[m] = latest[m] /\ addr'[m] = addr[m] /\ status'[m] = status[m]
    BY <1>0, <2>1, <2>2
  <2>4. QED
    BY <2>3 DEF Inv, ConfigFollowsMembers, ServersOf, Member
<1>5. QED
  BY <1>1, <1>2, <1>3, <1>4 DEF Carried

\* The leader is through with the event at the head of its queue, which is about
\* another node when it has been carried out.
LEMMA Popped ==
  ASSUME Inv, events[Bootstrap] # <<>>,
         events'[Bootstrap] = Tail(events[Bootstrap]),
         NEW h \in Message, h = Head(events[Bootstrap]),
         \/ served' = served
         \/ h.id # Bootstrap /\ served' = [served EXCEPT ![h.id] = h.no],
         UNCHANGED <<status, addr, latest>>
  PROVE  /\ QueueOK' /\ \A n \in Node : served'[n] <= latest'[n]
         /\ served' = served \/ EventOK(events[Bootstrap], 1)
<1> PICK q \in Seq(Message) : q = events[Bootstrap]
  BY DEF Inv, TypeOK
<1> PICK r \in Seq(Message) : r = Tail(q)
  BY Popping
<1>0. latest \in [Node -> Nat] /\ served \in [Node -> Nat] /\ \A m \in Node : served[m] <= latest[m]
  BY DEF Inv, TypeOK
<1>1. q[1] = h /\ Len(r) = Len(q) - 1 /\ \A i \in 1 .. Len(q) - 1 : r[i] = q[i + 1]
  BY Popping
<1>2. h.id # Bootstrap => EventOK(q, 1)
  BY <1>1, Popping DEF Inv, QueueOK
<1>3. QueueOK'
  <2>1. SUFFICES ASSUME NEW i \in 1 .. Len(q) - 1, r[i].id # Bootstrap PROVE EventOK(r, i)'
    BY <1>1 DEF QueueOK
  <2>2. r[i] = q[i + 1] /\ i + 1 \in 1 .. Len(q) /\ q[i + 1] \in Message
    BY <1>1
  <2>3. EventOK(q, i + 1)
    BY <2>1, <2>2 DEF Inv, QueueOK
  <2> PICK k \in Node, no \in Nat : k = q[i + 1].id /\ no = q[i + 1].no
    BY <2>2 DEF Message
  <2>4. served'[k] < no
    <3>1. CASE served' = served
      BY <2>3, <3>1 DEF EventOK
    <3>2. CASE h.id = k /\ h.id # Bootstrap /\ served' = [served EXCEPT ![h.id] = h.no]
      <4>1. h.no < no
        <5>1. i + 1 \in 1 + 1 .. Len(q)
          BY <2>2
        <5>2. \A j \in 1 + 1 .. Len(q) : q[j].id = q[1].id => q[1].no < q[j].no
          BY <1>2, <3>2, Zenon DEF EventOK
        <5>3. q[i + 1].id = q[1].id => q[1].no < q[i + 1].no
          BY <5>1, <5>2, Zenon
        <5>4. QED
          BY <1>1, <3>2, <5>3, Zenon
      <4>2. QED
        BY <1>0, <3>2, <4>1
    <3>3. CASE h.id # k /\ served' = [served EXCEPT ![h.id] = h.no]
      BY <1>0, <2>3, <3>3 DEF EventOK
    <3>4. QED
      BY <3>1, <3>2, <3>3
  <2>5. \A j \in i + 1 .. Len(r) : r[j].id = k => no < r[j].no
    <3>1. SUFFICES ASSUME NEW j \in i + 1 .. Len(r), r[j].id = k PROVE no < r[j].no
      OBVIOUS
    <3>2. r[j] = q[j + 1] /\ j + 1 \in (i + 1) + 1 .. Len(q)
      BY <1>1, <3>1
    <3>3. QED
      BY <2>3, <3>1, <3>2 DEF EventOK
  <2>6. QED
    BY <2>2, <2>3, <2>4, <2>5, ZenonT(60) DEF EventOK, Member
<1>4. \A n \in Node : served'[n] <= latest'[n]
  <2>1. CASE served' = served
    BY <1>0, <2>1
  <2>2. CASE h.id # Bootstrap /\ served' = [served EXCEPT ![h.id] = h.no]
    <3>1. h.no <= latest[h.id]
      BY <1>1, <1>2, <2>2 DEF EventOK
    <3>2. QED
      BY <1>0, <2>2, <3>1
  <2>3. QED
    BY <2>1, <2>2
<1>5. QED
  BY <1>2, <1>3, <1>4

\* The head of the queue is what the Join of the handler is about.
HeadsOK == \A n \in Node : job[n] # Idle => events[n] # <<>> /\ Head(events[n]).id = job[n].id

-----------------------------------------------------------------------------
(* serf *)

\* Telling the members leaves the heads of their queues alone.
LEMMA TellKeeps ==
  ASSUME TypeOK, NEW e \in Message, UNCHANGED job,
         events' = [m \in Node |-> IF m \in Alive THEN Append(events[m], e) ELSE events[m]]
  PROVE  events' \in [Node -> Seq(Message)] /\ HeadsOK'
<1>1. \A m \in Node : events[m] \in Seq(Message)
  BY DEF TypeOK
<1>2. \A m \in Node : Append(events[m], e) \in Seq(Message)
  BY <1>1, Appending
<1>3. events' \in [Node -> Seq(Message)]
  BY <1>1, <1>2
<1>4. HeadsOK'
  <2>1. SUFFICES ASSUME NEW m \in Node, job[m] # Idle
                 PROVE  events'[m] # <<>> /\ Head(events'[m]).id = job[m].id
    BY DEF HeadsOK
  <2>2. events[m] # <<>> /\ Head(events[m]).id = job[m].id
    BY <2>1 DEF TypeOK
  <2>3. Append(events[m], e) # <<>> /\ Head(Append(events[m], e)) = Head(events[m])
    BY <1>1, <2>2, Appending
  <2>4. QED
    BY <2>2, <2>3
<1>5. QED
  BY <1>3, <1>4

\* A step that only tells of node n: all that is left to know is its status.
LEMMA TellInv ==
  ASSUME Inv, NEW n \in Node \ {Bootstrap}, NEW type \in {"leave", "failed"},
         Tell(type, n), UNCHANGED <<addr, running, handler, job, raftVars, served>>,
         NEW st \in {"left", "failed"}, status' = [status EXCEPT ![n] = st], changes' \in Nat
  PROVE  Inv'
<1> PICK e : e = Event(type, n, addr[n], latest[n] + 1)
  OBVIOUS
<1>1. e \in Message /\ e.id = n /\ e.no = latest[n] + 1 /\ e.addr = addr[n] /\ e.type = type
  BY DEF Inv, TypeOK, Message, Event
<1>2. latest' = [latest EXCEPT ![n] = @ + 1] /\ latest'[n] = latest[n] + 1
  BY DEF Tell, Inv, TypeOK
<1>3. events' = [m \in Node |-> IF m \in Alive THEN Append(events[m], e) ELSE events[m]]
  BY <1>2 DEF Tell
<1>4. Bootstrap \in Alive
  BY DEF Inv, RunningOK, Alive
<1>5. events'[Bootstrap] = Append(events[Bootstrap], e)
  BY <1>3, <1>4
<1>6. ~Member(n)' /\ \A m \in Node \ {n} : addr'[m] = addr[m] /\ status'[m] = status[m]
  BY DEF Member, Inv, TypeOK
<1>7. Carried'
  <2>1. Gone(e) <=> ~Member(n)'
    BY <1>1, <1>6 DEF Gone
  <2>2. UNCHANGED <<served, config>> /\ job'[Bootstrap] = job[Bootstrap]
    BY DEF raftVars
  <2>3. QED
    BY <1>1, <1>2, <1>5, <1>6, <2>1, <2>2, Told
<1>8. TypeOK'
  <2>1. events' \in [Node -> Seq(Message)] /\ HeadsOK'
    BY <1>1, <1>3, TellKeeps DEF Inv
  <2>2. latest' \in [Node -> Nat]
    BY <1>2 DEF Inv, TypeOK
  <2>3. status' \in [Node -> {"out", "alive", "left", "crashed", "failed"}]
    BY DEF Inv, TypeOK
  <2>4. QED
    BY <2>1, <2>2, <2>3 DEF Inv, TypeOK, HeadsOK, raftVars
<1>9. RunningOK'
  BY <1>2 DEF Inv, TypeOK, RunningOK, raftVars
<1>10. QED
  BY <1>7, <1>8, <1>9 DEF Inv, Carried

LEMMA LeaveInv ==
  ASSUME Inv, NEW n \in Node, MayLeave(n), Leave(n)
  PROVE  Inv'
<1>1. n # Bootstrap
  BY DEF MayLeave, KeepsQuorum
<1>2. changes' \in Nat
  BY DEF Leave, Change, Inv, TypeOK
<1>3. QED
  BY <1>1, <1>2, TellInv DEF Leave

LEMMA NoticeFailedInv ==
  ASSUME Inv, NEW n \in Node, NoticeFailed(n)
  PROVE  Inv'
<1>1. n # Bootstrap
  BY DEF NoticeFailed, Inv, RunningOK
<1>2. changes' \in Nat
  BY DEF NoticeFailed, Inv, TypeOK
<1>3. QED
  BY <1>1, <1>2, TellInv DEF NoticeFailed

\* A node that starts has an empty hand: it is in no Join, and the members that
\* it is told of come to its own queue. Some of the others are told of it.
LEMMA StartsTyped ==
  ASSUME Inv, NEW n \in Node, NEW a \in Addr, Starts(n, a),
         latest' \in [Node -> Nat], latest'[Bootstrap] = latest[Bootstrap],
         NEW e \in Message, NEW told \in SUBSET Node,
         events' = [m \in Node |-> IF m = n THEN Members(n)
                                  ELSE IF m \in told THEN Append(events[m], e) ELSE events[m]]
  PROVE  TypeOK' /\ RunningOK'
<1>1. n # Bootstrap /\ n \notin running /\ job[n] = Idle
  BY DEF Starts, Inv, RunningOK
<1>2. addr' \in [Node -> Addr]
  BY DEF Starts, Inv, TypeOK
<1> PICK known : known = Members(n)
  OBVIOUS
<1>3. known \in Seq(Message)
  <2>1. known = SetToSeq({Event("join", k, addr'[k], latest'[k]) : k \in Alive \union {n}})
    BY DEF Members
  <2>2. QED
    <3>1. PICK b, l : b = addr' /\ l = latest'
      OBVIOUS
    <3>2. TypeOK /\ b \in [Node -> Addr] /\ l \in [Node -> Nat]
      BY <1>2, <3>1 DEF Inv
    <3>3. SetToSeq({Event("join", k, b[k], l[k]) : k \in Alive \union {n}}) \in Seq(Message)
      BY <3>2, MembersAsList, ZenonT(30)
    <3>4. QED
      BY <2>1, <3>1, <3>3, ZenonT(30)
<1>4. TypeOK'
  <2>1. \A m \in Node : events[m] \in Seq(Message) /\ Append(events[m], e) \in Seq(Message)
    BY Appending DEF Inv, TypeOK
  <2>2. events' \in [Node -> Seq(Message)]
    BY <1>3, <2>1
  <2>3. ASSUME NEW m \in Node, job'[m] # Idle
        PROVE  events'[m] # <<>> /\ Head(events'[m]).id = job'[m].id
    <3>1. job'[m] = job[m] /\ m # n
      BY <1>1, <2>3 DEF Starts
    <3>2. events[m] # <<>> /\ Head(events[m]).id = job[m].id
      BY <2>3, <3>1 DEF Inv, TypeOK
    <3>3. Append(events[m], e) # <<>> /\ Head(Append(events[m], e)) = Head(events[m])
      BY <2>1, <3>2, Appending
    <3>4. QED
      BY <3>1, <3>2, <3>3
  <2>4. /\ status' \in [Node -> {"out", "alive", "left", "crashed", "failed"}]
        /\ handler' \in [Node -> {"run", "done"}] /\ running' \subseteq Node
    BY DEF Starts, Inv, TypeOK
  <2>5. changes' \in Nat
    BY DEF Starts, Change, Inv, TypeOK
  <2>6. UNCHANGED <<job, config, leader, served>>
    BY DEF Starts, raftVars
  <2>7. QED
    BY <1>2, <2>2, <2>3, <2>4, <2>5, <2>6 DEF Inv, TypeOK
<1>5. RunningOK'
  BY <1>1 DEF Starts, Inv, TypeOK, RunningOK, raftVars
<1>6. QED
  BY <1>4, <1>5

\* A start that the members are told of, as a join or as an update.
LEMMA StartTold ==
  ASSUME Inv, NEW n \in Node, NEW a \in Addr, Starts(n, a),
         latest' = [latest EXCEPT ![n] = @ + 1], NEW type \in {"join", "update"},
         events' = [m \in Node |->
           IF m = n THEN Members(n)
           ELSE IF m \in Alive THEN Append(events[m], Event(type, n, a, latest'[n]))
           ELSE events[m]]
  PROVE  Inv'
<1>1. n # Bootstrap
  BY DEF Starts, Inv, RunningOK
<1>2. /\ latest' \in [Node -> Nat] /\ latest'[n] = latest[n] + 1
      /\ latest'[Bootstrap] = latest[Bootstrap]
      /\ addr' = [addr EXCEPT ![n] = a] /\ addr'[n] = a
  BY <1>1 DEF Starts, Inv, TypeOK
<1> PICK e : e = Event(type, n, a, latest[n] + 1)
  OBVIOUS
<1>3. e \in Message /\ e.id = n /\ e.no = latest[n] + 1 /\ e.addr = a /\ ~Gone(e)
  BY DEF Inv, TypeOK, Message, Event, Gone
<1>4. events' = [m \in Node |-> IF m = n THEN Members(n)
                               ELSE IF m \in Alive THEN Append(events[m], e) ELSE events[m]]
  BY <1>2
<1>5. Bootstrap \in Alive
  BY DEF Inv, RunningOK, Alive
<1>6. Carried'
  <2>1. events'[Bootstrap] = Append(events[Bootstrap], e)
    BY <1>1, <1>4, <1>5
  <2>2. Gone(e) <=> ~Member(n)'
    BY <1>3 DEF Starts, Member, Inv, TypeOK
  <2>3. \A m \in Node \ {n} : addr'[m] = addr[m] /\ status'[m] = status[m]
    BY DEF Starts, Inv, TypeOK
  <2>4. UNCHANGED <<served, config>> /\ job'[Bootstrap] = job[Bootstrap]
    BY DEF Starts, raftVars
  <2>5. QED
    BY <1>1, <1>2, <1>3, <2>1, <2>2, <2>3, <2>4, Told, ZenonT(60)
<1>7. TypeOK' /\ RunningOK'
  <2>1. Alive \in SUBSET Node
    BY DEF Alive
  <2>2. QED
    BY <1>2, <1>3, <1>4, <2>1, StartsTyped, ZenonT(60)
<1>8. QED
  BY <1>6, <1>7 DEF Inv, Carried

LEMMA NewMembershipInv ==
  ASSUME Inv, NEW n \in Node, NEW a \in Addr, NewMembership(n, a)
  PROVE  Inv'
BY StartTold DEF NewMembership

\* A node that is back in time: it never ceased to be a member, and the leader is
\* told when its address is another one.
LEMMA ReturnInv ==
  ASSUME Inv, NEW n \in Node, NEW a \in Addr, Return(n, a)
  PROVE  Inv'
<1>1. CASE a # addr[n]
  <2>1. /\ Starts(n, a) /\ latest' = [latest EXCEPT ![n] = @ + 1]
        /\ events' = [m \in Node |->
             IF m = n THEN Members(n)
             ELSE IF m \in Alive THEN Append(events[m], Event("update", n, a, latest'[n]))
             ELSE events[m]]
    BY <1>1 DEF Return
  <2>2. "update" \in {"join", "update"}
    OBVIOUS
  <2>3. QED
    BY <2>1, <2>2, StartTold
<1>2. CASE a = addr[n]
  <2>1. n # Bootstrap /\ latest' = latest
    BY <1>2 DEF Return, Starts, Inv, RunningOK
  <2>2. events' = [m \in Node |-> IF m = n THEN Members(n) ELSE events[m]]
    BY <1>2 DEF Return
  <2>3. Carried'
    <3>1. UNCHANGED <<addr, latest, served, config>>
      BY <1>2, <2>1 DEF Return, Starts, raftVars, Inv, TypeOK
    <3>2. events'[Bootstrap] = events[Bootstrap] /\ job'[Bootstrap] = job[Bootstrap]
      BY <2>1, <2>2 DEF Return, Starts
    <3>3. \A m \in Node : Member(m)' = Member(m)
      BY DEF Return, Starts, Member, Inv, TypeOK
    <3>4. QED
      BY <3>1, <3>2, <3>3, Quiet
  <2>4. TypeOK' /\ RunningOK'
    <3>1. PICK e : e \in Message
      <4>1. Event("update", n, a, 0) \in Message
        BY DEF Event, Message
      <4>2. QED
        BY <4>1
    <3>2. events' = [m \in Node |-> IF m = n THEN Members(n)
                                   ELSE IF m \in {} THEN Append(events[m], e) ELSE events[m]]
      BY <2>2
    <3>3. latest' \in [Node -> Nat] /\ latest'[Bootstrap] = latest[Bootstrap]
      BY <2>1 DEF Inv, TypeOK
    <3>4. {} \in SUBSET Node /\ Starts(n, a)
      BY DEF Return
    <3>5. QED
      BY <3>1, <3>2, <3>3, <3>4, StartsTyped
  <2>5. QED
    BY <2>3, <2>4 DEF Inv, Carried
<1>3. QED
  BY <1>1, <1>2

\* A node that goes down lets go of its queue and of its Join.
LEMMA DownInv ==
  ASSUME Inv, NEW n \in Node \ {Bootstrap},
         running' = running \ {n},
         handler' = [handler EXCEPT ![n] = "done"],
         events' = [events EXCEPT ![n] = <<>>],
         job' = [job EXCEPT ![n] = Idle],
         leader' \in {leader, Nobody},
         status' \in [Node -> {"out", "alive", "left", "crashed", "failed"}],
         status'[Bootstrap] = status[Bootstrap],
         \A m \in Node : Member(m)' = Member(m),
         UNCHANGED <<addr, latest, config, served>>, changes' \in Nat
  PROVE  Inv'
<1>1. Carried'
  <2>1. events'[Bootstrap] = events[Bootstrap] /\ job'[Bootstrap] = job[Bootstrap]
    BY DEF Inv, TypeOK
  <2>2. QED
    BY <2>1, Quiet
<1>2. TypeOK'
  <2>1. events' \in [Node -> Seq(Message)]
    BY DEF Inv, TypeOK
  <2>2. /\ handler' \in [Node -> {"run", "done"}] /\ running' \subseteq Node
        /\ job' \in [Node -> {Idle} \union Joining]
    BY DEF Inv, TypeOK
  <2>3. leader' \in Node \union {Nobody}
    BY DEF Inv, TypeOK
  <2>4. ASSUME NEW m \in Node, job'[m] # Idle
        PROVE  events'[m] # <<>> /\ Head(events'[m]).id = job'[m].id
    <3>1. m # n
      BY <2>4 DEF Inv, TypeOK
    <3>2. job'[m] = job[m] /\ events'[m] = events[m]
      BY <3>1 DEF Inv, TypeOK
    <3>3. QED
      BY <2>4, <3>2 DEF Inv, TypeOK
  <2>5. QED
    BY <2>1, <2>2, <2>3, <2>4 DEF Inv, TypeOK
<1>3. RunningOK'
  <2>1. \A m \in Node \ running' : handler'[m] = "done" /\ job'[m] = Idle
    BY DEF Inv, TypeOK, RunningOK
  <2>2. QED
    BY <2>1 DEF Inv, RunningOK
<1>4. QED
  BY <1>1, <1>2, <1>3 DEF Inv, Carried

LEMMA CloseLogInv ==
  ASSUME Inv, NEW n \in Node, MayStop(n), CloseLog(n)
  PROVE  Inv'
<1>1. n # Bootstrap
  BY DEF MayStop, KeepsQuorum
<1>2. \A m \in Node : Member(m)' = Member(m)
  BY DEF CloseLog, Member
<1>3. QED
  BY <1>1, <1>2, DownInv DEF CloseLog, Inv, TypeOK

LEMMA CrashInv ==
  ASSUME Inv, NEW n \in Node, MayStop(n), Crash(n)
  PROVE  Inv'
<1>1. n # Bootstrap
  BY DEF MayStop, KeepsQuorum
<1>2. \A m \in Node : Member(m)' = Member(m)
  BY DEF Crash, Member, Alive, Inv, TypeOK
<1>3. /\ status' \in [Node -> {"out", "alive", "left", "crashed", "failed"}]
      /\ status'[Bootstrap] = status[Bootstrap] /\ changes' \in Nat
  BY <1>1 DEF Crash, Change, Inv, TypeOK
<1>4. QED
  BY <1>1, <1>2, <1>3, DownInv DEF Crash, raftVars

-----------------------------------------------------------------------------
(* Raft *)

LEMMA StepDownInv ==
  ASSUME Inv, StepDown
  PROVE  Inv'
<1>1. Carried'
  <2>1. \A m \in Node : Member(m)' = Member(m)
    BY DEF StepDown, Member
  <2>2. QED
    BY <2>1, Quiet DEF StepDown
<1>2. TypeOK' /\ RunningOK'
  BY DEF StepDown, Change, Inv, TypeOK, RunningOK
<1>3. QED
  BY <1>1, <1>2 DEF Inv, Carried

LEMMA ElectInv ==
  ASSUME Inv, Elect(Bootstrap)
  PROVE  Inv'
<1>1. Carried'
  <2>1. \A m \in Node : Member(m)' = Member(m)
    BY DEF Elect, Member, memberVars
  <2>2. QED
    BY <2>1, Quiet DEF Elect, memberVars
<1>2. TypeOK' /\ RunningOK'
  BY DEF Elect, memberVars, Inv, TypeOK, RunningOK
<1>3. QED
  BY <1>1, <1>2 DEF Inv, Carried

\* RemoveServer takes the server of this id out, and no other.
LEMMA Removed ==
  ASSUME Inv, NEW id \in Node, RemoveServer(id)
  PROVE  /\ config' \subseteq [id : Node, addr : Addr] /\ ConfigOK'
         /\ \A m \in Node \ {id} : ServersOf(m)' = ServersOf(m)
         /\ ServersOf(id)' = {}
<1>1. config' = {s \in config : s.id # id} /\ config' \subseteq config
  BY DEF RemoveServer
<1>2. ConfigOK'
  BY <1>1, FS_Subset DEF Inv, ConfigOK
<1>3. QED
  BY <1>1, <1>2 DEF Inv, TypeOK, ServersOf

\* AddVoter puts the server in at its address, in place of what it was.
LEMMA Added ==
  ASSUME Inv, NEW id \in Node, NEW a \in Addr, AddVoter(id, a)
  PROVE  /\ config' \subseteq [id : Node, addr : Addr] /\ ConfigOK'
         /\ \A m \in Node \ {id} : ServersOf(m)' = ServersOf(m)
         /\ ServersOf(id)' = {ServerOf(id, a)}
<1> PICK rest : rest = {s \in config : s.id # id}
  OBVIOUS
<1> PICK new : new = ServerOf(id, a)
  OBVIOUS
<1>1. config' = rest \union {new} /\ rest \subseteq config
  BY DEF AddVoter
<1>2. new \in [id : Node, addr : Addr] /\ new.id = id
  BY DEF ServerOf
<1>3. IsFiniteSet(rest)
  BY <1>1, FS_Subset DEF Inv, ConfigOK
<1>4. IsFiniteSet(config')
  BY <1>1, <1>3, FS_AddElement
<1>5. \A s, t \in config' : s.id = t.id => s = t
  BY <1>1, <1>2 DEF Inv, ConfigOK
<1>6. \A m \in Node \ {id} : ServersOf(m)' = ServersOf(m)
  BY <1>1, <1>2 DEF ServersOf
<1>7. ServersOf(id)' = {new}
  BY <1>1, <1>2 DEF ServersOf
<1>8. QED
  BY <1>1, <1>2, <1>4, <1>5, <1>6, <1>7 DEF ConfigOK, Inv, TypeOK

\* A step about one node leaves the configuration right about the others.
LEMMA OthersFollow ==
  ASSUME Inv, NEW id \in Node, UNCHANGED <<status, addr, latest>>,
         \A m \in Node \ {id} : ServersOf(m)' = ServersOf(m) /\ served'[m] = served[m],
         served'[id] = latest[id] =>
           ServersOf(id)' = IF Member(id) THEN {ServerOf(id, addr[id])} ELSE {}
  PROVE  ConfigFollowsMembers'
<1>1. SUFFICES ASSUME NEW m \in Node, served'[m] = latest[m]
               PROVE  ServersOf(m)' = IF Member(m)' THEN {ServerOf(m, addr[m])} ELSE {}
  BY DEF ConfigFollowsMembers
<1>2. Member(m)' = Member(m)
  BY DEF Member
<1>3. CASE m = id
  BY <1>1, <1>2, <1>3
<1>4. CASE m # id
  BY <1>1, <1>2, <1>4 DEF Inv, ConfigFollowsMembers
<1>5. QED
  BY <1>3, <1>4

-----------------------------------------------------------------------------
(* The event handler *)

\* Done takes the event off the queue of this node.
LEMMA DoneTyped ==
  ASSUME Inv, NEW n \in Node, events[n] # <<>>, NEW c \in BOOLEAN, Done(n, c)
  PROVE  /\ Head(events[n]) \in Message
         /\ events' \in [Node -> Seq(Message)] /\ events'[n] = Tail(events[n])
         /\ \A m \in Node \ {n} : events'[m] = events[m]
         /\ served' \in [Node -> Nat]
         /\ c => served' = [served EXCEPT ![Head(events[n]).id] = Head(events[n]).no]
         /\ ~c => served' = served
<1>1. events[n] \in Seq(Message)
  BY DEF Inv, TypeOK
<1>2. Head(events[n]) \in Message /\ Tail(events[n]) \in Seq(Message)
  BY <1>1, Popping
<1>3. events' = [events EXCEPT ![n] = Tail(events[n])]
  BY DEF Done
<1>4. /\ c => served' = [served EXCEPT ![Head(events[n]).id] = Head(events[n]).no]
      /\ ~c => served' = served
  BY DEF Done
<1>5. Head(events[n]).id \in Node /\ Head(events[n]).no \in Nat
  BY <1>2 DEF Message
<1>6. served' \in [Node -> Nat]
  BY <1>4, <1>5 DEF Inv, TypeOK
<1>7. events' \in [Node -> Seq(Message)] /\ events'[n] = Tail(events[n])
      /\ \A m \in Node \ {n} : events'[m] = events[m]
  BY <1>2, <1>3 DEF Inv, TypeOK
<1>8. QED
  BY <1>2, <1>4, <1>6, <1>7

\* A step of the handler of n keeps the types, and touches no other handler.
LEMMA HandlerTyped ==
  ASSUME Inv, NEW n \in Node, n \in running,
         UNCHANGED <<memberVars, leader>>,
         config' \subseteq [id : Node, addr : Addr],
         served' \in [Node -> Nat], events' \in [Node -> Seq(Message)],
         \A m \in Node \ {n} : events'[m] = events[m],
         handler' \in [Node -> {"run", "done"}],
         \A m \in Node \ {n} : handler'[m] = handler[m],
         NEW j \in {Idle} \union Joining, job' = [job EXCEPT ![n] = j],
         j # Idle => events'[n] # <<>> /\ Head(events'[n]).id = j.id
  PROVE  TypeOK' /\ RunningOK'
<1>1. job' \in [Node -> {Idle} \union Joining] /\ job'[n] = j
      /\ \A m \in Node \ {n} : job'[m] = job[m]
  BY DEF Inv, TypeOK
<1>2. \A m \in Node : job'[m] # Idle => events'[m] # <<>> /\ Head(events'[m]).id = job'[m].id
  <2>1. SUFFICES ASSUME NEW m \in Node, job'[m] # Idle
                 PROVE  events'[m] # <<>> /\ Head(events'[m]).id = job'[m].id
    OBVIOUS
  <2>2. CASE m = n
    BY <1>1, <2>1, <2>2
  <2>3. CASE m # n
    <3>1. job'[m] = job[m] /\ events'[m] = events[m]
      BY <1>1, <2>3
    <3>2. QED
      BY <2>1, <3>1 DEF Inv, TypeOK
  <2>4. QED
    BY <2>2, <2>3
<1>3. TypeOK'
  BY <1>1, <1>2 DEF Inv, TypeOK, memberVars
<1>4. RunningOK'
  <2>1. running' = running /\ leader' = leader /\ status' = status /\ latest' = latest
    BY DEF memberVars
  <2>2. \A m \in Node \ running' : handler'[m] = "done" /\ job'[m] = Idle
    BY <1>1, <2>1 DEF Inv, RunningOK
  <2>3. QED
    BY <2>1, <2>2 DEF Inv, RunningOK
<1>5. QED
  BY <1>3, <1>4

\* Who handles an event runs, and so does who is in a Join.
LEMMA HandlerRuns ==
  ASSUME Inv, NEW n \in Node, Handles(n) \/ job[n].st = "join"
  PROVE  /\ n \in running /\ events[n] # <<>>
         /\ job[n].st = "join" => job[n] \in Joining /\ job[n].id = Head(events[n]).id
<1>1. CASE Handles(n)
  BY <1>1 DEF Handles, Idle, Inv, RunningOK
<1>2. CASE job[n].st = "join"
  <2>1. job[n] # Idle /\ job[n] \in {Idle} \union Joining
    BY <1>2 DEF Idle, Inv, TypeOK
  <2>2. n \in running
    BY <2>1 DEF Inv, RunningOK
  <2>3. events[n] # <<>> /\ Head(events[n]).id = job[n].id
    BY <2>1 DEF Inv, TypeOK
  <2>4. QED
    BY <2>1, <2>2, <2>3
<1>3. QED
  BY <1>1, <1>2

\* A handler that is idle stays so when its job is not mentioned.
LEMMA SameJob ==
  ASSUME Inv, NEW n \in Node, job[n] = Idle, UNCHANGED job
  PROVE  job' = [job EXCEPT ![n] = Idle]
BY DEF Inv, TypeOK

\* The leader is through with an event, and the configuration is right about
\* its node if the event was the last.
LEMMA LeaderDone ==
  ASSUME Inv, NEW c \in BOOLEAN, events[Bootstrap] # <<>>, Done(Bootstrap, c),
         UNCHANGED memberVars, job'[Bootstrap] = Idle, ConfigOK',
         NEW h, h = Head(events[Bootstrap]),
         c => h.id # Bootstrap /\ h.type # "update",
         ~c => config' = config,
         \A m \in Node \ {h.id} : ServersOf(m)' = ServersOf(m),
         c => ServersOf(h.id)' = IF h.type = "join" THEN {ServerOf(h.id, h.addr)} ELSE {}
  PROVE  Carried'
<1>0. UNCHANGED <<status, addr, latest>>
  BY DEF memberVars
<1>1. /\ h \in Message /\ events'[Bootstrap] = Tail(events[Bootstrap])
      /\ c => served' = [served EXCEPT ![h.id] = h.no]
      /\ ~c => served' = served
  BY DoneTyped
<1>2. /\ QueueOK' /\ \A n \in Node : served'[n] <= latest'[n]
      /\ served' = served \/ EventOK(events[Bootstrap], 1)
  <2>1. \/ served' = served
        \/ h.id # Bootstrap /\ served' = [served EXCEPT ![h.id] = h.no]
    BY <1>1
  <2>2. QED
    BY <1>0, <1>1, <2>1, Popped
<1>3. ConfigFollowsMembers'
  <2>1. CASE ~c
    BY <1>0, <1>1, <2>1 DEF Inv, ConfigFollowsMembers, ServersOf, Member
  <2>2. CASE c
    <3>0. h.id \in Node /\ h.no \in Nat /\ served \in [Node -> Nat]
      BY <1>1 DEF Message, Inv, TypeOK
    <3>1. events[Bootstrap] \in Seq(Message) /\ h = events[Bootstrap][1] /\ 1 \in 1 .. Len(events[Bootstrap])
      BY Popping DEF Inv, TypeOK
    <3>2. EventOK(events[Bootstrap], 1)
      BY <2>2, <3>1 DEF Inv, QueueOK
    <3>3. h.no = latest[h.id] => h.addr = addr[h.id] /\ (h.type = "join" <=> Member(h.id))
      <4>1. h.no = latest[h.id] => h.addr = addr[h.id] /\ (Gone(h) <=> ~Member(h.id))
        BY <3>1, <3>2 DEF EventOK
      <4>2. Gone(h) <=> h.type # "join"
        BY <1>1, <2>2 DEF Gone, Message
      <4>3. QED
        BY <4>1, <4>2
    <3>4. served'[h.id] = h.no /\ \A m \in Node \ {h.id} : served'[m] = served[m]
      BY <1>1, <2>2, <3>0
    <3>5. served'[h.id] = latest[h.id] =>
            ServersOf(h.id)' = IF Member(h.id) THEN {ServerOf(h.id, addr[h.id])} ELSE {}
      BY <2>2, <3>3, <3>4
    <3>6. QED
      BY <1>0, <3>0, <3>4, <3>5, OthersFollow
  <2>3. QED
    BY <2>1, <2>2
<1>4. JobOK'
  BY DEF JobOK
<1>5. QED
  BY <1>2, <1>3, <1>4 DEF Carried

\* The leader is in the middle of a Join: its node is not up to date yet.
LEMMA LeaderJoins ==
  ASSUME Inv, events[Bootstrap] # <<>>, UNCHANGED <<memberVars, events, served>>,
         NEW h, h = Head(events[Bootstrap]), h.type = "join", h.id # Bootstrap,
         job'[Bootstrap].addr = h.addr, ConfigOK',
         \A m \in Node \ {h.id} : ServersOf(m)' = ServersOf(m)
  PROVE  Carried'
<1>0. UNCHANGED <<status, addr, latest>>
  BY DEF memberVars
<1>1. /\ events[Bootstrap] \in Seq(Message) /\ h = events[Bootstrap][1]
      /\ 1 \in 1 .. Len(events[Bootstrap]) /\ h \in Message
  BY Popping DEF Inv, TypeOK
<1>2. EventOK(events[Bootstrap], 1)
  BY <1>1 DEF Inv, QueueOK
<1>3. h.id \in Node /\ h.no \in Nat /\ served[h.id] \in Nat /\ latest[h.id] \in Nat
  BY <1>1 DEF Message, Inv, TypeOK
<1>4. served'[h.id] # latest[h.id]
  BY <1>1, <1>2, <1>3 DEF EventOK
<1>5. ConfigFollowsMembers'
  BY <1>0, <1>3, <1>4, OthersFollow
<1>6. QueueOK'
  BY <1>0 DEF Inv, QueueOK, EventOK, Member
<1>7. JobOK'
  BY DEF JobOK
<1>8. QED
  BY <1>0, <1>5, <1>6, <1>7 DEF Carried, Inv

\* A handler of a node that does not lead changes nothing for the leader.
LEMMA FollowerQuiet ==
  ASSUME Inv, NEW n \in Node, n # Bootstrap, UNCHANGED <<memberVars, config, served>>,
         \A m \in Node \ {n} : events'[m] = events[m] /\ job'[m] = job[m]
  PROVE  Carried'
<1>1. UNCHANGED <<addr, latest>> /\ \A m \in Node : Member(m)' = Member(m)
  BY DEF memberVars, Member
<1>2. QED
  BY <1>1, Quiet

\* Nobody but the bootstrapping node leads.
LEMMA Follower ==
  ASSUME Inv, NEW n \in Node, n # Bootstrap
  PROVE  n # leader
BY DEF Inv, RunningOK

\* A handler that gives up, or passes an event over, is through with it.
LEMMA PassesOver ==
  ASSUME Inv, NEW n \in Node, n \in running, events[n] # <<>>, Done(n, FALSE),
         job' = [job EXCEPT ![n] = Idle], UNCHANGED <<memberVars, config, leader>>,
         handler' \in [Node -> {"run", "done"}],
         \A m \in Node \ {n} : handler'[m] = handler[m]
  PROVE  Inv'
<1>1. /\ events' \in [Node -> Seq(Message)] /\ events'[n] = Tail(events[n])
      /\ \A m \in Node \ {n} : events'[m] = events[m]
      /\ served' = served /\ served' \in [Node -> Nat]
  BY DoneTyped
<1>2. TypeOK' /\ RunningOK'
  <2>1. config' \subseteq [id : Node, addr : Addr]
    BY DEF Inv, TypeOK
  <2>2. QED
    BY <1>1, <2>1, HandlerTyped
<1>3. Carried'
  <2>1. CASE n # Bootstrap
    <3>1. \A m \in Node \ {n} : job'[m] = job[m]
      BY DEF Inv, TypeOK
    <3>2. QED
      BY <1>1, <2>1, <3>1, FollowerQuiet
  <2>2. CASE n = Bootstrap
    <3>1. job'[Bootstrap] = Idle /\ ConfigOK'
      BY <2>2 DEF Inv, TypeOK, ConfigOK
    <3>2. \A m \in Node : ServersOf(m)' = ServersOf(m)
      BY DEF ServersOf
    <3>3. QED
      BY <2>2, <3>1, <3>2, LeaderDone
  <2>3. QED
    BY <2>1, <2>2
<1>4. QED
  BY <1>2, <1>3 DEF Inv, Carried

\* The leader carries out the event: the configuration is as the event says.
LEMMA CarriesOut ==
  ASSUME Inv, Bootstrap \in running, events[Bootstrap] # <<>>, Done(Bootstrap, TRUE),
         job' = [job EXCEPT ![Bootstrap] = Idle], UNCHANGED <<memberVars, handler, leader>>,
         config' \subseteq [id : Node, addr : Addr], ConfigOK',
         NEW h, h = Head(events[Bootstrap]), h.id # Bootstrap, h.type # "update",
         \A m \in Node \ {h.id} : ServersOf(m)' = ServersOf(m),
         ServersOf(h.id)' = IF h.type = "join" THEN {ServerOf(h.id, h.addr)} ELSE {}
  PROVE  Inv'
<1>1. /\ events' \in [Node -> Seq(Message)]
      /\ \A m \in Node \ {Bootstrap} : events'[m] = events[m]
      /\ served' \in [Node -> Nat]
  BY DoneTyped
<1>2. handler' \in [Node -> {"run", "done"}] /\ job'[Bootstrap] = Idle
  BY DEF Inv, TypeOK
<1>3. TypeOK' /\ RunningOK'
  BY <1>1, <1>2, HandlerTyped
<1>4. Carried'
  BY <1>2, LeaderDone
<1>5. QED
  BY <1>3, <1>4 DEF Inv, Carried

LEMMA handleUpdateInv ==
  ASSUME Inv, NEW n \in Node, handleUpdate(n)
  PROVE  Inv'
<1>1. n \in running /\ events[n] # <<>> /\ job[n] = Idle
  BY HandlerRuns DEF handleUpdate, Handles
<1>2. job' = [job EXCEPT ![n] = Idle]
  BY <1>1, SameJob DEF handleUpdate
<1>3. /\ handler' \in [Node -> {"run", "done"}]
      /\ \A m \in Node \ {n} : handler'[m] = handler[m]
  BY DEF handleUpdate, Inv, TypeOK
<1>4. Done(n, FALSE) /\ UNCHANGED <<memberVars, config, leader>>
  BY DEF handleUpdate, raftVars
<1>5. QED
  BY <1>1, <1>2, <1>3, <1>4, PassesOver

LEMMA handleLocalInv ==
  ASSUME Inv, NEW n \in Node, handleLocal(n)
  PROVE  Inv'
<1>1. n \in running /\ events[n] # <<>> /\ job[n] = Idle
  BY HandlerRuns DEF handleLocal, Handles
<1>2. job' = [job EXCEPT ![n] = Idle]
  BY <1>1, SameJob DEF handleLocal
<1>3. /\ handler' \in [Node -> {"run", "done"}]
      /\ \A m \in Node \ {n} : handler'[m] = handler[m]
  BY DEF handleLocal, Inv, TypeOK
<1>4. Done(n, FALSE) /\ UNCHANGED <<memberVars, config, leader>>
  BY DEF handleLocal, raftVars
<1>5. QED
  BY <1>1, <1>2, <1>3, <1>4, PassesOver

LEMMA JoinInv ==
  ASSUME Inv, NEW n \in Node, Join(n)
  PROVE  Inv'
<1> PICK h : h = Head(events[n])
  OBVIOUS
<1>1. n \in running /\ events[n] # <<>> /\ job[n] = Idle
  BY HandlerRuns DEF Join, Handles
<1>2. h \in Message /\ h.id # n /\ h.type = "join"
  BY <1>1, Popping DEF Join, Inv, TypeOK
<1>3. UNCHANGED <<memberVars, handler, config, leader>>
  BY DEF Join, raftVars
<1>4. /\ handler' \in [Node -> {"run", "done"}]
      /\ \A m \in Node \ {n} : handler'[m] = handler[m]
  BY <1>3 DEF Inv, TypeOK
<1>5. \A m \in Node : ServersOf(m)' = ServersOf(m)
  BY <1>3 DEF ServersOf
<1>6. config' \subseteq [id : Node, addr : Addr] /\ ConfigOK'
  BY <1>3 DEF Inv, TypeOK, ConfigOK
<1>7. CASE Joined(h.id, h.addr)
  <2>1. Done(n, n = leader) /\ UNCHANGED job
    BY <1>7 DEF Join
  <2>2. job' = [job EXCEPT ![n] = Idle]
    BY <1>1, <2>1, SameJob
  <2>3. CASE n # leader
    <3>1. Done(n, FALSE)
      BY <2>1, <2>3 DEF Done
    <3>2. QED
      BY <1>1, <1>3, <1>4, <2>2, <3>1, PassesOver
  <2>4. CASE n = leader
    <3>1. n = Bootstrap /\ Done(n, TRUE)
      BY <2>1, <2>4, Follower DEF Done
    <3>2. ServersOf(h.id) = {ServerOf(h.id, h.addr)}
      BY <1>7 DEF Joined, ServersOf, ServerOf, Inv, ConfigOK
    <3>3. h.id \in Node
      BY <1>2 DEF Message
    <3>4. QED
      BY <1>1, <1>2, <1>3, <1>5, <1>6, <2>2, <3>1, <3>2, <3>3, CarriesOut
  <2>5. QED
    BY <2>3, <2>4
<1>8. CASE ~Joined(h.id, h.addr)
  <2> PICK j : j = [st |-> "join", id |-> h.id, addr |-> h.addr,
                    removals |-> Cardinality(Matches(h.id, h.addr))]
    OBVIOUS
  <2>1. job' = [job EXCEPT ![n] = j] /\ UNCHANGED <<events, served>>
    BY <1>8 DEF Join
  <2>2. Cardinality(Matches(h.id, h.addr)) \in Nat
    BY FS_Subset, FS_CardinalityType DEF Matches, Inv, ConfigOK
  <2>3. j \in Joining /\ j.id = h.id /\ j.addr = h.addr
    BY <1>2, <2>2 DEF Joining, Message
  <2>4. TypeOK' /\ RunningOK'
    <3>1. events' \in [Node -> Seq(Message)] /\ served' \in [Node -> Nat]
      BY <2>1 DEF Inv, TypeOK
    <3>2. j \in {Idle} \union Joining
      BY <2>3
    <3>3. QED
      BY <1>1, <1>3, <1>4, <1>6, <2>1, <2>3, <3>1, <3>2, HandlerTyped
  <2>5. Carried'
    <3>1. CASE n # Bootstrap
      <4>1. \A m \in Node \ {n} : job'[m] = job[m]
        BY <2>1 DEF Inv, TypeOK
      <4>2. QED
        BY <1>3, <2>1, <3>1, <4>1, FollowerQuiet
    <3>2. CASE n = Bootstrap
      <4>1. job'[Bootstrap].addr = h.addr
        BY <2>1, <2>3, <3>2 DEF Inv, TypeOK
      <4>2. QED
        BY <1>1, <1>2, <1>3, <1>5, <1>6, <2>1, <3>2, <4>1, LeaderJoins
    <3>3. QED
      BY <3>1, <3>2
  <2>6. QED
    BY <2>4, <2>5 DEF Inv, Carried
<1>9. QED
  BY <1>7, <1>8

\* A call of raft that fails: the event is passed over.
LEMMA GivesUpInv ==
  ASSUME Inv, NEW n \in Node, n \in running, events[n] # <<>>, GivesUp(n),
         UNCHANGED <<memberVars, handler, leader>>
  PROVE  Inv'
<1>1. /\ handler' \in [Node -> {"run", "done"}]
      /\ \A m \in Node \ {n} : handler'[m] = handler[m]
  BY DEF Inv, TypeOK
<1>2. QED
  BY <1>1, PassesOver DEF GivesUp

LEMMA JoinRemovesInv ==
  ASSUME Inv, NEW n \in Node, JoinRemoves(n)
  PROVE  Inv'
<1> PICK h : h = Head(events[n])
  OBVIOUS
<1>1. n \in running /\ events[n] # <<>> /\ job[n] \in Joining /\ job[n].id = h.id
  BY HandlerRuns DEF JoinRemoves
<1>2. UNCHANGED <<memberVars, handler, leader>>
  BY DEF JoinRemoves
<1>3. CASE GivesUp(n)
  BY <1>1, <1>2, <1>3, GivesUpInv
<1>4. CASE ~GivesUp(n)
  <2>1. /\ n = leader /\ RemoveServer(job[n].id) /\ UNCHANGED <<events, served>>
        /\ job' = [job EXCEPT ![n].removals = @ - 1] /\ job[n].removals > 0
    BY <1>4 DEF JoinRemoves
  <2>2. n = Bootstrap
    BY <2>1, Follower
  <2>3. /\ config' \subseteq [id : Node, addr : Addr] /\ ConfigOK'
        /\ \A m \in Node \ {h.id} : ServersOf(m)' = ServersOf(m)
    BY <1>1, <2>1, Removed DEF Joining
  <2> PICK j : j = [job[n] EXCEPT !.removals = @ - 1]
    OBVIOUS
  <2>4. j \in Joining /\ j.id = h.id /\ j.addr = job[n].addr
    BY <1>1, <2>1 DEF Joining
  <2>5. job' = [job EXCEPT ![n] = j]
    BY <2>1
  <2>6. TypeOK' /\ RunningOK'
    <3>1. /\ events' \in [Node -> Seq(Message)] /\ served' \in [Node -> Nat]
          /\ handler' \in [Node -> {"run", "done"}]
          /\ \A m \in Node \ {n} : handler'[m] = handler[m]
          /\ \A m \in Node \ {n} : events'[m] = events[m]
          /\ events'[n] # <<>> /\ Head(events'[n]).id = j.id
      BY <1>1, <1>2, <2>1, <2>4 DEF Inv, TypeOK
    <3>2. j \in {Idle} \union Joining
      BY <2>4
    <3>3. QED
      BY <1>1, <1>2, <2>1, <2>3, <2>4, <2>5, <3>1, <3>2, HandlerTyped, ZenonT(60)
  <2>7. h.type = "join" /\ h.id # Bootstrap /\ h.addr = job[n].addr
    <3>1. job[n] # Idle
      BY <2>1 DEF JoinRemoves, Idle
    <3>2. QED
      BY <2>2, <3>1 DEF Inv, JobOK
  <2>8. job'[Bootstrap].addr = h.addr
    BY <2>2, <2>4, <2>5, <2>7 DEF Inv, TypeOK
  <2>9. Carried'
    BY <1>1, <1>2, <2>1, <2>2, <2>3, <2>7, <2>8, LeaderJoins
  <2>10. QED
    BY <2>6, <2>9 DEF Inv, Carried
<1>5. QED
  BY <1>3, <1>4

LEMMA JoinAddsInv ==
  ASSUME Inv, NEW n \in Node, JoinAdds(n)
  PROVE  Inv'
<1> PICK h : h = Head(events[n])
  OBVIOUS
<1>1. n \in running /\ events[n] # <<>> /\ job[n] \in Joining /\ job[n].id = h.id
  BY HandlerRuns DEF JoinAdds
<1>2. UNCHANGED <<memberVars, handler, leader>>
  BY DEF JoinAdds
<1>3. CASE GivesUp(n)
  BY <1>1, <1>2, <1>3, GivesUpInv
<1>4. CASE ~GivesUp(n)
  <2>1. /\ n = leader /\ AddVoter(job[n].id, job[n].addr) /\ Done(n, TRUE)
        /\ job' = [job EXCEPT ![n] = Idle]
    BY <1>4 DEF JoinAdds
  <2>2. n = Bootstrap
    BY <2>1, Follower
  <2>3. job[n].id \in Node /\ job[n].addr \in Addr
    BY <1>1 DEF Joining
  <2>4. /\ config' \subseteq [id : Node, addr : Addr] /\ ConfigOK'
        /\ \A m \in Node \ {h.id} : ServersOf(m)' = ServersOf(m)
        /\ ServersOf(h.id)' = {ServerOf(h.id, job[n].addr)}
    BY <1>1, <2>1, <2>3, Added
  <2>5. h.type = "join" /\ h.id # Bootstrap /\ h.addr = job[n].addr
    <3>1. job[n] # Idle
      BY DEF JoinAdds, Idle
    <3>2. QED
      BY <2>2, <3>1 DEF Inv, JobOK
  <2>6. QED
    BY <1>1, <1>2, <2>1, <2>2, <2>4, <2>5, CarriesOut
<1>5. QED
  BY <1>3, <1>4

LEMMA handleLeaveInv ==
  ASSUME Inv, NEW n \in Node, handleLeave(n)
  PROVE  Inv'
<1> PICK h : h = Head(events[n])
  OBVIOUS
<1>1. n \in running /\ events[n] # <<>> /\ job[n] = Idle
  BY HandlerRuns DEF handleLeave, Handles
<1>2. UNCHANGED <<memberVars, handler, leader>>
  BY DEF handleLeave
<1>3. CASE GivesUp(n)
  BY <1>1, <1>2, <1>3, GivesUpInv
<1>4. CASE ~GivesUp(n)
  <2>1. n = leader /\ RemoveServer(h.id) /\ Done(n, TRUE) /\ UNCHANGED job
    BY <1>4 DEF handleLeave
  <2>2. n = Bootstrap
    BY <2>1, Follower
  <2>3. h.id \in Node /\ h.id # n /\ h.type # "join" /\ h.type # "update"
    <3>1. h \in Message
      BY <1>1, Popping DEF Inv, TypeOK
    <3>2. QED
      BY <3>1 DEF handleLeave, Gone, Message
  <2>4. /\ config' \subseteq [id : Node, addr : Addr] /\ ConfigOK'
        /\ \A m \in Node \ {h.id} : ServersOf(m)' = ServersOf(m)
        /\ ServersOf(h.id)' = {}
    BY <2>1, <2>3, Removed
  <2>5. job' = [job EXCEPT ![n] = Idle]
    BY <1>1, <2>1, SameJob
  <2>6. QED
    BY <1>1, <1>2, <2>1, <2>2, <2>3, <2>4, <2>5, CarriesOut
<1>5. QED
  BY <1>3, <1>4

-----------------------------------------------------------------------------
(* Theorems *)

LEMMA NextInv == Inv /\ [Next]_vars => Inv'
<1> SUFFICES ASSUME Inv, [Next]_vars PROVE Inv'
  OBVIOUS
<1>1. CASE UNCHANGED vars
  <2>1. UNCHANGED <<status, addr, running, events, handler, job, config, leader,
                    latest, served, changes>>
    BY <1>1 DEF vars, memberVars, raftVars
  <2>2. \A m \in Node : Member(m)' = Member(m)
    BY <2>1 DEF Member
  <2>3. Carried'
    BY <2>1, <2>2, Quiet
  <2>4. TypeOK' /\ RunningOK'
    BY <2>1 DEF Inv, TypeOK, RunningOK
  <2>5. QED
    BY <2>3, <2>4 DEF Inv, Carried
<1>2. CASE StepDown
  BY <1>2, StepDownInv
<1>3. CASE Elect(Bootstrap)
  BY <1>3, ElectInv
<1>4. ASSUME NEW n \in Node, NEW a \in Addr, NewMembership(n, a) \/ Return(n, a) PROVE Inv'
  BY <1>4, NewMembershipInv, ReturnInv
<1>5. ASSUME NEW n \in Node, MayLeave(n), Leave(n) PROVE Inv'
  BY <1>5, LeaveInv
<1>6. ASSUME NEW n \in Node, MayStop(n), CloseLog(n) \/ Crash(n) PROVE Inv'
  BY <1>6, CloseLogInv, CrashInv
<1>7. ASSUME NEW n \in Node, NoticeFailed(n) PROVE Inv'
  BY <1>7, NoticeFailedInv
<1>8. ASSUME NEW n \in Node, eventHandler(n) PROVE Inv'
  BY <1>8, handleUpdateInv, handleLocalInv, JoinInv, JoinRemovesInv, JoinAddsInv, handleLeaveInv DEF eventHandler
<1>9. QED
  BY <1>1, <1>2, <1>3, <1>4, <1>5, <1>6, <1>7, <1>8 DEF Next

\* The inductive invariant of discovery holds in every state.
THEOREM InvInvariant == Spec => []Inv
<1>1. QED
  BY InitInv, NextInv, PTL DEF Spec

\* The variables keep their types, and a Join is about the event at the head of
\* the queue, however it is interrupted.
THEOREM TypeCorrect == Spec => []TypeOK
<1>1. Inv => TypeOK
  BY DEF Inv
<1>2. QED
  BY <1>1, InvInvariant, PTL

\* For any number of nodes, changes of membership and losses of leadership:
\* raft's configuration is right about every node whose last event a leader has
\* carried out.
THEOREM ConfigIsRight == Spec => []ConfigFollowsMembers
<1>1. Inv => ConfigFollowsMembers
  BY DEF Inv
<1>2. QED
  BY <1>1, InvInvariant, PTL
=============================================================================
