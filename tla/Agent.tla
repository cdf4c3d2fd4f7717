-------------------------------- MODULE Agent --------------------------------
(***************************************************************************)
(* internal/agent/agent.go: one process. NewAgent sets its parts up one    *)
(* after the other, the connections of its one port are told apart by      *)
(* their first byte, and Shutdown is called by whoever sees an end first:  *)
(* main on a signal, serve when the mux fails, the goroutine of the gRPC   *)
(* server when its listener does.                                          *)
(*                                                                         *)
(*   step     : the setup function that is next, "up", or "failed"         *)
(*   matchers : what the mux matches, in the order of a.mux.Match          *)
(*   mux, srv, member, logSt : the listener, the gRPC server, the serf     *)
(*              member and the distributed log                             *)
(*   peer     : the connection of another node's raft while it is on its   *)
(*              way: dialled, or with the gRPC server                      *)
(*   leader   : the first leader this node's raft has heard of             *)
(*   waited   : the leader that WaitForLeader ended with                   *)
(*   lock, shutdown : a.shutdownLock (its holder) and a.shutdown           *)
(*   caller   : caller[g], where the Shutdown called by g is               *)
(*                                                                         *)
(* cmux, grpc's Server, serf and raft are external: what they do here is   *)
(* what the agent relies on.                                               *)
(***************************************************************************)
EXTENDS Server

CONSTANT Bootstrap   \* Config.Bootstrap

VARIABLES step, matchers, mux, srv, member, logSt, peer, leader, waited,
          lock, shutdown, caller

setupVars == <<step, matchers, mux, srv, member, logSt, leader, waited>>
shutdownVars == <<lock, shutdown, caller>>
agentVars == <<serverVars, setupVars, peer, shutdownVars>>

Caller == {"main", "serve", "grpc"}

AgentInit ==
  /\ ServerInit
  /\ step = "mux" /\ matchers = <<>>
  /\ mux = "none" /\ srv = "none" /\ member = "none" /\ logSt = "none"
  /\ peer = "none" /\ leader = "none" /\ waited = "none"
  /\ lock = "free" /\ shutdown = FALSE /\ caller = [g \in Caller |-> "idle"]

\* main has returned: with it every goroutine of the process is gone.
Exited == step = "failed" \/ caller["main"] \in {"nil", "err"}
Alive == ~Exited

-----------------------------------------------------------------------------
(* NewAgent *)

\* Mutants: the server is set up before the log; the mux is served before there
\* is a membership; and before the leader is waited for.
FollowingServerFirst(s) ==
  CASE s = "mux" -> "server" [] s = "server" -> "log" [] s = "log" -> "wait"
    [] s = "wait" -> "membership" [] s = "membership" -> "serve" [] s = "serve" -> "up"
FollowingServeFirst(s) ==
  CASE s = "mux" -> "log" [] s = "log" -> "wait" [] s = "wait" -> "server"
    [] s = "server" -> "serve" [] s = "serve" -> "membership" [] s = "membership" -> "up"
FollowingWaitLast(s) ==
  CASE s = "mux" -> "log" [] s = "log" -> "server" [] s = "server" -> "membership"
    [] s = "membership" -> "serve" [] s = "serve" -> "wait" [] s = "wait" -> "up"

\* The setup functions of NewAgent; "wait" is the end of setupLog.
Following(s) ==
  CASE s = "mux" -> "log"
    [] s = "log" -> IF Bootstrap THEN "wait" ELSE "server"
    [] s = "wait" -> "server"
    [] s = "server" -> "membership"
    [] s = "membership" -> "serve"
    [] s = "serve" -> "up"

setupMux ==
  /\ step = "mux" /\ mux' = "listening"
  /\ UNCHANGED <<matchers, srv, member, logSt, leader, waited>>

setupLog ==
  /\ step = "log" /\ logSt' = "open"
  /\ matchers' = Append(matchers, "raft")
  /\ UNCHANGED <<mux, srv, member, leader, waited>>

WaitForLeader ==
  /\ step = "wait" /\ leader # "none"
  /\ waited' = leader
  /\ UNCHANGED <<matchers, mux, srv, member, logSt, leader>>

setupServer ==
  /\ step = "server" /\ srv' = "serving"
  /\ matchers' = Append(matchers, "any")
  /\ UNCHANGED <<mux, member, logSt, leader, waited>>

setupMembership ==
  /\ step = "membership" /\ member' = "in"
  /\ UNCHANGED <<matchers, mux, srv, logSt, leader, waited>>

serve ==
  /\ step = "serve" /\ mux' = "serving"
  /\ UNCHANGED <<matchers, srv, member, logSt, leader, waited>>

NewAgent ==
  /\ setupMux \/ setupLog \/ WaitForLeader \/ setupServer \/ setupMembership \/ serve
  /\ step' = Following(step)
  /\ UNCHANGED <<serverVars, peer, shutdownVars>>

\* A setup function returns an error (a timeout of WaitForLeader too): run
\* returns it and the process ends with what was set up so far.
SetupFails ==
  /\ step \notin {"up", "serve", "failed"}
  /\ step' = "failed"
  /\ UNCHANGED <<serverVars, matchers, mux, srv, member, logSt, leader, waited,
                 peer, shutdownVars>>

\* raft, external: this node is elected, over connections it has dialled.
Elected ==
  /\ step = "wait" /\ leader = "none" /\ leader' = "self"
  /\ UNCHANGED <<serverVars, step, matchers, mux, srv, member, logSt, waited,
                 peer, shutdownVars>>

-----------------------------------------------------------------------------
(* Connections *)

\* The first matcher that takes a connection of this kind; "" for none.
Matched(kind) ==
  LET takes == {i \in DOMAIN matchers : matchers[i] \in {kind, "any"}}
  IN IF takes = {} THEN ""
     ELSE matchers[CHOOSE i \in takes : \A j \in takes : i <= j]

\* The leader of the cluster, another node, connects and writes RaftRPC. The
\* connection is made as soon as the port listens. (Bound of the model: it comes
\* while the node is set up.)
Dial ==
  /\ peer = "none" /\ mux \in {"listening", "serving"} /\ step # "up"
  /\ peer' = "dialled"
  /\ UNCHANGED <<serverVars, setupVars, shutdownVars>>

\* The mux reads the first byte and hands the connection to a listener, or
\* closes it. Raft's transport accepts it, and hears from the leader.
Match ==
  /\ peer = "dialled" /\ mux = "serving"
  /\ peer' = IF Matched("raft") = "any" THEN "grpc" ELSE "none"
  /\ leader' = IF Matched("raft") = "raft" /\ leader = "none" THEN "peer" ELSE leader
  /\ UNCHANGED <<serverVars, step, matchers, mux, srv, member, logSt, waited, shutdownVars>>

\* A client calls, over a connection that the mux gave to the gRPC server.
Serves == mux \in {"serving", "closed"} /\ srv = "serving" /\ Matched("grpc") = "any"

Clients(c) ==
  /\ \/ \E call \in Calls[c] : Serves /\ Call(c, call[1], call[2])
     \/ Cancel(c)
     \/ Produce(c)
  /\ UNCHANGED <<setupVars, peer, shutdownVars>>

Handlers(c) == Running(c) /\ UNCHANGED <<setupVars, peer, shutdownVars>>

ReplicatedHere ==
  /\ logSt = "open"
  /\ \E r \in late \union {[from |-> Others, no |-> 0]} : Replicated(r)
  /\ UNCHANGED <<setupVars, peer, shutdownVars>>

-----------------------------------------------------------------------------
(* Shutdown *)

Moves(g, st) == caller' = [caller EXCEPT ![g] = st]
UnchangedParts == UNCHANGED <<serverVars, step, matchers, leader, waited>>

\* SIGINT or SIGTERM; main reads it once NewAgent has returned.
Signal ==
  /\ step = "up" /\ caller["main"] = "idle"
  /\ Moves("main", "lock")
  /\ UNCHANGED <<serverVars, setupVars, peer, lock, shutdown>>

\* The root listener fails, and mux.Serve returns: serve calls Shutdown.
MuxFails ==
  /\ mux = "serving"
  /\ mux' = "closed" /\ peer' = "none"
  /\ Moves("serve", "lock")
  /\ UnchangedParts /\ UNCHANGED <<srv, member, logSt, lock, shutdown>>

\* a.server.Serve returns an error once the mux has closed its listener, unless
\* the server is being stopped already.
ServeReturns ==
  /\ mux = "closed" /\ srv = "serving" /\ caller["grpc"] = "idle"
  /\ Moves("grpc", "lock")
  /\ UNCHANGED <<serverVars, setupVars, peer, lock, shutdown>>

\* A mutant: the flag is looked at before the lock is taken.
LockAfterFlag(g) ==
  /\ caller[g] = "lock"
  /\ IF shutdown
       THEN Moves(g, "nil") /\ UNCHANGED <<lock, shutdown>>
       ELSE lock = "free" /\ lock' = g /\ shutdown' = TRUE /\ Moves(g, "leave")
  /\ UNCHANGED <<serverVars, setupVars, peer>>

\* a.shutdownLock.Lock(), and nil at once if somebody was here before.
Lock(g) ==
  /\ caller[g] = "lock" /\ lock = "free"
  /\ IF shutdown
       THEN Moves(g, "nil") /\ UNCHANGED <<lock, shutdown>>
       ELSE lock' = g /\ shutdown' = TRUE /\ Moves(g, "leave")
  /\ UNCHANGED <<serverVars, setupVars, peer>>

\* A mutant: the log is closed before the server is stopped.
AfterSwapped(st) ==
  CASE st = "leave" -> "close" [] st = "close" -> "stop" [] st = "stop" -> "nil"

\* The list of functions in Shutdown.
After(st) == CASE st = "leave" -> "stop" [] st = "stop" -> "close" [] st = "close" -> "nil"

\* A function of the list returns nil or, unless it is GracefulStop, an error,
\* which ends the call. The lock is let go at the end of the call.
Returns(g, ok) ==
  LET st == IF ok THEN After(caller[g]) ELSE "err"
  IN /\ Moves(g, st)
     /\ lock' = IF st \in {"nil", "err"} THEN "free" ELSE lock
     /\ UNCHANGED shutdown

Leave(g, ok) ==
  /\ caller[g] = "leave"
  /\ member' = IF ok THEN "left" ELSE member
  /\ Returns(g, ok)
  /\ UnchangedParts /\ UNCHANGED <<mux, srv, logSt, peer>>

\* GracefulStop closes its listener, which is the root listener of the mux:
\* mux.Serve returns an error and serve calls Shutdown as well.
GracefulStop(g) ==
  /\ caller[g] = "stop" /\ srv = "serving"
  /\ srv' = "stopping"
  /\ mux' = "closed" /\ peer' = "none"
  /\ caller' = IF mux = "serving" THEN [caller EXCEPT !["serve"] = "lock"] ELSE caller
  /\ UnchangedParts /\ UNCHANGED <<member, logSt, lock, shutdown>>

\* It then waits for every open call to end.
Stopped(g) ==
  /\ caller[g] = "stop" /\ srv = "stopping"
  /\ \A c \in Client : ~Open(c)
  /\ srv' = "stopped"
  /\ Returns(g, TRUE)
  /\ UnchangedParts /\ UNCHANGED <<mux, member, logSt, peer>>

\* DistributedLog.Close: raft with its connections, and the log.
CloseLog(g, ok) ==
  /\ caller[g] = "close"
  /\ logSt' = IF ok THEN "closed" ELSE logSt
  /\ Returns(g, ok)
  /\ UnchangedParts /\ UNCHANGED <<mux, srv, member, peer>>

Shutdown(g) ==
  \/ Lock(g) \/ GracefulStop(g) \/ Stopped(g)
  \/ \E ok \in BOOLEAN : Leave(g, ok) \/ CloseLog(g, ok)

-----------------------------------------------------------------------------
AgentNext ==
  \/ Alive /\ NewAgent
  \/ Alive /\ SetupFails
  \/ Alive /\ Elected
  \/ Alive /\ Dial
  \/ Alive /\ Match
  \/ Alive /\ ReplicatedHere
  \/ Alive /\ Signal
  \/ Alive /\ MuxFails
  \/ Alive /\ ServeReturns
  \/ \E c \in Client : Alive /\ (Clients(c) \/ Handlers(c))
  \/ \E g \in Caller : Alive /\ Shutdown(g)

\* Go runs every goroutine that can run: the handlers and the callers of
\* Shutdown. Clients, signals, elections and failures are not promised.
AgentSpec ==
  /\ AgentInit /\ [][AgentNext]_agentVars
  /\ \A c \in Client : WF_agentVars(Alive /\ Handlers(c))
  /\ \A g \in Caller : WF_agentVars(Alive /\ Shutdown(g))

-----------------------------------------------------------------------------
(* Properties *)

\* Shutdown says nil only when the log is closed, or when an earlier call has
\* failed and said so: a second caller never reports an end that is under way.
\* (After a failed call the next says nil although nothing was closed.)
NilMeansClosed ==
  \A g \in Caller : caller[g] = "nil" =>
    logSt = "closed" \/ \E h \in Caller \ {g} : caller[h] = "err"

\* A handler runs only on an open log: GracefulStop has seen the last of them
\* end when the log is closed, whoever shuts the agent down and whenever.
NoHandlerOnClosedLog == \A c \in Client : Open(c) => logSt = "open"

\* Nobody can call Shutdown before all the parts it stops are there, although
\* the gRPC server runs before there is a membership to leave: it has no
\* listener that could fail until the mux is served.
ShutdownFindsItsParts ==
  (\E g \in Caller : caller[g] # "idle") =>
    member # "none" /\ srv # "none" /\ logSt # "none"

\* A raft connection that came before the mux was served waits, and then goes
\* to raft, never to the gRPC server whose matcher takes anything.
PeerReachesRaft == peer # "grpc"

\* WaitForLeader runs before the mux is served, so that raft cannot hear of
\* another node: a bootstrapping node comes up only by being elected itself.
BootstrapNodeLeads == waited \in {"none", "self"}

-----------------------------------------------------------------------------
(* The inductive invariant of the agent *)

\* While the agent is set up its parts are those of the steps that are done, the
\* mux is not served, and nobody has called: neither a client nor Shutdown.
SettingUp ==
  /\ step = "mux" => mux = "none"
  /\ step \in {"log", "wait", "server", "membership", "serve"} => mux = "listening"
  /\ step \in {"mux", "log"} => matchers = <<>> /\ logSt = "none"
  /\ step \in {"wait", "server"} => matchers = <<"raft">> /\ logSt = "open"
  /\ step \in {"mux", "log", "wait", "server"} => srv = "none" /\ member = "none"
  /\ step \in {"membership", "serve"} =>
       matchers = <<"raft", "any">> /\ logSt = "open" /\ srv = "serving"
  /\ step = "serve" => member = "in"
  /\ step # "up" =>
       /\ mux \in {"none", "listening"} /\ leader \in {"none", "self"}
       /\ lock = "free" /\ ~shutdown /\ \A g \in Caller : caller[g] = "idle"
       /\ \A c \in Client : rpc[c] = NoCall

\* Once it is up they stay, in the states that Shutdown leads them through.
RunningParts ==
  step = "up" =>
    /\ matchers = <<"raft", "any">> /\ member \in {"in", "left"}
    /\ mux \in {"serving", "closed"} /\ logSt \in {"open", "closed"}
    /\ srv \in {"serving", "stopping", "stopped"}

\* One caller at most is past the lock, and it is the only one to stop anything:
\* it finds each part in the order of the list, and when it lets go of the lock
\* the log is closed or it has returned an error.
OneShutsDown ==
  /\ \A g \in Caller : caller[g] \in {"leave", "stop", "close"} <=> lock = g
  /\ \A g \in Caller : caller[g] \in {"nil", "err"} => shutdown /\ lock = "free"
  /\ lock # "free" => shutdown
  /\ shutdown /\ lock = "free" => logSt = "closed" \/ \E g \in Caller : caller[g] = "err"
  /\ ~shutdown /\ step = "up" => srv = "serving" /\ logSt = "open"
  /\ \A g \in Caller :
       /\ caller[g] = "leave" => srv = "serving" /\ logSt = "open"
       /\ caller[g] = "stop" => srv \in {"serving", "stopping"} /\ logSt = "open"
       /\ caller[g] = "close" => srv = "stopped" /\ logSt = "open"
  /\ mux = "serving" => caller["serve"] = "idle"
  /\ logSt = "closed" => srv = "stopped"
  /\ srv = "stopped" => \A c \in Client : ~Open(c)

\* What each step of the agent preserves: the steps of setup in their order, one
\* call of Shutdown at work under the lock, and each part stopped before the ones
\* it uses.
AgentInv ==
  /\ step \in {"mux", "log", "wait", "server", "membership", "serve", "up", "failed"}
  /\ lock \in Caller \union {"free"} /\ shutdown \in BOOLEAN
  /\ caller \in [Caller -> {"idle", "lock", "leave", "stop", "close", "nil", "err"}]
  /\ peer \in {"none", "dialled"} /\ waited \in {"none", "self"}
  /\ SettingUp /\ RunningParts /\ OneShutsDown

-----------------------------------------------------------------------------
(* Liveness *)

\* A record in the log reaches every consumer that streams from its offset or
\* before, though the stream may have run past the end, unless the client goes
\* away, the log cannot be read or the process ends.
TailIsDelivered ==
  \A c \in Client, o \in 0 .. MaxRecords - 1 :
    (/\ rpc[c].method = "ConsumeStream" /\ Authorize(c, "consume")
     /\ rpc[c].start <= o /\ o < Len(log))
      ~> (rpc[c].start + Len(rpc[c].out) > o \/ rpc[c].ctx # "live" \/ Exited)

\* Shutdown hangs on nothing but clients that keep their streams: if they let
\* go, a signal ends the process, whoever else is shutting it down.
HangsOnlyOnStreams ==
  <>[](\A c \in Client : Open(c) /\ Stream(c) => rpc[c].ctx = "cancelled")
    => (caller["main"] # "idle" ~> Exited)
=============================================================================
