------------------------------- MODULE Tester --------------------------------
(***************************************************************************)
(* The tester's control over a group of servers and a clerk (tester1/      *)
(* srv.go, group.go, clnts.go, persister.go, config.go), on top of the     *)
(* network of LabRPC.  The tester runs one operation at a time, and the    *)
(* network goes on between the steps an operation consists of: todo holds  *)
(* the steps still to be done.  A call of connect or disconnect is one     *)
(* step.                                                                   *)
(* A service is modelled by the one thing the tester's rules are about: its *)
(* handler saves the request in its Persister before it returns.           *)
(***************************************************************************)
EXTENDS LabRPC, Sequences, FiniteSets

CONSTANTS
    Partitions,   \* pairs of sequences of servers that Partition is called with
    MaxOps        \* bound on the tester's operations

ASSUME TesterAssumption ==
    /\ \A p \in Partitions : p \in Seq(Servers) \X Seq(Servers)
    /\ MaxOps \in Nat
    /\ Servers # {}

VARIABLES
    gen,         \* how often a server has been started
    live,        \* the incarnation whose Persister is sg.srvs[i].saved, 0 for none
    saved,       \* what that Persister holds: the Calls whose effect it has
    connected,   \* sg.connected
    revived,     \* the incarnations that connect was called for when they were down
    clntEnds,    \* the servers the clerk has an end to
    srvs,        \* the servers the clerk is allowed to reach (all of them for nil)
    todo,
    ops

group == <<gen, live, saved, connected, revived>>
clnt == <<clntEnds, srvs>>
vars == <<net, call, group, clnt, todo, ops>>

Steps ==
    [do : {"connect", "disconnect", "DeleteServer", "shutdownServer",
           "startServer", "AddServer"},
     srv : Servers, to : SUBSET Servers]

TypeOK ==
    /\ NetTypeOK
    /\ gen \in [Servers -> Nat]
    /\ live \in [Servers -> Nat]
    /\ saved \in [Servers -> SUBSET CallIds]
    /\ connected \in [Servers -> BOOLEAN]
    /\ revived \subseteq Servers \X Nat
    /\ clntEnds \subseteq Servers
    /\ srvs \subseteq Servers
    /\ todo \in Seq(Steps)
    /\ ops \in Nat

(* The current end of server i to server j, and the clerk's end to j. *)
End(i, j) == [from |-> i, to |-> j, gen |-> gen[i]]
ClntEnd(j) == [from |-> Clerk, to |-> j, gen |-> 0]

(* The ends that join server i to the servers in to, in both directions. *)
LinksMutant(i, to) == {End(i, j) : j \in to}

Links(i, to) == {End(i, j) : j \in to} \cup {End(j, i) : j \in to}
-----------------------------------------------------------------------------
(***************************************************************************)
(* Operations of the tester: what they put on todo                         *)
(***************************************************************************)
Step(do, i, to) == [do |-> do, srv |-> i, to |-> to]

Operation(steps) ==
    /\ todo = <<>> /\ ops < MaxOps
    /\ todo' = steps
    /\ ops' = ops + 1
    /\ UNCHANGED <<net, call, group, clnt>>

Up(i) == live[i] # 0

ShutdownLateMutant(i) ==
    /\ Up(i)
    /\ Operation(<<Step("disconnect", i, Servers), Step("shutdownServer", i, {}),
                   Step("DeleteServer", i, {})>>)

ShutdownOnlineMutant(i) ==
    /\ Up(i)
    /\ Operation(<<Step("DeleteServer", i, {}), Step("shutdownServer", i, {})>>)

ShutdownServer(i) ==
    /\ Up(i)
    /\ Operation(<<Step("disconnect", i, Servers), Step("DeleteServer", i, {}),
                   Step("shutdownServer", i, {})>>)

(* "If restart servers, first call shutdownserver" *)
StartServer(i) ==
    /\ ~Up(i)
    /\ Operation(<<Step("startServer", i, {}), Step("AddServer", i, {})>>)

(* ConnectAll is a ConnectOne of every server, whether it is up or not. *)
ConnectOne(i) == Operation(<<Step("connect", i, Servers)>>)

DisconnectAll(i) == Operation(<<Step("disconnect", i, Servers)>>)

Side(p, q) ==
    [k \in 1 .. 2 * Len(p) |->
        LET i == p[(k + 1) \div 2]
            set(s) == {s[n] : n \in DOMAIN s}
        IN  IF k % 2 = 1 THEN Step("disconnect", i, set(q)) ELSE Step("connect", i, set(p))]

Partition(p) ==
    /\ \A i \in Servers : Up(i)
    /\ Operation(Side(p[1], p[2]) \o Side(p[2], p[1]))
-----------------------------------------------------------------------------
(***************************************************************************)
(* The steps                                                               *)
(***************************************************************************)
Does(do, i, to) ==
    /\ todo # <<>> /\ Head(todo) = Step(do, i, to)
    /\ todo' = Tail(todo)
    /\ UNCHANGED <<reliable, done, call, clnt, ops>>

connect(i, to) ==
    /\ Does("connect", i, to)
    /\ connected' = [connected EXCEPT ![i] = TRUE]
    /\ enabled' = enabled \cup Links(i, {j \in to : connected'[j]})
    /\ revived' = IF Up(i) THEN revived ELSE revived \cup {<<i, gen[i]>>}
    /\ UNCHANGED <<servers, gen, live, saved>>

disconnect(i, from) ==
    /\ Does("disconnect", i, from)
    /\ connected' = [connected EXCEPT ![i] = FALSE]
    /\ enabled' = enabled \ Links(i, from)
    /\ UNCHANGED <<servers, gen, live, saved, revived>>

DeleteServer(i) ==
    /\ Does("DeleteServer", i, {})
    /\ servers' = [servers EXCEPT ![i] = 0]
    /\ UNCHANGED <<enabled, group>>

(* A copy takes the place of the Persister, in the hands of incarnation g, *)
(* or of none: what the old one is given from now on is lost.              *)
Copy(i, g) == live' = [live EXCEPT ![i] = g]

(* What incarnation g of server i saves. *)
Save(i, g, c) ==
    saved' = [saved EXCEPT ![i] = IF live[i] = g THEN @ \cup {c} ELSE @]

(* The Persister is replaced by a copy, and the services are killed. *)
shutdownServer(i) ==
    /\ Does("shutdownServer", i, {})
    /\ Copy(i, 0)
    /\ UNCHANGED <<enabled, servers, gen, saved, connected, revived>>

(* makeServer makes fresh ends, not enabled; the Persister is copied again. *)
startServer(i) ==
    /\ Does("startServer", i, {})
    /\ gen' = [gen EXCEPT ![i] = @ + 1]
    /\ Copy(i, gen[i] + 1)
    /\ UNCHANGED <<enabled, servers, saved, connected, revived>>

AddServer(i) ==
    /\ Does("AddServer", i, {})
    /\ servers' = [servers EXCEPT ![i] = gen[i]]
    /\ UNCHANGED <<enabled, group>>
-----------------------------------------------------------------------------
(***************************************************************************)
(* The clerk's ends                                                        *)
(***************************************************************************)
ClntOperation ==
    /\ todo = <<>> /\ ops < MaxOps
    /\ ops' = ops + 1
    /\ UNCHANGED <<servers, call, group, todo>>

ConnectAll ==
    /\ ClntOperation
    /\ enabled' = enabled \cup {ClntEnd(j) : j \in clntEnds}
    /\ srvs' = Servers
    /\ UNCHANGED <<reliable, done, clntEnds>>

ConnectTo(to) ==
    /\ ClntOperation
    /\ srvs' = to
    /\ enabled' = enabled \cup {ClntEnd(j) : j \in clntEnds \cap to}
    /\ UNCHANGED <<reliable, done, clntEnds>>

Disconnect(j) ==
    /\ ClntOperation
    /\ enabled' = enabled \ {ClntEnd(j)}
    /\ UNCHANGED <<reliable, done, clnt>>

clntDisconnectAll ==
    /\ ClntOperation
    /\ enabled' = enabled \ {ClntEnd(j) : j \in clntEnds}
    /\ srvs' = {}
    /\ UNCHANGED <<reliable, done, clntEnds>>

SetReliable(yes) ==
    /\ ClntOperation
    /\ reliable' = yes
    /\ UNCHANGED <<enabled, done, clnt>>

(* The test is over: the clerk's ends are deleted, the services of all      *)
(* servers are killed, and the network closes.                              *)
Cleanup ==
    /\ ~done /\ ClntOperation
    /\ enabled' = enabled \ {ClntEnd(j) : j \in clntEnds}
    /\ done' = TRUE
    /\ UNCHANGED <<reliable, clnt>>

(* Clnt.Call makes the end if it is the first Call to j. *)
clntCall(c, j) ==
    /\ clntEnds' = clntEnds \cup {j}
    /\ enabled' = enabled \cup (IF j \in srvs \ clntEnds THEN {ClntEnd(j)} ELSE {})
    /\ Call(c, ClntEnd(j))
    /\ UNCHANGED <<servers, reliable, done, group, srvs, todo, ops>>

(* A server, or an earlier incarnation of it that has been killed, makes a *)
(* Call to another one.                                                    *)
srvCall(c, i, j) ==
    /\ i # j
    /\ \E g \in 1 .. gen[i] : Call(c, [from |-> i, to |-> j, gen |-> g])
    /\ UNCHANGED <<net, group, clnt, todo, ops>>

(* The handler saves what it did in the Persister of its incarnation. *)
handler(c) ==
    LET i == call[c].end.to IN
    /\ handle(c)
    /\ Save(i, call[c].server, c)
    /\ UNCHANGED <<gen, live, connected, revived, clnt, todo, ops>>

transport(c) == Transport(c) /\ UNCHANGED <<group, clnt, todo, ops>>
-----------------------------------------------------------------------------
(* All servers are started and connected to each other. *)
MakeGroupStart ==
    /\ gen = [i \in Servers |-> 1]
    /\ live = [i \in Servers |-> 1]
    /\ saved = [i \in Servers |-> {}]
    /\ connected = [i \in Servers |-> TRUE]
    /\ revived = {}
    /\ enabled = [from : Servers, to : Servers, gen : {1}]
    /\ servers = [i \in Servers |-> 1]

Init ==
    /\ MakeGroupStart
    /\ reliable \in BOOLEAN
    /\ done = FALSE
    /\ call = [c \in CallIds |->
          [phase |-> "idle", end |-> ClntEnd(CHOOSE j \in Servers : TRUE), server |-> 0,
           reliable |-> TRUE, handler |-> "none", ok |-> FALSE]]
    /\ clntEnds = {}
    /\ srvs = Servers
    /\ todo = <<>>
    /\ ops = 0

TesterStep ==
    \/ \E i \in Servers :
          \/ ShutdownServer(i) \/ StartServer(i) \/ ConnectOne(i) \/ DisconnectAll(i)
          \/ DeleteServer(i) \/ shutdownServer(i) \/ startServer(i) \/ AddServer(i)
    \/ \E i \in Servers, to \in SUBSET Servers : connect(i, to) \/ disconnect(i, to)
    \/ \E p \in Partitions : Partition(p)

ClerkStep ==
    \/ ConnectAll \/ clntDisconnectAll \/ Cleanup
    \/ \E to \in SUBSET Servers : ConnectTo(to)
    \/ \E j \in Servers : Disconnect(j)
    \/ \E yes \in BOOLEAN : SetReliable(yes)

Next ==
    \/ TesterStep
    \/ ClerkStep
    \/ \E c \in CallIds, j \in Servers : clntCall(c, j)
    \/ \E c \in CallIds, i, j \in Servers : srvCall(c, i, j)
    \/ \E c \in CallIds : handler(c) \/ transport(c)

Spec == Init /\ [][Next]_vars

(* Kill has been called for incarnation g of server i: by shutdownServer,   *)
(* or by the cleanup of the group that is part of Cleanup.                  *)
Killed(i, g) == live[i] # g \/ done

(* The network's goroutines run, timers fire, and a handler returns if its *)
(* server is not killed; one of a killed server may be stuck for ever.     *)
Fairness ==
    \A c \in CallIds :
        /\ WF_vars(transport(c))
        /\ WF_vars(handler(c) /\ ~Killed(call[c].end.to, call[c].server))
-----------------------------------------------------------------------------
(***************************************************************************)
(* Properties                                                              *)
(***************************************************************************)

(* What the network dispatches requests to is the incarnation whose         *)
(* Persister the tester holds, never one that has been superseded or is yet *)
(* to be given its Persister: DeleteServer and AddServer bracket the        *)
(* copying in shutdownServer and startServer.                               *)
RegisteredIsLive ==
    \A i \in Servers :
        /\ gen[i] > 0
        /\ live[i] \in {0, gen[i]}
        /\ servers[i] # 0 => servers[i] = live[i]

(* No client gets a positive reply to an operation that the server saved   *)
(* into a superseded Persister, though a handler may finish at any time     *)
(* before, in and after a shutdown and a restart: recheck and the order of  *)
(* DeleteServer and shutdownServer are there for this.                      *)
PositiveRepliesArePersisted ==
    \A c \in CallIds :
        call[c].phase = "returned" /\ call[c].ok => c \in saved[call[c].end.to]

(* "Shutdown a server by isolating it": an incarnation that has been shut   *)
(* down is cut off for good, and the restart of the server does not bring   *)
(* the old one back.  The exception is one that ConnectOne was called for   *)
(* while it was down, as ConnectAll does when another server is restarted:  *)
(* its ends are enabled again.                                              *)
KilledAreCutOff ==
    \A e \in enabled :
        \/ e.from = Clerk
        \/ e.gen = gen[e.from] /\ Up(e.from)
        \/ <<e.from, e.gen>> \in revived

(* Between two operations of the tester a link works in both directions or  *)
(* in none, and only between servers that count as connected, as long as    *)
(* neither of the two was connected while it was down.                      *)
LinksAreWhole ==
    todo = <<>> =>
        \A i, j \in {k \in Servers : \A r \in revived : r[1] # k} :
            End(i, j) \in enabled =>
                End(j, i) \in enabled /\ connected[i] /\ connected[j]

(* What a Call is to its caller, and which Calls have taken effect: those   *)
(* that the Persister of their server holds, not those that were saved into *)
(* a superseded one.                                                        *)
Outcome(c) ==
    CASE call[c].phase = "idle" -> "idle"
      [] call[c].phase = "returned" -> IF call[c].ok THEN "true" ELSE "false"
      [] OTHER -> "pending"

Abstract == INSTANCE RPC WITH
    state <- [c \in CallIds |-> Outcome(c)],
    executed <- {c \in CallIds : c \in saved[call[c].end.to]}

(* "Call() returns true to indicate that the server executed the request":  *)
(* the Calls of clerks and servers implement the abstract RPC, in which an   *)
(* effect happens at most once, before a Call returns true, and is not lost, *)
(* however shutdowns, copies of Persisters and restarts fall between the     *)
(* steps of the network.                                                     *)
ImplementsRPC == Abstract!RPCSpec

(* A Call returns, whatever the tester does to its server and to its links  *)
(* meanwhile: also if the handler never does because its server was shut    *)
(* down, and also if a new incarnation has taken the server's name.  The    *)
(* exception is the Call of a server that waits for a handler when the test *)
(* is over: Cleanup kills the services but deletes no server, so nobody     *)
(* tells processReq that the handler is not going to return.                *)
CallsReturn ==
    \A c \in CallIds :
        <>[](\/ call[c].phase \in {"idle", "returned"}
             \/ /\ done /\ call[c].phase = "waiting"
                /\ call[c].handler = "running" /\ ~isServerDead(c))
==============================================================================
