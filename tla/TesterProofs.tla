---------------------------- MODULE TesterProofs -----------------------------
(***************************************************************************)
(* No client gets a positive reply that is not persisted, for any number   *)
(* of servers, Calls and operations of the tester.                         *)
(***************************************************************************)
EXTENDS Tester, TLAPS

(* A leaf that names no prover is tried with Zenon, then with SMT. *)
USE ZenonT(20), SMTT(30)

LinkSteps == {s \in Steps : s.do \in {"connect", "disconnect"}}

(* What is left of ShutdownServer(i) or StartServer(i), and what the steps   *)
(* already done have seen to.                                               *)
Underway(i) ==
    \/ todo = <<Step("disconnect", i, Servers), Step("DeleteServer", i, {}),
                Step("shutdownServer", i, {})>>
    \/ todo = <<Step("DeleteServer", i, {}), Step("shutdownServer", i, {})>>
    \/ todo = <<Step("shutdownServer", i, {})>> /\ servers[i] = 0
    \/ todo = <<Step("startServer", i, {}), Step("AddServer", i, {})>> /\ live[i] = 0
    \/ /\ todo = <<Step("AddServer", i, {})>>
       /\ live[i] = gen[i] /\ servers[i] = 0
       /\ \A c \in CallIds : call[c].end.to = i => call[c].server < gen[i]

TodoOK == todo \in Seq(LinkSteps) \/ \E i \in Servers : Underway(i)

(* What is known of a Call: a handler that has finished has saved, unless   *)
(* its incarnation is not registered any more, and recheck sees that.       *)
CallOK(c) ==
    LET i == call[c].end.to IN
    /\ call[c].phase \in {"idle", "sent"} => call[c].server = 0 /\ call[c].handler = "none"
    /\ call[c].phase = "accepted" => call[c].handler = "none"
    /\ call[c].server <= gen[i]
    /\ call[c].handler # "none" \/ call[c].phase = "accepted" => call[c].server > 0
    /\ call[c].handler = "finished" => c \in saved[i] \/ servers[i] # call[c].server
    /\ call[c].phase = "got" => call[c].handler = "finished"
    /\ call[c].phase = "delivering" => c \in saved[i]
    /\ call[c].ok => call[c].phase = "returned" /\ c \in saved[i]

CallsOK == \A c \in CallIds : CallOK(c)

IInv == TypeOK /\ RegisteredIsLive /\ TodoOK /\ CallsOK
-----------------------------------------------------------------------------
(* A new group, with no Call made yet, satisfies the invariant. *)
LEMMA InitIInv == Init => IInv
<1> SUFFICES ASSUME Init PROVE IInv
  OBVIOUS
<1> DEFINE e0 == ClntEnd(CHOOSE j \in Servers : TRUE)
           r0 == [phase |-> "idle", end |-> e0, server |-> 0, reliable |-> TRUE,
                  handler |-> "none", ok |-> FALSE]
<1>0. /\ gen = [i \in Servers |-> 1] /\ live = [i \in Servers |-> 1]
      /\ servers = [i \in Servers |-> 1]
  BY Zenon DEF Init, MakeGroupStart
<1>1. /\ saved = [i \in Servers |-> {}] /\ connected = [i \in Servers |-> TRUE]
      /\ revived = {} /\ reliable \in BOOLEAN /\ done = FALSE /\ clntEnds = {} /\ srvs = Servers
      /\ todo = <<>> /\ ops = 0
  BY Zenon DEF Init, MakeGroupStart
<1>2. enabled = [from : Servers, to : Servers, gen : {1}] /\ call = [c \in CallIds |-> r0]
  BY Zenon DEF Init, MakeGroupStart
<1>3. e0 \in Ends /\ e0.to \in Servers
  <2>1. (CHOOSE j \in Servers : TRUE) \in Servers
    BY TesterAssumption
  <2> QED
    BY <2>1 DEF ClntEnd, Ends
<1> HIDE DEF e0, r0
<1>4. TypeOK
  <2>1. r0 \in CallRecords
    BY <1>3 DEF CallRecords, Phases, r0
  <2>2. call \in [CallIds -> CallRecords]
    BY <1>2, <2>1
  <2>3. enabled \subseteq Ends
    BY SMTT(30), <1>2 DEF Ends
  <2>4. saved \in [Servers -> SUBSET CallIds] /\ connected \in [Servers -> BOOLEAN]
    BY <1>1
  <2>5. servers \in [Servers -> Nat] /\ gen \in [Servers -> Nat] /\ live \in [Servers -> Nat]
    BY <1>0
  <2>6. todo \in Seq(Steps) /\ ops \in Nat /\ revived \subseteq Servers \X Nat
    BY <1>1
  <2>8. done \in BOOLEAN
    BY <1>1, Zenon
  <2>7. clntEnds \subseteq Servers /\ srvs \subseteq Servers /\ reliable \in BOOLEAN
    BY <1>1
  <2> QED
    BY <2>2, <2>3, <2>4, <2>5, <2>6, <2>7, <2>8 DEF TypeOK, NetTypeOK
<1>5. RegisteredIsLive
  <2>1. \A i \in Servers : live[i] = gen[i] /\ servers[i] = live[i]
    BY <1>0, Zenon
  <2>2. ASSUME NEW i \in Servers PROVE gen[i] > 0
    <3>1. gen[i] = 1
      BY <1>0, Zenon
    <3> QED
      BY <3>1
  <2> QED
    BY <2>1, <2>2 DEF RegisteredIsLive
<1>6. TodoOK
  BY <1>1 DEF TodoOK
<1>7. CallsOK
  BY <1>0, <1>1, <1>2, <1>3 DEF CallsOK, CallOK, r0
<1> QED
  BY <1>4, <1>5, <1>6, <1>7 DEF IInv

(* The steps that the operations of the tester put on todo. *)
LEMMA StepType ==
    ASSUME NEW i \in Servers, NEW to \in SUBSET Servers,
           NEW do \in {"connect", "disconnect", "DeleteServer", "shutdownServer",
                       "startServer", "AddServer"}
    PROVE  /\ Step(do, i, to) \in Steps
           /\ do \in {"connect", "disconnect"} => Step(do, i, to) \in LinkSteps
  BY DEF Step, Steps, LinkSteps

(* Partition disconnects and connects, and does nothing else. *)
LEMMA PartitionSteps ==
    ASSUME NEW p \in Seq(Servers), NEW q \in Seq(Servers)
    PROVE  Side(p, q) \in Seq(LinkSteps)
<1> DEFINE set(s) == {s[n] : n \in DOMAIN s}
<1>1. set(p) \in SUBSET Servers /\ set(q) \in SUBSET Servers
  BY SMTT(30)
<1>2. ASSUME NEW k \in 1 .. 2 * Len(p)
      PROVE  p[(k + 1) \div 2] \in Servers
  <2>1. (k + 1) \div 2 \in 1 .. Len(p)
    BY SMT
  <2> QED
    BY <2>1
<1> HIDE DEF set
<1>3. \A k \in 1 .. 2 * Len(p) :
          (IF k % 2 = 1 THEN Step("disconnect", p[(k + 1) \div 2], set(q))
                        ELSE Step("connect", p[(k + 1) \div 2], set(p))) \in LinkSteps
  BY <1>1, <1>2, StepType
<1>4. Side(p, q) = [k \in 1 .. 2 * Len(p) |->
          (IF k % 2 = 1 THEN Step("disconnect", p[(k + 1) \div 2], set(q))
                        ELSE Step("connect", p[(k + 1) \div 2], set(p)))]
  BY DEF Side, set
<1>5. 2 * Len(p) \in Nat
  OBVIOUS
<1> HIDE DEF LinkSteps
<1> QED
  BY <1>3, <1>4, <1>5

(* Taking the first of the steps that are left. *)
LEMMA TakeStep ==
    ASSUME NEW S, NEW a, NEW b, NEW c
    PROVE  /\ Head(<<a, b, c>>) = a /\ Tail(<<a, b, c>>) = <<b, c>>
           /\ Head(<<a, b>>) = a /\ Tail(<<a, b>>) = <<b>>
           /\ Head(<<a>>) = a /\ Tail(<<a>>) = <<>>
  OBVIOUS

(* Steps that leave todo and the servers alone. *)
LEMMA TodoStable ==
    ASSUME TodoOK, UNCHANGED <<todo, servers, live, gen>>,
           \A i \in Servers :
               /\ servers[i] = 0
               /\ \A c \in CallIds : call[c].end.to = i => call[c].server < gen[i]
               => \A c \in CallIds : call'[c].end.to = i => call'[c].server < gen[i]
    PROVE  TodoOK'
<1>1. CASE todo \in Seq(LinkSteps)
  BY <1>1 DEF TodoOK
<1>2. CASE ~(todo \in Seq(LinkSteps))
  <2>1. PICK i \in Servers : Underway(i)
    BY <1>2 DEF TodoOK
  <2>2. Underway(i)'
    BY <2>1 DEF Underway, Step
  <2> QED
    BY <2>2 DEF TodoOK
<1> QED
  BY <1>1, <1>2

(* What IInv says of one Call. *)
LEMMA CallFacts ==
    ASSUME IInv, NEW c \in CallIds
    PROVE  /\ CallOK(c) /\ call[c] \in CallRecords /\ call[c].end.to \in Servers
           /\ call[c].server \in Nat /\ gen[call[c].end.to] \in Nat
<1>1. CallOK(c) /\ call[c] \in CallRecords /\ gen \in [Servers -> Nat]
  BY DEF IInv, CallsOK, TypeOK, NetTypeOK
<1>2. call[c].end.to \in Servers /\ call[c].server \in Nat
  BY <1>1 DEF CallRecords, Ends
<1> QED
  BY <1>1, <1>2

(* Servers and Calls are as before. *)
LEMMA ServersStable ==
    ASSUME RegisteredIsLive, CallsOK, UNCHANGED <<servers, gen, live, saved, call>>
    PROVE  RegisteredIsLive' /\ CallsOK'
<1>1. RegisteredIsLive'
  BY DEF RegisteredIsLive
<1>2. CallsOK'
  BY DEF CallsOK, CallOK
<1> QED
  BY <1>1, <1>2

(* An operation that only connects and disconnects begins. *)
LEMMA LinkOperation ==
    ASSUME IInv, NEW steps \in Seq(LinkSteps), Operation(steps)
    PROVE  IInv'
<1>1. /\ UNCHANGED <<servers, gen, live, saved, call, connected, revived, enabled, reliable, done>>
      /\ UNCHANGED <<clntEnds, srvs>>
      /\ todo' = steps /\ ops' = ops + 1
  BY DEF Operation, net, group, clnt
<1>2. steps \in Seq(Steps)
  BY DEF LinkSteps
<1>3. TypeOK'
  BY SMTT(30), <1>1, <1>2 DEF IInv, TypeOK, NetTypeOK
<1>4. RegisteredIsLive' /\ CallsOK'
  BY <1>1, ServersStable DEF IInv
<1>5. TodoOK'
  BY <1>1 DEF TodoOK
<1> QED
  BY <1>3, <1>4, <1>5 DEF IInv

(* A server is shut down or started: its steps are set out. *)
LEMMA ServerOperation ==
    ASSUME IInv, NEW i \in Servers, ShutdownServer(i) \/ StartServer(i)
    PROVE  IInv'
<1>1. /\ UNCHANGED <<servers, gen, live, saved, call, connected, revived, enabled, reliable, done>>
      /\ UNCHANGED <<clntEnds, srvs>>
      /\ ops' = ops + 1
  BY DEF ShutdownServer, StartServer, Operation, net, group, clnt
<1>2. RegisteredIsLive' /\ CallsOK'
  BY <1>1, ServersStable DEF IInv
<1>3. CASE ShutdownServer(i)
  <2>1. todo' = <<Step("disconnect", i, Servers), Step("DeleteServer", i, {}),
                  Step("shutdownServer", i, {})>>
    BY <1>3 DEF ShutdownServer, Operation
  <2>2. TodoOK'
    BY <2>1 DEF TodoOK, Underway, Step
  <2>3. todo' \in Seq(Steps)
    BY <2>1, StepType
  <2> QED
    BY SMTT(30), <1>1, <1>2, <2>2, <2>3 DEF IInv, TypeOK, NetTypeOK
<1>4. CASE StartServer(i)
  <2>1. todo' = <<Step("startServer", i, {}), Step("AddServer", i, {})>> /\ live'[i] = 0
    BY <1>4, <1>1 DEF StartServer, Operation, Up
  <2>2. TodoOK'
    BY <2>1 DEF TodoOK, Underway, Step
  <2>3. todo' \in Seq(Steps)
    BY <2>1, StepType
  <2> QED
    BY SMTT(30), <1>1, <1>2, <2>2, <2>3 DEF IInv, TypeOK, NetTypeOK
<1> QED
  BY <1>3, <1>4

(* The clerk's ends and the network's settings change. *)
LEMMA ClerkOperation ==
    ASSUME IInv, ClerkStep
    PROVE  IInv'
<1>1. /\ UNCHANGED <<servers, gen, live, saved, call, connected, revived, todo, clntEnds>>
      /\ ops' = ops + 1
  BY DEF ClerkStep, ClntOperation, group, clnt, ConnectAll, clntDisconnectAll, Cleanup,
         ConnectTo, Disconnect, SetReliable
<1>2. RegisteredIsLive' /\ CallsOK'
  BY <1>1, ServersStable DEF IInv
<1>3. TodoOK'
  BY <1>1, TodoStable DEF IInv
<1>4. \A j \in Servers : ClntEnd(j) \in Ends
  BY DEF ClntEnd, Ends
<1>5. enabled' \subseteq Ends /\ srvs' \subseteq Servers
  BY <1>4 DEF IInv, TypeOK, NetTypeOK, ClerkStep, clnt, ConnectAll, clntDisconnectAll,
              Cleanup, ConnectTo, Disconnect, SetReliable
<1>6. reliable' \in BOOLEAN /\ done' \in BOOLEAN
  BY DEF IInv, TypeOK, NetTypeOK, ClerkStep, ConnectAll, clntDisconnectAll,
         Cleanup, ConnectTo, Disconnect, SetReliable
<1>7. TypeOK'
  BY SMTT(30), <1>1, <1>5, <1>6 DEF IInv, TypeOK, NetTypeOK
<1> QED
  BY <1>2, <1>3, <1>7 DEF IInv

(* What the first step on todo tells about the operation it belongs to. *)
LEMMA FirstStep ==
    ASSUME IInv, NEW i \in Servers, NEW to \in SUBSET Servers,
           NEW do \in {"connect", "disconnect", "DeleteServer", "shutdownServer",
                       "startServer", "AddServer"},
           Does(do, i, to)
    PROVE  /\ todo' \in Seq(Steps)
           /\ do \in {"connect", "disconnect"} =>
                 \/ todo' \in Seq(LinkSteps)
                 \/ \E j \in Servers : todo' = <<Step("DeleteServer", j, {}),
                                               Step("shutdownServer", j, {})>>
           /\ do = "DeleteServer" => todo' = <<Step("shutdownServer", i, {})>>
           /\ do = "shutdownServer" => todo' = <<>> /\ servers[i] = 0
           /\ do = "startServer" => todo' = <<Step("AddServer", i, {})>> /\ live[i] = 0
           /\ do = "AddServer" =>
                 /\ todo' = <<>> /\ live[i] = gen[i]
                 /\ \A c \in CallIds : call[c].end.to = i => call[c].server < gen[i]
<1>1. todo \in Seq(Steps) /\ todo # <<>> /\ Head(todo) = Step(do, i, to) /\ todo' = Tail(todo)
  BY DEF IInv, TypeOK, Does
<1>2. todo' \in Seq(Steps)
  BY <1>1
<1>3. CASE todo \in Seq(LinkSteps)
  <2>1. Head(todo) \in LinkSteps /\ todo' \in Seq(LinkSteps)
    BY <1>1, <1>3
  <2>2. do \in {"connect", "disconnect"}
    BY <1>1, <2>1 DEF LinkSteps, Step
  <2> QED
    BY <1>2, <2>1, <2>2
<1>4. CASE todo \notin Seq(LinkSteps)
  <2>1. PICK j \in Servers : Underway(j)
    BY SMTT(30), <1>4 DEF IInv, TodoOK
  <2>2. CASE todo = <<Step("disconnect", j, Servers), Step("DeleteServer", j, {}),
                      Step("shutdownServer", j, {})>>
    <3>1. do = "disconnect"
      BY <1>1, <2>2 DEF Step
    <3>2. todo' = <<Step("DeleteServer", j, {}), Step("shutdownServer", j, {})>>
      BY SMTT(30), <1>1, <2>2, TakeStep
    <3> QED
      BY <1>2, <3>1, <3>2
  <2>3. CASE todo = <<Step("DeleteServer", j, {}), Step("shutdownServer", j, {})>>
    <3>1. do = "DeleteServer" /\ i = j
      BY <1>1, <2>3 DEF Step
    <3>2. todo' = <<Step("shutdownServer", j, {})>>
      BY <1>1, <2>3, TakeStep
    <3> QED
      BY <1>2, <3>1, <3>2
  <2>4. CASE todo = <<Step("shutdownServer", j, {})>> /\ servers[j] = 0
    <3>1. do = "shutdownServer" /\ i = j
      BY <1>1, <2>4 DEF Step
    <3>2. todo' = <<>>
      BY <1>1, <2>4, TakeStep
    <3> QED
      BY <1>2, <2>4, <3>1, <3>2
  <2>5. CASE todo = <<Step("startServer", j, {}), Step("AddServer", j, {})>> /\ live[j] = 0
    <3>1. do = "startServer" /\ i = j
      BY <1>1, <2>5 DEF Step
    <3>2. todo' = <<Step("AddServer", j, {})>>
      BY <1>1, <2>5, TakeStep
    <3> QED
      BY <1>2, <2>5, <3>1, <3>2
  <2>6. CASE /\ todo = <<Step("AddServer", j, {})>>
             /\ live[j] = gen[j] /\ servers[j] = 0
             /\ \A c \in CallIds : call[c].end.to = j => call[c].server < gen[j]
    <3>1. do = "AddServer" /\ i = j
      BY <1>1, <2>6 DEF Step
    <3>2. todo' = <<>>
      BY <1>1, <2>6, TakeStep
    <3> QED
      BY <1>2, <2>6, <3>1, <3>2
  <2> QED
    BY <2>1, <2>2, <2>3, <2>4, <2>5, <2>6 DEF Underway
<1> QED
  BY <1>3, <1>4

(* Links go up and down. *)
LEMMA LinkStep ==
    ASSUME IInv, NEW i \in Servers, NEW to \in SUBSET Servers,
           connect(i, to) \/ disconnect(i, to)
    PROVE  IInv'
<1>1. /\ UNCHANGED <<servers, gen, live, saved, call, reliable, done, clntEnds, srvs, ops>>
      /\ connected' \in [Servers -> BOOLEAN]
  BY DEF connect, disconnect, Does, clnt, IInv, TypeOK
<1>2. \E do \in {"connect", "disconnect"} : Does(do, i, to)
  BY DEF connect, disconnect
<1>3. /\ todo' \in Seq(Steps)
      /\ \/ todo' \in Seq(LinkSteps)
         \/ \E j \in Servers : todo' = <<Step("DeleteServer", j, {}),
                                       Step("shutdownServer", j, {})>>
  BY <1>2, FirstStep
<1>4. TodoOK'
  BY <1>3 DEF TodoOK, Underway, Step
<1>5. RegisteredIsLive' /\ CallsOK'
  BY <1>1, ServersStable DEF IInv
<1>6. \A S \in SUBSET Servers : Links(i, S) \subseteq Ends
  BY SMTT(30) DEF Links, End, Ends, IInv, TypeOK
<1>7. enabled' \subseteq Ends
  <2>1. {j \in to : connected'[j]} \in SUBSET Servers
    OBVIOUS
  <2> QED
    BY <1>6, <2>1 DEF connect, disconnect, IInv, TypeOK, NetTypeOK
<1>8. revived' \subseteq Servers \X Nat
  <2>1. revived \subseteq Servers \X Nat /\ <<i, gen[i]>> \in Servers \X Nat
    BY DEF IInv, TypeOK
  <2>2. revived' = revived \/ revived' = revived \cup {<<i, gen[i]>>}
    BY DEF connect, disconnect
  <2> QED
    BY <2>1, <2>2
<1>9. TypeOK'
  BY <1>1, <1>3, <1>7, <1>8 DEF IInv, TypeOK, NetTypeOK
<1> QED
  BY <1>4, <1>5, <1>9 DEF IInv

(* A server is taken off the network. *)
LEMMA DeleteStep ==
    ASSUME IInv, NEW i \in Servers, DeleteServer(i)
    PROVE  IInv'
<1>1. /\ UNCHANGED <<enabled, gen, live, saved, connected, revived, call, reliable, done, clntEnds,
                      srvs, ops>>
      /\ servers' = [servers EXCEPT ![i] = 0]
  BY DEF DeleteServer, Does, clnt, group
<1>2. todo' = <<Step("shutdownServer", i, {})>> /\ todo' \in Seq(Steps)
  BY FirstStep DEF DeleteServer
<1>3. TypeOK'
  BY <1>1, <1>2 DEF IInv, TypeOK, NetTypeOK
<1>4. servers'[i] = 0 /\ \A j \in Servers : j # i => servers'[j] = servers[j]
  BY <1>1 DEF IInv, TypeOK, NetTypeOK
<1>5. TodoOK'
  BY <1>2, <1>4 DEF TodoOK, Underway, Step
<1>6. RegisteredIsLive'
  BY <1>1, <1>4 DEF IInv, RegisteredIsLive
<1>7. CallsOK'
  <2> SUFFICES ASSUME NEW c \in CallIds PROVE CallOK(c)'
    BY DEF CallsOK
  <2>1. CallOK(c) /\ call[c].end.to \in Servers /\ call[c].server \in Nat
    BY CallFacts
  <2>2. call[c].handler = "finished" =>
            c \in saved[call[c].end.to] \/ servers'[call[c].end.to] # call[c].server
    BY SMTT(30), <1>4, <2>1 DEF CallOK
  <2> QED
    BY <1>1, <2>1, <2>2 DEF CallOK
<1> QED
  BY <1>3, <1>5, <1>6, <1>7 DEF IInv

(* Its Persister is copied; the server is not registered by then. *)
LEMMA ShutdownStep ==
    ASSUME IInv, NEW i \in Servers, shutdownServer(i)
    PROVE  IInv'
<1>1. /\ UNCHANGED <<enabled, servers, gen, saved, connected, revived, call, reliable, done,
                      clntEnds, srvs, ops>>
      /\ live' = [live EXCEPT ![i] = 0]
  BY DEF shutdownServer, Copy, Does, clnt
<1>2. todo' = <<>> /\ servers[i] = 0 /\ todo' \in Seq(Steps)
  BY FirstStep DEF shutdownServer
<1>3. TypeOK'
  BY <1>1, <1>2 DEF IInv, TypeOK, NetTypeOK
<1>4. TodoOK'
  BY <1>2 DEF TodoOK
<1>5. RegisteredIsLive'
  BY SMTT(30), <1>1, <1>2 DEF IInv, RegisteredIsLive, TypeOK
<1>6. CallsOK'
  BY <1>1 DEF IInv, CallsOK, CallOK
<1> QED
  BY <1>3, <1>4, <1>5, <1>6 DEF IInv

(* A new incarnation is made: no Call was accepted by it. *)
LEMMA StartStep ==
    ASSUME IInv, NEW i \in Servers, startServer(i)
    PROVE  IInv'
<1>1. /\ UNCHANGED <<enabled, servers, saved, connected, revived, call, reliable, done, clntEnds,
                      srvs, ops>>
      /\ gen' = [gen EXCEPT ![i] = @ + 1] /\ live' = [live EXCEPT ![i] = gen[i] + 1]
  BY DEF startServer, Copy, Does, clnt
<1>2. todo' = <<Step("AddServer", i, {})>> /\ live[i] = 0 /\ todo' \in Seq(Steps)
  BY FirstStep DEF startServer
<1>3. /\ gen[i] \in Nat /\ gen'[i] = gen[i] + 1 /\ live'[i] = gen[i] + 1 /\ servers[i] = 0
      /\ \A j \in Servers : j # i => gen'[j] = gen[j] /\ live'[j] = live[j]
  BY <1>1, <1>2 DEF IInv, RegisteredIsLive, TypeOK
<1>4. TypeOK'
  BY SMTT(30), <1>1, <1>2 DEF IInv, TypeOK, NetTypeOK
<1>5. RegisteredIsLive'
  BY SMTT(30), <1>1, <1>3 DEF IInv, RegisteredIsLive
<1>6. \A c \in CallIds :
          /\ CallOK(c) /\ call[c].end.to \in Servers /\ call[c].server \in Nat
          /\ gen[call[c].end.to] \in Nat /\ call[c].server <= gen[call[c].end.to]
  BY CallFacts DEF CallOK
<1>7. \A c \in CallIds : call'[c].end.to = i => call'[c].server < gen'[i]
  BY <1>1, <1>3, <1>6
<1>8. TodoOK'
  BY <1>1, <1>2, <1>3, <1>7 DEF TodoOK, Underway, Step
<1>9. CallsOK'
  <2> SUFFICES ASSUME NEW c \in CallIds PROVE CallOK(c)'
    BY DEF CallsOK
  <2>1. call[c].server <= gen'[call[c].end.to]
    BY SMTT(30), <1>3, <1>6
  <2> QED
    BY <1>1, <1>6, <2>1 DEF CallOK
<1> QED
  BY <1>4, <1>5, <1>8, <1>9 DEF IInv

(* It is registered: every Call there is belongs to an earlier incarnation. *)
LEMMA AddStep ==
    ASSUME IInv, NEW i \in Servers, AddServer(i)
    PROVE  IInv'
<1>1. /\ UNCHANGED <<enabled, gen, live, saved, connected, revived, call, reliable, done, clntEnds,
                      srvs, ops>>
      /\ servers' = [servers EXCEPT ![i] = gen[i]]
  BY DEF AddServer, Does, clnt, group
<1>2. /\ todo' = <<>> /\ live[i] = gen[i] /\ todo' \in Seq(Steps)
      /\ \A c \in CallIds : call[c].end.to = i => call[c].server < gen[i]
  BY FirstStep DEF AddServer
<1>3. servers'[i] = gen[i] /\ \A j \in Servers : j # i => servers'[j] = servers[j]
  BY <1>1 DEF IInv, TypeOK, NetTypeOK
<1>4. TypeOK'
  BY <1>1, <1>2 DEF IInv, TypeOK, NetTypeOK
<1>5. TodoOK'
  BY <1>2 DEF TodoOK
<1>6. RegisteredIsLive'
  BY SMTT(30), <1>1, <1>2, <1>3 DEF IInv, RegisteredIsLive
<1>7. CallsOK'
  <2> SUFFICES ASSUME NEW c \in CallIds PROVE CallOK(c)'
    BY DEF CallsOK
  <2>1. /\ CallOK(c) /\ call[c].end.to \in Servers
        /\ call[c].server \in Nat
    BY CallFacts
  <2>2. gen[i] \in Nat
    BY DEF IInv, TypeOK
  <2>3. call[c].end.to = i => servers'[i] # call[c].server
    BY <1>2, <1>3, <2>1, <2>2
  <2> QED
    BY <1>1, <1>3, <2>1, <2>3 DEF CallOK
<1> QED
  BY <1>4, <1>5, <1>6, <1>7 DEF IInv

(* One Call goes on, and the servers are as before. *)
LEMMA CallStep ==
    ASSUME IInv, NEW c \in CallIds, NEW r \in CallRecords,
           call' = [call EXCEPT ![c] = r],
           UNCHANGED <<servers, gen, live, todo>>,
           \A i \in Servers : saved[i] \subseteq saved'[i],
           \/ r.end = call[c].end /\ r.server = call[c].server
           \/ r.server = 0
           \/ r.server = servers[r.end.to] /\ r.server # 0,
           CallOK(c)'
    PROVE  RegisteredIsLive' /\ TodoOK' /\ CallsOK'
<1>1. call'[c] = r /\ \A d \in CallIds : d # c => call'[d] = call[d]
  BY DEF IInv, TypeOK, NetTypeOK
<1>2. RegisteredIsLive'
  BY DEF IInv, RegisteredIsLive
<1>3. ASSUME NEW i \in Servers, servers[i] = 0,
             \A d \in CallIds : call[d].end.to = i => call[d].server < gen[i]
      PROVE  \A d \in CallIds : call'[d].end.to = i => call'[d].server < gen[i]
  <2>1. r.end.to = i => r.server < gen[i]
    BY <1>3 DEF IInv, RegisteredIsLive
  <2> QED
    BY <1>1, <1>3, <2>1
<1>4. TodoOK'
  BY SMTT(30), <1>3, TodoStable DEF IInv
<1>5. CallsOK'
  <2> SUFFICES ASSUME NEW d \in CallIds, d # c PROVE CallOK(d)'
    BY DEF CallsOK
  <2>1. CallOK(d) /\ call'[d] = call[d] /\ call[d].end.to \in Servers
    BY <1>1, CallFacts
  <2> QED
    BY SMTT(30), <2>1 DEF CallOK
<1> QED
  BY <1>2, <1>4, <1>5

(* A Call is made, by the clerk or by an incarnation of a server. *)
LEMMA NewCall ==
    ASSUME IInv, NEW c \in CallIds, NEW e \in Ends, Call(c, e),
           UNCHANGED <<servers, gen, live, todo, saved>>
    PROVE  /\ call' \in [CallIds -> CallRecords]
           /\ RegisteredIsLive' /\ TodoOK' /\ CallsOK'
<1>1. PICK phase \in {"sent", "failing"} :
          call' = [call EXCEPT ![c] = [call[c] EXCEPT !.phase = phase, !.end = e]]
  BY DEF Call
<1> DEFINE r == [call[c] EXCEPT !.phase = phase, !.end = e]
<1>2. call \in [CallIds -> CallRecords] /\ call[c] \in CallRecords /\ gen \in [Servers -> Nat]
  BY DEF IInv, TypeOK, NetTypeOK
<1>3. r \in CallRecords
  BY <1>2 DEF CallRecords, Phases
<1>4. /\ call[c].server = 0 /\ call[c].handler = "none" /\ ~call[c].ok
      /\ e.to \in Servers
  BY DEF IInv, CallsOK, CallOK, Call, Ends
<1>5. /\ r.phase = phase /\ r.end = e /\ r.server = 0 /\ r.handler = "none" /\ ~r.ok
  BY <1>2, <1>4 DEF CallRecords
<1> HIDE DEF r
<1>6. call' = [call EXCEPT ![c] = r]
  BY <1>1 DEF r
<1>7. call'[c] = r /\ call' \in [CallIds -> CallRecords]
  BY <1>2, <1>3, <1>6
<1>8. gen'[e.to] \in Nat
  BY <1>2, <1>4
<1>9. CallOK(c)'
  BY <1>5, <1>7, <1>8 DEF CallOK
<1> QED
  BY <1>3, <1>5, <1>6, <1>7, <1>9, CallStep

(* What stays when only the phase of a Call changes. *)
LEMMA MoveStep ==
    ASSUME IInv, NEW c \in CallIds, NEW phase \in Phases \ {"idle", "sent", "accepted"},
           Move(c, phase), UNCHANGED <<net, group, clnt, todo, ops>>,
           call[c].phase \notin {"idle", "returned"},
           phase = "got" => call[c].handler = "finished",
           phase = "delivering" => c \in saved[call[c].end.to]
    PROVE  IInv'
<1> DEFINE r == [call[c] EXCEPT !.phase = phase]
<1>1. /\ call \in [CallIds -> CallRecords] /\ call[c] \in CallRecords /\ CallOK(c)
      /\ call[c].ok \in BOOLEAN
  BY DEF IInv, TypeOK, NetTypeOK, CallsOK, CallRecords
<1>2. r \in CallRecords
  BY <1>1 DEF CallRecords
<1>3. /\ r.phase = phase /\ r.end = call[c].end /\ r.server = call[c].server
      /\ r.handler = call[c].handler /\ r.ok = call[c].ok
  BY <1>1 DEF CallRecords
<1> HIDE DEF r
<1>4. call' = [call EXCEPT ![c] = r]
  BY DEF Move, r
<1>5. call'[c] = r /\ call' \in [CallIds -> CallRecords]
  BY <1>1, <1>2, <1>4
<1>6. /\ UNCHANGED <<enabled, servers, reliable, done, gen, live, saved, connected, revived>>
      /\ UNCHANGED <<clntEnds, srvs, todo, ops>>
  BY DEF net, group, clnt
<1>7. ~call[c].ok
  BY SMTT(30), <1>1 DEF CallOK
<1>8. CallOK(c)'
  BY SMTT(30), <1>1, <1>3, <1>5, <1>6, <1>7 DEF CallOK
<1>9. RegisteredIsLive' /\ TodoOK' /\ CallsOK'
  BY <1>2, <1>3, <1>4, <1>6, <1>8, CallStep
<1>10. TypeOK'
  BY <1>5, <1>6 DEF IInv, TypeOK, NetTypeOK
<1> QED
  BY <1>9, <1>10 DEF IInv

(* A step of the transport that changes one Call, whose new record is r. *)
LEMMA RecordStep ==
    ASSUME IInv, NEW c \in CallIds, NEW r \in CallRecords,
           call' = [call EXCEPT ![c] = r], UNCHANGED <<net, group, clnt, todo, ops>>,
           r.end = call[c].end,
           \/ r.server = call[c].server
           \/ r.server = servers[r.end.to] /\ r.server # 0,
           CallOK(c)'
    PROVE  IInv'
<1>1. /\ UNCHANGED <<enabled, servers, reliable, done, gen, live, saved, connected, revived>>
      /\ UNCHANGED <<clntEnds, srvs, todo, ops>>
  BY DEF net, group, clnt
<1>2. RegisteredIsLive' /\ TodoOK' /\ CallsOK'
  BY <1>1, CallStep
<1>3. TypeOK'
  BY <1>1 DEF IInv, TypeOK, NetTypeOK
<1> QED
  BY <1>2, <1>3 DEF IInv

(* processReq accepts a request for the server registered now, or fails it. *)
LEMMA AcceptStep ==
    ASSUME IInv, NEW c \in CallIds, processReq(c), UNCHANGED <<group, clnt, todo, ops>>
    PROVE  IInv'
<1> DEFINE e == call[c].end
           r == [call[c] EXCEPT !.phase = "accepted", !.server = servers[e.to],
                                !.reliable = reliable]
<1>1. /\ call \in [CallIds -> CallRecords] /\ call[c] \in CallRecords /\ CallOK(c)
      /\ e.to \in Servers /\ servers[e.to] \in Nat /\ gen[e.to] \in Nat
      /\ reliable \in BOOLEAN /\ call[c].phase = "sent" /\ UNCHANGED net
  BY DEF IInv, TypeOK, NetTypeOK, CallsOK, CallRecords, Ends, processReq
<1>2. CASE Move(c, "failing")
  BY <1>1, <1>2, MoveStep DEF Phases
<1>3. CASE servers[e.to] # 0 /\ call' = [call EXCEPT ![c] = r]
  <2>1. r \in CallRecords
    BY <1>1 DEF CallRecords, Phases
  <2>2. /\ r.phase = "accepted" /\ r.end = e /\ r.server = servers[e.to]
        /\ r.handler = call[c].handler /\ r.ok = call[c].ok
    BY <1>1 DEF CallRecords
  <2> HIDE DEF r
  <2>3. call'[c] = r
    BY <1>1, <1>3
  <2>4. call[c].handler = "none" /\ ~call[c].ok
    BY <1>1 DEF CallOK
  <2>5. servers[e.to] <= gen[e.to] /\ servers[e.to] > 0
    <3>1. servers[e.to] = live[e.to] /\ live[e.to] \in {0, gen[e.to]}
      BY <1>1, <1>3 DEF IInv, RegisteredIsLive
    <3>2. servers[e.to] = gen[e.to] /\ servers[e.to] # 0
      BY <1>3, <3>1
    <3>3. \A n \in Nat : n # 0 => n <= n /\ n > 0
      OBVIOUS
    <3> HIDE DEF e
    <3> QED
      BY <1>1, <3>2, <3>3, Zenon
  <2>6. gen' = gen /\ saved' = saved /\ servers' = servers
    BY <1>1 DEF group, net
  <2>7. CallOK(c)'
    BY SMTT(30), <2>2, <2>3, <2>4, <2>5, <2>6 DEF CallOK
  <2> QED
    BY <1>1, <1>3, <2>1, <2>2, <2>7, RecordStep
<1> QED
  BY <1>2, <1>3 DEF processReq

(* processReq starts the handler. *)
LEMMA DispatchStep ==
    ASSUME IInv, NEW c \in CallIds, dispatch(c), UNCHANGED <<group, clnt, todo, ops>>
    PROVE  IInv'
<1> DEFINE r == [call[c] EXCEPT !.phase = "waiting", !.handler = "running"]
<1>1. /\ call \in [CallIds -> CallRecords] /\ call[c] \in CallRecords /\ CallOK(c)
      /\ call[c].phase = "accepted" /\ UNCHANGED net /\ call' = [call EXCEPT ![c] = r]
  BY DEF IInv, TypeOK, NetTypeOK, CallsOK, dispatch
<1>2. r \in CallRecords
  BY <1>1 DEF CallRecords, Phases
<1>3. /\ r.phase = "waiting" /\ r.end = call[c].end /\ r.server = call[c].server
      /\ r.handler = "running" /\ r.ok = call[c].ok
  BY <1>1 DEF CallRecords
<1> HIDE DEF r
<1>4. call'[c] = r
  BY <1>1
<1>5. gen' = gen /\ saved' = saved /\ servers' = servers
  BY <1>1 DEF group, net
<1>6. CallOK(c)'
  BY <1>1, <1>3, <1>4, <1>5 DEF CallOK
<1> QED
  BY <1>1, <1>2, <1>3, <1>6, RecordStep

(* Call returns; ok only if the reply got through. *)
LEMMA ReturnStep ==
    ASSUME IInv, NEW c \in CallIds, return(c), UNCHANGED <<group, clnt, todo, ops>>
    PROVE  IInv'
<1> DEFINE r == [call[c] EXCEPT !.phase = "returned", !.ok = call[c].phase = "delivering"]
<1>1. /\ call \in [CallIds -> CallRecords] /\ call[c] \in CallRecords /\ CallOK(c)
      /\ call[c].phase \in {"failing", "delivering"} /\ UNCHANGED net
      /\ call' = [call EXCEPT ![c] = r]
  BY DEF IInv, TypeOK, NetTypeOK, CallsOK, return
<1>2. r \in CallRecords
  BY <1>1 DEF CallRecords, Phases
<1>3. /\ r.phase = "returned" /\ r.end = call[c].end /\ r.server = call[c].server
      /\ r.handler = call[c].handler /\ (r.ok => call[c].phase = "delivering")
  BY <1>1 DEF CallRecords
<1> HIDE DEF r
<1>4. call'[c] = r
  BY <1>1
<1>5. gen' = gen /\ saved' = saved /\ servers' = servers
  BY SMTT(30), <1>1 DEF group, net
<1>6. CallOK(c)'
  BY <1>1, <1>3, <1>4, <1>5 DEF CallOK
<1> QED
  BY <1>1, <1>2, <1>3, <1>6, RecordStep

(* The handler finishes: it has saved if its incarnation is registered. *)
LEMMA HandlerStep ==
    ASSUME IInv, NEW c \in CallIds, handler(c)
    PROVE  IInv'
<1> DEFINE r == [call[c] EXCEPT !.handler = "finished"]
           i == call[c].end.to
<1>1. /\ call \in [CallIds -> CallRecords] /\ call[c] \in CallRecords /\ CallOK(c)
      /\ call[c].handler = "running" /\ call' = [call EXCEPT ![c] = r]
      /\ i \in Servers /\ saved \in [Servers -> SUBSET CallIds]
  BY DEF IInv, TypeOK, NetTypeOK, CallsOK, CallRecords, Ends, handler, handle
<1>2. /\ UNCHANGED <<enabled, servers, reliable, done, gen, live, connected, revived>>
      /\ UNCHANGED <<clntEnds, srvs, todo, ops>>
      /\ saved' = [saved EXCEPT ![i] =
                       IF live[i] = call[c].server THEN @ \cup {c} ELSE @]
  BY DEF handler, Save, handle, net, clnt
<1>3. r \in CallRecords
  BY <1>1 DEF CallRecords
<1>4. /\ r.phase = call[c].phase /\ r.end = call[c].end /\ r.server = call[c].server
      /\ r.handler = "finished" /\ r.ok = call[c].ok
  BY <1>1 DEF CallRecords
<1> HIDE DEF r
<1>5. call'[c] = r /\ call' \in [CallIds -> CallRecords]
  BY <1>1, <1>3
<1>6. /\ saved' \in [Servers -> SUBSET CallIds]
      /\ \A j \in Servers : saved[j] \subseteq saved'[j]
      /\ live[i] = call[c].server => c \in saved'[i]
  BY <1>1, <1>2
<1>7. servers[i] = call[c].server => live[i] = call[c].server
  BY SMTT(30), <1>1 DEF IInv, RegisteredIsLive, CallOK
<1>8. CallOK(c)'
  BY SMTT(30), <1>1, <1>2, <1>4, <1>5, <1>6, <1>7 DEF CallOK
<1>9. RegisteredIsLive' /\ TodoOK' /\ CallsOK'
  BY <1>1, <1>2, <1>3, <1>4, <1>6, <1>8, CallStep
<1>10. TypeOK'
  BY <1>2, <1>5, <1>6 DEF IInv, TypeOK, NetTypeOK
<1> QED
  BY <1>9, <1>10 DEF IInv

(* What the network does with a Call by itself.  recheck lets a reply       *)
(* through only if the server that made it is still registered.             *)
LEMMA TransportStep ==
    ASSUME IInv, NEW c \in CallIds, transport(c)
    PROVE  IInv'
<1>1. UNCHANGED <<group, clnt, todo, ops>> /\ CallOK(c)
  BY DEF transport, IInv, CallsOK
<1>2. CASE processReq(c)
  BY <1>1, <1>2, AcceptStep
<1>3. CASE dispatch(c)
  BY <1>1, <1>3, DispatchStep
<1>4. CASE return(c)
  BY <1>1, <1>4, ReturnStep
<1>5. CASE dropRequest(c)
  BY <1>1, <1>5, MoveStep DEF dropRequest, Phases
<1>6. CASE receive(c)
  BY <1>1, <1>6, MoveStep DEF receive, Phases
<1>7. CASE poll(c)
  BY <1>1, <1>7, MoveStep DEF poll, Phases
<1>8. CASE recheck(c)
  <2>1. /\ call[c].phase = "got" /\ UNCHANGED net
        /\ Move(c, "failing") \/ (Move(c, "delivering") /\ ~isServerDead(c))
    BY SMTT(30), <1>8 DEF recheck
  <2>2. ~isServerDead(c) => c \in saved[call[c].end.to]
    BY <1>1, <2>1 DEF isServerDead, CallOK
  <2> QED
    BY <1>1, <2>1, <2>2, MoveStep DEF Phases
<1> QED
  BY <1>2, <1>3, <1>4, <1>5, <1>6, <1>7, <1>8 DEF transport, Transport

(* The clerk, or a server, makes a Call. *)
LEMMA CallerStep ==
    ASSUME IInv, NEW c \in CallIds, NEW j \in Servers,
           clntCall(c, j) \/ \E i \in Servers : srvCall(c, i, j)
    PROVE  IInv'
<1>1. CASE clntCall(c, j)
  <2>1. /\ UNCHANGED <<servers, reliable, done, gen, live, saved, connected, revived, srvs, todo, ops>>
        /\ Call(c, ClntEnd(j)) /\ clntEnds' = clntEnds \cup {j}
        /\ enabled' \subseteq enabled \cup {ClntEnd(j)}
    BY <1>1 DEF clntCall, group
  <2>2. ClntEnd(j) \in Ends
    BY DEF ClntEnd, Ends
  <2>3. call' \in [CallIds -> CallRecords] /\ RegisteredIsLive' /\ TodoOK' /\ CallsOK'
    BY <2>1, <2>2, NewCall
  <2>4. TypeOK'
    BY <2>1, <2>2, <2>3 DEF IInv, TypeOK, NetTypeOK
  <2> QED
    BY <2>3, <2>4 DEF IInv
<1>2. CASE \E i \in Servers : srvCall(c, i, j)
  <2>1. PICK i \in Servers : srvCall(c, i, j)
    BY <1>2
  <2>2. PICK g \in 1 .. gen[i] : Call(c, [from |-> i, to |-> j, gen |-> g])
    BY <2>1 DEF srvCall
  <2>3. /\ UNCHANGED <<servers, enabled, reliable, done, gen, live, saved, connected, revived>>
        /\ UNCHANGED <<clntEnds, srvs, todo, ops>>
    BY <2>1 DEF srvCall, net, group, clnt
  <2>4. [from |-> i, to |-> j, gen |-> g] \in Ends
    BY SMTT(30) DEF Ends, IInv, TypeOK
  <2>5. call' \in [CallIds -> CallRecords] /\ RegisteredIsLive' /\ TodoOK' /\ CallsOK'
    BY <2>2, <2>3, <2>4, NewCall
  <2>6. TypeOK'
    BY ZenonT(20), <2>3, <2>5 DEF IInv, TypeOK, NetTypeOK
  <2> QED
    BY <2>5, <2>6 DEF IInv
<1> QED
  BY <1>1, <1>2

(* Every step of the tester, the clerk, the network and the handlers keeps  *)
(* the invariant.                                                           *)
LEMMA NextIInv == IInv /\ [Next]_vars => IInv'
<1> SUFFICES ASSUME IInv, [Next]_vars PROVE IInv'
  OBVIOUS
<1>1. CASE UNCHANGED vars
  <2>1. /\ UNCHANGED <<enabled, servers, reliable, done, call, gen, live, saved, connected, revived>>
        /\ UNCHANGED <<clntEnds, srvs, todo, ops>>
    BY <1>1 DEF vars, net, group, clnt
  <2>2. TypeOK'
    BY <2>1 DEF IInv, TypeOK, NetTypeOK
  <2>3. RegisteredIsLive' /\ CallsOK'
    BY <2>1, ServersStable DEF IInv
  <2>4. TodoOK'
    BY <2>1, TodoStable DEF IInv
  <2> QED
    BY <2>2, <2>3, <2>4 DEF IInv
<1>2. CASE TesterStep
  <2>1. ASSUME NEW i \in Servers, ShutdownServer(i) \/ StartServer(i) PROVE IInv'
    BY <2>1, ServerOperation
  <2>2. ASSUME NEW i \in Servers, ConnectOne(i) \/ DisconnectAll(i) PROVE IInv'
    <3>1. PICK do \in {"connect", "disconnect"} : Operation(<<Step(do, i, Servers)>>)
      BY <2>2 DEF ConnectOne, DisconnectAll
    <3>2. <<Step(do, i, Servers)>> \in Seq(LinkSteps)
      BY StepType
    <3> QED
      BY <3>1, <3>2, LinkOperation
  <2>3. ASSUME NEW i \in Servers,
               DeleteServer(i) \/ shutdownServer(i) \/ startServer(i) \/ AddServer(i)
        PROVE  IInv'
    BY <2>3, DeleteStep, ShutdownStep, StartStep, AddStep
  <2>4. ASSUME NEW i \in Servers, NEW to \in SUBSET Servers,
               connect(i, to) \/ disconnect(i, to)
        PROVE  IInv'
    BY <2>4, LinkStep
  <2>5. ASSUME NEW p \in Partitions, Partition(p) PROVE IInv'
    <3>1. p[1] \in Seq(Servers) /\ p[2] \in Seq(Servers)
      BY TesterAssumption
    <3>2. Side(p[1], p[2]) \in Seq(LinkSteps) /\ Side(p[2], p[1]) \in Seq(LinkSteps)
      BY <3>1, PartitionSteps
    <3>3. Side(p[1], p[2]) \o Side(p[2], p[1]) \in Seq(LinkSteps)
      BY <3>2
    <3> QED
      BY <2>5, <3>3, LinkOperation DEF Partition
  <2> QED
    BY <1>2, <2>1, <2>2, <2>3, <2>4, <2>5 DEF TesterStep
<1>3. CASE ClerkStep
  BY <1>3, ClerkOperation
<1>4. ASSUME NEW c \in CallIds, handler(c) \/ transport(c) PROVE IInv'
  BY <1>4, HandlerStep, TransportStep
<1>5. ASSUME NEW c \in CallIds, NEW j \in Servers,
             clntCall(c, j) \/ \E i \in Servers : srvCall(c, i, j)
      PROVE  IInv'
  BY <1>5, CallerStep
<1> QED
  BY <1>1, <1>2, <1>3, <1>4, <1>5 DEF Next

(* The invariant holds throughout. *)
LEMMA SpecIInv == Spec => []IInv
  BY InitIInv, NextIInv, PTL DEF Spec

-----------------------------------------------------------------------------
(***************************************************************************)
(* A server that is shut down is cut off                                   *)
(***************************************************************************)

(* No end of the present incarnation of i is enabled. *)
Isolated(i) == ~connected[i] /\ \A e \in enabled : e.from = i => e.gen # gen[i]

(* What makes KilledAreCutOff inductive: connect was called only for        *)
(* incarnations that were down, and those never come up again; a server     *)
(* that is down does not count as connected but after such a call; and      *)
(* ShutdownServer has isolated the server before it kills it.               *)
RevivedAreDown ==
    \A r \in revived : r[2] <= gen[r[1]] /\ (r[2] = gen[r[1]] => ~Up(r[1]))

ConnectedAreUp ==
    \A i \in Servers : connected[i] => Up(i) \/ <<i, gen[i]>> \in revived

ToBeKilled(i) ==
    \/ todo = <<Step("DeleteServer", i, {}), Step("shutdownServer", i, {})>>
    \/ todo = <<Step("shutdownServer", i, {})>>

IsolatedFirst == \A i \in Servers : ToBeKilled(i) => Isolated(i)

CutOff == KilledAreCutOff /\ RevivedAreDown /\ ConnectedAreUp /\ IsolatedFirst

(* At the start nothing has been shut down. *)
LEMMA InitCutOff == Init => CutOff
<1> SUFFICES ASSUME Init PROVE CutOff
  OBVIOUS
<1>1. /\ gen = [i \in Servers |-> 1] /\ live = [i \in Servers |-> 1] /\ revived = {}
      /\ enabled = [from : Servers, to : Servers, gen : {1}] /\ todo = <<>>
  BY Zenon DEF Init, MakeGroupStart
<1>2. KilledAreCutOff
  BY SMTT(30), <1>1 DEF KilledAreCutOff, Up
<1>3. RevivedAreDown
  BY <1>1 DEF RevivedAreDown
<1>4. IsolatedFirst
  BY <1>1 DEF IsolatedFirst, ToBeKilled
<1>5. ConnectedAreUp
  BY <1>1 DEF ConnectedAreUp, Up
<1> QED
  BY <1>2, <1>3, <1>4, <1>5 DEF CutOff

(* Steps that leave the servers and their ends alone, and after which no    *)
(* server is about to be killed that was not before.                        *)
LEMMA CutOffStable ==
    ASSUME CutOff, UNCHANGED <<gen, live, connected, revived>>,
           \A e \in enabled' : e \in enabled \/ e.from = Clerk,
           \A i \in Servers : ToBeKilled(i)' => ToBeKilled(i)
    PROVE  CutOff'
<1>1. KilledAreCutOff'
  BY DEF CutOff, KilledAreCutOff, Up
<1>2. RevivedAreDown'
  BY DEF CutOff, RevivedAreDown, Up
<1>3. ConnectedAreUp'
  BY DEF CutOff, ConnectedAreUp, Up
<1>4. IsolatedFirst'
  BY NetAssumption DEF CutOff, IsolatedFirst, Isolated
<1> QED
  BY <1>1, <1>2, <1>3, <1>4 DEF CutOff

(* A server is about to be killed if it is isolated from all others by       *)
(* ShutdownServer.                                                           *)
LEMMA FirstLink ==
    ASSUME IInv, NEW i \in Servers, NEW to \in SUBSET Servers,
           NEW do \in {"connect", "disconnect"}, Does(do, i, to),
           NEW j \in Servers, ToBeKilled(j)'
    PROVE  do = "disconnect" /\ j = i /\ to = Servers
<1>1. todo \in Seq(Steps) /\ todo # <<>> /\ Head(todo) = Step(do, i, to) /\ todo' = Tail(todo)
  BY DEF IInv, TypeOK, Does
<1>2. todo' # <<>> /\ Head(todo') \in {Step("DeleteServer", j, {}), Step("shutdownServer", j, {})}
  BY TakeStep DEF ToBeKilled
<1>3. CASE todo \in Seq(LinkSteps)
  <2>1. Head(todo') \in LinkSteps
    BY <1>1, <1>2, <1>3
  <2> QED
    BY <1>2, <2>1 DEF LinkSteps, Step
<1>4. CASE todo \notin Seq(LinkSteps)
  <2>1. PICK k \in Servers : Underway(k)
    BY <1>4 DEF IInv, TodoOK
  <2>2. CASE todo = <<Step("disconnect", k, Servers), Step("DeleteServer", k, {}),
                      Step("shutdownServer", k, {})>>
    <3>1. Step(do, i, to) = Step("disconnect", k, Servers)
      BY <1>1, <2>2
    <3>2. Head(todo') = Step("DeleteServer", k, {})
      BY <1>1, <2>2
    <3> QED
      BY <1>2, <3>1, <3>2 DEF Step
  <2>3. CASE todo # <<Step("disconnect", k, Servers), Step("DeleteServer", k, {}),
                      Step("shutdownServer", k, {})>>
    <3>1. Head(todo).do \notin {"connect", "disconnect"}
      BY <2>1, <2>3 DEF Underway, Step
    <3> QED
      BY SMTT(30), <1>1, <3>1 DEF Step
  <2> QED
    BY <2>2, <2>3
<1> QED
  BY <1>3, <1>4

(* connect enables ends of incarnations that are up or have been revived. *)
LEMMA ConnectCutOff ==
    ASSUME IInv, CutOff, NEW i \in Servers, NEW to \in SUBSET Servers, connect(i, to)
    PROVE  CutOff'
<1> DEFINE g == gen[i]
           S == {j \in to : connected'[j]}
<1>1. /\ UNCHANGED <<gen, live>> /\ connected' = [connected EXCEPT ![i] = TRUE]
      /\ enabled' = enabled \cup Links(i, S)
      /\ revived' = IF Up(i) THEN revived ELSE revived \cup {<<i, g>>}
  BY DEF connect
<1>2. gen \in [Servers -> Nat] /\ connected \in [Servers -> BOOLEAN]
  BY DEF IInv, TypeOK
<1>3. ConnectedAreUp'
  BY <1>1, <1>2 DEF CutOff, ConnectedAreUp, Up
<1>4. RevivedAreDown'
  BY SMTT(30), <1>1, <1>2 DEF CutOff, RevivedAreDown, Up
<1>5. connected'[i]
  BY <1>1, <1>2
<1>6. KilledAreCutOff'
  <2> SUFFICES ASSUME NEW e \in enabled'
               PROVE  \/ e.from = Clerk
                      \/ e.gen = gen[e.from] /\ Up(e.from)
                      \/ <<e.from, e.gen>> \in revived'
    BY <1>1 DEF KilledAreCutOff, Up
  <2>1. CASE e \in enabled
    BY <1>1, <2>1 DEF CutOff, KilledAreCutOff
  <2>2. CASE e \in Links(i, S)
    <3>1. e.gen = gen[e.from] /\ e.from \in Servers /\ connected'[e.from]
      BY <1>5, <2>2 DEF Links, End
    <3> QED
      BY <1>1, <1>3, <3>1 DEF ConnectedAreUp, Up
  <2> QED
    BY <1>1, <2>1, <2>2
<1>7. IsolatedFirst'
  <2>1. ASSUME NEW j \in Servers, ToBeKilled(j)' PROVE FALSE
    BY <2>1, FirstLink DEF connect
  <2> QED
    BY <2>1 DEF IsolatedFirst
<1> QED
  BY <1>3, <1>4, <1>6, <1>7 DEF CutOff

(* disconnect leaves fewer ends, and isolates a server that is to be killed. *)
LEMMA DisconnectCutOff ==
    ASSUME IInv, CutOff, NEW i \in Servers, NEW to \in SUBSET Servers, disconnect(i, to)
    PROVE  CutOff'
<1>1. /\ UNCHANGED <<gen, live, revived>> /\ connected' = [connected EXCEPT ![i] = FALSE]
      /\ enabled' = enabled \ Links(i, to) /\ Does("disconnect", i, to)
  BY DEF disconnect
<1>2. connected \in [Servers -> BOOLEAN] /\ enabled \subseteq Ends
  BY SMTT(30) DEF IInv, TypeOK, NetTypeOK
<1>3. ConnectedAreUp'
  BY <1>1, <1>2 DEF CutOff, ConnectedAreUp, Up
<1>4. RevivedAreDown' /\ KilledAreCutOff'
  BY SMTT(30), <1>1 DEF CutOff, RevivedAreDown, KilledAreCutOff, Up
<1>5. IsolatedFirst'
  <2> SUFFICES ASSUME NEW j \in Servers, ToBeKilled(j)' PROVE Isolated(j)'
    BY DEF IsolatedFirst
  <2>1. j = i /\ to = Servers
    BY <1>1, FirstLink
  <2>2. ~connected'[i]
    BY <1>1, <1>2
  <2>3. ASSUME NEW e \in enabled', e.from = i, e.gen = gen[i] PROVE FALSE
    <3>1. e \in Ends /\ e \notin Links(i, Servers)
      BY <1>1, <1>2, <2>1
    <3>2. e = End(i, e.to) /\ e.to \in Servers
      BY <2>3, <3>1 DEF Ends, End
    <3> QED
      BY <3>1, <3>2 DEF Links
  <2> QED
    BY <1>1, <2>1, <2>2, <2>3 DEF Isolated
<1> QED
  BY <1>3, <1>4, <1>5 DEF CutOff

(* DeleteServer and shutdownServer are done for a server that is to be killed. *)
LEMMA KillStep ==
    ASSUME IInv, NEW i \in Servers, NEW do \in {"DeleteServer", "shutdownServer"},
           Does(do, i, {})
    PROVE  ToBeKilled(i)
<1>1. todo \in Seq(Steps) /\ todo # <<>> /\ Head(todo) = Step(do, i, {})
  BY DEF IInv, TypeOK, Does
<1>2. todo \notin Seq(LinkSteps)
  <2>1. Head(todo) \notin LinkSteps
    BY <1>1 DEF LinkSteps, Step
  <2> QED
    BY <1>1, <2>1
<1>3. PICK j \in Servers : Underway(j)
  BY <1>2 DEF IInv, TodoOK
<1>4. \/ todo = <<Step("DeleteServer", j, {}), Step("shutdownServer", j, {})>>
      \/ todo = <<Step("shutdownServer", j, {})>>
  <2>1. Head(todo).do \in {"DeleteServer", "shutdownServer"}
    BY <1>1 DEF Step
  <2>2. todo # <<Step("disconnect", j, Servers), Step("DeleteServer", j, {}),
                 Step("shutdownServer", j, {})>>
    BY <2>1 DEF Step
  <2>3. todo # <<Step("startServer", j, {}), Step("AddServer", j, {})>>
    BY <2>1 DEF Step
  <2>4. todo # <<Step("AddServer", j, {})>>
    BY <2>1 DEF Step
  <2> QED
    BY <1>3, <2>2, <2>3, <2>4, Zenon DEF Underway
<1>5. j = i
  BY <1>1, <1>4 DEF Step
<1> QED
  BY <1>4, <1>5 DEF ToBeKilled

(* A server is taken down and up again. *)
LEMMA ServerCutOff ==
    ASSUME IInv, CutOff, NEW i \in Servers,
           DeleteServer(i) \/ shutdownServer(i) \/ startServer(i) \/ AddServer(i)
    PROVE  CutOff'
<1>1. CASE DeleteServer(i)
  <2>1. UNCHANGED <<gen, live, connected, revived, enabled>> /\ Does("DeleteServer", i, {})
    BY SMTT(30), <1>1 DEF DeleteServer, group
  <2>2. todo' = <<Step("shutdownServer", i, {})>>
    BY <2>1, FirstStep
  <2>3. ToBeKilled(i)
    BY <2>1, KillStep
  <2>4. \A j \in Servers : ToBeKilled(j)' => j = i
    BY <2>2 DEF ToBeKilled, Step
  <2> QED
    BY <2>1, <2>3, <2>4, CutOffStable
<1>2. CASE shutdownServer(i)
  <2>1. /\ UNCHANGED <<enabled, gen, connected, revived>>
        /\ live' = [live EXCEPT ![i] = 0] /\ Does("shutdownServer", i, {})
    BY SMTT(30), <1>2 DEF shutdownServer, Copy
  <2>2. todo' = <<>>
    BY <2>1, FirstStep
  <2>3. Isolated(i)
    BY <2>1, KillStep DEF CutOff, IsolatedFirst
  <2>4. live \in [Servers -> Nat] /\ enabled \subseteq Ends
    BY SMTT(30) DEF IInv, TypeOK, NetTypeOK
  <2>5. KilledAreCutOff'
    BY <2>1, <2>3, <2>4 DEF CutOff, KilledAreCutOff, Up, Isolated, Ends
  <2>6. RevivedAreDown'
    BY SMTT(30), <2>1, <2>4 DEF CutOff, RevivedAreDown, Up
  <2>7. ConnectedAreUp'
    BY <2>1, <2>3, <2>4 DEF CutOff, ConnectedAreUp, Up, Isolated
  <2>8. IsolatedFirst'
    BY <2>2 DEF IsolatedFirst, ToBeKilled
  <2> QED
    BY <2>5, <2>6, <2>7, <2>8 DEF CutOff
<1>3. CASE startServer(i)
  <2>1. /\ UNCHANGED <<enabled, connected, revived>>
        /\ gen' = [gen EXCEPT ![i] = @ + 1] /\ live' = [live EXCEPT ![i] = gen[i] + 1]
        /\ Does("startServer", i, {})
    BY SMTT(30), <1>3 DEF startServer, Copy
  <2>2. todo' = <<Step("AddServer", i, {})>> /\ live[i] = 0
    BY <2>1, FirstStep
  <2>3. /\ live \in [Servers -> Nat] /\ gen \in [Servers -> Nat] /\ enabled \subseteq Ends
        /\ revived \subseteq Servers \X Nat
    BY DEF IInv, TypeOK, NetTypeOK
  <2>4. /\ gen'[i] = gen[i] + 1 /\ live'[i] # 0
        /\ \A j \in Servers : j # i => gen'[j] = gen[j] /\ live'[j] = live[j]
    BY <2>1, <2>3
  <2>5. KilledAreCutOff'
    BY <2>1, <2>2, <2>3, <2>4 DEF CutOff, KilledAreCutOff, Up, Ends
  <2>6. RevivedAreDown'
    BY SMTT(30), <2>1, <2>3, <2>4 DEF CutOff, RevivedAreDown, Up
  <2>7. ConnectedAreUp'
    BY SMTT(30), <2>1, <2>3, <2>4 DEF CutOff, ConnectedAreUp, Up
  <2>8. IsolatedFirst'
    BY <2>2 DEF IsolatedFirst, ToBeKilled, Step
  <2> QED
    BY <2>5, <2>6, <2>7, <2>8 DEF CutOff
<1>4. CASE AddServer(i)
  <2>1. UNCHANGED <<gen, live, connected, revived, enabled>> /\ Does("AddServer", i, {})
    BY SMTT(30), <1>4 DEF AddServer, group
  <2>2. todo' = <<>>
    BY <2>1, FirstStep
  <2>3. \A j \in Servers : ~ToBeKilled(j)'
    BY <2>2 DEF ToBeKilled
  <2> QED
    BY <2>1, <2>3, CutOffStable
<1> QED
  BY <1>1, <1>2, <1>3, <1>4

(* Every step keeps it. *)
LEMMA NextCutOff == IInv /\ CutOff /\ [Next]_vars => CutOff'
<1> SUFFICES ASSUME IInv, CutOff, [Next]_vars PROVE CutOff'
  OBVIOUS
<1>1. ASSUME UNCHANGED <<gen, live, connected, revived, todo>>,
             \A e \in enabled' : e \in enabled \/ e.from = Clerk
      PROVE  CutOff'
  BY <1>1, CutOffStable DEF ToBeKilled
<1>2. ASSUME NEW steps, Operation(steps),
             \A i \in Servers :
                 /\ steps # <<Step("DeleteServer", i, {}), Step("shutdownServer", i, {})>>
                 /\ steps # <<Step("shutdownServer", i, {})>>
      PROVE  CutOff'
  <2>1. UNCHANGED <<gen, live, connected, revived, enabled>> /\ todo' = steps
    BY <1>2 DEF Operation, group, net
  <2>2. \A i \in Servers : ~ToBeKilled(i)'
    BY <1>2, <2>1 DEF ToBeKilled
  <2> QED
    BY <2>1, <2>2, CutOffStable
<1>3. CASE UNCHANGED vars
  BY <1>1, <1>3 DEF vars, group, net
<1>4. CASE TesterStep
  <2>1. ASSUME NEW i \in Servers,
               ShutdownServer(i) \/ StartServer(i) \/ ConnectOne(i) \/ DisconnectAll(i)
        PROVE  CutOff'
    <3>1. CASE ShutdownServer(i)
      BY SMTT(30), <1>2, <3>1 DEF ShutdownServer
    <3>2. CASE StartServer(i)
      BY <1>2, <3>2 DEF StartServer, Step
    <3>3. CASE ConnectOne(i) \/ DisconnectAll(i)
      BY <1>2, <3>3 DEF ConnectOne, DisconnectAll, Step
    <3> QED
      BY <2>1, <3>1, <3>2, <3>3
  <2>2. ASSUME NEW i \in Servers,
               DeleteServer(i) \/ shutdownServer(i) \/ startServer(i) \/ AddServer(i)
        PROVE  CutOff'
    BY <2>2, ServerCutOff
  <2>3. ASSUME NEW i \in Servers, NEW to \in SUBSET Servers,
               connect(i, to) \/ disconnect(i, to)
        PROVE  CutOff'
    BY <2>3, ConnectCutOff, DisconnectCutOff
  <2>4. ASSUME NEW p \in Partitions, Partition(p) PROVE CutOff'
    <3>1. p[1] \in Seq(Servers) /\ p[2] \in Seq(Servers)
      BY TesterAssumption
    <3>2. Side(p[1], p[2]) \in Seq(LinkSteps) /\ Side(p[2], p[1]) \in Seq(LinkSteps)
      BY <3>1, PartitionSteps
    <3> DEFINE steps == Side(p[1], p[2]) \o Side(p[2], p[1])
    <3>3. steps \in Seq(LinkSteps) /\ Operation(steps)
      BY <2>4, <3>2 DEF Partition
    <3> HIDE DEF steps
    <3>4. ASSUME NEW i \in Servers, NEW t \in {"DeleteServer", "shutdownServer"}, NEW u,
                 steps = <<Step(t, i, {}), u>> \/ steps = <<Step(t, i, {})>>
          PROVE  FALSE
      <4>1. steps[1] \in LinkSteps /\ steps[1] = Step(t, i, {})
        BY <3>3, <3>4
      <4> QED
        BY <4>1 DEF LinkSteps, Step
    <3> QED
      BY <1>2, <3>3, <3>4
  <2> QED
    BY <1>4, <2>1, <2>2, <2>3, <2>4 DEF TesterStep
<1>5. CASE ClerkStep
  <2>1. UNCHANGED <<gen, live, connected, revived, todo>>
    BY <1>5 DEF ClerkStep, ClntOperation, group, ConnectAll, clntDisconnectAll, Cleanup,
                ConnectTo, Disconnect, SetReliable
  <2>2. \A e \in enabled' : e \in enabled \/ \E j \in Servers : e = ClntEnd(j)
    BY <1>5 DEF ClerkStep, ConnectAll, clntDisconnectAll, Cleanup, ConnectTo, Disconnect,
                SetReliable, IInv, TypeOK
  <2>3. \A j \in Servers : ClntEnd(j).from = Clerk
    BY DEF ClntEnd
  <2> QED
    BY SMTT(30), <1>1, <2>1, <2>2, <2>3
<1>6. ASSUME NEW c \in CallIds, NEW j \in Servers, clntCall(c, j) PROVE CutOff'
  <2>1. UNCHANGED <<gen, live, connected, revived, todo>> /\ enabled' \subseteq enabled \cup {ClntEnd(j)}
    BY <1>6 DEF clntCall, group
  <2> QED
    BY <1>1, <2>1 DEF ClntEnd
<1>7. ASSUME NEW c \in CallIds,
             handler(c) \/ transport(c) \/ \E i, j \in Servers : srvCall(c, i, j)
      PROVE  CutOff'
  <2>1. UNCHANGED <<gen, live, connected, revived, todo, enabled>>
    BY <1>7 DEF handler, handle, transport, Transport, srvCall, group, net, processReq,
                dispatch, dropRequest, receive, poll, recheck, return
  <2> QED
    BY <1>1, <2>1
<1> QED
  BY <1>3, <1>4, <1>5, <1>6, <1>7 DEF Next

-----------------------------------------------------------------------------
(***************************************************************************)
(* The Calls implement RPC                                                 *)
(***************************************************************************)

(* A Persister holds a Call only if its handler has finished there. *)
SavedWhenFinished ==
    \A c \in CallIds, i \in Servers :
        c \in saved[i] => call[c].handler = "finished" /\ i = call[c].end.to

Executed == {c \in CallIds : c \in saved[call[c].end.to]}

Pending == Phases \ {"idle", "returned"}

(* What the abstract specification sees of a step that concerns the Call c. *)
LEMMA OtherCalls ==
    ASSUME NEW c \in CallIds, NEW r, call \in [CallIds -> CallRecords],
           call' = [call EXCEPT ![c] = r]
    PROVE  call'[c] = r /\ \A d \in CallIds : d # c => call'[d] = call[d] /\ Outcome(d)' = Outcome(d)
  BY DEF Outcome

(* A Call that goes on without returning is no step of the abstract one. *)
LEMMA PendingStutters ==
    ASSUME IInv, NEW c \in CallIds, NEW r \in CallRecords, call' = [call EXCEPT ![c] = r],
           UNCHANGED saved, call[c].phase \in Pending, r.phase \in Pending,
           r.end = call[c].end
    PROVE  UNCHANGED Abstract!rpcVars
<1>1. call \in [CallIds -> CallRecords]
  BY DEF IInv, TypeOK, NetTypeOK
<1>2. call'[c] = r /\ \A d \in CallIds : d # c => call'[d] = call[d] /\ Outcome(d)' = Outcome(d)
  BY <1>1, OtherCalls
<1>3. Outcome(c)' = Outcome(c)
  BY <1>2 DEF Outcome, Pending
<1>4. \A d \in CallIds : Outcome(d)' = Outcome(d) /\ call'[d].end = call[d].end
  BY <1>2, <1>3
<1> QED
  BY <1>4 DEF Abstract!rpcVars

(* return: the caller is told true only if the request has been executed. *)
LEMMA ReturnImplements ==
    ASSUME IInv, NEW c \in CallIds, return(c), UNCHANGED saved
    PROVE  Abstract!Succeed(c) \/ Abstract!Fail(c)
<1> DEFINE r == [call[c] EXCEPT !.phase = "returned", !.ok = call[c].phase = "delivering"]
<1>1. /\ call \in [CallIds -> CallRecords] /\ call[c] \in CallRecords /\ CallOK(c)
      /\ call[c].phase \in {"failing", "delivering"} /\ call' = [call EXCEPT ![c] = r]
  BY DEF IInv, TypeOK, NetTypeOK, CallsOK, return
<1>2. /\ r.phase = "returned" /\ r.end = call[c].end
      /\ r.ok <=> call[c].phase = "delivering"
  BY <1>1 DEF CallRecords
<1> HIDE DEF r
<1>3. call'[c] = r /\ \A d \in CallIds : d # c => call'[d] = call[d] /\ Outcome(d)' = Outcome(d)
  BY <1>1, OtherCalls
<1>4. Executed' = Executed
  BY <1>2, <1>3 DEF Executed
<1>5. Outcome(c) = "pending"
  BY <1>1 DEF Outcome
<1>6. CASE call[c].phase = "delivering"
  <2>1. Outcome(c)' = "true" /\ c \in Executed
    BY <1>1, <1>2, <1>3, <1>6 DEF Outcome, CallOK, Executed
  <2>2. Abstract!Succeed(c)
    BY <1>3, <1>4, <1>5, <2>1 DEF Abstract!Succeed, Abstract!Goes, Executed
  <2> QED
    BY <2>2
<1>7. CASE call[c].phase = "failing"
  <2>1. Outcome(c)' = "false"
    BY <1>2, <1>3, <1>7 DEF Outcome
  <2>2. Abstract!Fail(c)
    BY <1>3, <1>4, <1>5, <2>1 DEF Abstract!Fail, Abstract!Goes, Executed
  <2> QED
    BY <2>2
<1> QED
  BY <1>1, <1>6, <1>7

(* A Call is made: nobody has executed it yet. *)
LEMMA BeginImplements ==
    ASSUME IInv, SavedWhenFinished, NEW c \in CallIds, NEW e \in Ends, Call(c, e),
           UNCHANGED saved
    PROVE  Abstract!Begin(c)
<1>1. PICK phase \in {"sent", "failing"} :
          call' = [call EXCEPT ![c] = [call[c] EXCEPT !.phase = phase, !.end = e]]
  BY DEF Call
<1> DEFINE r == [call[c] EXCEPT !.phase = phase, !.end = e]
<1>2. /\ call \in [CallIds -> CallRecords] /\ call[c] \in CallRecords
      /\ call[c].phase = "idle" /\ call[c].handler = "none"
      /\ call[c].end.to \in Servers /\ e.to \in Servers
  BY DEF IInv, TypeOK, NetTypeOK, CallsOK, CallOK, Call, CallRecords, Ends
<1>3. r.phase = phase /\ r.end = e
  BY <1>2 DEF CallRecords
<1>4. call' = [call EXCEPT ![c] = r]
  BY SMTT(30), <1>1
<1> HIDE DEF r
<1>5. call'[c] = r /\ \A d \in CallIds : d # c => call'[d] = call[d] /\ Outcome(d)' = Outcome(d)
  BY <1>2, <1>4, OtherCalls
<1>6. Outcome(c) = "idle" /\ Outcome(c)' = "pending"
  BY <1>2, <1>3, <1>5 DEF Outcome
<1>7. \A i \in Servers : c \notin saved[i]
  BY <1>2 DEF SavedWhenFinished
<1>8. Executed' = Executed
  BY <1>2, <1>3, <1>5, <1>7 DEF Executed
<1> QED
  BY <1>5, <1>6, <1>8 DEF Abstract!Begin, Abstract!Goes, Executed

(* The handler finishes: the request is executed, unless the Persister has  *)
(* been superseded.                                                         *)
LEMMA HandlerImplements ==
    ASSUME IInv, SavedWhenFinished, NEW c \in CallIds, handler(c)
    PROVE  Abstract!Execute(c) \/ UNCHANGED Abstract!rpcVars
<1> DEFINE r == [call[c] EXCEPT !.handler = "finished"]
           i == call[c].end.to
<1>1. /\ call \in [CallIds -> CallRecords] /\ call[c] \in CallRecords /\ CallOK(c)
      /\ call[c].handler = "running" /\ call' = [call EXCEPT ![c] = r]
      /\ i \in Servers /\ saved \in [Servers -> SUBSET CallIds]
  BY SMTT(30) DEF IInv, TypeOK, NetTypeOK, CallsOK, CallRecords, Ends, handler, handle
<1>2. saved' = [saved EXCEPT ![i] = IF live[i] = call[c].server THEN @ \cup {c} ELSE @]
  BY DEF handler, Save
<1>3. r.phase = call[c].phase /\ r.end = call[c].end /\ r.ok = call[c].ok
  BY <1>1 DEF CallRecords
<1> HIDE DEF r
<1>4. call'[c] = r /\ \A d \in CallIds : d # c => call'[d] = call[d] /\ Outcome(d)' = Outcome(d)
  BY <1>1, OtherCalls
<1>5. Outcome(c)' = Outcome(c)
  BY <1>3, <1>4 DEF Outcome
<1>6. c \notin saved[i]
  BY <1>1 DEF SavedWhenFinished
<1>7. Outcome(c) \in {"pending", "false"}
  BY <1>1, <1>6 DEF Outcome, CallOK
<1>8. \A d \in CallIds : call'[d].end = call[d].end /\ call[d].end.to \in Servers
  BY <1>1, <1>3, <1>4 DEF CallRecords, Ends
<1>9. CASE live[i] = call[c].server
  <2>1. saved'[i] = saved[i] \cup {c} /\ \A j \in Servers : j # i => saved'[j] = saved[j]
    BY <1>1, <1>2, <1>9
  <2>2. Executed' = Executed \cup {c} /\ c \notin Executed
    BY SMTT(30), <1>6, <1>8, <2>1 DEF Executed
  <2>3. Abstract!Execute(c)
    BY SMTT(30), <1>4, <1>5, <1>7, <2>2 DEF Abstract!Execute, Executed
  <2> QED
    BY <2>3
<1>10. CASE live[i] # call[c].server
  <2>1. saved' = saved
    BY <1>1, <1>2, <1>10
  <2>2. Executed' = Executed
    BY <1>8, <2>1 DEF Executed
  <2> QED
    BY SMTT(30), <1>4, <1>5, <2>2 DEF Abstract!rpcVars, Executed
<1> QED
  BY <1>9, <1>10

(* No Call has been made in a new group. *)
LEMMA InitIdle ==
    Init => \A c \in CallIds : call[c].phase = "idle" /\ call[c].end.to \in Servers
<1> SUFFICES ASSUME Init, NEW c \in CallIds
             PROVE  call[c].phase = "idle" /\ call[c].end.to \in Servers
  OBVIOUS
<1>1. call[c] \in CallRecords
  BY InitIInv DEF IInv, TypeOK, NetTypeOK
<1>2. call[c].end.to \in Servers
  BY <1>1 DEF CallRecords, Ends
<1>3. call[c].phase = "idle"
  BY DEF Init
<1> QED
  BY <1>2, <1>3

(* The network's own steps: only return is seen by the caller. *)
LEMMA TransportImplements ==
    ASSUME IInv, NEW c \in CallIds, transport(c)
    PROVE  Abstract!Succeed(c) \/ Abstract!Fail(c) \/ UNCHANGED Abstract!rpcVars
<1>1. UNCHANGED saved /\ call[c] \in CallRecords
  BY DEF transport, group, IInv, TypeOK, NetTypeOK
<1>2. CASE return(c)
  BY <1>1, <1>2, ReturnImplements
<1>3. ASSUME NEW phase \in Pending, Move(c, phase), call[c].phase \in Pending
      PROVE  UNCHANGED Abstract!rpcVars
  <2> DEFINE r == [call[c] EXCEPT !.phase = phase]
  <2>1. r \in CallRecords /\ r.phase = phase /\ r.end = call[c].end
    BY <1>1 DEF CallRecords, Pending
  <2>2. call' = [call EXCEPT ![c] = r]
    BY <1>3 DEF Move
  <2> HIDE DEF r
  <2> QED
    BY <1>1, <1>3, <2>1, <2>2, PendingStutters
<1>4. CASE processReq(c)
  <2>1. CASE Move(c, "failing")
    BY <1>3, <1>4, <2>1 DEF processReq, Pending, Phases
  <2>2. CASE ~Move(c, "failing")
    <3> DEFINE r == [call[c] EXCEPT !.phase = "accepted", !.server = servers[call[c].end.to],
                                    !.reliable = reliable]
    <3>1. servers[call[c].end.to] \in Nat /\ reliable \in BOOLEAN
      BY <1>1 DEF IInv, TypeOK, NetTypeOK, CallRecords, Ends
    <3>2. r \in CallRecords /\ r.phase = "accepted" /\ r.end = call[c].end
      BY <1>1, <3>1 DEF CallRecords, Phases
    <3>3. call' = [call EXCEPT ![c] = r] /\ call[c].phase = "sent"
      BY <1>4, <2>2 DEF processReq
    <3> HIDE DEF r
    <3>4. {"sent", "accepted"} \subseteq Pending
      BY DEF Pending, Phases
    <3> QED
      BY <1>1, <3>2, <3>3, <3>4, PendingStutters
  <2> QED
    BY <2>1, <2>2
<1>5. CASE dispatch(c)
  <2> DEFINE r == [call[c] EXCEPT !.phase = "waiting", !.handler = "running"]
  <2>1. r \in CallRecords /\ r.phase = "waiting" /\ r.end = call[c].end
    BY <1>1 DEF CallRecords, Phases
  <2>2. call' = [call EXCEPT ![c] = r] /\ call[c].phase = "accepted"
    BY <1>5 DEF dispatch
  <2> HIDE DEF r
  <2>3. {"accepted", "waiting"} \subseteq Pending
    BY DEF Pending, Phases
  <2> QED
    BY <1>1, <2>1, <2>2, <2>3, PendingStutters
<1>6. CASE dropRequest(c) \/ receive(c) \/ poll(c) \/ recheck(c)
  <2>1. \E phase \in {"failing", "got", "delivering"} : Move(c, phase)
    BY <1>6 DEF dropRequest, receive, poll, recheck
  <2>2. call[c].phase \in {"accepted", "waiting", "got"}
    BY <1>6 DEF dropRequest, receive, poll, recheck
  <2>3. {"failing", "got", "delivering", "accepted", "waiting"} \subseteq Pending
    BY DEF Pending, Phases
  <2> QED
    BY <1>3, <2>1, <2>2, <2>3
<1> QED
  BY <1>2, <1>4, <1>5, <1>6 DEF transport, Transport

(* Every step of the system is one of RPC, or no step at all for the callers. *)
LEMMA NextImplements ==
    IInv /\ SavedWhenFinished /\ [Next]_vars => [Abstract!RPCNext]_(Abstract!rpcVars)
<1> SUFFICES ASSUME IInv, SavedWhenFinished, [Next]_vars
             PROVE  Abstract!RPCNext \/ UNCHANGED Abstract!rpcVars
  OBVIOUS
<1>1. ASSUME UNCHANGED <<call, saved>> PROVE UNCHANGED Abstract!rpcVars
  BY <1>1 DEF Abstract!rpcVars, Outcome
<1>2. CASE UNCHANGED vars
  BY <1>1, <1>2 DEF vars, group
<1>3. CASE TesterStep
  <2>1. UNCHANGED <<call, saved>>
    <3>1. ASSUME NEW i \in Servers,
                 ShutdownServer(i) \/ StartServer(i) \/ ConnectOne(i) \/ DisconnectAll(i)
          PROVE  UNCHANGED <<call, saved>>
      BY <3>1, Zenon DEF ShutdownServer, StartServer, ConnectOne, DisconnectAll, Operation, group
    <3>2. ASSUME NEW i \in Servers,
                 DeleteServer(i) \/ shutdownServer(i) \/ startServer(i) \/ AddServer(i)
          PROVE  UNCHANGED <<call, saved>>
      BY <3>2, Zenon DEF DeleteServer, shutdownServer, startServer, AddServer, Does, group
    <3>3. ASSUME NEW i \in Servers, NEW to \in SUBSET Servers,
                 connect(i, to) \/ disconnect(i, to)
          PROVE  UNCHANGED <<call, saved>>
      BY <3>3, Zenon DEF connect, disconnect, Does
    <3>4. ASSUME NEW p \in Partitions, Partition(p) PROVE UNCHANGED <<call, saved>>
      BY <3>4, Zenon DEF Partition, Operation, group
    <3> QED
      BY <1>3, <3>1, <3>2, <3>3, <3>4, Zenon DEF TesterStep
  <2> QED
    BY SMTT(30), <1>1, <2>1
<1>4. CASE ClerkStep
  <2>1. UNCHANGED <<call, saved>>
    BY <1>4 DEF ClerkStep, ClntOperation, group, ConnectAll, clntDisconnectAll, Cleanup,
                ConnectTo, Disconnect, SetReliable
  <2> QED
    BY <1>1, <2>1
<1>5. ASSUME NEW c \in CallIds, NEW j \in Servers, clntCall(c, j)
      PROVE  Abstract!RPCNext
  <2>1. Call(c, ClntEnd(j)) /\ UNCHANGED saved /\ ClntEnd(j) \in Ends
    BY <1>5 DEF clntCall, group, ClntEnd, Ends
  <2>2. Abstract!Begin(c)
    BY <2>1, BeginImplements
  <2> QED
    BY <2>2 DEF Abstract!RPCNext
<1>6. ASSUME NEW c \in CallIds, NEW i \in Servers, NEW j \in Servers, srvCall(c, i, j)
      PROVE  Abstract!RPCNext
  <2>1. PICK g \in 1 .. gen[i] : Call(c, [from |-> i, to |-> j, gen |-> g])
    BY SMTT(30), <1>6 DEF srvCall
  <2>2. UNCHANGED saved /\ [from |-> i, to |-> j, gen |-> g] \in Ends
    BY SMTT(30), <1>6 DEF srvCall, group, Ends, IInv, TypeOK
  <2>3. Abstract!Begin(c)
    BY <2>1, <2>2, BeginImplements
  <2> QED
    BY <2>3 DEF Abstract!RPCNext
<1>7. ASSUME NEW c \in CallIds, handler(c) \/ transport(c)
      PROVE  Abstract!RPCNext \/ UNCHANGED Abstract!rpcVars
  BY <1>7, HandlerImplements, TransportImplements DEF Abstract!RPCNext
<1> QED
  BY <1>2, <1>3, <1>4, <1>5, <1>6, <1>7 DEF Next

(* Only a handler that finishes saves, and a finished handler stays finished. *)
LEMMA NextSaved == IInv /\ SavedWhenFinished /\ [Next]_vars => SavedWhenFinished'
<1> SUFFICES ASSUME IInv, SavedWhenFinished, [Next]_vars PROVE SavedWhenFinished'
  OBVIOUS
<1>0. call \in [CallIds -> CallRecords] /\ saved \in [Servers -> SUBSET CallIds]
  BY DEF IInv, TypeOK, NetTypeOK
<1>1. ASSUME UNCHANGED <<call, saved>> PROVE SavedWhenFinished'
  BY <1>1 DEF SavedWhenFinished
<1>2. ASSUME NEW c \in CallIds, NEW r, call' = [call EXCEPT ![c] = r], UNCHANGED saved,
             call[c].handler = "finished" => r.handler = "finished" /\ r.end = call[c].end
      PROVE  SavedWhenFinished'
  BY <1>0, <1>2 DEF SavedWhenFinished
<1>3. CASE UNCHANGED vars
  BY <1>1, <1>3 DEF vars, group
<1>4. CASE TesterStep
  <2>1. UNCHANGED <<call, saved>>
    BY <1>4 DEF TesterStep, ShutdownServer, StartServer, ConnectOne, DisconnectAll,
                DeleteServer, shutdownServer, startServer, AddServer, connect, disconnect,
                Partition, Operation, Does, group
  <2> QED
    BY <1>1, <2>1
<1>5. CASE ClerkStep
  <2>1. UNCHANGED <<call, saved>>
    BY <1>5 DEF ClerkStep, ClntOperation, group, ConnectAll, clntDisconnectAll, Cleanup,
                ConnectTo, Disconnect, SetReliable
  <2> QED
    BY <1>1, <2>1
<1>6. ASSUME NEW c \in CallIds, NEW e, Call(c, e), UNCHANGED saved PROVE SavedWhenFinished'
  <2>1. PICK phase : call' = [call EXCEPT ![c] = [call[c] EXCEPT !.phase = phase, !.end = e]]
    BY <1>6 DEF Call
  <2>2. call[c].handler = "none"
    BY <1>6 DEF Call, IInv, CallsOK, CallOK
  <2> QED
    BY <1>2, <1>6, <2>1, <2>2
<1>7. ASSUME NEW c \in CallIds, NEW j \in Servers,
             clntCall(c, j) \/ \E i \in Servers : srvCall(c, i, j)
      PROVE  SavedWhenFinished'
  <2>1. UNCHANGED saved /\ \E e : Call(c, e)
    BY <1>7 DEF clntCall, srvCall, group
  <2> QED
    BY <1>6, <2>1
<1>8. ASSUME NEW c \in CallIds, transport(c) PROVE SavedWhenFinished'
  <2>1. UNCHANGED saved
    BY <1>8 DEF transport, group
  <2>2. call[c] \in CallRecords /\ CallOK(c)
    BY <1>0 DEF IInv, CallsOK
  <2>3. CASE dispatch(c)
    <3>1. call[c].handler = "none"
      BY <2>2, <2>3 DEF dispatch, CallOK
    <3>2. call' = [call EXCEPT ![c] = [call[c] EXCEPT !.phase = "waiting", !.handler = "running"]]
      BY <2>3 DEF dispatch
    <3> QED
      BY <1>2, <2>1, <3>1, <3>2
  <2>4. CASE ~dispatch(c)
    <3>1. PICK r : /\ call' = [call EXCEPT ![c] = r]
                   /\ r.handler = call[c].handler /\ r.end = call[c].end
      BY SMTT(30), <1>8, <2>2, <2>4 DEF transport, Transport, processReq, dropRequest, receive, poll,
                              recheck, return, Move, CallRecords
    <3> QED
      BY <1>2, <2>1, <3>1
  <2> QED
    BY <2>3, <2>4
<1>9. ASSUME NEW c \in CallIds, handler(c) PROVE SavedWhenFinished'
  <2> DEFINE r == [call[c] EXCEPT !.handler = "finished"]
             i == call[c].end.to
  <2>1. /\ call' = [call EXCEPT ![c] = r] /\ call[c] \in CallRecords
        /\ saved' = [saved EXCEPT ![i] = IF live[i] = call[c].server THEN @ \cup {c} ELSE @]
    BY <1>0, <1>9 DEF handler, handle, Save
  <2>2. r.handler = "finished" /\ r.end = call[c].end
    BY <2>1 DEF CallRecords
  <2> HIDE DEF r
  <2>3. call'[c] = r /\ \A d \in CallIds : d # c => call'[d] = call[d]
    BY SMTT(30), <1>0, <2>1
  <2>4. \A d \in CallIds, j \in Servers : d \in saved'[j] => d \in saved[j] \/ (d = c /\ j = i)
    BY <1>0, <2>1
  <2>5. ASSUME NEW d \in CallIds, NEW j \in Servers, d \in saved'[j]
        PROVE  call'[d].handler = "finished" /\ j = call'[d].end.to
    <3>1. CASE d = c
      BY <2>2, <2>3, <2>4, <2>5, <3>1 DEF SavedWhenFinished
    <3>2. CASE d # c
      BY <2>3, <2>4, <2>5, <3>2 DEF SavedWhenFinished
    <3> QED
      BY <3>1, <3>2
  <2> QED
    BY <2>5 DEF SavedWhenFinished
<1> QED
  BY <1>3, <1>4, <1>5, <1>7, <1>8, <1>9 DEF Next

(* The variables of network and tester keep their types. *)
THEOREM TypeCorrect == Spec => []TypeOK
<1>1. IInv => TypeOK
  BY DEF IInv
<1> QED
  BY <1>1, SpecIInv, PTL

(* The network dispatches requests only to the incarnation whose Persister  *)
(* the tester holds, at every step of every shutdown and restart.           *)
THEOREM RegisteredHolds == Spec => []RegisteredIsLive
<1>1. IInv => RegisteredIsLive
  BY DEF IInv
<1> QED
  BY <1>1, SpecIInv, PTL

(* Whatever the tester does to the servers and whenever handlers finish, no *)
(* client gets a positive reply to an operation that was saved into a       *)
(* superseded Persister.                                                    *)
THEOREM RepliesPersisted == Spec => []PositiveRepliesArePersisted
<1>1. IInv => PositiveRepliesArePersisted
  BY DEF IInv, CallsOK, CallOK, PositiveRepliesArePersisted
<1> QED
  BY <1>1, SpecIInv, PTL

(* An incarnation that has been shut down is cut off for good, unless       *)
(* connect is called for it while it is down, for any number of servers and *)
(* any sequence of the tester's operations.                                 *)
THEOREM ServersCutOff == Spec => []KilledAreCutOff
<1>1. Init => CutOff
  BY InitCutOff
<1>2. IInv /\ CutOff /\ [Next]_vars => CutOff'
  BY NextCutOff
<1>3. CutOff => KilledAreCutOff
  BY DEF CutOff
<1> QED
  BY <1>1, <1>2, <1>3, SpecIInv, PTL DEF Spec

(* The Calls of clerks and servers implement the abstract RPC, for any      *)
(* number of servers and Calls: a Call returns true only if its effect is   *)
(* in its server's Persister, and the effect happens once and is not lost.  *)
THEOREM CallsImplementRPC == Spec => ImplementsRPC
<1>1. Init => Abstract!RPCInit /\ SavedWhenFinished
  <2> SUFFICES ASSUME Init PROVE Abstract!RPCInit /\ SavedWhenFinished
    OBVIOUS
  <2>1. saved = [i \in Servers |-> {}]
    BY Zenon DEF Init, MakeGroupStart
  <2>2. \A c \in CallIds : call[c].phase = "idle" /\ call[c].end.to \in Servers
    BY InitIdle
  <2>3. \A c \in CallIds : Outcome(c) = "idle"
    BY <2>2 DEF Outcome
  <2>4. {c \in CallIds : c \in saved[call[c].end.to]} = {}
    BY <2>1, <2>2
  <2>5. SavedWhenFinished
    BY <2>1 DEF SavedWhenFinished
  <2> QED
    BY <2>3, <2>4, <2>5 DEF Abstract!RPCInit
<1>2. IInv /\ SavedWhenFinished /\ [Next]_vars => SavedWhenFinished'
  BY NextSaved
<1>3. IInv /\ SavedWhenFinished /\ [Next]_vars => [Abstract!RPCNext]_(Abstract!rpcVars)
  BY NextImplements
<1> QED
  BY <1>1, <1>2, <1>3, SpecIInv, PTL DEF Spec, ImplementsRPC, Abstract!RPCSpec
==============================================================================
