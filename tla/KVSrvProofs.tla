----------------------------- MODULE KVSrvProofs -----------------------------
(***************************************************************************)
(* For any number of clerks, keys, values and versions: what a Put answers *)
(* is true, and server, network and clerks implement the linearizable      *)
(* store of KVStore.  For any number of clients, rounds and lost Calls of  *)
(* the lock built on them: Acquire excludes all other clients, the         *)
(* log.Fatalf calls are unreachable, and Release has given the lock back   *)
(* when it returns.                                                        *)
(***************************************************************************)
EXTENDS Lock, TLAPS

(* A leaf that names no prover is tried with Zenon, then with SMT. *)
USE ZenonT(20), SMTT(30)
-----------------------------------------------------------------------------
(***************************************************************************)
(* The server and its clerks                                               *)
(***************************************************************************)
(* A key exists exactly if its version is not 0. *)
ServerOK ==
    \A k \in Keys :
        /\ k \in exists => Kvmap[k].Version > 0
        /\ k \notin exists => Kvmap[k].Version = 0 /\ Kvmap[k].Value = Empty

(* A Put that has been performed has been overtaken by the key's version,  *)
(* so that the server refuses it when it comes again.                       *)
PutOK(c) ==
    op[c].op = "Put" =>
        /\ performed[c] \in {0, 1}
        /\ performed[c] = 1 => Kvmap[op[c].Key].Version > op[c].Version
        /\ phase[c] = "called" => (performed[c] = 1 => resend[c])
        /\ phase[c] # "idle" =>
              /\ reply[c] \in {NoReply, Reply(Empty, 0, OK), Reply(Empty, 0, ErrNoKey),
                               Reply(Empty, 0, ErrVersion)}
              /\ performed[c] = 0 => reply[c].Err # OK
        /\ phase[c] = "served" =>
              /\ reply[c] # NoReply
              /\ performed[c] = 1 => reply[c].Err = OK \/ (reply[c].Err = ErrVersion /\ resend[c])
        /\ phase[c] = "idle" =>
              /\ result[c].Err = OK => performed[c] = 1
              /\ result[c].Err \in {ErrVersion, ErrNoKey} => performed[c] = 0

OtherOK(c) ==
    /\ op[c].op # "Put" => performed[c] = 0
    /\ op[c].op = "none" => phase[c] = "idle"
    /\ op[c].op = "Get" /\ phase[c] = "served" => reply[c].Err \in {OK, ErrNoKey}

ClerksOK == \A c \in Clerks : PutOK(c) /\ OtherOK(c)

IInv == TypeOK /\ ServerOK /\ ClerksOK
-----------------------------------------------------------------------------
(* What the type invariant says of a clerk's operation. *)
LEMMA OpFacts ==
    ASSUME TypeOK, NEW c \in Clerks
    PROVE  /\ op[c].op \in {"Get", "Put", "none"}
           /\ op[c].op = "Get" => op[c].Key \in Keys
           /\ op[c].op = "Put" =>
                 op[c].Key \in Keys /\ op[c].Value \in Values /\ op[c].Version \in Nat
<1>1. op[c] \in GetOps \cup PutOps \cup {NoOp}
  BY DEF TypeOK
<1>2. CASE op[c] \in GetOps
  BY <1>2 DEF GetOps
<1>3. CASE op[c] \in PutOps
  BY <1>3 DEF PutOps
<1>4. CASE op[c] = NoOp
  BY <1>4 DEF NoOp
<1> QED
  BY <1>1, <1>2, <1>3, <1>4

(* The parts of a reply. *)
LEMMA ReplyParts ==
    ASSUME NEW v, NEW n, NEW e
    PROVE  Reply(v, n, e).Value = v /\ Reply(v, n, e).Version = n /\ Reply(v, n, e).Err = e
  BY DEF Reply

(* The server and the clerks start from nothing. *)
LEMMA InitIInv == Init => IInv
<1> SUFFICES ASSUME Init PROVE IInv
  OBVIOUS
<1>1. TypeOK
  <2>1. Kvmap \in [Keys -> [Value : Values \cup {Empty}, Version : Nat]] /\ exists \subseteq Keys
    BY DEF Init
  <2>2. /\ op \in [Clerks -> GetOps \cup PutOps \cup {NoOp}]
        /\ phase \in [Clerks -> {"idle", "called", "served"}]
    BY DEF Init
  <2>3. resend \in [Clerks -> BOOLEAN]
    BY Zenon DEF Init
  <2>4. /\ reply \in [Clerks -> Replies \cup {NoReply}]
        /\ result \in [Clerks -> Replies \cup {NoReply} \cup {Reply(Empty, 0, ErrMaybe)}]
    BY DEF Init
  <2>5. performed \in [Clerks -> Nat]
    BY DEF Init
  <2> QED
    BY <2>1, <2>2, <2>3, <2>4, <2>5 DEF TypeOK
<1>2. ServerOK
  <2> SUFFICES ASSUME NEW k \in Keys PROVE Kvmap[k].Version = 0 /\ Kvmap[k].Value = Empty
    BY DEF ServerOK, Init
  <2>1. Kvmap[k] = [Value |-> Empty, Version |-> 0]
    BY DEF Init
  <2> QED
    BY <2>1
<1>3. ClerksOK
  <2> SUFFICES ASSUME NEW c \in Clerks PROVE PutOK(c) /\ OtherOK(c)
    BY DEF ClerksOK
  <2>1. op[c].op = "none" /\ phase[c] = "idle" /\ performed[c] = 0
    <3>1. op[c] = NoOp /\ phase[c] = "idle" /\ performed[c] = 0
      BY DEF Init
    <3> QED
      BY <3>1 DEF NoOp
  <2> QED
    BY <2>1 DEF PutOK, OtherOK
<1> QED
  BY <1>1, <1>2, <1>3 DEF IInv

(* A clerk that does not move is unaffected, as versions only grow. *)
LEMMA OtherClerks ==
    ASSUME IInv, NEW d \in Clerks,
           \A k \in Keys : Kvmap'[k].Version \in Nat /\ Kvmap'[k].Version >= Kvmap[k].Version,
           op'[d] = op[d], phase'[d] = phase[d], resend'[d] = resend[d],
           reply'[d] = reply[d], result'[d] = result[d], performed'[d] = performed[d]
    PROVE  PutOK(d)' /\ OtherOK(d)'
<1>1. PutOK(d) /\ OtherOK(d)
  BY DEF IInv, ClerksOK
<1>2. OtherOK(d)'
  BY <1>1 DEF OtherOK
<1>3. PutOK(d)'
  <2>1. ASSUME op[d].op = "Put", performed[d] = 1
        PROVE  Kvmap'[op[d].Key].Version > op[d].Version
    <3>1. op[d].Key \in Keys /\ op[d].Version \in Nat
      BY <2>1, OpFacts DEF IInv
    <3>2. Kvmap[op[d].Key].Version > op[d].Version /\ Kvmap[op[d].Key].Version \in Nat
      BY <1>1, <2>1, <3>1 DEF PutOK, IInv, TypeOK
    <3> QED
      BY <3>1, <3>2
  <2> QED
    BY <1>1, <2>1 DEF PutOK
<1> QED
  BY <1>2, <1>3

(* The steps that leave the server alone move one clerk. *)
LEMMA ClerkMoves ==
    ASSUME IInv, NEW c \in Clerks, UNCHANGED server, TypeOK',
           \A d \in Clerks \ {c} :
               /\ op'[d] = op[d] /\ phase'[d] = phase[d] /\ resend'[d] = resend[d]
               /\ reply'[d] = reply[d] /\ result'[d] = result[d]
               /\ performed'[d] = performed[d],
           PutOK(c)' /\ OtherOK(c)'
    PROVE  IInv'
<1>1. ServerOK'
  BY DEF IInv, ServerOK, server
<1>2. \A k \in Keys : Kvmap'[k].Version \in Nat /\ Kvmap'[k].Version >= Kvmap[k].Version
  BY SMTT(30) DEF IInv, TypeOK, server
<1>3. ClerksOK'
  <2> SUFFICES ASSUME NEW d \in Clerks \ {c} PROVE PutOK(d)' /\ OtherOK(d)'
    BY DEF ClerksOK
  <2> QED
    BY <1>2, OtherClerks
<1> QED
  BY <1>1, <1>3 DEF IInv

(* A new operation: nothing is known of it yet. *)
LEMMA InvokeStep ==
    ASSUME IInv, NEW c \in Clerks, NEW o \in GetOps \cup PutOps, Invoke(c, o)
    PROVE  IInv'
<1>1. /\ op' = [op EXCEPT ![c] = o] /\ phase' = [phase EXCEPT ![c] = "called"]
      /\ resend' = [resend EXCEPT ![c] = FALSE] /\ reply' = [reply EXCEPT ![c] = NoReply]
      /\ performed' = [performed EXCEPT ![c] = 0]
      /\ UNCHANGED <<exists, Kvmap, result>>
  BY DEF Invoke, server
<1>2. o \in GetOps \cup PutOps /\ o.op \in {"Get", "Put"}
  BY DEF GetOps, PutOps
<1>3. TypeOK'
  BY <1>1, <1>2 DEF IInv, TypeOK
<1>4. /\ op'[c] = o /\ phase'[c] = "called" /\ reply'[c] = NoReply /\ performed'[c] = 0
      /\ reply'[c].Err # OK
  BY SMTT(30), <1>1, ReplyParts DEF IInv, TypeOK, NoReply, OK
<1>5. PutOK(c)' /\ OtherOK(c)'
  BY <1>2, <1>4 DEF PutOK, OtherOK
<1>6. \A d \in Clerks \ {c} :
          /\ op'[d] = op[d] /\ phase'[d] = phase[d] /\ resend'[d] = resend[d]
          /\ reply'[d] = reply[d] /\ result'[d] = result[d]
          /\ performed'[d] = performed[d]
  BY <1>1 DEF IInv, TypeOK
<1> QED
  BY <1>1, <1>3, <1>5, <1>6, ClerkMoves DEF server

(* A Get is answered from what the key holds. *)
LEMMA GetStep ==
    ASSUME IInv, NEW c \in Clerks, Get(c)
    PROVE  IInv'
<1>1. /\ phase' = [phase EXCEPT ![c] = "served"]
      /\ reply' = [reply EXCEPT ![c] = GetReply(op[c].Key)]
      /\ UNCHANGED <<exists, Kvmap, op, resend, result, performed>>
      /\ op[c].op = "Get"
  BY DEF Get, server
<1>2. op[c].Key \in Keys
  BY <1>1, OpFacts DEF IInv
<1>3. GetReply(op[c].Key) \in Replies /\ GetReply(op[c].Key).Err \in {OK, ErrNoKey}
  BY <1>2 DEF IInv, TypeOK, GetReply, Reply, Replies
<1>4. TypeOK'
  BY <1>1, <1>3 DEF IInv, TypeOK
<1>5. phase'[c] = "served" /\ reply'[c] = GetReply(op[c].Key)
  BY <1>1 DEF IInv, TypeOK
<1>6. PutOK(c)' /\ OtherOK(c)'
  BY <1>1, <1>3, <1>5 DEF PutOK, OtherOK, IInv, ClerksOK
<1>7. \A d \in Clerks \ {c} : phase'[d] = phase[d] /\ reply'[d] = reply[d]
  BY <1>1 DEF IInv, TypeOK
<1> QED
  BY <1>1, <1>4, <1>6, <1>7, ClerkMoves DEF server

(* Call returns false. *)
LEMMA FailStep ==
    ASSUME IInv, NEW c \in Clerks, CallFails(c)
    PROVE  IInv'
<1>1. /\ phase' = [phase EXCEPT ![c] = "called"] /\ resend' = [resend EXCEPT ![c] = TRUE]
      /\ UNCHANGED <<exists, Kvmap, op, reply, result, performed>>
      /\ phase[c] \in {"called", "served"}
  BY DEF CallFails, server
<1>2. TypeOK'
  BY <1>1 DEF IInv, TypeOK
<1>3. phase'[c] = "called" /\ resend'[c]
  BY <1>1 DEF IInv, TypeOK
<1>4. PutOK(c) /\ OtherOK(c)
  BY DEF IInv, ClerksOK
<1>5. PutOK(c)' /\ OtherOK(c)'
  BY <1>1, <1>3, <1>4 DEF PutOK, OtherOK
<1>6. \A d \in Clerks \ {c} : phase'[d] = phase[d] /\ resend'[d] = resend[d]
  BY <1>1 DEF IInv, TypeOK
<1> QED
  BY <1>1, <1>2, <1>5, <1>6, ClerkMoves DEF server

(* What a Put that is answered returns, and what it says is true. *)
LEMMA ReturnStep ==
    ASSUME IInv, NEW c \in Clerks, Return(c)
    PROVE  IInv'
<1>1. /\ phase' = [phase EXCEPT ![c] = "idle"] /\ result' = [result EXCEPT ![c] = Result(c)]
      /\ UNCHANGED <<exists, Kvmap, op, resend, reply, performed>>
      /\ phase[c] = "served"
  BY DEF Return, server
<1>2. Result(c) \in Replies \cup {NoReply} \cup {Reply(Empty, 0, ErrMaybe)}
  BY DEF IInv, TypeOK, Result
<1>3. TypeOK'
  BY <1>1, <1>2 DEF IInv, TypeOK
<1>4. phase'[c] = "idle" /\ result'[c] = Result(c)
  BY <1>1 DEF IInv, TypeOK
<1>5. PutOK(c) /\ OtherOK(c)
  BY DEF IInv, ClerksOK
<1>6. OtherOK(c)'
  BY <1>1, <1>4, <1>5 DEF OtherOK
<1>7. PutOK(c)'
  <2> SUFFICES ASSUME op[c].op = "Put" PROVE PutOK(c)'
    BY <1>1 DEF PutOK
  <2>1. /\ performed[c] \in {0, 1} /\ (performed[c] = 0 => reply[c].Err # OK)
        /\ performed[c] = 1 => reply[c].Err = OK \/ (reply[c].Err = ErrVersion /\ resend[c])
    BY <1>1, <1>5 DEF PutOK
  <2>2. CASE resend[c] /\ reply[c].Err = ErrVersion
    <3>1. result'[c].Err = ErrMaybe
      BY SMTT(30), <1>4, <2>2, ReplyParts DEF Result
    <3> QED
      BY <1>1, <1>4, <1>5, <3>1 DEF PutOK, OK, ErrVersion, ErrNoKey, ErrMaybe
  <2>3. CASE ~(resend[c] /\ reply[c].Err = ErrVersion)
    <3>1. result'[c] = reply[c]
      BY <1>4, <2>3 DEF Result
    <3>2. result'[c].Err = OK => performed[c] = 1
      BY <2>1, <3>1
    <3>3. result'[c].Err \in {ErrVersion, ErrNoKey} => performed[c] = 0
      BY <2>1, <2>3, <3>1 DEF OK, ErrVersion, ErrNoKey
    <3> QED
      BY <1>1, <1>4, <1>5, <3>2, <3>3 DEF PutOK
  <2> QED
    BY <2>2, <2>3
<1>8. \A d \in Clerks \ {c} : phase'[d] = phase[d] /\ result'[d] = result[d]
  BY <1>1 DEF IInv, TypeOK
<1> QED
  BY <1>1, <1>3, <1>6, <1>7, <1>8, ClerkMoves DEF server

(* What the handler of Put finds and answers. *)
LEMMA PutFacts ==
    ASSUME IInv, NEW c \in Clerks, Put(c)
    PROVE  LET k == op[c].Key
               n == op[c].Version
               err == PutReply(k, n)
           IN  /\ k \in Keys /\ n \in Nat /\ op[c].Value \in Values /\ Kvmap[k].Version \in Nat
               /\ err \in {OK, ErrNoKey, ErrVersion}
               /\ err = OK => n = Kvmap[k].Version /\ performed[c] = 0
               /\ err # OK => n # Kvmap[k].Version
               /\ err = ErrNoKey => Kvmap[k].Version = 0 /\ performed[c] = 0
               /\ err = ErrVersion => Kvmap[k].Version # 0
<1> DEFINE k == op[c].Key
           n == op[c].Version
<1>1. op[c].op = "Put" /\ phase[c] = "called"
  BY DEF Put
<1>2. k \in Keys /\ n \in Nat /\ op[c].Value \in Values
  BY <1>1, OpFacts DEF IInv
<1>3. Kvmap[k].Version \in Nat
  BY <1>2 DEF IInv, TypeOK
<1>4. performed[c] \in {0, 1} /\ (performed[c] = 1 => Kvmap[k].Version > n)
  BY <1>1 DEF IInv, ClerksOK, PutOK
<1>5. (k \in exists => Kvmap[k].Version > 0) /\ (k \notin exists => Kvmap[k].Version = 0)
  BY <1>2 DEF IInv, ServerOK
<1>6. CASE k \notin exists
  <2>1. PutReply(k, n) = IF n # 0 THEN ErrNoKey ELSE OK
    BY <1>6 DEF PutReply
  <2> HIDE DEF k, n
  <2> QED
    BY <1>2, <1>3, <1>4, <1>5, <1>6, <2>1 DEF k, n, OK, ErrNoKey, ErrVersion
<1>7. CASE k \in exists
  <2>1. PutReply(k, n) = IF n # Kvmap[k].Version THEN ErrVersion ELSE OK
    BY <1>7 DEF PutReply
  <2> QED
    BY <1>2, <1>3, <1>4, <1>5, <1>7, <2>1 DEF OK, ErrNoKey, ErrVersion
<1> QED
  BY <1>6, <1>7

(* A Put that has just been served. *)
LEMMA ServedPut ==
    ASSUME NEW c \in Clerks, phase'[c] = "served", performed'[c] \in {0, 1},
           performed'[c] = 1 => Kvmap'[op'[c].Key].Version > op'[c].Version,
           reply'[c] \in {Reply(Empty, 0, OK), Reply(Empty, 0, ErrNoKey),
                          Reply(Empty, 0, ErrVersion)},
           reply'[c] # NoReply,
           performed'[c] = 0 => reply'[c].Err # OK,
           performed'[c] = 1 => reply'[c].Err = OK \/ (reply'[c].Err = ErrVersion /\ resend'[c])
    PROVE  PutOK(c)'
  BY DEF PutOK

(* The handler of Put. *)
LEMMA PutStep ==
    ASSUME IInv, NEW c \in Clerks, Put(c)
    PROVE  IInv'
<1> DEFINE k == op[c].Key
           n == op[c].Version
           err == PutReply(k, n)
<1>1. /\ phase' = [phase EXCEPT ![c] = "served"]
      /\ reply' = [reply EXCEPT ![c] = Reply(Empty, 0, err)]
      /\ UNCHANGED <<op, resend, result>>
      /\ op[c].op = "Put" /\ phase[c] = "called"
  BY DEF Put
<1>2. /\ k \in Keys /\ n \in Nat /\ op[c].Value \in Values /\ Kvmap[k].Version \in Nat
      /\ err \in {OK, ErrNoKey, ErrVersion}
      /\ err = OK => n = Kvmap[k].Version /\ performed[c] = 0
      /\ err = ErrNoKey => performed[c] = 0
  BY PutFacts
<1>3. PutOK(c) /\ OtherOK(c)
  BY DEF IInv, ClerksOK
<1>4. Reply(Empty, 0, err) \in Replies /\ Reply(Empty, 0, err).Err = err
  BY <1>2 DEF Reply, Replies
<1>5. /\ phase'[c] = "served" /\ reply'[c] = Reply(Empty, 0, err) /\ op'[c] = op[c]
      /\ \A d \in Clerks \ {c} : phase'[d] = phase[d] /\ reply'[d] = reply[d]
      /\ phase' \in [Clerks -> {"idle", "called", "served"}]
      /\ reply' \in [Clerks -> Replies \cup {NoReply}]
  BY <1>1, <1>4 DEF IInv, TypeOK
<1>6. Reply(Empty, 0, err) # NoReply
  BY <1>2, <1>4, ReplyParts DEF NoReply, OK, ErrNoKey, ErrVersion
<1>7. CASE err = OK
  <2>1. /\ exists' = exists \cup {k}
        /\ Kvmap' = [Kvmap EXCEPT ![k] = [Value |-> op[c].Value, Version |-> n + 1]]
        /\ performed' = [performed EXCEPT ![c] = @ + 1]
    BY <1>7 DEF Put
  <2>2. TypeOK'
    BY SMTT(30), <1>1, <1>2, <1>5, <2>1 DEF IInv, TypeOK
  <2>3. /\ Kvmap'[k].Version = n + 1 /\ \A j \in Keys \ {k} : Kvmap'[j] = Kvmap[j]
        /\ \A j \in Keys : Kvmap[j].Version \in Nat
    BY <1>2, <2>1 DEF IInv, TypeOK
  <2>4. ServerOK'
    BY SMTT(30), <1>2, <2>1, <2>3 DEF IInv, ServerOK
  <2>5. \A j \in Keys : Kvmap'[j].Version \in Nat /\ Kvmap'[j].Version >= Kvmap[j].Version
    BY <1>2, <1>7, <2>3
  <2>6. performed'[c] = 1 /\ \A d \in Clerks \ {c} : performed'[d] = performed[d]
    BY SMTT(30), <1>2, <1>7, <2>1 DEF IInv, TypeOK
  <2>7. PutOK(c)' /\ OtherOK(c)'
    <3>1. reply'[c] = Reply(Empty, 0, OK) /\ reply'[c].Err = OK
      BY <1>4, <1>5, <1>7
    <3>2. Kvmap'[op'[c].Key].Version > op'[c].Version
      BY <1>2, <1>5, <2>3
    <3>3. PutOK(c)'
      BY SMTT(30), <1>5, <1>6, <2>6, <3>1, <3>2, ServedPut
    <3>4. OtherOK(c)'
      BY <1>1, <1>5 DEF OtherOK
    <3> QED
      BY <3>3, <3>4
  <2>8. ClerksOK'
    <3> SUFFICES ASSUME NEW d \in Clerks \ {c} PROVE PutOK(d)' /\ OtherOK(d)'
      BY SMTT(30), <2>7 DEF ClerksOK
    <3> QED
      BY <1>1, <1>5, <2>5, <2>6, OtherClerks
  <2> QED
    BY <2>2, <2>4, <2>8 DEF IInv
<1>8. CASE err # OK
  <2>1. UNCHANGED <<exists, Kvmap, performed>>
    BY <1>8 DEF Put, server
  <2>2. TypeOK'
    BY <1>1, <1>5, <2>1 DEF IInv, TypeOK
  <2>3. reply'[c].Err = err
    BY <1>4, <1>5
  <2>4. err = ErrVersion \/ performed[c] = 0
    BY <1>2, <1>8
  <2>5. OtherOK(c)'
    BY <1>1, <1>5 DEF OtherOK
  <2>6. PutOK(c)'
    <3>1. /\ performed[c] \in {0, 1} /\ (performed[c] = 1 => Kvmap[k].Version > n)
          /\ performed[c] = 1 => resend[c]
      BY <1>1, <1>3 DEF PutOK
    <3>2. /\ reply'[c] \in {Reply(Empty, 0, OK), Reply(Empty, 0, ErrNoKey),
                            Reply(Empty, 0, ErrVersion)}
          /\ reply'[c] # NoReply
      BY <1>2, <1>5, <1>6
    <3>3. /\ performed[c] = 0 => reply'[c].Err # OK
          /\ performed[c] = 1 => reply'[c].Err = ErrVersion
      BY <1>8, <2>3, <2>4
    <3>4. /\ phase'[c] = "served" /\ op'[c] = op[c]
          /\ performed'[c] = performed[c] /\ resend'[c] = resend[c] /\ Kvmap' = Kvmap
      BY <1>1, <1>5, <2>1
    <3>5. /\ performed'[c] \in {0, 1}
          /\ performed'[c] = 1 => Kvmap'[op'[c].Key].Version > op'[c].Version
          /\ performed'[c] = 0 => reply'[c].Err # OK
          /\ performed'[c] = 1 => reply'[c].Err = ErrVersion
      BY <3>1, <3>3, <3>4
    <3>6. performed'[c] = 1 => resend'[c]
      BY <3>1, <3>4, Zenon
    <3> QED
      BY <3>2, <3>4, <3>5, <3>6, ServedPut, Zenon
  <2> QED
    BY <1>1, <1>5, <2>1, <2>2, <2>5, <2>6, ClerkMoves DEF server
<1> QED
  BY <1>7, <1>8

(* Every step of clerks, network and server keeps the invariant. *)
LEMMA NextIInv == IInv /\ [Next]_vars => IInv'
<1> SUFFICES ASSUME IInv, [Next]_vars PROVE IInv'
  OBVIOUS
<1>1. CASE UNCHANGED vars
  <2>1. UNCHANGED <<exists, Kvmap, op, phase, resend, reply, result, performed>>
    BY <1>1 DEF vars, server, clerk
  <2>2. TypeOK'
    BY <2>1 DEF IInv, TypeOK
  <2>3. ServerOK'
    BY <2>1 DEF IInv, ServerOK
  <2>4. ClerksOK'
    <3> SUFFICES ASSUME NEW c \in Clerks PROVE PutOK(c)' /\ OtherOK(c)'
      BY DEF ClerksOK
    <3>1. PutOK(c) /\ OtherOK(c)
      BY DEF IInv, ClerksOK
    <3> QED
      BY <2>1, <3>1 DEF PutOK, OtherOK
  <2> QED
    BY <2>2, <2>3, <2>4 DEF IInv
<1>2. ASSUME NEW c \in Clerks, NEW o \in Ops, Invoke(c, o) PROVE IInv'
  <2>1. o \in GetOps \cup PutOps
    BY SMTT(30) DEF Ops, GetOps, PutOps
  <2> QED
    BY <1>2, <2>1, InvokeStep
<1>3. ASSUME NEW c \in Clerks, Get(c) \/ Put(c) \/ CallFails(c) \/ Return(c) PROVE IInv'
  BY <1>3, GetStep, PutStep, FailStep, ReturnStep
<1> QED
  BY <1>1, <1>2, <1>3 DEF Next, Serve

(* The invariant holds throughout. *)
LEMMA SpecIInv == Spec => []IInv
  BY InitIInv, NextIInv, PTL DEF Spec

(* Clerks, network and server keep their types. *)
THEOREM TypeCorrect == Spec => []TypeOK
<1>1. IInv => TypeOK
  BY DEF IInv
<1> QED
  BY <1>1, SpecIInv, PTL

(* However often the network makes a clerk send a Put, the server performs  *)
(* it at most once, and OK, ErrVersion and ErrNoKey say the truth.          *)
THEOREM AnswersTrue == Spec => []PutAnswersAreTrue
<1>1. IInv => PutAnswersAreTrue
  <2> SUFFICES ASSUME IInv, NEW c \in Clerks
               PROVE  /\ performed[c] <= 1
                      /\ phase[c] = "idle" /\ op[c].op = "Put" =>
                            /\ result[c].Err = OK => performed[c] = 1
                            /\ result[c].Err \in {ErrVersion, ErrNoKey} => performed[c] = 0
    BY DEF PutAnswersAreTrue
  <2>1. PutOK(c) /\ OtherOK(c)
    BY DEF IInv, ClerksOK
  <2>2. performed[c] \in {0, 1}
    BY <2>1 DEF PutOK, OtherOK
  <2>3. performed[c] <= 1
    BY <2>2
  <2>4. phase[c] = "idle" /\ op[c].op = "Put" =>
            /\ result[c].Err = OK => performed[c] = 1
            /\ result[c].Err \in {ErrVersion, ErrNoKey} => performed[c] = 0
    BY <2>1, Zenon DEF PutOK
  <2> QED
    BY <2>3, <2>4
<1> QED
  BY <1>1, SpecIInv, PTL
-----------------------------------------------------------------------------
(***************************************************************************)
(* Linearizability                                                         *)
(***************************************************************************)
(* The abstract store's view of a clerk. *)
Pending == [c \in Clerks |-> IF phase[c] = "idle" THEN NoOp ELSE op[c]]

Effect ==
    [c \in Clerks |->
        IF phase[c] = "idle" THEN NoReply
        ELSE IF performed[c] > 0 THEN Reply(Empty, 0, OK) ELSE reply[c]]

(* Linearizability: what clerks see of server and network is what they      *)
(* would see of a store that performs every operation at one instant        *)
(* between its call and its return.                                         *)
THEOREM Linearizable == Spec => ImplementsStore
(* Only the clerk that moves changes its view. *)
<1>ViewOfOthers. ASSUME NEW c \in Clerks,
                        \A d \in Clerks \ {c} :
                            op'[d] = op[d] /\ phase'[d] = phase[d] /\ reply'[d] = reply[d]
                            /\ performed'[d] = performed[d]
                 PROVE  /\ phase'[c] = "idle" =>
                              /\ Pending' = [Pending EXCEPT ![c] = NoOp]
                              /\ Effect' = [Effect EXCEPT ![c] = NoReply]
                        /\ phase'[c] # "idle" =>
                              /\ Pending' = [Pending EXCEPT ![c] = op'[c]]
                              /\ performed'[c] = 0 => Effect' = [Effect EXCEPT ![c] = reply'[c]]
                              /\ performed'[c] = 1 => Effect' = [Effect EXCEPT ![c] = Reply(Empty, 0, OK)]
  <2> USE <1>ViewOfOthers
  <2> DEFINE p == IF phase'[c] = "idle" THEN NoOp ELSE op'[c]
             e == IF phase'[c] = "idle" THEN NoReply
                  ELSE IF performed'[c] > 0 THEN Reply(Empty, 0, OK) ELSE reply'[c]
  <2>1. /\ \A d \in Clerks : Pending'[d] = IF d = c THEN p ELSE Pending[d]
        /\ \A d \in Clerks : Effect'[d] = IF d = c THEN e ELSE Effect[d]
    BY DEF Pending, Effect
  <2>2. /\ Pending = [d \in Clerks |-> Pending[d]] /\ Pending' = [d \in Clerks |-> Pending'[d]]
        /\ Effect = [d \in Clerks |-> Effect[d]] /\ Effect' = [d \in Clerks |-> Effect'[d]]
    BY DEF Pending, Effect
  <2>3. /\ phase'[c] = "idle" => p = NoOp /\ e = NoReply
        /\ phase'[c] # "idle" =>
              /\ p = op'[c]
              /\ performed'[c] = 0 => e = reply'[c]
              /\ performed'[c] = 1 => e = Reply(Empty, 0, OK)
    OBVIOUS
  <2> HIDE DEF p, e
  <2>4. Pending' = [Pending EXCEPT ![c] = p] /\ Effect' = [Effect EXCEPT ![c] = e]
    BY <2>1, <2>2
  <2> QED
    BY <2>3, <2>4
(* A store without keys, and no operation under way. *)
<1>StoreInits. Init => Store!StoreInit
  <2> SUFFICES ASSUME Init PROVE Store!StoreInit
    OBVIOUS
  <2>1. Kvmap = [k \in Keys |-> [Value |-> Empty, Version |-> 0]] /\ result = [c \in Clerks |-> NoReply]
    BY DEF Init
  <2>2. \A c \in Clerks : phase[c] = "idle"
    BY DEF Init
  <2>3. Pending = [c \in Clerks |-> NoOp] /\ Effect = [c \in Clerks |-> NoReply]
    BY <2>2 DEF Pending, Effect
  <2> QED
    BY <2>1, <2>3 DEF Store!StoreInit, Pending, Effect, Store!NoReply, Store!Reply, Store!NoOp,
       NoReply, Reply, NoOp
(* The operations the application asks for are those of the store. *)
<1>StoreOps. Ops = [op : {"Get"}, Key : Keys]
                   \cup [op : {"Put"}, Key : Keys, Value : Values, Version : 0 .. MaxVersion]
  BY DEF Ops, GetOps
(* The store's steps in terms of Pending and Effect: an operation is called, *)
<1>StoreCall. ASSUME NEW c \in Clerks, NEW o \in Ops, Pending[c] = NoOp,
                     Pending' = [Pending EXCEPT ![c] = o], UNCHANGED <<Kvmap, Effect, result>>
              PROVE  Store!Call(c)
  BY <1>StoreCall, <1>StoreOps, Zenon DEF NoReply, Reply, NoOp, OK, ErrNoKey, ErrVersion, ErrMaybe,
     Store!NoReply, Store!Reply, Store!NoOp, Store!OK, Store!ErrNoKey,
     Store!ErrVersion, Store!ErrMaybe, Store!Call, Pending, Effect
(* a Get reads, *)
<1>StoreRead. ASSUME NEW c \in Clerks, Pending[c].op = "Get",
                     LET e == Kvmap[Pending[c].Key]
                     IN  Effect' = [Effect EXCEPT ![c] =
                            Reply(e.Value, e.Version, IF e.Version = 0 THEN ErrNoKey ELSE OK)],
                     UNCHANGED <<Kvmap, Pending, result>>
              PROVE  Store!Read(c)
  BY <1>StoreRead, Zenon DEF NoReply, Reply, NoOp, OK, ErrNoKey, ErrVersion, ErrMaybe,
     Store!NoReply, Store!Reply, Store!NoOp, Store!OK, Store!ErrNoKey,
     Store!ErrVersion, Store!ErrMaybe, Store!Read, Pending, Effect
(* a Put writes or is refused, *)
<1>StoreWrite. ASSUME NEW c \in Clerks, Pending[c].op = "Put", Effect[c].Err # OK,
                      LET o == Pending[c] IN
                      \/ /\ o.Version = Kvmap[o.Key].Version
                         /\ Kvmap' = [Kvmap EXCEPT ![o.Key] =
                                         [Value |-> o.Value, Version |-> o.Version + 1]]
                         /\ Effect' = [Effect EXCEPT ![c] = Reply(Empty, 0, OK)]
                      \/ /\ o.Version # Kvmap[o.Key].Version
                         /\ Effect' = [Effect EXCEPT ![c] = Reply(Empty, 0,
                               IF Kvmap[o.Key].Version = 0 THEN ErrNoKey ELSE ErrVersion)]
                         /\ UNCHANGED Kvmap,
                      UNCHANGED <<Pending, result>>
               PROVE  Store!Write(c)
  BY <1>StoreWrite, Zenon DEF NoReply, Reply, NoOp, OK, ErrNoKey, ErrVersion, ErrMaybe,
     Store!NoReply, Store!Reply, Store!NoOp, Store!OK, Store!ErrNoKey,
     Store!ErrVersion, Store!ErrMaybe, Store!Write, Pending, Effect
(* and the operation returns. *)
<1>StoreReturn. ASSUME NEW c \in Clerks, Effect[c] # NoReply,
                       \/ result' = [result EXCEPT ![c] = Effect[c]]
                       \/ /\ Pending[c].op = "Put"
                          /\ result' = [result EXCEPT ![c] = Reply(Empty, 0, ErrMaybe)],
                       Pending' = [Pending EXCEPT ![c] = NoOp],
                       Effect' = [Effect EXCEPT ![c] = NoReply],
                       UNCHANGED Kvmap
                PROVE  Store!Return(c)
  BY <1>StoreReturn DEF NoReply, Reply, NoOp, OK, ErrNoKey, ErrVersion, ErrMaybe,
     Store!NoReply, Store!Reply, Store!NoOp, Store!OK, Store!ErrNoKey,
     Store!ErrVersion, Store!ErrMaybe, Store!Return, Store!Answers, Pending, Effect
(* Every step is a step of the store, or changes nothing of it: a request  *)
(* that is lost, and a Put that comes again after it has been performed.    *)
<1>StoreNexts. ASSUME IInv, NEW c \in Clerks
               PROVE  /\ \A o \in Ops : Invoke(c, o) => Store!Call(c)
                      /\ Get(c) => Store!Read(c)
                      /\ Put(c) => Store!Write(c) \/ UNCHANGED <<Kvmap, Pending, Effect, result>>
                      /\ CallFails(c) => UNCHANGED <<Kvmap, Pending, Effect, result>>
                      /\ Return(c) => Store!Return(c)
  <2> USE <1>StoreNexts
  <2>0. PutOK(c) /\ OtherOK(c)
    BY DEF IInv, ClerksOK
  <2>1. ASSUME NEW o \in Ops, Invoke(c, o) PROVE Store!Call(c)
    <3>1. /\ \A d \in Clerks \ {c} :
                op'[d] = op[d] /\ phase'[d] = phase[d] /\ reply'[d] = reply[d]
                /\ performed'[d] = performed[d]
          /\ op'[c] = o /\ phase'[c] = "called" /\ reply'[c] = NoReply /\ performed'[c] = 0
          /\ phase[c] = "idle" /\ UNCHANGED <<Kvmap, result>>
      BY <2>1 DEF Invoke, server, IInv, TypeOK
    <3>2. Pending' = [Pending EXCEPT ![c] = o] /\ Effect' = [Effect EXCEPT ![c] = NoReply]
      BY <3>1, <1>ViewOfOthers
    <3>3. Pending[c] = NoOp /\ Effect[c] = NoReply
      BY <3>1 DEF Pending, Effect
    <3>4. Effect' = Effect
      BY <3>2, <3>3 DEF Effect
    <3> QED
      BY <3>1, <3>2, <3>3, <3>4, <1>StoreCall
  <2>2. ASSUME Get(c) PROVE Store!Read(c)
    <3> DEFINE k == op[c].Key
    <3>1. /\ \A d \in Clerks \ {c} : phase'[d] = phase[d] /\ reply'[d] = reply[d]
          /\ phase'[c] = "served" /\ reply'[c] = GetReply(k)
          /\ phase[c] = "called" /\ op[c].op = "Get"
          /\ UNCHANGED <<Kvmap, exists, op, result, performed>>
      BY <2>2 DEF Get, server, IInv, TypeOK
    <3>2. performed[c] = 0 /\ k \in Keys
      BY <2>0, <3>1, OpFacts DEF OtherOK, IInv
    <3>3. Pending' = [Pending EXCEPT ![c] = op[c]] /\ Effect' = [Effect EXCEPT ![c] = GetReply(k)]
      BY <3>1, <3>2, <1>ViewOfOthers
    <3>4. Pending[c] = op[c]
      BY <3>1 DEF Pending
    <3>5. Pending' = Pending
      BY <3>3, <3>4 DEF Pending
    <3>6. GetReply(k) = Reply(Kvmap[k].Value, Kvmap[k].Version,
                              IF Kvmap[k].Version = 0 THEN ErrNoKey ELSE OK)
      BY SMTT(30), <3>2 DEF GetReply, IInv, ServerOK, TypeOK
    <3> QED
      BY <3>1, <3>3, <3>4, <3>5, <3>6, <1>StoreRead
  <2>3. ASSUME CallFails(c) PROVE UNCHANGED <<Kvmap, Pending, Effect, result>>
    <3>1. /\ \A d \in Clerks : (phase'[d] = "idle") <=> (phase[d] = "idle")
          /\ UNCHANGED <<Kvmap, op, reply, result, performed>>
      BY <2>3 DEF CallFails, server, IInv, TypeOK
    <3>2. UNCHANGED <<Pending, Effect>>
      BY <3>1 DEF Pending, Effect
    <3> QED
      BY <3>1, <3>2
  <2>4. ASSUME Put(c) PROVE Store!Write(c) \/ UNCHANGED <<Kvmap, Pending, Effect, result>>
    <3> DEFINE k == op[c].Key
               n == op[c].Version
               err == PutReply(k, n)
               r == Reply(Empty, 0, err)
    <3>1. /\ phase'[c] = "served" /\ phase[c] = "called" /\ op[c].op = "Put" /\ reply'[c] = r
          /\ \A d \in Clerks \ {c} : phase'[d] = phase[d] /\ reply'[d] = reply[d]
          /\ UNCHANGED <<op, result>>
      BY <2>4 DEF Put, IInv, TypeOK
    <3>2. /\ k \in Keys /\ n \in Nat /\ Kvmap[k].Version \in Nat
          /\ err \in {OK, ErrNoKey, ErrVersion}
          /\ err = OK => n = Kvmap[k].Version /\ performed[c] = 0
          /\ err # OK => n # Kvmap[k].Version
          /\ err = ErrNoKey => Kvmap[k].Version = 0 /\ performed[c] = 0
          /\ err = ErrVersion => Kvmap[k].Version # 0
      BY <2>4, PutFacts
    <3>3. performed[c] \in {0, 1} /\ (performed[c] = 0 => reply[c].Err # OK)
      BY <2>0, <3>1 DEF PutOK
    <3>4. Pending[c] = op[c] /\ (performed[c] = 0 => Effect[c] = reply[c])
      <4>1. phase[c] = "called"
        BY SMTT(30), <3>1
      <4> QED
        BY <4>1 DEF Pending, Effect
    <3> HIDE DEF err
    <3>5. CASE err = OK
      <4>1. /\ Kvmap' = [Kvmap EXCEPT ![k] = [Value |-> op[c].Value, Version |-> n + 1]]
            /\ performed'[c] = 1 /\ \A d \in Clerks \ {c} : performed'[d] = performed[d]
        <5>1. /\ Kvmap' = [Kvmap EXCEPT ![k] = [Value |-> op[c].Value, Version |-> n + 1]]
              /\ performed' = [performed EXCEPT ![c] = @ + 1]
          BY <2>4, <3>5 DEF Put, err
        <5>2. performed \in [Clerks -> Nat] /\ performed[c] = 0
          BY <3>2, <3>5 DEF IInv, TypeOK
        <5>3. performed'[c] = 1 /\ \A d \in Clerks \ {c} : performed'[d] = performed[d]
          BY <5>1, <5>2
        <5> QED
          BY <5>1, <5>3
      <4>2. Pending' = [Pending EXCEPT ![c] = op[c]] /\ Effect' = [Effect EXCEPT ![c] = Reply(Empty, 0, OK)]
        BY <3>1, <4>1, <1>ViewOfOthers
      <4>3. Pending' = Pending
        BY <3>4, <4>2 DEF Pending
      <4>4. Effect[c].Err # OK
        BY <3>2, <3>3, <3>4, <3>5
      <4> QED
        BY <3>1, <3>2, <3>4, <3>5, <4>1, <4>2, <4>3, <4>4, <1>StoreWrite
    <3>6. CASE err # OK
      <4>1. UNCHANGED <<Kvmap, performed>>
        BY <2>4, <3>6 DEF Put, server, err
      <4>2. CASE performed[c] = 0
        <5>1. Pending' = [Pending EXCEPT ![c] = op[c]] /\ Effect' = [Effect EXCEPT ![c] = r]
          BY <3>1, <4>1, <4>2, <1>ViewOfOthers
        <5>2. Pending' = Pending
          BY <3>4, <5>1 DEF Pending
        <5>3. err = IF Kvmap[k].Version = 0 THEN ErrNoKey ELSE ErrVersion
          BY <3>2, <3>6
        <5> QED
          BY <3>1, <3>2, <3>3, <3>4, <3>6, <4>1, <4>2, <5>1, <5>2, <5>3, <1>StoreWrite
      <4>3. CASE performed[c] = 1
        <5>1. UNCHANGED Pending
          BY <3>1 DEF Pending
        <5>2. UNCHANGED Effect
          BY SMTT(30), <3>1, <4>1, <4>3 DEF Effect
        <5> QED
          BY <3>1, <4>1, <5>1, <5>2
      <4> QED
        BY <3>3, <4>2, <4>3
    <3> QED
      BY <3>5, <3>6
  <2>5. ASSUME Return(c) PROVE Store!Return(c)
    <3>1. /\ phase'[c] = "idle" /\ phase[c] = "served"
          /\ \A d \in Clerks \ {c} : phase'[d] = phase[d]
          /\ result' = [result EXCEPT ![c] = Result(c)]
          /\ UNCHANGED <<Kvmap, op, reply, performed>>
      BY <2>5 DEF Return, server, IInv, TypeOK
    <3>2. Pending' = [Pending EXCEPT ![c] = NoOp] /\ Effect' = [Effect EXCEPT ![c] = NoReply]
      BY <3>1, <1>ViewOfOthers
    <3>3. Pending[c] = op[c]
      BY <3>1 DEF Pending
    <3>4. Effect[c] = IF performed[c] > 0 THEN Reply(Empty, 0, OK) ELSE reply[c]
      BY <3>1 DEF Effect
    <3>5. op[c].op \in {"Get", "Put"}
      BY <2>0, <3>1, OpFacts DEF OtherOK, IInv
    <3>6. NoReply.Err = "none" /\ Reply(Empty, 0, OK).Err = "OK"
      BY SMTT(30), ReplyParts DEF NoReply, OK
    <3>7. CASE op[c].op = "Get"
      <4>1. performed[c] = 0 /\ reply[c].Err \in {OK, ErrNoKey}
        BY <2>0, <3>1, <3>7 DEF OtherOK
      <4>2. Effect[c] = reply[c] /\ reply[c] # NoReply
        BY <3>4, <3>6, <4>1 DEF OK, ErrNoKey
      <4>3. Result(c) = reply[c]
        BY <3>7 DEF Result
      <4> QED
        BY <3>1, <3>2, <4>2, <4>3, <1>StoreReturn
    <3>8. CASE op[c].op = "Put"
      <4>1. /\ performed[c] \in {0, 1} /\ reply[c] # NoReply
            /\ reply[c] \in {NoReply, Reply(Empty, 0, OK), Reply(Empty, 0, ErrNoKey),
                             Reply(Empty, 0, ErrVersion)}
            /\ performed[c] = 1 => reply[c].Err = OK \/ (reply[c].Err = ErrVersion /\ resend[c])
        BY <2>0, <3>1, <3>8 DEF PutOK
      <4>2. Effect[c] # NoReply
        BY <3>4, <3>6, <4>1
      <4>3. CASE resend[c] /\ reply[c].Err = ErrVersion
        <5>1. Result(c) = Reply(Empty, 0, ErrMaybe)
          BY <3>8, <4>3 DEF Result
        <5> QED
          BY <3>1, <3>2, <3>3, <3>8, <4>2, <5>1, <1>StoreReturn
      <4>4. CASE ~(resend[c] /\ reply[c].Err = ErrVersion)
        <5>1. Result(c) = reply[c]
          BY <4>4 DEF Result
        <5>2. performed[c] = 1 => reply[c] = Reply(Empty, 0, OK)
          BY SMTT(30), <4>1, <4>4, <3>6, ReplyParts DEF OK, ErrNoKey, ErrVersion
        <5>3. Effect[c] = reply[c]
          BY <3>4, <4>1, <5>2
        <5> QED
          BY <3>1, <3>2, <4>2, <5>1, <5>3, <1>StoreReturn
      <4> QED
        BY <4>3, <4>4
    <3> QED
      BY <3>5, <3>7, <3>8
  <2> QED
    BY <2>1, <2>2, <2>3, <2>4, <2>5
<1>1. IInv /\ [Next]_vars => [Store!StoreNext]_(Store!svars)
  <2> SUFFICES ASSUME IInv, [Next]_vars PROVE [Store!StoreNext]_(Store!svars)
    OBVIOUS
  <2>1. ASSUME UNCHANGED <<Kvmap, Pending, Effect, result>> PROVE UNCHANGED Store!svars
    BY <2>1, Zenon DEF Store!svars, Pending, Effect, Reply, NoReply, NoOp, OK
  <2>2. CASE UNCHANGED vars
    <3>1. UNCHANGED <<Kvmap, op, phase, reply, result, performed>>
      BY <2>2 DEF vars, server, clerk
    <3> QED
      BY <2>1, <3>1 DEF Pending, Effect
  <2>3. CASE Next
    <3>1. PICK c \in Clerks : (\E o \in Ops : Invoke(c, o)) \/ Get(c) \/ Put(c)
                              \/ CallFails(c) \/ Return(c)
      BY <2>3 DEF Next, Serve
    <3>2. \/ Store!Call(c) \/ Store!Read(c) \/ Store!Write(c) \/ Store!Return(c)
          \/ UNCHANGED <<Kvmap, Pending, Effect, result>>
      BY <3>1, <1>StoreNexts
    <3> QED
      BY <2>1, <3>2 DEF Store!StoreNext
  <2> QED
    BY <2>2, <2>3
<1> QED
  BY <1>1, <1>StoreInits, SpecIInv, PTL DEF Spec, ImplementsStore, Store!StoreSpec
-----------------------------------------------------------------------------
(***************************************************************************)
(* What one step changes, for programs that use the clerks                 *)
(***************************************************************************)
GetOf(k) == [op |-> "Get", Key |-> k]
PutOf(k, v, n) == [op |-> "Put", Key |-> k, Value |-> v, Version |-> n]

(* A clerk that does not move. *)
Still(d) ==
    /\ op'[d] = op[d] /\ phase'[d] = phase[d] /\ resend'[d] = resend[d]
    /\ reply'[d] = reply[d] /\ result'[d] = result[d] /\ performed'[d] = performed[d]

Others(c) == \A d \in Clerks \ {c} : Still(d)

(* The Put of c is performed, or refused. *)
PutTakes(c) ==
    LET k == op[c].Key IN
    /\ exists' = exists \cup {k}
    /\ Kvmap'[k] = [Value |-> op[c].Value, Version |-> op[c].Version + 1]
    /\ \A j \in Keys \ {k} : Kvmap'[j] = Kvmap[j]
    /\ op[c].Version = Kvmap[k].Version
    /\ performed[c] = 0 /\ performed'[c] = 1
    /\ reply'[c].Err = OK

PutFails(c) ==
    LET k == op[c].Key IN
    /\ UNCHANGED <<exists, Kvmap, performed>>
    /\ op[c].Version # Kvmap[k].Version
    /\ reply'[c].Err = IF k \in exists THEN ErrVersion ELSE ErrNoKey

(* The parts of an operation. *)
LEMMA OpParts ==
    ASSUME NEW k, NEW v, NEW n
    PROVE  /\ GetOf(k).op = "Get" /\ GetOf(k).Key = k
           /\ PutOf(k, v, n).op = "Put" /\ PutOf(k, v, n).Key = k
           /\ PutOf(k, v, n).Value = v /\ PutOf(k, v, n).Version = n
           /\ k \in Keys => GetOf(k) \in GetOps
           /\ k \in Keys /\ v \in Values /\ n \in Nat => PutOf(k, v, n) \in PutOps
           /\ GetOf(k) # NoOp /\ PutOf(k, v, n) # NoOp
<1>1. NoOp.op = "none"
  BY DEF NoOp
<1>2. /\ GetOf(k).op = "Get" /\ GetOf(k).Key = k
      /\ PutOf(k, v, n).op = "Put" /\ PutOf(k, v, n).Key = k
      /\ PutOf(k, v, n).Value = v /\ PutOf(k, v, n).Version = n
  BY DEF GetOf, PutOf
<1>3. GetOf(k) # NoOp /\ PutOf(k, v, n) # NoOp
  BY <1>1, <1>2
<1>4. /\ k \in Keys => GetOf(k) \in GetOps
      /\ k \in Keys /\ v \in Values /\ n \in Nat => PutOf(k, v, n) \in PutOps
  BY DEF GetOf, PutOf, GetOps, PutOps
<1> QED
  BY <1>2, <1>3, <1>4

(* A clerk is asked for an operation. *)
LEMMA InvokeMoves ==
    ASSUME IInv, NEW c \in Clerks, NEW o, Invoke(c, o)
    PROVE  /\ Others(c) /\ UNCHANGED <<exists, Kvmap, result>>
           /\ phase[c] = "idle" /\ op'[c] = o /\ phase'[c] = "called" /\ performed'[c] = 0
           /\ resend'[c] = FALSE /\ reply'[c] = NoReply
  BY DEF Invoke, Others, Still, IInv, TypeOK, server

LEMMA GetMoves ==
    ASSUME IInv, NEW c \in Clerks, Get(c)
    PROVE  /\ Others(c) /\ UNCHANGED <<exists, Kvmap, op, resend, result, performed>>
           /\ phase[c] = "called" /\ phase'[c] = "served" /\ op[c].op = "Get"
           /\ op[c].Key \in Keys /\ reply'[c] = GetReply(op[c].Key)
<1>1. op[c].op = "Get"
  BY DEF Get
<1>2. op[c].Key \in Keys
  BY <1>1, OpFacts DEF IInv
<1> QED
  BY <1>2 DEF Get, Others, Still, IInv, TypeOK, server

LEMMA FailMoves ==
    ASSUME IInv, NEW c \in Clerks, CallFails(c)
    PROVE  /\ Others(c) /\ UNCHANGED <<exists, Kvmap, op, reply, result, performed>>
           /\ phase[c] # "idle" /\ phase'[c] = "called" /\ resend'[c] = TRUE
  BY DEF CallFails, Others, Still, IInv, TypeOK, server

LEMMA ReturnMoves ==
    ASSUME IInv, NEW c \in Clerks, Return(c)
    PROVE  /\ Others(c) /\ UNCHANGED <<exists, Kvmap, op, resend, reply, performed>>
           /\ phase[c] = "served" /\ phase'[c] = "idle" /\ result'[c] = Result(c)
           /\ op[c].op \in {"Get", "Put"}
<1>1. phase[c] = "served"
  BY DEF Return
<1>2. op[c].op \in {"Get", "Put"}
  BY <1>1, OpFacts DEF IInv, ClerksOK, OtherOK
<1> QED
  BY <1>2 DEF Return, Others, Still, IInv, TypeOK, server

LEMMA PutMoves ==
    ASSUME IInv, NEW c \in Clerks, Put(c)
    PROVE  /\ Others(c) /\ UNCHANGED <<op, resend, result>>
           /\ phase[c] = "called" /\ phase'[c] = "served" /\ op[c].op = "Put"
           /\ op[c].Key \in Keys /\ op[c].Version \in Nat /\ performed[c] \in {0, 1}
           /\ PutTakes(c) \/ PutFails(c)
<1> DEFINE k == op[c].Key
           e == PutReply(k, op[c].Version)
<1>1. /\ phase[c] = "called" /\ op[c].op = "Put" /\ UNCHANGED <<op, resend, result>>
      /\ phase' = [phase EXCEPT ![c] = "served"]
      /\ reply' = [reply EXCEPT ![c] = Reply(Empty, 0, e)]
  BY DEF Put
<1>2. /\ k \in Keys /\ op[c].Version \in Nat /\ Kvmap[k].Version \in Nat
      /\ e \in {OK, ErrNoKey, ErrVersion}
      /\ e = OK => op[c].Version = Kvmap[k].Version /\ performed[c] = 0
      /\ e # OK => op[c].Version # Kvmap[k].Version
  BY PutFacts
<1>3. /\ phase'[c] = "served" /\ reply'[c] = Reply(Empty, 0, e) /\ reply'[c].Err = e
      /\ \A d \in Clerks \ {c} : phase'[d] = phase[d] /\ reply'[d] = reply[d]
  BY SMTT(30), <1>1, ReplyParts DEF IInv, TypeOK
<1>4. performed[c] \in {0, 1}
  BY <1>1 DEF IInv, ClerksOK, PutOK
<1>5. CASE e = OK
  <2>1. /\ exists' = exists \cup {k}
        /\ Kvmap' = [Kvmap EXCEPT ![k] = [Value |-> op[c].Value, Version |-> op[c].Version + 1]]
        /\ performed' = [performed EXCEPT ![c] = @ + 1]
    BY <1>5 DEF Put
  <2>2. /\ Kvmap'[k] = [Value |-> op[c].Value, Version |-> op[c].Version + 1]
        /\ \A j \in Keys \ {k} : Kvmap'[j] = Kvmap[j]
        /\ performed'[c] = 1 /\ \A d \in Clerks \ {c} : performed'[d] = performed[d]
    BY SMTT(30), <1>2, <1>5, <2>1 DEF IInv, TypeOK
  <2>3. Others(c)
    BY <1>1, <1>3, <2>2 DEF Others, Still
  <2> QED
    BY <1>1, <1>2, <1>3, <1>4, <1>5, <2>1, <2>2, <2>3 DEF PutTakes
<1>6. CASE e # OK
  <2>1. UNCHANGED <<exists, Kvmap, performed>>
    BY <1>6 DEF Put, server
  <2>2. Others(c)
    BY <1>1, <1>3, <2>1 DEF Others, Still
  <2>3. e = IF k \in exists THEN ErrVersion ELSE ErrNoKey
    BY <1>6 DEF PutReply, OK
  <2> QED
    BY <1>1, <1>2, <1>3, <1>4, <1>6, <2>1, <2>2, <2>3 DEF PutFails
<1> QED
  BY <1>5, <1>6
-----------------------------------------------------------------------------
(***************************************************************************)
(* The lock                                                                *)
(***************************************************************************)
Lk == Kvmap[LockKey]

InAcquire == {"first", "retry", "second", "confirm", "held", "release"}

(* Holding the lock, or before its first Acquire, a client may read and     *)
(* write other keys, as the lock's test does.                               *)
Apart(c) ==
    /\ op[c] \in GetOps \cup PutOps /\ op[c].Key # LockKey
    /\ lpc[c] = "held" \/ (lpc[c] = "ready" /\ rounds[c] = 0)

(* Where a client is tells which operation it asked for last. *)
OpOK(c) ==
    /\ lpc[c] # "fatal"
    /\ lpc[c] = "start" => op[c] = NoOp
    /\ lpc[c] \in {"start", "make"} => rounds[c] = 0
    /\ lpc[c] \in {"make", "first", "second", "release"} => op[c] = LockGet
    /\ lpc[c] \in {"retry", "confirm"} => op[c] = LockPut(c, op[c].Version)
    /\ lpc[c] = "held" => phase[c] = "idle" \/ Apart(c)
    /\ lpc[c] = "ready" =>
          \/ Apart(c)
          \/ rounds[c] = 0 /\ op[c] = LockGet /\ phase[c] = "idle"
          \/ rounds[c] = 0 /\ op[c] = LockPut(Unlocked, 0)
          \/ rounds[c] > 0 /\ op[c] = LockPut(Unlocked, op[c].Version)
    /\ lpc[c] \in InAcquire => rounds[c] > 0

(* A client that has made its lock, or has read it, knows that it exists. *)
KeyOK(c) ==
    /\ lpc[c] \in InAcquire => LockKey \in exists
    /\ lpc[c] = "ready" /\ ~(rounds[c] = 0 /\ op[c] = LockPut(Unlocked, 0) /\ phase[c] = "called") =>
          LockKey \in exists

(* What a Get has read is the lock's present value, or its version is past. *)
SeenOK(c) ==
    op[c] = LockGet /\ phase[c] # "called" =>
        /\ reply[c].Err \in {OK, ErrNoKey}
        /\ reply[c].Err = OK =>
              /\ LockKey \in exists
              /\ reply[c].Version <= Lk.Version
              /\ reply[c].Version = Lk.Version => reply[c].Value = Lk.Value
        /\ lpc[c] # "make" => reply[c].Err = OK
        /\ lpc[c] = "release" => reply[c].Version = Lk.Version
        /\ phase[c] = "idle" => result[c] = reply[c]

(* The lock is the client's: from the Put that gave it until the one that   *)
(* gives it back.                                                           *)
Owns(c) ==
    \/ Holds(c)
    \/ lpc[c] = "confirm" /\ performed[c] = 1
    \/ lpc[c] = "ready" /\ rounds[c] > 0 /\ performed[c] = 0

(* A Put of Acquire that can still succeed found the lock free or its own; *)
(* the Put of Release that is under way will succeed.                       *)
PutsOK(c) ==
    /\ lpc[c] \in {"retry", "confirm"} =>
          /\ op[c].Version <= Lk.Version
          /\ performed[c] = 0 /\ op[c].Version = Lk.Version => Lk.Value \in {Unlocked, c}
    /\ lpc[c] = "ready" /\ rounds[c] > 0 =>
          /\ phase[c] \in {"served", "idle"} => performed[c] = 1
          /\ performed[c] = 0 => op[c].Version = Lk.Version
    /\ Owns(c) => Lk.Value = c

ClientOK(c) == OpOK(c) /\ KeyOK(c) /\ SeenOK(c) /\ PutsOK(c)

LInv == LockTypeOK /\ IInv /\ \A c \in Clerks : ClientOK(c)
-----------------------------------------------------------------------------
-----------------------------------------------------------------------------
(* The invariant holds throughout. *)
LEMMA SpecLInv == LockSpec => []LInv
(* The operations of a lock, and its value and version. *)
<1>LockOps. /\ LockGet \in GetOps /\ LockGet.op = "Get" /\ LockGet.Key = LockKey
            /\ \A v \in Values, n \in Nat : LockPut(v, n) \in PutOps
            /\ \A v, n : /\ LockPut(v, n).op = "Put" /\ LockPut(v, n).Key = LockKey
                         /\ LockPut(v, n).Value = v /\ LockPut(v, n).Version = n
            /\ TypeOK => Lk.Version \in Nat
  BY LockAssumption DEF LockGet, LockPut, GetOps, PutOps, Lk, TypeOK
(* What asking for an operation changes. *)
<1>InvokeFacts. ASSUME TypeOK, NEW c \in Clerks, NEW o, Invoke(c, o)
                PROVE  /\ op'[c] = o /\ phase'[c] = "called" /\ performed'[c] = 0
                       /\ phase[c] = "idle"
                       /\ UNCHANGED <<exists, Kvmap, Lk>>
                       /\ \A d \in Clerks \ {c} :
                             /\ op'[d] = op[d] /\ phase'[d] = phase[d] /\ reply'[d] = reply[d]
                             /\ result'[d] = result[d] /\ performed'[d] = performed[d]
  BY <1>InvokeFacts DEF Invoke, TypeOK, server, Lk
(* A client that does not move: the lock is unchanged, or was not its own. *)
<1>OtherClients. ASSUME LInv, NEW d \in Clerks,
                        op'[d] = op[d], phase'[d] = phase[d], reply'[d] = reply[d],
                        result'[d] = result[d], performed'[d] = performed[d],
                        lpc'[d] = lpc[d], rounds'[d] = rounds[d],
                        exists \subseteq exists', Lk'.Version \in Nat,
                        Lk' = Lk \/ (Lk'.Version > Lk.Version /\ ~Owns(d))
                 PROVE  ClientOK(d)'
  <2> USE <1>OtherClients
  <2>1. ClientOK(d) /\ Lk.Version \in Nat
    BY <1>LockOps DEF LInv, IInv
  <2>2. OpOK(d)'
    BY <2>1 DEF ClientOK, OpOK, Apart
  <2>3. KeyOK(d)'
    BY <2>1 DEF ClientOK, KeyOK
  <2>4. SeenOK(d)'
    <3> SUFFICES ASSUME op[d] = LockGet, phase[d] # "called" PROVE SeenOK(d)'
      BY DEF SeenOK
    <3>1. reply[d].Err = OK =>
              /\ LockKey \in exists'
              /\ reply[d].Version <= Lk'.Version
              /\ reply[d].Version = Lk'.Version => reply[d].Value = Lk'.Value
      <4>1. ASSUME reply[d].Err = OK
            PROVE  /\ LockKey \in exists /\ reply[d].Version <= Lk.Version
                   /\ reply[d].Version = Lk.Version => reply[d].Value = Lk.Value
        BY <2>1, <4>1 DEF ClientOK, SeenOK
      <4>2. reply[d].Version \in Nat
        BY SMTT(30) DEF LInv, IInv, TypeOK, Replies, NoReply, Reply
      <4> QED
        BY <2>1, <4>1, <4>2
    <3>2. lpc[d] # "make" => reply[d].Err = OK
      BY <2>1 DEF ClientOK, SeenOK
    <3>3. lpc[d] = "release" => reply[d].Version = Lk'.Version
      BY <2>1 DEF ClientOK, SeenOK, Owns, Holds
    <3>4. reply[d].Err \in {OK, ErrNoKey} /\ (phase[d] = "idle" => result[d] = reply[d])
      BY <2>1 DEF ClientOK, SeenOK
    <3> QED
      BY <3>1, <3>2, <3>3, <3>4 DEF SeenOK
  <2>5. PutsOK(d)'
    <3>1. Owns(d)' => Lk'.Value = d
      BY <2>1 DEF ClientOK, PutsOK, Owns, Holds
    <3>2. lpc[d] \in {"retry", "confirm"} =>
              /\ op[d].Version <= Lk'.Version
              /\ performed[d] = 0 /\ op[d].Version = Lk'.Version => Lk'.Value \in {Unlocked, d}
      <4> SUFFICES ASSUME lpc[d] \in {"retry", "confirm"}
                   PROVE  /\ op[d].Version <= Lk'.Version
                          /\ performed[d] = 0 /\ op[d].Version = Lk'.Version =>
                                Lk'.Value \in {Unlocked, d}
        OBVIOUS
      <4>1. op[d].op = "Put"
        BY SMTT(30), <2>1, <1>LockOps DEF ClientOK, OpOK
      <4>2. op[d].Version \in Nat
        BY <4>1, OpFacts DEF LInv, IInv
      <4>3. /\ op[d].Version <= Lk.Version
            /\ performed[d] = 0 /\ op[d].Version = Lk.Version => Lk.Value \in {Unlocked, d}
        BY <2>1 DEF ClientOK, PutsOK
      <4> QED
        BY <2>1, <4>2, <4>3
    <3>3. lpc[d] = "ready" /\ rounds[d] > 0 =>
              /\ phase[d] \in {"served", "idle"} => performed[d] = 1
              /\ performed[d] = 0 => op[d].Version = Lk'.Version
      BY <2>1 DEF ClientOK, PutsOK, Owns
    <3> QED
      BY <3>1, <3>2, <3>3 DEF PutsOK
  <2> QED
    BY <2>2, <2>3, <2>4, <2>5 DEF ClientOK
(* A client asks for an operation and goes on: the server does not move. *)
<1>Asks. ASSUME LInv, NEW c \in Clerks, NEW o \in GetOps \cup PutOps, Invoke(c, o),
                NEW l \in Locations, lpc' = [lpc EXCEPT ![c] = l],
                rounds' \in [Clerks -> 0 .. MaxRounds], losses' \in 0 .. MaxLosses,
                \A d \in Clerks \ {c} : rounds'[d] = rounds[d],
                ClientOK(c)'
         PROVE  LInv'
  <2> USE <1>Asks
  <2>1. IInv'
    BY InvokeStep DEF LInv
  <2>2. LockTypeOK'
    BY <2>1 DEF LInv, LockTypeOK, IInv
  <2>3. \A d \in Clerks \ {c} : lpc'[d] = lpc[d]
    BY DEF LInv, LockTypeOK
  <2>4. ASSUME NEW d \in Clerks \ {c} PROVE ClientOK(d)'
    <3>1. Lk.Version \in Nat /\ Lk' = Lk /\ exists' = exists
      BY <1>LockOps, <1>InvokeFacts DEF LInv, IInv
    <3> QED
      BY <2>3, <3>1, <1>OtherClients, <1>InvokeFacts DEF LInv, IInv
  <2> QED
    BY <2>1, <2>2, <2>4 DEF LInv
(* A client goes on without asking. *)
<1>GoesOn. ASSUME LInv, NEW c \in Clerks, UNCHANGED vars,
                  NEW l \in Locations, Goto(c, l), ClientOK(c)'
           PROVE  LInv'
  <2> USE <1>GoesOn
  <2>1. UNCHANGED <<exists, Kvmap, op, phase, resend, reply, result, performed, rounds, losses, Lk>>
    BY DEF vars, server, clerk, Goto, Lk
  <2>2. lpc' = [lpc EXCEPT ![c] = l]
    BY DEF Goto
  <2>3. IInv'
    BY NextIInv DEF LInv
  <2>4. LockTypeOK'
    BY <2>1, <2>2, <2>3 DEF LInv, LockTypeOK, IInv
  <2>5. \A d \in Clerks \ {c} : lpc'[d] = lpc[d]
    BY <2>2 DEF LInv, LockTypeOK
  <2>6. ASSUME NEW d \in Clerks \ {c} PROVE ClientOK(d)'
    <3>1. Lk.Version \in Nat
      BY <1>LockOps DEF LInv, IInv
    <3> QED
      BY <2>1, <2>5, <3>1, <1>OtherClients
  <2> QED
    BY <2>3, <2>4, <2>6 DEF LInv
(* The client asks for the lock's value. *)
<1>AsksGet. ASSUME LInv, NEW c \in Clerks, Invoke(c, LockGet),
                   NEW l \in {"make", "first", "second", "release"}, lpc' = [lpc EXCEPT ![c] = l],
                   rounds' \in [Clerks -> 0 .. MaxRounds], losses' \in 0 .. MaxLosses,
                   \A d \in Clerks \ {c} : rounds'[d] = rounds[d],
                   l = "make" => rounds'[c] = 0,
                   l # "make" => LockKey \in exists /\ rounds'[c] > 0,
                   l = "release" => Lk.Value = c
            PROVE  LInv'
  <2> USE <1>AsksGet
  <2>1. /\ op'[c] = LockGet /\ op'[c].op = "Get" /\ phase'[c] = "called" /\ performed'[c] = 0
        /\ exists' = exists /\ Lk' = Lk
    BY <1>InvokeFacts, <1>LockOps DEF LInv, IInv
  <2>2. lpc'[c] = l
    BY DEF LInv, LockTypeOK
  <2>3. OpOK(c)' /\ KeyOK(c)' /\ SeenOK(c)' /\ PutsOK(c)'
    BY <2>1, <2>2 DEF OpOK, KeyOK, SeenOK, PutsOK, Owns, Holds, InAcquire
  <2> QED
    BY <2>3, <1>Asks, <1>LockOps DEF ClientOK, Locations
(* The client asks for a Put. *)
<1>AsksPut. ASSUME LInv, NEW c \in Clerks, NEW v \in Values, NEW n \in Nat, Invoke(c, LockPut(v, n)),
                   NEW l \in {"retry", "confirm", "ready"}, Goto(c, l),
                   l # "ready" =>
                      /\ v = c /\ LockKey \in exists /\ rounds[c] > 0 /\ n <= Lk.Version
                      /\ n = Lk.Version => Lk.Value \in {Unlocked, c},
                   l = "ready" =>
                      /\ v = Unlocked
                      /\ \/ n = 0 /\ rounds[c] = 0
                         \/ LockKey \in exists /\ rounds[c] > 0 /\ n = Lk.Version /\ Lk.Value = c
            PROVE  LInv'
  <2> USE <1>AsksPut
  <2>1. /\ op'[c] = LockPut(v, n) /\ phase'[c] = "called" /\ performed'[c] = 0
        /\ op'[c].op = "Put" /\ op'[c].Version = n /\ exists' = exists /\ Lk' = Lk
    BY SMTT(30), <1>InvokeFacts, <1>LockOps DEF LInv, IInv
  <2>2. lpc'[c] = l /\ lpc' = [lpc EXCEPT ![c] = l] /\ UNCHANGED <<rounds, losses>>
    BY DEF LInv, LockTypeOK, Goto
  <2>3. OpOK(c)'
    BY <2>1, <2>2 DEF OpOK, InAcquire
  <2>4. KeyOK(c)' /\ SeenOK(c)'
    BY <2>1, <2>2 DEF KeyOK, SeenOK, InAcquire
  <2>5. PutsOK(c)'
    BY SMTT(30), <2>1, <2>2 DEF PutsOK, Owns, Holds
  <2>6. LockPut(v, n) \in GetOps \cup PutOps /\ l \in Locations
    BY <1>LockOps DEF Locations
  <2>7. rounds' \in [Clerks -> 0 .. MaxRounds] /\ losses' \in 0 .. MaxLosses
    BY <2>2 DEF LInv, LockTypeOK
  <2> QED
    BY <2>2, <2>3, <2>4, <2>5, <2>6, <2>7, <1>Asks DEF ClientOK
(* A Get that has returned. *)
<1>ReadFacts. ASSUME LInv, NEW c \in Clerks, NEW l \in {"make", "first", "second", "release"}, Read(c, l)
              PROVE  /\ rounds[c] \in Nat /\ c \in Values /\ Unlocked \in Values
                     /\ result[c].Version \in Nat
                     /\ Missing(c) => l = "make"
                     /\ ~Missing(c) =>
                           /\ LockKey \in exists /\ result[c].Version <= Lk.Version
                           /\ result[c].Version = Lk.Version => result[c].Value = Lk.Value
                     /\ l = "make" => rounds[c] = 0
                     /\ l # "make" => rounds[c] > 0 /\ LockKey \in exists
                     /\ l = "release" => result[c].Version = Lk.Version /\ Lk.Value = c
  <2> USE <1>ReadFacts
  <2>1. lpc[c] = l /\ phase[c] = "idle" /\ ClientOK(c)
    BY DEF Read, LInv
  <2>2. op[c] = LockGet
    BY <2>1 DEF ClientOK, OpOK
  <2>3. /\ result[c] = reply[c] /\ reply[c].Err \in {OK, ErrNoKey}
        /\ reply[c].Err = OK =>
              /\ LockKey \in exists /\ reply[c].Version <= Lk.Version
              /\ reply[c].Version = Lk.Version => reply[c].Value = Lk.Value
        /\ l # "make" => reply[c].Err = OK
        /\ l = "release" => reply[c].Version = Lk.Version
    BY <2>1, <2>2 DEF ClientOK, SeenOK
  <2>4. reply[c].Version \in Nat
    BY SMTT(30) DEF LInv, IInv, TypeOK, Replies, NoReply, Reply
  <2>5. l = "release" => Lk.Value = c
    BY <2>1 DEF ClientOK, PutsOK, Owns, Holds
  <2>6. rounds[c] \in Nat /\ (l = "make" => rounds[c] = 0) /\ (l # "make" => rounds[c] > 0)
    BY SMTT(30), <2>1, LockAssumption DEF ClientOK, OpOK, InAcquire, LInv, LockTypeOK
  <2> QED
    BY <2>3, <2>4, <2>5, <2>6, LockAssumption DEF Missing, OK, ErrNoKey
(* The two halves of MakeLock. *)
<1>MakeLockStep. ASSUME LInv, NEW c \in Clerks, MakeLockGet(c) \/ MakeLockPut(c)
                 PROVE  LInv'
  <2> USE <1>MakeLockStep
  <2>1. rounds \in [Clerks -> 0 .. MaxRounds] /\ losses \in 0 .. MaxLosses
    BY DEF LInv, LockTypeOK
  <2>2. CASE MakeLockGet(c)
    <3>1. lpc' = [lpc EXCEPT ![c] = "make"] /\ UNCHANGED <<rounds, losses>> /\ Invoke(c, LockGet)
      BY <2>2 DEF MakeLockGet, Goto
    <3>2. rounds[c] = 0
      BY <2>2 DEF MakeLockGet, LInv, ClientOK, OpOK
    <3> QED
      BY <2>1, <3>1, <3>2, <1>AsksGet
  <2>3. CASE MakeLockPut(c)
    <3>1. Read(c, "make") /\ Goto(c, "ready")
      BY <2>3 DEF MakeLockPut
    <3>2. CASE Missing(c) /\ Invoke(c, LockPut(Unlocked, 0))
      BY <3>1, <3>2, <1>ReadFacts, <1>AsksPut
    <3>3. CASE ~Missing(c) /\ UNCHANGED vars
      <4>1. rounds[c] = 0 /\ LockKey \in exists
        BY <3>1, <3>3, <1>ReadFacts
      <4>2. op[c] = LockGet /\ phase[c] = "idle" /\ SeenOK(c)
        BY <3>1 DEF LInv, ClientOK, OpOK, Read
      <4>3. lpc'[c] = "ready" /\ UNCHANGED <<exists, Lk, op, phase, reply, result, performed, rounds>>
        BY <3>1, <3>3 DEF Goto, LInv, LockTypeOK, vars, server, clerk, Lk
      <4>4. reply[c].Err = OK
        BY <3>1, <3>3, <4>2 DEF SeenOK, Missing, Read
      <4>5. OpOK(c)' /\ KeyOK(c)' /\ PutsOK(c)'
        BY <4>1, <4>2, <4>3 DEF OpOK, KeyOK, PutsOK, Owns, Holds, InAcquire
      <4>6. SeenOK(c)'
        BY <4>2, <4>3, <4>4 DEF SeenOK
      <4> QED
        BY <3>1, <3>3, <4>5, <4>6, <1>GoesOn DEF ClientOK, Locations
    <3> QED
      BY <2>3, <3>2, <3>3 DEF MakeLockPut
  <2> QED
    BY <2>2, <2>3
(* The loops of Acquire. *)
<1>TryLockStep. ASSUME LInv, NEW c \in Clerks, NEW at \in {"first", "second"}, NEW next \in {"retry", "confirm"},
                       TryLock(c, at, next)
                PROVE  LInv'
  <2> USE <1>TryLockStep
  <2>1. Read(c, at)
    BY DEF TryLock
  <2>2. /\ rounds[c] > 0 /\ LockKey \in exists /\ ~Missing(c) /\ c \in Values
        /\ result[c].Version \in Nat /\ result[c].Version <= Lk.Version
        /\ result[c].Version = Lk.Version => result[c].Value = Lk.Value
    BY <2>1, <1>ReadFacts
  <2>3. CASE Available(c) /\ Invoke(c, LockPut(c, result[c].Version)) /\ Goto(c, next)
    BY <2>2, <2>3, <1>AsksPut DEF Available
  <2>4. CASE Invoke(c, LockGet) /\ Goto(c, at)
    BY <2>2, <2>4, <1>AsksGet DEF Goto, LInv, LockTypeOK
  <2> QED
    BY <2>2, <2>3, <2>4 DEF TryLock
(* Acquire, from its call until it returns. *)
<1>AcquireStep. ASSUME LInv, NEW c \in Clerks,
                       \/ AcquireStart(c) \/ AcquireFirst(c) \/ AcquireRetry(c)
                       \/ AcquireSecond(c) \/ AcquireConfirm(c)
                PROVE  LInv'
  <2> USE <1>AcquireStep
  <2>1. rounds \in [Clerks -> 0 .. MaxRounds] /\ losses \in 0 .. MaxLosses /\ MaxRounds \in Nat
    BY LockAssumption DEF LInv, LockTypeOK
  <2>2. ClientOK(c)
    BY DEF LInv
  <2>3. CASE AcquireStart(c)
    <3>1. /\ lpc[c] = "ready" /\ rounds[c] < MaxRounds /\ Invoke(c, LockGet)
          /\ lpc' = [lpc EXCEPT ![c] = "first"] /\ rounds' = [rounds EXCEPT ![c] = @ + 1]
          /\ losses' = losses
      BY <2>3 DEF AcquireStart
    <3>2. phase[c] = "idle"
      BY <3>1 DEF Invoke
    <3>3. LockKey \in exists
      BY <2>2, <3>1, <3>2 DEF ClientOK, KeyOK
    <3>4. /\ rounds' \in [Clerks -> 0 .. MaxRounds] /\ rounds'[c] > 0
          /\ \A d \in Clerks \ {c} : rounds'[d] = rounds[d]
      BY <2>1, <3>1
    <3> QED
      BY <2>1, <3>1, <3>3, <3>4, <1>AsksGet
  <2>4. CASE AcquireFirst(c) \/ AcquireSecond(c)
    BY <2>4, <1>TryLockStep DEF AcquireFirst, AcquireSecond
  <2>5. CASE AcquireRetry(c)
    <3>1. lpc[c] = "retry" /\ Invoke(c, LockGet) /\ Goto(c, "second")
      BY <2>5 DEF AcquireRetry
    <3>2. LockKey \in exists /\ rounds[c] > 0
      BY <2>2, <3>1 DEF ClientOK, KeyOK, OpOK, InAcquire
    <3> QED
      BY <2>1, <3>1, <3>2, <1>AsksGet DEF Goto
  <2>6. CASE AcquireConfirm(c)
    <3>1. lpc[c] = "confirm" /\ phase[c] = "idle"
      BY <2>6 DEF AcquireConfirm, Read
    <3>2. /\ LockKey \in exists /\ rounds[c] > 0 /\ op[c] = LockPut(c, op[c].Version)
          /\ op[c].op = "Put"
      BY SMTT(30), <2>2, <3>1, <1>LockOps DEF ClientOK, KeyOK, OpOK, InAcquire
    <3>3. CASE result[c].Err # OK /\ Invoke(c, LockGet) /\ Goto(c, "second")
      BY <2>1, <3>2, <3>3, <1>AsksGet DEF Goto
    <3>4. CASE result[c].Err = OK /\ UNCHANGED vars /\ Goto(c, "held")
      <4>1. performed[c] = 1
        BY <3>1, <3>2, <3>4 DEF LInv, IInv, ClerksOK, PutOK
      <4>2. lpc'[c] = "held" /\ UNCHANGED <<exists, Lk, op, phase, reply, result, performed, rounds>>
        BY <3>4 DEF Goto, LInv, LockTypeOK, vars, server, clerk, Lk
      <4>3. Lk.Value = c
        BY <2>2, <3>1, <4>1 DEF ClientOK, PutsOK, Owns
      <4>4. OpOK(c)' /\ KeyOK(c)' /\ SeenOK(c)'
        BY <3>1, <3>2, <4>1, <4>2, <1>LockOps DEF OpOK, KeyOK, SeenOK, InAcquire
      <4>5. PutsOK(c)'
        BY <4>2, <4>3 DEF PutsOK
      <4> QED
        BY <3>4, <4>4, <4>5, <1>GoesOn DEF ClientOK, Locations
    <3> QED
      BY <2>6, <3>3, <3>4 DEF AcquireConfirm
  <2> QED
    BY <2>3, <2>4, <2>5, <2>6
(* Release finds the holder's ClientID and writes Unlocked. *)
<1>ReleaseStep. ASSUME LInv, NEW c \in Clerks, ReleaseStart(c) \/ ReleasePut(c)
                PROVE  LInv'
  <2> USE <1>ReleaseStep
  <2>1. rounds \in [Clerks -> 0 .. MaxRounds] /\ losses \in 0 .. MaxLosses /\ ClientOK(c)
    BY DEF LInv, LockTypeOK
  <2>2. CASE ReleaseStart(c)
    <3>1. lpc[c] = "held" /\ Invoke(c, LockGet) /\ Goto(c, "release")
      BY <2>2 DEF ReleaseStart
    <3>2. LockKey \in exists /\ rounds[c] > 0 /\ Lk.Value = c
      BY <2>1, <3>1 DEF ClientOK, KeyOK, OpOK, InAcquire, PutsOK, Owns, Holds
    <3> QED
      BY <2>1, <3>1, <3>2, <1>AsksGet DEF Goto
  <2>3. CASE ReleasePut(c)
    <3>1. Read(c, "release")
      BY <2>3 DEF ReleasePut
    <3>2. /\ rounds[c] > 0 /\ LockKey \in exists /\ ~Missing(c) /\ Unlocked \in Values
          /\ result[c].Version \in Nat /\ result[c].Version = Lk.Version
          /\ Lk.Value = c /\ result[c].Value = c
      BY <3>1, <1>ReadFacts
    <3>3. Invoke(c, LockPut(Unlocked, result[c].Version)) /\ Goto(c, "ready")
      BY <2>3, <3>2 DEF ReleasePut
    <3> QED
      BY <3>2, <3>3, <1>AsksPut
  <2> QED
    BY <2>2, <2>3
(* Calls are served, lost and answered, and the clients wait. *)
<1>Waits. ASSUME LInv, NEW c \in Clerks, UNCHANGED <<lpc, rounds>>, losses' \in 0 .. MaxLosses, IInv',
                 \A d \in Clerks \ {c} :
                     /\ op'[d] = op[d] /\ phase'[d] = phase[d] /\ reply'[d] = reply[d]
                     /\ result'[d] = result[d] /\ performed'[d] = performed[d],
                 exists \subseteq exists',
                 Lk' = Lk \/ (Lk'.Version > Lk.Version /\ \A d \in Clerks \ {c} : ~Owns(d)),
                 ClientOK(c)'
          PROVE  LInv'
  <2> USE <1>Waits
  <2>1. LockTypeOK'
    BY SMTT(30) DEF LInv, LockTypeOK, IInv
  <2>2. Lk'.Version \in Nat
    BY SMTT(30), LockAssumption DEF IInv, TypeOK, Lk
  <2>3. ASSUME NEW d \in Clerks \ {c} PROVE ClientOK(d)'
    BY SMTT(30), <2>2, <1>OtherClients
  <2> QED
    BY <2>1, <2>3 DEF LInv
(* While a client reads and writes other keys the lock is not touched. *)
<1>ApartStays. ASSUME LInv, NEW c \in Clerks, Apart(c), op'[c] = op[c], lpc'[c] = lpc[c],
                      rounds'[c] = rounds[c], exists \subseteq exists', Lk' = Lk
               PROVE  ClientOK(c)'
  <2> USE <1>ApartStays
  <2>1. ClientOK(c) /\ op[c] # LockGet /\ op[c] # LockPut(Unlocked, 0)
    BY SMTT(30), <1>LockOps DEF LInv, Apart
  <2>2. OpOK(c)'
    BY <2>1 DEF ClientOK, OpOK, Apart, InAcquire
  <2>3. KeyOK(c)' /\ SeenOK(c)'
    BY <2>1 DEF ClientOK, KeyOK, SeenOK, Apart, InAcquire
  <2>4. lpc[c] # "ready" \/ ~(rounds[c] > 0)
    BY DEF Apart
  <2>5. PutsOK(c)'
    BY <2>1, <2>4 DEF ClientOK, PutsOK, Apart, Owns, Holds
  <2> QED
    BY <2>2, <2>3, <2>5 DEF ClientOK
(* A client with a Call to the lock under way is at a place where it has    *)
(* made one.                                                                *)
<1>CallFacts. ASSUME LInv, NEW c \in Clerks, phase[c] # "idle", ~Apart(c)
              PROVE  /\ op[c].op = "Get" =>
                           lpc[c] \in {"make", "first", "second", "release"} /\ op[c].Key = LockKey
                     /\ op[c].op = "Put" =>
                           lpc[c] \in {"retry", "confirm", "ready"} /\ op[c].Key = LockKey
                     /\ op[c].op = "Put" /\ lpc[c] = "ready" =>
                           /\ op[c].Value = Unlocked /\ rounds[c] \in Nat
                           /\ rounds[c] = 0 => op[c].Version = 0
                     /\ op[c].op = "Put" /\ lpc[c] # "ready" => op[c].Value = c
                     /\ op[c].op \in {"Get", "Put"}
  <2> USE <1>CallFacts
  <2>1. OpOK(c) /\ lpc[c] \in Locations /\ rounds[c] \in Nat
    BY SMTT(30), LockAssumption DEF LInv, ClientOK, LockTypeOK
  <2>2. op[c].op \in {"Get", "Put"}
    BY OpFacts DEF LInv, IInv, ClerksOK, OtherOK
  <2>3. NoOp.op = "none"
    BY SMTT(30) DEF NoOp
  <2>4. CASE lpc[c] \in {"make", "first", "second", "release"}
    BY <2>1, <2>2, <2>4, <1>LockOps DEF OpOK
  <2>5. CASE lpc[c] \in {"retry", "confirm", "held"}
    BY SMTT(30), <2>1, <2>2, <2>5, <1>LockOps DEF OpOK
  <2>6. CASE lpc[c] = "ready"
    BY SMTT(30), <2>1, <2>2, <2>6, <1>LockOps DEF OpOK
  <2>7. CASE lpc[c] \in {"start", "fatal"}
    BY SMTT(30), <2>1, <2>2, <2>3, <2>7 DEF OpOK
  <2> QED
    BY <2>1, <2>4, <2>5, <2>6, <2>7 DEF Locations
(* The server answers a Get with what the lock holds. *)
<1>ServeGetStep. ASSUME LInv, NEW c \in Clerks, Get(c), UNCHANGED <<lpc, rounds, losses>>
                 PROVE  LInv'
  <2> USE <1>ServeGetStep
  <2>1. /\ phase[c] = "called" /\ phase'[c] = "served" /\ op[c].op = "Get"
        /\ reply'[c] = GetReply(op[c].Key)
        /\ UNCHANGED <<exists, Kvmap, Lk, op, result, performed>>
        /\ \A d \in Clerks \ {c} : phase'[d] = phase[d] /\ reply'[d] = reply[d]
    BY SMTT(30) DEF Get, server, LInv, IInv, TypeOK, Lk
  <2>2. ASSUME ~Apart(c) PROVE ClientOK(c)'
    <3>2. lpc[c] \in {"make", "first", "second", "release"} /\ op[c].Key = LockKey
      BY SMTT(30), <2>1, <2>2, <1>CallFacts
    <3>3. ClientOK(c) /\ Lk.Version \in Nat
      BY <1>LockOps DEF LInv, IInv
    <3>4. lpc[c] # "make" => LockKey \in exists
      BY <3>2, <3>3 DEF ClientOK, KeyOK, InAcquire
    <3>5. /\ LockKey \in exists => reply'[c] = Reply(Lk.Value, Lk.Version, OK)
          /\ LockKey \notin exists => reply'[c] = Reply(Empty, 0, ErrNoKey)
      BY <2>1, <3>2 DEF GetReply, Lk
    <3>6. SeenOK(c)'
      BY SMTT(30), <2>1, <3>3, <3>4, <3>5, ReplyParts DEF SeenOK, OK, ErrNoKey
    <3>7. OpOK(c)' /\ KeyOK(c)' /\ PutsOK(c)'
      BY <2>1, <3>2, <3>3 DEF ClientOK, OpOK, KeyOK, PutsOK, Owns, Holds
    <3> QED
      BY <3>6, <3>7 DEF ClientOK
  <2>3. ClientOK(c)'
    BY <2>1, <2>2, <1>ApartStays
  <2>4. IInv'
    BY SMTT(30), GetStep DEF LInv
  <2> QED
    BY <2>1, <2>3, <2>4, <1>Waits DEF LInv, LockTypeOK
(* A Call fails: the client asks again for the same. *)
<1>LoseStep. ASSUME LInv, NEW c \in Clerks, Lose(c)
             PROVE  LInv'
  <2> USE <1>LoseStep
  <2>1. /\ CallFails(c) /\ losses' \in 0 .. MaxLosses /\ UNCHANGED <<lpc, rounds>>
    BY SMTT(30), LockAssumption DEF Lose, LInv, LockTypeOK
  <2>2. /\ phase[c] # "idle" /\ phase'[c] = "called"
        /\ UNCHANGED <<exists, Kvmap, Lk, op, reply, result, performed>>
        /\ \A d \in Clerks \ {c} : phase'[d] = phase[d]
    BY <2>1 DEF CallFails, server, LInv, IInv, TypeOK, Lk
  <2>3. ClientOK(c)
    BY DEF LInv
  <2>4. ASSUME ~Apart(c) PROVE ClientOK(c)'
    <3>1. OpOK(c)'
      <4>1. lpc[c] # "held"
        BY <2>2, <2>3, <2>4 DEF ClientOK, OpOK
      <4> QED
        BY ZenonT(40), <2>1, <2>2, <2>3, <2>4, <4>1 DEF ClientOK, OpOK
    <3>2. KeyOK(c)' /\ SeenOK(c)'
      BY ZenonT(40), <2>1, <2>2, <2>3, <2>4 DEF ClientOK, OpOK, KeyOK, SeenOK
    <3>3. PutsOK(c)'
      BY <2>1, <2>2, <2>3 DEF ClientOK, PutsOK, Owns, Holds
    <3> QED
      BY <3>1, <3>2, <3>3 DEF ClientOK
  <2>5. IInv'
    BY SMTT(30), <2>1, FailStep DEF LInv
  <2>6. ClientOK(c)'
    BY <2>1, <2>2, <2>4, <1>ApartStays
  <2> QED
    BY <2>1, <2>2, <2>5, <2>6, <1>Waits
(* A Call is answered. *)
<1>AnswerStep. ASSUME LInv, NEW c \in Clerks, Return(c), UNCHANGED <<lpc, rounds, losses>>
               PROVE  LInv'
  <2> USE <1>AnswerStep
  <2>1. /\ phase[c] = "served" /\ phase'[c] = "idle" /\ result'[c] = Result(c)
        /\ UNCHANGED <<exists, Kvmap, Lk, op, reply, performed>>
        /\ \A d \in Clerks \ {c} : phase'[d] = phase[d] /\ result'[d] = result[d]
    BY DEF Return, server, LInv, IInv, TypeOK, Lk
  <2>2. ClientOK(c)
    BY SMTT(30) DEF LInv
  <2>3. op[c] = LockGet => result'[c] = reply[c]
    BY <2>1, <1>LockOps DEF Result
  <2>4. OpOK(c)' /\ KeyOK(c)' /\ SeenOK(c)' /\ PutsOK(c)'
    <3>1. OpOK(c)'
      BY ONLY ZenonT(20), SMTT(30), <1>AnswerStep, <2>1, <2>2 DEF ClientOK, OpOK, Apart
    <3>2. KeyOK(c)'
      BY ONLY ZenonT(20), <1>AnswerStep, <2>1, <2>2 DEF ClientOK, KeyOK
    <3>3. SeenOK(c)'
      BY ZenonT(40), <2>1, <2>2, <2>3 DEF ClientOK, SeenOK
    <3>4. PutsOK(c)'
      BY <2>1, <2>2 DEF ClientOK, PutsOK, Owns, Holds
    <3> QED
      BY ONLY ZenonT(10), <3>1, <3>2, <3>3, <3>4
  <2>5. IInv'
    BY ReturnStep DEF LInv
  <2> QED
    BY <2>1, <2>4, <2>5, <1>Waits DEF ClientOK, LInv, LockTypeOK
(* A Put that succeeds takes the lock from nobody: it was free, or the      *)
(* client's own.                                                            *)
<1>PutTakesFree. ASSUME LInv, NEW c \in Clerks, Put(c), ~Apart(c), PutReply(op[c].Key, op[c].Version) = OK
                 PROVE  \A d \in Clerks \ {c} : ~Owns(d)
  <2> USE <1>PutTakesFree
  <2>1. phase[c] = "called" /\ op[c].op = "Put"
    BY DEF Put
  <2>2. lpc[c] \in {"retry", "confirm", "ready"} /\ op[c].Key = LockKey
    BY SMTT(30), <2>1, <1>CallFacts
  <2>3. op[c].Version = Lk.Version /\ performed[c] = 0
    BY <2>2, PutFacts DEF LInv, Lk
  <2>4. Lk.Value \in {Unlocked, c, Empty}
    <3>1. CASE lpc[c] \in {"retry", "confirm"}
      BY <2>3, <3>1 DEF LInv, ClientOK, PutsOK
    <3>2. CASE lpc[c] = "ready" /\ rounds[c] > 0
      BY <2>3, <3>2 DEF LInv, ClientOK, PutsOK, Owns
    <3>3. CASE lpc[c] = "ready" /\ rounds[c] = 0
      <4>1. Lk.Version = 0
        BY <2>1, <2>3, <3>3, <1>CallFacts
      <4>2. /\ LockKey \in exists => Lk.Version > 0
            /\ LockKey \notin exists => Lk.Value = Empty
        BY LockAssumption, Zenon DEF LInv, IInv, ServerOK, Lk
      <4>3. LockKey \notin exists
        BY <4>1, <4>2
      <4> QED
        BY <4>2, <4>3
    <3>4. rounds[c] = 0 \/ rounds[c] > 0
      <4>1. rounds[c] \in Nat
        BY SMTT(30), LockAssumption DEF LInv, LockTypeOK
      <4> QED
        BY <4>1
    <3> QED
      BY <2>2, <3>1, <3>2, <3>3, <3>4, Zenon
  <2>5. \A d \in Clerks : Owns(d) => Lk.Value = d
    BY DEF LInv, ClientOK, PutsOK
  <2> QED
    BY <2>4, <2>5, LockAssumption
(* The server performs or refuses a Put to another key. *)
<1>ServeApartStep. ASSUME LInv, NEW c \in Clerks, Put(c), Apart(c), UNCHANGED <<lpc, rounds, losses>>
                   PROVE  LInv'
  <2> USE <1>ServeApartStep
  <2>1. /\ UNCHANGED <<op, result>> /\ op[c].Key # LockKey
        /\ \A d \in Clerks \ {c} : phase'[d] = phase[d] /\ reply'[d] = reply[d]
    BY SMTT(30) DEF Put, LInv, IInv, TypeOK, Apart
  <2>2. /\ exists \subseteq exists' /\ Lk' = Lk
        /\ \A d \in Clerks \ {c} : performed'[d] = performed[d]
    <3>1. Kvmap' = Kvmap \/ Kvmap' = [Kvmap EXCEPT ![op[c].Key] =
                                  [Value |-> op[c].Value, Version |-> op[c].Version + 1]]
      BY Zenon DEF Put, server
    <3>2. performed' = performed \/ performed' = [performed EXCEPT ![c] = @ + 1]
      BY Zenon DEF Put
    <3>3. exists \subseteq exists'
      BY DEF Put, server
    <3>4. Kvmap'[LockKey] = Kvmap[LockKey]
      BY <2>1, <3>1, LockAssumption DEF LInv, IInv, TypeOK
    <3> QED
      BY <3>2, <3>3, <3>4 DEF LInv, IInv, TypeOK, Lk
  <2>3. IInv'
    BY PutStep DEF LInv
  <2>4. ClientOK(c)'
    BY <2>1, <2>2, <1>ApartStays
  <2> QED
    BY <2>1, <2>2, <2>3, <2>4, <1>Waits DEF LInv, LockTypeOK
(* The server performs or refuses a Put. *)
<1>ServePutStep. ASSUME LInv, NEW c \in Clerks, Put(c), ~Apart(c), UNCHANGED <<lpc, rounds, losses>>
                 PROVE  LInv'
  <2> USE <1>ServePutStep
  <2> DEFINE n == op[c].Version
             err == PutReply(op[c].Key, n)
  <2>1. /\ phase[c] = "called" /\ phase'[c] = "served" /\ op[c].op = "Put"
        /\ UNCHANGED <<op, result>>
        /\ \A d \in Clerks \ {c} : phase'[d] = phase[d] /\ reply'[d] = reply[d]
    BY SMTT(30) DEF Put, LInv, IInv, TypeOK
  <2>2. /\ lpc[c] \in {"retry", "confirm", "ready"} /\ op[c].Key = LockKey
        /\ lpc[c] = "ready" /\ rounds[c] = 0 => n = 0
        /\ lpc[c] # "ready" => op[c].Value = c
    BY SMTT(30), <2>1, <1>CallFacts
  <2>3. ClientOK(c) /\ Lk.Version \in Nat /\ n \in Nat
    BY SMTT(30), <2>1, <1>LockOps, OpFacts DEF LInv, IInv
  <2>4. IInv'
    BY PutStep DEF LInv
  <2>5. SeenOK(c)'
    BY <2>1, <1>LockOps DEF SeenOK
  <2>6. losses' \in 0 .. MaxLosses
    BY SMTT(30) DEF LInv, LockTypeOK
  <2>7. OpOK(c)'
    BY ZenonT(40), <2>1, <2>2, <2>3 DEF ClientOK, OpOK
  <2>8. CASE err = OK
    <3>1. /\ exists' = exists \cup {LockKey}
          /\ Kvmap' = [Kvmap EXCEPT ![LockKey] = [Value |-> op[c].Value, Version |-> n + 1]]
          /\ performed' = [performed EXCEPT ![c] = @ + 1]
      BY <2>2, <2>8 DEF Put
    <3>2. n = Lk.Version /\ performed[c] = 0
      BY <2>2, <2>8, PutFacts DEF LInv, Lk
    <3>3. Lk'.Value = op[c].Value /\ Lk'.Version = n + 1
      BY SMTT(30), <3>1, LockAssumption DEF LInv, IInv, TypeOK, Lk
    <3>4. performed'[c] = 1 /\ \A d \in Clerks \ {c} : performed'[d] = performed[d]
      <4>1. performed \in [Clerks -> Nat]
        BY DEF LInv, IInv, TypeOK
      <4> QED
        BY <3>1, <3>2, <4>1
    <3>5. KeyOK(c)'
      BY <3>1 DEF KeyOK
    <3>6. PutsOK(c)'
      <4>1. lpc'[c] = lpc[c] /\ op'[c].Version = n
        BY <2>1
      <4>2. performed'[c] = 1 /\ performed'[c] # 0
        BY <3>4
      <4>3. lpc[c] # "ready" => Lk'.Value = c
        BY <2>2, <3>3
      <4>4. lpc[c] \notin {"held", "release"}
        BY <2>2
      <4>5. Owns(c)' => Lk'.Value = c
        BY <4>1, <4>2, <4>3, <4>4 DEF Owns, Holds
      <4>6. n <= n + 1 /\ n # n + 1
        BY <2>3
      <4>7. op'[c].Version <= Lk'.Version /\ op'[c].Version # Lk'.Version
        BY <3>3, <4>1, <4>6, Zenon
      <4> QED
        BY <4>2, <4>5, <4>7, Zenon DEF PutsOK
    <3>7. \A d \in Clerks \ {c} : ~Owns(d)
      BY <2>8, <1>PutTakesFree
    <3>8. Lk'.Version > Lk.Version
      <4>1. n + 1 > n
        BY SMTT(30), <2>3
      <4> QED
        BY <3>2, <3>3, <4>1, Zenon
    <3> QED
      BY ZenonT(40), <2>1, <2>4, <2>5, <2>6, <2>7, <3>1, <3>4, <3>5, <3>6, <3>7, <3>8, <1>Waits DEF ClientOK
  <2>9. CASE err # OK
    <3>1. UNCHANGED <<exists, Kvmap, performed, Lk>>
      BY <2>9, Zenon DEF Put, server, Lk
    <3>2. n # Lk.Version
      BY <2>2, <2>9, PutFacts DEF LInv, Lk
    <3>3. lpc[c] = "ready" /\ rounds[c] = 0 => LockKey \in exists
      BY SMTT(30), <2>2, <2>9 DEF PutReply
    <3>4. KeyOK(c)'
      BY ZenonT(40), <2>1, <2>2, <2>3, <3>1, <3>3 DEF ClientOK, KeyOK, InAcquire
    <3>5. lpc[c] = "ready" /\ rounds[c] > 0 => performed[c] = 1
      <4>1. performed[c] \in {0, 1}
        BY <2>1 DEF LInv, IInv, ClerksOK, PutOK
      <4> QED
        BY ZenonT(40), <2>3, <3>2, <4>1 DEF ClientOK, PutsOK
    <3>6. PutsOK(c)'
      BY <2>1, <2>2, <2>3, <3>1, <3>2, <3>5 DEF ClientOK, PutsOK, Owns, Holds
    <3> QED
      BY <2>1, <2>4, <2>5, <2>6, <2>7, <3>1, <3>4, <3>6, <1>Waits DEF ClientOK
  <2> QED
    BY SMTT(30), <2>8, <2>9
(* Nobody has called MakeLock yet. *)
<1>InitLInv. LockInit => LInv
  <2> SUFFICES ASSUME LockInit PROVE LInv
    OBVIOUS
  <2>1. IInv
    BY InitIInv DEF LockInit
  <2>2. LockTypeOK
    BY SMTT(30), <2>1, LockAssumption DEF IInv, LockTypeOK, LockInit, Locations
  <2>3. ASSUME NEW c \in Clerks PROVE ClientOK(c)
    <3>1. lpc[c] = "start" /\ rounds[c] = 0 /\ op[c] = NoOp
      BY Zenon DEF LockInit, Init
    <3>2. NoOp.op = "none"
      BY DEF NoOp
    <3>3. op[c].op = "none"
      BY <3>1, <3>2, Zenon
    <3> QED
      BY <3>1, <3>3, <1>LockOps DEF ClientOK, OpOK, KeyOK, SeenOK, PutsOK, Owns, Holds, InAcquire
  <2> QED
    BY <2>1, <2>2, <2>3 DEF LInv
(* Every step of clients, network and server keeps the invariant. *)
<1>NextLInv. LInv /\ [LockNext]_lockVars => LInv'
  <2> SUFFICES ASSUME LInv, [LockNext]_lockVars PROVE LInv'
    OBVIOUS
  <2>1. CASE UNCHANGED lockVars
    <3>1. UNCHANGED <<vars, exists, Kvmap, Lk, op, phase, reply, result, performed, lpc, rounds, losses>>
      BY <2>1 DEF lockVars, vars, server, clerk, Lk
    <3>2. IInv' /\ LockTypeOK'
      <4>1. IInv'
        BY <3>1, NextIInv DEF LInv
      <4> QED
        BY <3>1, <4>1 DEF LInv, LockTypeOK, IInv
    <3>3. ASSUME NEW c \in Clerks PROVE ClientOK(c)'
      <4>1. Lk.Version \in Nat
        BY <1>LockOps DEF LInv, IInv
      <4> QED
        BY <3>1, <4>1, <1>OtherClients
    <3> QED
      BY <3>2, <3>3 DEF LInv
  <2>2. ASSUME NEW c \in Clerks, Client(c) \/ Network(c) \/ Lose(c) PROVE LInv'
    <3>1. CASE Client(c)
      BY <3>1, <1>MakeLockStep, <1>AcquireStep, <1>ReleaseStep DEF Client
    <3>2. CASE Network(c)
      BY <3>2, <1>ServeGetStep, <1>ServePutStep, <1>ServeApartStep, <1>AnswerStep DEF Network, Serve
    <3>3. CASE Lose(c)
      BY <3>3, <1>LoseStep
    <3> QED
      BY <2>2, <3>1, <3>2, <3>3
  <2> QED
    BY <2>1, <2>2 DEF LockNext
<1> QED
  BY <1>InitLInv, <1>NextLInv, PTL DEF LockSpec

(* Clients, network and server keep their types. *)
THEOREM LockTypeCorrect == LockSpec => []LockTypeOK
<1>1. LInv => LockTypeOK
  BY DEF LInv
<1> QED
  BY <1>1, SpecLInv, PTL

(* Acquire gives the lock to one client at a time, whatever Calls of Get    *)
(* and Put are lost and sent again: the key holds the holder's ClientID.    *)
THEOREM Exclusion == LockSpec => []MutualExclusion
<1>1. LInv => MutualExclusion
  <2> SUFFICES ASSUME LInv, NEW c \in Clerks, NEW d \in Clerks, Holds(c), Holds(d)
               PROVE  c = d
    BY DEF MutualExclusion
  <2>1. Lk.Value = c /\ Lk.Value = d
    BY SMTT(30) DEF LInv, ClientOK, PutsOK, Owns
  <2> QED
    BY <2>1
<1> QED
  BY <1>1, SpecLInv, PTL

(* The log.Fatalf calls of Acquire and Release are never reached. *)
THEOREM NotFatal == LockSpec => []NeverFatal
<1>1. LInv => NeverFatal
  BY DEF LInv, ClientOK, OpOK, NeverFatal
<1> QED
  BY <1>1, SpecLInv, PTL

(* Release may ignore what its Put returns: the lock has been given back.   *)
THEOREM Released == LockSpec => []ReleaseTakesEffect
<1>1. LInv => ReleaseTakesEffect
  BY DEF LInv, ClientOK, PutsOK, ReleaseTakesEffect, Read
<1> QED
  BY <1>1, SpecLInv, PTL
==============================================================================
