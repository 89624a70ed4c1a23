----------------------------- MODULE KVTestSteps -----------------------------
(***************************************************************************)
(* The clients of the key/value server's tests, for any number of clients, *)
(* iterations and lost Calls: what holds of the server and its clerks      *)
(* whatever the clients run, and the programs OneClientPut and             *)
(* PutAtLeastOnce.  Module KVTestProofs has OneClientAppend, the test that  *)
(* runs them and the theorems.                                             *)
(***************************************************************************)
EXTENDS KVTest, KVSrvProofs

(* A leaf that names no prover is tried with Zenon, then with SMT. *)
USE ZenonT(20), SMTT(30)

(* The lists of entries are among the values that can be stored. *)
ListsAreValues == Seq(Entries) \subseteq Values

Shared == Kvmap[SharedKey]
-----------------------------------------------------------------------------
(***************************************************************************)
(* The inductive invariant                                                 *)
(***************************************************************************)
(* What a Get has read is the key's present value, or its version is past; *)
(* it is a list unless the key is the lock's.  An operation has returned    *)
(* what its reply says.                                                     *)
GetOK(c) ==
    op[c].op = "Get" /\ phase[c] # "called" =>
        LET k == op[c].Key IN
        /\ reply[c].Err \in {OK, ErrNoKey}
        /\ reply[c].Err = OK =>
              /\ k \in exists
              /\ reply[c].Version <= Kvmap[k].Version
              /\ reply[c].Version = Kvmap[k].Version => reply[c].Value = Kvmap[k].Value
              /\ k # LockKey => reply[c].Value \in Seq(Entries)

ReturnOK(c) ==
    /\ phase[c] = "idle" /\ op[c] # NoOp => result[c] = Result(c)
    /\ op[c].op = "Put" /\ phase[c] # "called" => reply[c].Err \in {OK, ErrNoKey, ErrVersion}

(* Only lists are put to other keys than the lock's. *)
ListsPut ==
    /\ \A k \in exists \ {LockKey} : Kvmap[k].Value \in Seq(Entries)
    /\ \A c \in Clerks :
          op[c].op = "Put" /\ op[c].Key # LockKey => op[c].Value \in Seq(Entries)

KInv == IInv /\ (\A c \in Clerks : GetOK(c) /\ ReturnOK(c)) /\ ListsPut

TestVarsOK ==
    /\ fn \in Fns /\ reliable \in BOOLEAN
    /\ tpc \in [Clerks -> TestLocations]
    /\ iter \in [Clients -> 0 .. MaxIter]
    /\ ver \in [Clients -> Nat]
    /\ err \in [Clients -> {OK, ErrVersion, ErrMaybe}]
    /\ res \in [Clients -> [Nok : Nat, Nmaybe : Nat]]
    /\ DOMAIN history = Keys

-----------------------------------------------------------------------------
(***************************************************************************)
(* Server, network and clerks                                              *)
(***************************************************************************)
(* A clerk that does not move: what it has read is present or past. *)
LEMMA StillOK ==
    ASSUME KInv, NEW d \in Clerks, Still(d), exists \subseteq exists',
           \A k \in Keys : \/ Kvmap'[k] = Kvmap[k]
                           \/ Kvmap'[k].Version \in Nat /\ Kvmap'[k].Version > Kvmap[k].Version
    PROVE  GetOK(d)' /\ ReturnOK(d)'
<1>1. GetOK(d) /\ ReturnOK(d)
  BY DEF KInv
<1> USE <1>1
<1>2. GetOK(d)'
  <2> SUFFICES ASSUME op[d].op = "Get", phase[d] # "called", reply[d].Err = OK
               PROVE  LET k == op[d].Key
                      IN  /\ k \in exists'
                          /\ reply[d].Version <= Kvmap'[k].Version
                          /\ reply[d].Version = Kvmap'[k].Version => reply[d].Value = Kvmap'[k].Value
                          /\ k # LockKey => reply[d].Value \in Seq(Entries)
    BY DEF GetOK, Still
  <2>1. PICK k \in Keys : k = op[d].Key
    BY OpFacts DEF KInv, IInv
  <2> USE <2>1
  <2>2. /\ k \in exists /\ reply[d].Version <= Kvmap[k].Version
        /\ reply[d].Version = Kvmap[k].Version => reply[d].Value = Kvmap[k].Value
        /\ k # LockKey => reply[d].Value \in Seq(Entries)
    BY DEF GetOK
  <2> USE <2>2
  <2>3. reply[d].Version \in Nat /\ Kvmap[k].Version \in Nat
    BY SMTT(30) DEF KInv, IInv, TypeOK, Replies, NoReply, Reply
  <2>4. CASE Kvmap'[k] = Kvmap[k]
    BY <2>4
  <2>5. CASE Kvmap'[k].Version \in Nat /\ Kvmap'[k].Version > Kvmap[k].Version
    BY <2>3, <2>5
  <2> QED
    BY <2>4, <2>5
<1>3. ReturnOK(d)'
  BY DEF ReturnOK, Still, Result
<1> QED
  BY <1>2, <1>3

(* The steps that leave the server alone. *)
LEMMA ClerkKInv ==
    ASSUME KInv, IInv', NEW c \in Clerks, Others(c), UNCHANGED <<exists, Kvmap>>,
           GetOK(c)', ReturnOK(c)',
           op'[c].op = "Put" /\ op'[c].Key # LockKey => op'[c].Value \in Seq(Entries)
    PROVE  KInv'
<1>1. ASSUME NEW d \in Clerks, d # c PROVE GetOK(d)' /\ ReturnOK(d)'
  BY <1>1, StillOK DEF Others
<1>2. ListsPut'
  BY DEF KInv, ListsPut, Others, Still
<1> QED
  BY <1>1, <1>2 DEF KInv

LEMMA InvokeKInv ==
    ASSUME KInv, NEW c \in Clerks, NEW o \in GetOps \cup PutOps, Invoke(c, o),
           o.op = "Put" /\ o.Key # LockKey => o.Value \in Seq(Entries)
    PROVE  KInv'
<1>1. IInv /\ IInv'
  BY InvokeStep DEF KInv
<1> USE <1>1
<1>2. /\ Others(c) /\ UNCHANGED <<exists, Kvmap>> /\ op'[c] = o /\ phase'[c] = "called"
  BY InvokeMoves
<1> USE <1>2
<1>3. GetOK(c)' /\ ReturnOK(c)'
  BY DEF GetOK, ReturnOK
<1> QED
  BY <1>3, ClerkKInv

LEMMA GetKInv ==
    ASSUME KInv, NEW c \in Clerks, Get(c)
    PROVE  KInv'
<1>1. IInv /\ IInv'
  BY GetStep DEF KInv
<1> USE <1>1
<1>2. /\ Others(c) /\ UNCHANGED <<exists, Kvmap, op, resend>>
      /\ phase'[c] = "served" /\ op[c].op = "Get"
      /\ op[c].Key \in Keys /\ reply'[c] = GetReply(op[c].Key)
  BY GetMoves
<1> USE <1>2
<1>3. GetOK(c)'
  <2>1. PICK k \in Keys : k = op[c].Key
    OBVIOUS
  <2> USE <2>1
  <2>2. Kvmap[k].Version \in Nat
    BY DEF IInv, TypeOK
  <2>3. /\ k \in exists => reply'[c] = Reply(Kvmap[k].Value, Kvmap[k].Version, OK)
        /\ k \notin exists => reply'[c] = Reply(Empty, 0, ErrNoKey)
    BY DEF GetReply
  <2>4. /\ reply'[c].Err \in {OK, ErrNoKey}
        /\ reply'[c].Err = OK => /\ k \in exists /\ reply'[c].Version = Kvmap[k].Version
                                /\ reply'[c].Value = Kvmap[k].Value
    BY SMTT(30), <2>3, ReplyParts DEF OK, ErrNoKey
  <2>5. Kvmap[k].Version <= Kvmap[k].Version
    BY <2>2
  <2>6. k \in exists /\ k # LockKey => Kvmap[k].Value \in Seq(Entries)
    BY DEF KInv, ListsPut
  <2> QED
    BY <2>4, <2>5, <2>6 DEF GetOK
<1>4. ReturnOK(c)'
  BY DEF ReturnOK, KInv
<1> QED
  BY <1>3, <1>4, ClerkKInv DEF KInv, ListsPut

LEMMA FailKInv ==
    ASSUME KInv, NEW c \in Clerks, CallFails(c)
    PROVE  KInv'
<1>1. IInv /\ IInv'
  BY FailStep DEF KInv
<1> USE <1>1
<1>2. /\ Others(c) /\ UNCHANGED <<exists, Kvmap, op>> /\ phase'[c] = "called"
  BY FailMoves
<1> USE <1>2
<1>3. GetOK(c)' /\ ReturnOK(c)'
  BY DEF GetOK, ReturnOK
<1> QED
  BY <1>3, ClerkKInv DEF KInv, ListsPut

LEMMA ReturnKInv ==
    ASSUME KInv, NEW c \in Clerks, Return(c)
    PROVE  KInv'
<1>1. IInv /\ IInv'
  BY ReturnStep DEF KInv
<1> USE <1>1
<1>2. /\ Others(c) /\ UNCHANGED <<exists, Kvmap, op, resend, reply>>
      /\ phase[c] = "served" /\ phase'[c] = "idle" /\ result'[c] = Result(c)
  BY ReturnMoves
<1> USE <1>2
<1>3. GetOK(c)'
  BY DEF GetOK, KInv
<1>4. ReturnOK(c)'
  <2>1. Result(c)' = Result(c)
    BY DEF Result
  <2> QED
    BY <2>1 DEF ReturnOK, KInv
<1> QED
  BY <1>3, <1>4, ClerkKInv DEF KInv, ListsPut

LEMMA PutKInv ==
    ASSUME KInv, NEW c \in Clerks, Put(c)
    PROVE  KInv'
<1>1. IInv /\ IInv'
  BY PutStep DEF KInv
<1> USE <1>1
<1>2. /\ Others(c) /\ UNCHANGED <<op, resend, result>>
      /\ phase[c] = "called" /\ phase'[c] = "served" /\ op[c].op = "Put"
      /\ op[c].Key \in Keys /\ op[c].Version \in Nat
      /\ PutTakes(c) \/ PutFails(c)
  BY PutMoves
<1> USE <1>2
<1>3. GetOK(c)'
  BY DEF GetOK
<1>4. ReturnOK(c)'
  BY DEF ReturnOK, KInv, PutTakes, PutFails
<1>5. CASE PutFails(c)
  BY <1>3, <1>4, <1>5, ClerkKInv DEF KInv, ListsPut, PutFails
<1>6. CASE PutTakes(c)
  <2>1. PICK k \in Keys : k = op[c].Key
    OBVIOUS
  <2> USE <2>1
  <2>2. /\ exists' = exists \cup {k}
        /\ Kvmap'[k].Value = op[c].Value /\ Kvmap'[k].Version = Kvmap[k].Version + 1
        /\ \A j \in Keys \ {k} : Kvmap'[j] = Kvmap[j]
    BY SMTT(30), <1>6 DEF PutTakes
  <2> USE <2>2
  <2>3. \A j \in Keys : Kvmap[j].Version \in Nat
    BY DEF IInv, TypeOK
  <2>4. ASSUME NEW d \in Clerks, d # c PROVE GetOK(d)' /\ ReturnOK(d)'
    <3>1. \A j \in Keys : \/ Kvmap'[j] = Kvmap[j]
                          \/ Kvmap'[j].Version \in Nat /\ Kvmap'[j].Version > Kvmap[j].Version
      BY SMTT(30), <2>3
    <3> QED
      BY <2>4, <3>1, StillOK DEF Others
  <2>5. ListsPut'
    <3>1. \A d \in Clerks : op'[d] = op[d]
      OBVIOUS
    <3>2. op[c].Key # LockKey => op[c].Value \in Seq(Entries)
      BY DEF KInv, ListsPut
    <3>3. exists \subseteq Keys
      BY DEF IInv, TypeOK
    <3> QED
      BY <3>1, <3>2, <3>3 DEF KInv, ListsPut
  <2> QED
    BY <1>3, <1>4, <2>4, <2>5 DEF KInv
<1> QED
  BY <1>5, <1>6

LEMMA SameKInv ==
    ASSUME KInv, UNCHANGED vars
    PROVE  KInv'
<1>1. UNCHANGED <<exists, Kvmap, op, phase, resend, reply, result, performed>>
  BY DEF vars, server, clerk
<1> USE <1>1
<1>2. IInv'
  BY NextIInv DEF KInv
<1>3. ASSUME NEW d \in Clerks PROVE GetOK(d)' /\ ReturnOK(d)'
  BY StillOK DEF Still
<1>4. ListsPut'
  BY DEF KInv, ListsPut
<1> QED
  BY <1>2, <1>3, <1>4 DEF KInv
-----------------------------------------------------------------------------
(***************************************************************************)
(* Clients and their programs                                              *)
(***************************************************************************)
(* A client that does not move. *)
Same(d) ==
    /\ Still(d) /\ tpc'[d] = tpc[d] /\ iter'[d] = iter[d]
    /\ ver'[d] = ver[d] /\ err'[d] = err[d] /\ res'[d] = res[d]

Grows(k) ==
    Kvmap'[k] = Kvmap[k] \/ (Kvmap'[k].Version \in Nat /\ Kvmap'[k].Version > Kvmap[k].Version)

(* Clients are clerks, and the keys of the tests are keys. *)
LEMMA ClientFacts ==
    /\ \A c \in Clients : c \in Clerks /\ c # Checker /\ c \in Keys /\ c # LockKey
    /\ Checker \in Clerks
    /\ SharedKey \in Keys /\ SharedKey # LockKey /\ GuardedKey \in Keys /\ GuardedKey # LockKey
  BY TestAssumption DEF Clients

(* The server's versions are numbers, and 0 exactly if the key is missing. *)
LEMMA VersionFacts ==
    ASSUME KInv, NEW k \in Keys
    PROVE  /\ Kvmap[k].Version \in Nat
           /\ k \in exists <=> Kvmap[k].Version # 0
  BY SMTT(30) DEF KInv, IInv, TypeOK, ServerOK

(* A Put that was OK has been performed, and the key's version is past it. *)
LEMMA PutDone ==
    ASSUME KInv, NEW c \in Clerks, phase[c] = "idle", op[c].op = "Put"
    PROVE  /\ result[c].Err = OK => performed[c] = 1
           /\ result[c].Err \in {ErrVersion, ErrNoKey} => performed[c] = 0
           /\ performed[c] \in {0, 1}
           /\ performed[c] = 1 => Kvmap[op[c].Key].Version > op[c].Version
           /\ result[c].Err \in {reply[c].Err, ErrMaybe}
           /\ reply[c].Err \in {OK, ErrNoKey, ErrVersion}
<1>1. /\ result[c].Err = OK => performed[c] = 1
      /\ result[c].Err \in {ErrVersion, ErrNoKey} => performed[c] = 0
      /\ performed[c] \in {0, 1}
      /\ performed[c] = 1 => Kvmap[op[c].Key].Version > op[c].Version
  BY DEF KInv, IInv, ClerksOK, PutOK
<1>2. result[c] = Result(c) /\ reply[c].Err \in {OK, ErrNoKey, ErrVersion}
  BY DEF KInv, ReturnOK, NoOp
<1> USE <1>2
<1>3. result[c].Err \in {reply[c].Err, ErrMaybe}
  BY SMTT(30), ReplyParts DEF Result
<1> QED
  BY <1>1, <1>3 DEF OK, ErrNoKey, ErrVersion, ErrMaybe

(* A Get returns what the server replied. *)
LEMMA GetDone ==
    ASSUME KInv, NEW c \in Clerks, phase[c] = "idle", op[c].op = "Get"
    PROVE  result[c] = reply[c]
  BY DEF KInv, ReturnOK, NoOp, Result

(* A step of a client's program: it leaves the server and the others alone. *)
Programs(c) ==
    /\ UNCHANGED <<exists, Kvmap, fn, reliable>>
    /\ \A d \in Clients \ {c} : Same(d)
    /\ \A d \in Clerks \ {c} : Still(d) /\ tpc'[d] = tpc[d]

(* The client goes on without an operation, or asks for one. *)
LEMMA GoesProgram ==
    ASSUME TestVarsOK, NEW c \in Clients, NEW l \in TestLocations, UNCHANGED <<vars, fn, reliable>>,
           Jump(c, l), \A d \in Clients \ {c} :
               iter'[d] = iter[d] /\ ver'[d] = ver[d] /\ err'[d] = err[d] /\ res'[d] = res[d]
    PROVE  /\ Programs(c) /\ tpc' \in [Clerks -> TestLocations] /\ tpc'[c] = l
           /\ UNCHANGED <<op, phase, reply, result, performed, Shared>>
<1>1. UNCHANGED <<exists, Kvmap, op, phase, resend, reply, result, performed>>
  BY DEF vars, server, clerk
<1>2. tpc' \in [Clerks -> TestLocations] /\ tpc'[c] = l /\ \A d \in Clerks \ {c} : tpc'[d] = tpc[d]
  BY ClientFacts DEF Jump, TestVarsOK
<1>3. \A d \in Clients : d \in Clerks
  BY ClientFacts
<1> QED
  BY <1>1, <1>2, <1>3 DEF Programs, Same, Still, Shared

LEMMA AsksProgram ==
    ASSUME KInv, TestVarsOK, NEW c \in Clients, NEW l \in TestLocations, NEW o, Invoke(c, o),
           UNCHANGED <<fn, reliable>>,
           Jump(c, l), \A d \in Clients \ {c} :
               iter'[d] = iter[d] /\ ver'[d] = ver[d] /\ err'[d] = err[d] /\ res'[d] = res[d]
    PROVE  /\ Programs(c) /\ tpc' \in [Clerks -> TestLocations] /\ tpc'[c] = l
           /\ op'[c] = o /\ phase'[c] = "called" /\ performed'[c] = 0 /\ Shared' = Shared
<1>1. c \in Clerks /\ IInv
  BY ClientFacts DEF KInv
<1> USE <1>1
<1>2. /\ UNCHANGED <<exists, Kvmap>> /\ Others(c)
      /\ op'[c] = o /\ phase'[c] = "called" /\ performed'[c] = 0
  BY InvokeMoves
<1>3. tpc' \in [Clerks -> TestLocations] /\ tpc'[c] = l /\ \A d \in Clerks \ {c} : tpc'[d] = tpc[d]
  BY DEF Jump, TestVarsOK
<1>4. \A d \in Clients : d \in Clerks
  BY ClientFacts
<1> QED
  BY <1>2, <1>3, <1>4 DEF Programs, Same, Others, Shared

(* The variables of the client programs keep their types. *)
LEMMA ProgramTypes ==
    ASSUME TestVarsOK, tpc' \in [Clerks -> TestLocations], UNCHANGED <<fn, reliable, history>>,
           iter' \in [Clients -> 0 .. MaxIter], ver' \in [Clients -> Nat],
           err' \in [Clients -> {OK, ErrVersion, ErrMaybe}],
           res' \in [Clients -> [Nok : Nat, Nmaybe : Nat]]
    PROVE  TestVarsOK'
  BY DEF TestVarsOK

(* A list with one entry. *)
LEMMA OneEntry ==
    ASSUME ListsAreValues, NEW c \in Clients, NEW n \in Nat
    PROVE  /\ <<Entry(c, n)>> \in Seq(Entries) /\ <<Entry(c, n)>> \in Values
           /\ <<Entry(c, n)>>[1].Id = c /\ Entry(c, n) \in Entries
<1>1. Entry(c, n) \in Entries /\ Entry(c, n).Id = c
  BY DEF Entry, Entries
<1> USE <1>1
<1>2. <<Entry(c, n)>> \in Seq(Entries) /\ <<Entry(c, n)>>[1] = Entry(c, n)
  OBVIOUS
<1> QED
  BY <1>2 DEF ListsAreValues

(* Counting keeps the types, and adds one. *)
LEMMA CountedOne ==
    ASSUME TestVarsOK, NEW c \in Clients, NEW e, res' = Counted(c, e)
    PROVE  /\ res' \in [Clients -> [Nok : Nat, Nmaybe : Nat]]
           /\ \A d \in Clients \ {c} : res'[d] = res[d]
           /\ res'[c].Nok = res[c].Nok + IF e = OK THEN 1 ELSE 0
           /\ res'[c].Nmaybe = res[c].Nmaybe + IF e = OK THEN 0 ELSE 1
<1>1. res \in [Clients -> [Nok : Nat, Nmaybe : Nat]]
  BY DEF TestVarsOK
<1> USE <1>1
<1>2. CASE e = OK
  <2> USE <1>2
  <2>1. res' = [res EXCEPT ![c].Nok = @ + 1]
    BY DEF Counted
  <2> QED
    BY SMTT(30), <2>1
<1>3. CASE e # OK
  <2> USE <1>3
  <2>1. res' = [res EXCEPT ![c].Nmaybe = @ + 1]
    BY DEF Counted
  <2> QED
    BY SMTT(30), <2>1
<1> QED
  BY <1>2, <1>3

(* A step of the network or of the server. *)
Moves(c) == Get(c) \/ Put(c) \/ Return(c) \/ CallFails(c)

LEMMA NetMoves ==
    ASSUME KInv, NEW c \in Clerks, Moves(c)
    PROVE  /\ Others(c) /\ op' = op /\ exists \subseteq exists' /\ phase[c] # "idle"
           /\ \A k \in Keys : Grows(k)
           /\ UNCHANGED <<exists, Kvmap, performed>> \/ (Put(c) /\ PutTakes(c))
           /\ op[c].op # "Put" => UNCHANGED <<exists, Kvmap, performed>>
<1>0. IInv
  BY DEF KInv
<1> USE <1>0
<1>1. CASE Get(c)
  BY <1>1, GetMoves DEF Grows
<1>2. CASE Return(c)
  BY <1>2, ReturnMoves DEF Grows
<1>3. CASE CallFails(c)
  BY <1>3, FailMoves DEF Grows
<1>4. CASE Put(c)
  <2> USE <1>4
  <2>1. /\ Others(c) /\ op' = op /\ op[c].op = "Put" /\ phase[c] = "called"
        /\ op[c].Key \in Keys /\ op[c].Version \in Nat
        /\ PutTakes(c) \/ PutFails(c)
    BY PutMoves
  <2> USE <2>1
  <2>2. CASE PutFails(c)
    BY <2>2 DEF PutFails, Grows
  <2>3. CASE PutTakes(c)
    <3> USE <2>3
    <3>1. PICK k \in Keys : k = op[c].Key
      OBVIOUS
    <3>2. /\ exists' = exists \cup {k} /\ Kvmap'[k].Version = Kvmap[k].Version + 1
          /\ \A j \in Keys \ {k} : Kvmap'[j] = Kvmap[j]
      BY SMTT(30), <3>1 DEF PutTakes
    <3> USE <3>2
    <3>3. Kvmap[k].Version \in Nat
      BY VersionFacts
    <3>4. \A j \in Keys : Grows(j)
      BY <3>3 DEF Grows
    <3> QED
      BY <3>4
  <2> QED
    BY <2>2, <2>3
<1> QED
  BY <1>1, <1>2, <1>3, <1>4 DEF Moves

LEMMA MovesKInv ==
    ASSUME KInv, NEW c \in Clerks, Moves(c)
    PROVE  KInv'
  BY GetKInv, PutKInv, ReturnKInv, FailKInv DEF Moves

LEMMA MovesTypes ==
    ASSUME TestVarsOK, UNCHANGED <<fn, reliable, client>>, DOMAIN history' = Keys
    PROVE  TestVarsOK'
  BY DEF TestVarsOK, client

(* All clients but one that moves are the same. *)
LEMMA MovesSame ==
    ASSUME NEW c \in Clerks, Others(c), UNCHANGED client
    PROVE  \A d \in Clients \ {c} : Same(d)
  BY ClientFacts DEF Others, Same, client

-----------------------------------------------------------------------------
(***************************************************************************)
(* OneClientPut                                                            *)
(***************************************************************************)
(* A Put that was performed is what the next version holds, and a Get of   *)
(* that version has read it.                                                *)
OwnPut(c) == <<Entry(c, ver[c])>>

PutClient(c) ==
    /\ tpc[c] \in {"loop", "put", "get", "done"}
    /\ ver[c] <= Shared.Version
    /\ tpc[c] \in {"loop", "done"} => phase[c] = "idle" /\ (iter[c] > 0 => SharedKey \in exists)
    /\ tpc[c] = "put" =>
          /\ op[c] = PutOf(SharedKey, OwnPut(c), ver[c])
          /\ phase[c] # "called" => SharedKey \in exists /\ reply[c].Err # ErrNoKey
          /\ performed[c] = 1 /\ Shared.Version = ver[c] + 1 => Shared.Value = OwnPut(c)
    /\ tpc[c] = "get" =>
          /\ op[c] = GetOf(SharedKey) /\ SharedKey \in exists
          /\ phase[c] # "called" => reply[c].Err = OK
          /\ err[c] = OK =>
                /\ Shared.Version > ver[c]
                /\ Shared.Version = ver[c] + 1 => Shared.Value = OwnPut(c)
                /\ phase[c] # "called" /\ reply[c].Version = ver[c] + 1 => reply[c].Value = OwnPut(c)

PutInv == \A c \in Clients : PutClient(c)

(* A client that does not move. *)
LEMMA PutFrame ==
    ASSUME KInv, TestVarsOK, NEW d \in Clients, PutClient(d), Same(d),
           exists \subseteq exists', Grows(SharedKey)
    PROVE  PutClient(d)'
<1>1. Shared.Version \in Nat /\ ver[d] \in Nat /\ ver[d] <= Shared.Version
  BY VersionFacts, ClientFacts DEF Shared, TestVarsOK, PutClient
<1> USE <1>1
<1>2. Shared' = Shared \/ (Shared'.Version \in Nat /\ Shared'.Version > Shared.Version)
  BY DEF Grows, Shared
<1> USE <1>2
<1>3. OwnPut(d)' = OwnPut(d)
  BY DEF OwnPut, Same
<1>4. ver'[d] <= Shared'.Version
  BY DEF Same
<1>5. ASSUME tpc[d] = "put", performed[d] = 1, Shared'.Version = ver[d] + 1
      PROVE  Shared'.Value = OwnPut(d)
  <2> USE <1>5
  <2>1. op[d] = PutOf(SharedKey, OwnPut(d), ver[d])
    BY DEF PutClient
  <2>2. op[d].op = "Put" /\ op[d].Key = SharedKey /\ op[d].Version = ver[d]
    BY SMTT(30), <2>1, OpParts
  <2>3. Shared.Version > ver[d]
    BY <2>2, ClientFacts DEF KInv, IInv, ClerksOK, PutOK, Shared
  <2>4. Shared' = Shared
    BY <2>3
  <2> QED
    BY <2>4 DEF PutClient
<1>6. ASSUME tpc[d] = "get", err[d] = OK
      PROVE  /\ Shared'.Version > ver[d]
             /\ Shared'.Version = ver[d] + 1 => Shared'.Value = OwnPut(d)
  <2>1. /\ Shared.Version > ver[d]
        /\ Shared.Version = ver[d] + 1 => Shared.Value = OwnPut(d)
    BY <1>6 DEF PutClient
  <2> QED
    BY <2>1
<1> QED
  BY <1>3, <1>4, <1>5, <1>6 DEF PutClient, Same, Still

(* Its operation is served, lost or answered. *)
LEMMA PutServed ==
    ASSUME KInv, TestVarsOK, NEW c \in Clients, PutClient(c), UNCHANGED client,
           Get(c) \/ Put(c) \/ Return(c) \/ CallFails(c)
    PROVE  PutClient(c)'
<1>0. IInv /\ c \in Clerks /\ UNCHANGED <<tpc, iter, ver, err, res>>
  BY ClientFacts DEF KInv, client
<1> USE <1>0
<1>1. OwnPut(c)' = OwnPut(c)
  BY DEF OwnPut
<1>2. Shared.Version \in Nat /\ ver[c] \in Nat /\ ver[c] <= Shared.Version
  BY VersionFacts, ClientFacts DEF Shared, TestVarsOK, PutClient
<1>3. /\ tpc[c] = "put" => op[c].op = "Put"
      /\ tpc[c] = "get" => op[c].op = "Get" /\ op[c].Key = SharedKey
  <2>1. /\ tpc[c] = "put" => op[c] = PutOf(SharedKey, OwnPut(c), ver[c])
        /\ tpc[c] = "get" => op[c] = GetOf(SharedKey)
    BY DEF PutClient
  <2> QED
    BY <2>1 DEF PutOf, GetOf
<1>4. CASE Get(c)
  <2>1. /\ UNCHANGED <<exists, Kvmap, op, performed>> /\ op[c].op = "Get" /\ phase[c] = "called"
        /\ reply'[c] = GetReply(op[c].Key)
    BY <1>4, GetMoves
  <2> USE <2>1
  <2>2. tpc[c] = "get" /\ op[c].Key = SharedKey
    BY <1>3 DEF PutClient
  <2> USE <2>2
  <2>3. SharedKey \in exists
    BY DEF PutClient
  <2>4. reply'[c].Err = OK /\ reply'[c].Version = Shared.Version /\ reply'[c].Value = Shared.Value
    BY SMTT(30), <2>3, ReplyParts DEF GetReply, Shared
  <2>5. Shared' = Shared
    BY DEF Shared
  <2> QED
    BY <1>1, <2>4, <2>5 DEF PutClient
<1>5. CASE Put(c)
  <2>1. /\ op' = op /\ phase[c] = "called" /\ op[c].op = "Put"
        /\ PutTakes(c) \/ PutFails(c)
    BY <1>5, PutMoves
  <2> USE <2>1
  <2>2. tpc[c] = "put" /\ op[c] = PutOf(SharedKey, OwnPut(c), ver[c])
    BY <1>3 DEF PutClient
  <2> USE <2>2
  <2>3. op[c].Key = SharedKey /\ op[c].Value = OwnPut(c) /\ op[c].Version = ver[c]
    BY SMTT(30), OpParts
  <2> USE <2>3
  <2>4. CASE PutTakes(c)
    <3>1. /\ SharedKey \in exists' /\ reply'[c].Err = OK
          /\ Shared'.Value = OwnPut(c) /\ Shared'.Version = ver[c] + 1
      BY SMTT(30), <2>4 DEF PutTakes, Shared
    <3> USE <3>1
    <3>2. reply'[c].Err # ErrNoKey /\ ver[c] <= ver[c] + 1
      BY <1>2 DEF OK, ErrNoKey
    <3> QED
      BY <1>1, <3>2 DEF PutClient
  <2>5. CASE PutFails(c)
    <3>1. /\ UNCHANGED <<exists, Kvmap, performed>> /\ ver[c] # Shared.Version
          /\ reply'[c].Err = IF SharedKey \in exists THEN ErrVersion ELSE ErrNoKey
      BY <2>5 DEF PutFails, Shared
    <3> USE <3>1
    <3>2. SharedKey \in exists
      BY <1>2, VersionFacts, ClientFacts DEF Shared
    <3> USE <3>2
    <3>3. reply'[c].Err # ErrNoKey /\ Shared' = Shared
      BY DEF ErrVersion, ErrNoKey, Shared
    <3> QED
      BY <1>1, <3>3 DEF PutClient
  <2> QED
    BY <2>4, <2>5
<1>6. CASE Return(c)
  <2>1. /\ UNCHANGED <<exists, Kvmap, op, reply, performed>> /\ phase[c] = "served" /\ phase'[c] = "idle"
    BY <1>6, ReturnMoves
  <2> USE <2>1
  <2>2. Shared' = Shared
    BY DEF Shared
  <2> QED
    BY <1>1, <2>2 DEF PutClient
<1>7. CASE CallFails(c)
  <2>1. /\ UNCHANGED <<exists, Kvmap, op, reply, performed>> /\ phase[c] # "idle" /\ phase'[c] = "called"
    BY <1>7, FailMoves
  <2> USE <2>1
  <2>2. Shared' = Shared
    BY DEF Shared
  <2> QED
    BY <1>1, <2>2 DEF PutClient
<1> QED
  BY <1>4, <1>5, <1>6, <1>7

(* The put of OnePut, at the head of the loop or once more. *)
LEMMA WritesPut ==
    ASSUME ListsAreValues, KInv, TestVarsOK, NEW c \in Clients, NEW n \in Nat, n <= Shared.Version,
           OnePutWrite(c, n), UNCHANGED <<fn, reliable, history, err, res>>,
           iter' \in [Clients -> 0 .. MaxIter], ver' \in [Clients -> Nat], ver'[c] = n,
           \A d \in Clients \ {c} : iter'[d] = iter[d] /\ ver'[d] = ver[d]
    PROVE  KInv' /\ TestVarsOK' /\ PutClient(c)' /\ Programs(c)
<1> DEFINE o == PutOf(SharedKey, <<Entry(c, n)>>, n)
<1>1. Invoke(c, o) /\ Jump(c, "put") /\ "put" \in TestLocations
  BY DEF OnePutWrite, PutJson, PutOf, TestLocations
<1> USE <1>1
<1>2. o \in PutOps /\ o.Value \in Seq(Entries)
  <2>1. <<Entry(c, n)>> \in Seq(Entries) /\ <<Entry(c, n)>> \in Values /\ SharedKey \in Keys
    BY OneEntry, ClientFacts
  <2> QED
    BY <2>1 DEF PutOf, PutOps
<1> HIDE DEF o
<1>3. KInv'
  BY <1>2, InvokeKInv, ClientFacts
<1>4. /\ Programs(c) /\ tpc' \in [Clerks -> TestLocations] /\ tpc'[c] = "put"
      /\ op'[c] = o /\ phase'[c] = "called" /\ performed'[c] = 0 /\ Shared' = Shared
  BY AsksProgram
<1> USE <1>4
<1>5. TestVarsOK'
  BY ProgramTypes DEF TestVarsOK
<1>6. op'[c] = PutOf(SharedKey, OwnPut(c)', ver'[c])
  BY DEF o, OwnPut
<1>7. PutClient(c)'
  BY SMTT(30), <1>6 DEF PutClient
<1> QED
  BY <1>3, <1>5, <1>7

(* The steps of OneClientPut: no Fatalf. *)
LEMMA PutRuns ==
    ASSUME ListsAreValues, KInv, TestVarsOK, NEW c \in Clients, PutClient(c),
           UNCHANGED <<fn, reliable, history>>,
           Stop(c) \/ OneClientPut(c) \/ OnePutAnswered(c) \/ OnePutRead(c)
    PROVE  KInv' /\ TestVarsOK' /\ PutClient(c)' /\ Programs(c)
<1>0. c \in Clerks /\ IInv /\ res[c].Nok \in Nat /\ res[c].Nmaybe \in Nat /\ ver[c] \in Nat
  BY ClientFacts DEF KInv, TestVarsOK
<1> USE <1>0
<1>1. Shared.Version \in Nat
  BY VersionFacts, ClientFacts DEF Shared
<1>2. CASE Stop(c)
  <2>1. /\ tpc[c] = "loop" /\ iter[c] > 0 /\ Jump(c, "done") /\ UNCHANGED <<vars, iter, ver, err, res>>
        /\ "done" \in TestLocations
    BY <1>2 DEF Stop, At, TestLocations
  <2> USE <2>1
  <2>2. /\ Programs(c) /\ tpc' \in [Clerks -> TestLocations] /\ tpc'[c] = "done"
        /\ UNCHANGED <<op, phase, reply, result, performed, Shared>>
    BY GoesProgram
  <2> USE <2>2
  <2>3. KInv' /\ TestVarsOK'
    BY SameKInv, ProgramTypes DEF TestVarsOK
  <2>4. PutClient(c)'
    BY DEF PutClient, Programs
  <2> QED
    BY <2>3, <2>4
<1>3. CASE OneClientPut(c)
  <2>1. /\ tpc[c] = "loop" /\ iter[c] < MaxIter /\ iter' = [iter EXCEPT ![c] = @ + 1]
        /\ OnePutWrite(c, ver[c]) /\ UNCHANGED <<ver, err, res>>
    BY <1>3 DEF OneClientPut, Iterate, At
  <2> USE <2>1
  <2>2. iter' \in [Clients -> 0 .. MaxIter] /\ \A d \in Clients \ {c} : iter'[d] = iter[d]
    BY SMTT(30), TestAssumption DEF TestVarsOK
  <2>3. ver[c] <= Shared.Version
    BY DEF PutClient
  <2> QED
    BY <2>2, <2>3, WritesPut DEF TestVarsOK
<1>4. CASE OnePutAnswered(c)
  <2>1. tpc[c] = "put" /\ phase[c] = "idle"
    BY <1>4 DEF OnePutAnswered, At
  <2> USE <2>1
  <2>2. op[c] = PutOf(SharedKey, OwnPut(c), ver[c]) /\ reply[c].Err # ErrNoKey /\ SharedKey \in exists
    BY DEF PutClient
  <2> USE <2>2
  <2>3. op[c].op = "Put" /\ op[c].Key = SharedKey /\ op[c].Version = ver[c]
    BY DEF PutOf
  <2>4. /\ result[c].Err = OK => performed[c] = 1
        /\ result[c].Err = ErrVersion => performed[c] = 0
        /\ performed[c] \in {0, 1}
        /\ performed[c] = 1 => Shared.Version > ver[c]
        /\ result[c].Err \in {OK, ErrVersion, ErrMaybe}
    BY <2>3, PutDone DEF Shared
  <2> USE <2>4
  <2>5. /\ err' = [err EXCEPT ![c] = result[c].Err] /\ Invoke(c, GetOf(SharedKey))
        /\ Jump(c, "get") /\ UNCHANGED <<iter, ver, res>> /\ "get" \in TestLocations
    BY <1>4 DEF OnePutAnswered, GetJson, GetOf, OK, ErrNoKey, ErrVersion,
       ErrMaybe, TestLocations
  <2> USE <2>5
  <2>6. /\ err' \in [Clients -> {OK, ErrVersion, ErrMaybe}] /\ err'[c] = result[c].Err
        /\ \A d \in Clients \ {c} : err'[d] = err[d]
    BY DEF TestVarsOK
  <2> USE <2>6
  <2>7. /\ Programs(c) /\ tpc' \in [Clerks -> TestLocations] /\ tpc'[c] = "get"
        /\ op'[c] = GetOf(SharedKey) /\ phase'[c] = "called" /\ performed'[c] = 0 /\ Shared' = Shared
    BY AsksProgram
  <2> USE <2>7
  <2>8. KInv'
    <3>1. GetOf(SharedKey) \in GetOps /\ GetOf(SharedKey).op = "Get"
      BY OpParts, ClientFacts
    <3> QED
      BY <3>1, InvokeKInv
  <2>9. TestVarsOK'
    BY ProgramTypes DEF TestVarsOK
  <2>10. err'[c] = OK =>
            Shared.Version > ver[c] /\ (Shared.Version = ver[c] + 1 => Shared.Value = OwnPut(c))
    BY DEF PutClient
  <2>11. PutClient(c)'
    <3>1. OwnPut(c)' = OwnPut(c) /\ ver[c] <= Shared.Version
      BY DEF OwnPut, PutClient
    <3> QED
      BY <2>10, <3>1 DEF PutClient, Programs
  <2> QED
    BY <2>8, <2>9, <2>11
<1>5. CASE OnePutRead(c)
  <2>1. tpc[c] = "get" /\ phase[c] = "idle"
    BY <1>5 DEF OnePutRead, At
  <2> USE <2>1
  <2>2. op[c] = GetOf(SharedKey) /\ reply[c].Err = OK /\ SharedKey \in exists
    BY DEF PutClient
  <2>3. op[c].op = "Get" /\ op[c].Key = SharedKey
    BY <2>2 DEF GetOf
  <2>4. result[c] = reply[c]
    BY <2>3, GetDone
  <2>5. result[c].Version <= Shared.Version /\ result[c].Version \in Nat
    <3>1. reply[c].Version \in Nat
      BY SMTT(30) DEF IInv, TypeOK, Replies, NoReply, Reply
    <3> QED
      BY <2>2, <2>3, <2>4, <3>1 DEF KInv, GetOK, Shared
  <2>6. ~WrongValue(c)
    <3>1. Mine(c) => result[c].Value = OwnPut(c)
      BY <2>4 DEF Mine, PutClient
    <3>2. OwnPut(c)[1].Id = c
      BY OneEntry DEF OwnPut
    <3> QED
      BY <3>1, <3>2 DEF WrongValue
  <2>7. /\ ver' = [ver EXCEPT ![c] = result[c].Version] /\ UNCHANGED <<iter, err>>
        /\ \/ err[c] = ErrVersion /\ OnePutWrite(c, result[c].Version) /\ UNCHANGED res
           \/ /\ err[c] # ErrVersion /\ res' = Counted(c, err[c]) /\ Jump(c, "loop") /\ UNCHANGED vars
    BY <1>5, <2>2, <2>4, <2>6 DEF OnePutRead, OK, ErrNoKey
  <2> USE <2>7
  <2>8. /\ ver' \in [Clients -> Nat] /\ ver'[c] = result[c].Version
        /\ \A d \in Clients \ {c} : ver'[d] = ver[d]
    BY <2>5 DEF TestVarsOK
  <2> USE <2>8
  <2>10. CASE err[c] = ErrVersion
    <3> USE <2>10
    <3>1. OnePutWrite(c, result[c].Version) /\ UNCHANGED res
      OBVIOUS
    <3> USE <3>1
    <3>2. iter' \in [Clients -> 0 .. MaxIter]
      BY DEF TestVarsOK
    <3> QED
      BY <2>5, <3>2, WritesPut
  <2>11. CASE err[c] # ErrVersion
    <3> USE <2>11
    <3>1. res' = Counted(c, err[c]) /\ Jump(c, "loop") /\ UNCHANGED vars /\ "loop" \in TestLocations
      BY DEF TestLocations
    <3> USE <3>1
    <3>2. /\ res' \in [Clients -> [Nok : Nat, Nmaybe : Nat]]
          /\ \A d \in Clients \ {c} : res'[d] = res[d]
          /\ res'[c].Nok = res[c].Nok + IF err[c] = OK THEN 1 ELSE 0
          /\ res'[c].Nmaybe = res[c].Nmaybe + IF err[c] = OK THEN 0 ELSE 1
      BY CountedOne
    <3> USE <3>2
    <3>3. /\ Programs(c) /\ tpc' \in [Clerks -> TestLocations] /\ tpc'[c] = "loop"
          /\ UNCHANGED <<op, phase, reply, result, performed, Shared>>
      BY GoesProgram
    <3> USE <3>3
    <3>4. KInv' /\ TestVarsOK'
      BY SameKInv, ProgramTypes DEF TestVarsOK
    <3>7. PutClient(c)'
      <4>1. exists' = exists
        BY DEF Programs
      <4> QED
        BY <2>2, <2>5, <4>1 DEF PutClient
    <3> QED
      BY <3>4, <3>7
  <2> QED
    BY <2>10, <2>11
<1> QED
  BY <1>2, <1>3, <1>4, <1>5

(* The server, the network and the clerk move. *)
LEMMA PutNet ==
    ASSUME KInv, TestVarsOK, PutInv, NEW c \in Clerks, Moves(c), UNCHANGED client
    PROVE  PutInv'
<1>1. Others(c) /\ exists \subseteq exists' /\ Grows(SharedKey)
  BY NetMoves, ClientFacts
<1>2. \A d \in Clients \ {c} : Same(d)
  BY <1>1, MovesSame
<1>3. ASSUME NEW d \in Clients PROVE PutClient(d)'
  <2>1. CASE d # c
    BY <1>1, <1>2, <2>1, PutFrame DEF PutInv
  <2>2. CASE d = c
    BY <2>2, PutServed DEF PutInv, Moves
  <2> QED
    BY <2>1, <2>2
<1> QED
  BY <1>3 DEF PutInv

(* A client's program moves. *)
LEMMA PutRun ==
    ASSUME ListsAreValues, KInv, TestVarsOK, PutInv, NEW c \in Clients,
           UNCHANGED <<fn, reliable, history>>,
           Stop(c) \/ OneClientPut(c) \/ OnePutAnswered(c) \/ OnePutRead(c)
    PROVE  KInv' /\ TestVarsOK' /\ PutInv' /\ Programs(c)
<1>1. KInv' /\ TestVarsOK' /\ PutClient(c)' /\ Programs(c)
  BY PutRuns DEF PutInv
<1> USE <1>1
<1>2. UNCHANGED <<exists, Kvmap>> /\ \A d \in Clients \ {c} : Same(d)
  BY DEF Programs
<1>3. ASSUME NEW d \in Clients, d # c PROVE PutClient(d)'
  <2>1. Grows(SharedKey)
    BY <1>2 DEF Grows
  <2> QED
    BY <1>2, <1>3, <2>1, PutFrame DEF PutInv
<1> QED
  BY <1>3 DEF PutInv
-----------------------------------------------------------------------------
(***************************************************************************)
(* PutAtLeastOnce                                                          *)
(***************************************************************************)
OnceClient(c) ==
    LET own == Kvmap[c] IN
    /\ tpc[c] \in {"loop", "once", "done"}
    /\ tpc[c] \in {"loop", "done"} =>
          /\ phase[c] = "idle" /\ own.Version = ver[c]
          /\ iter[c] > 0 => c \in exists /\ own.Value = <<Entry(c, iter[c])>>
    /\ tpc[c] = "once" =>
          /\ op[c] = PutOf(c, <<Entry(c, iter[c])>>, ver[c])
          /\ own.Version = ver[c] + performed[c]
          /\ performed[c] = 1 => c \in exists /\ own.Value = <<Entry(c, iter[c])>>
          /\ phase[c] # "called" => performed[c] = 1
    /\ op[c] = NoOp \/ (op[c].op = "Put" /\ op[c].Key = c)

OnceInv == \A c \in Clients : OnceClient(c)

(* Nobody else puts to a client's key. *)
LEMMA OnceFrame ==
    ASSUME NEW d \in Clients, OnceClient(d), Same(d), Kvmap'[d] = Kvmap[d], exists \subseteq exists'
    PROVE  OnceClient(d)'
  BY DEF OnceClient, Same, Still

(* Its operation is served, lost or answered. *)
LEMMA OnceServed ==
    ASSUME KInv, TestVarsOK, NEW c \in Clients, OnceClient(c), UNCHANGED client, Moves(c)
    PROVE  OnceClient(c)' /\ \A k \in Keys \ {c} : Kvmap'[k] = Kvmap[k]
<1>0. IInv /\ c \in Clerks /\ c \in Keys /\ UNCHANGED <<tpc, iter, ver, err, res>>
  BY ClientFacts DEF KInv, client
<1> USE <1>0
<1>1. phase[c] # "idle" /\ op' = op
  BY NetMoves
<1>2. tpc[c] = "once" /\ tpc'[c] = "once"
  BY <1>1 DEF OnceClient
<1>3. op[c] = PutOf(c, <<Entry(c, iter[c])>>, ver[c])
  BY <1>2 DEF OnceClient
<1>4. /\ op[c].op = "Put" /\ op[c].Key = c /\ op[c].Value = <<Entry(c, iter[c])>>
      /\ op[c].Version = ver[c]
  BY SMTT(30), <1>3, OpParts
<1> USE <1>4
<1>5. ver[c] \in Nat /\ performed[c] \in {0, 1}
  BY DEF TestVarsOK, IInv, ClerksOK, PutOK
<1>6. /\ Kvmap[c].Version = ver[c] + performed[c]
      /\ performed[c] = 1 => c \in exists /\ Kvmap[c].Value = <<Entry(c, iter[c])>>
      /\ phase[c] # "called" => performed[c] = 1
  BY <1>2 DEF OnceClient
<1>7. \/ /\ UNCHANGED <<exists, Kvmap, performed>>
         /\ phase'[c] # "called" => performed[c] = 1
      \/ PutTakes(c)
  <2>1. CASE Get(c)
    BY <2>1 DEF Get
  <2>2. CASE Put(c)
    <3>1. PutTakes(c) \/ PutFails(c)
      BY <2>2, PutMoves
    <3>2. CASE PutFails(c)
      <4>1. UNCHANGED <<exists, Kvmap, performed>> /\ ver[c] # Kvmap[c].Version
        BY <3>2 DEF PutFails
      <4> QED
        BY <1>5, <1>6, <4>1
    <3> QED
      BY <3>1, <3>2
  <2>3. CASE Return(c)
    <3>1. UNCHANGED <<exists, Kvmap, performed>> /\ phase[c] = "served"
      BY <2>3, ReturnMoves
    <3> QED
      BY <1>6, <3>1
  <2>4. CASE CallFails(c)
    <3>1. UNCHANGED <<exists, Kvmap, performed>> /\ phase'[c] = "called"
      BY <2>4, FailMoves
    <3> QED
      BY <3>1
  <2> QED
    BY <2>1, <2>2, <2>3, <2>4 DEF Moves
<1>8. CASE UNCHANGED <<exists, Kvmap, performed>> /\ (phase'[c] # "called" => performed[c] = 1)
  <2> USE <1>8
  <2>1. Kvmap' = Kvmap
    OBVIOUS
  <2>2. OnceClient(c)'
    BY <1>1, <1>2, <1>3, <1>6 DEF OnceClient
  <2> QED
    BY <2>1, <2>2
<1>9. CASE PutTakes(c)
  <2>1. /\ c \in exists' /\ performed'[c] = 1
        /\ Kvmap'[c].Value = <<Entry(c, iter[c])>> /\ Kvmap'[c].Version = ver[c] + 1
        /\ \A k \in Keys \ {c} : Kvmap'[k] = Kvmap[k]
    BY SMTT(30), <1>9 DEF PutTakes
  <2> USE <2>1
  <2>2. OnceClient(c)'
    BY <1>1, <1>2, <1>3 DEF OnceClient
  <2> QED
    BY <2>2
<1> QED
  BY <1>7, <1>8, <1>9

(* The client puts, at the head of the loop or once more. *)
LEMMA WritesOnce ==
    ASSUME ListsAreValues, KInv, TestVarsOK, NEW c \in Clients, NEW i \in Nat, NEW n \in Nat,
           OnceWrite(c, i, n), UNCHANGED <<fn, reliable, history, err, res>>,
           iter' \in [Clients -> 0 .. MaxIter], ver' \in [Clients -> Nat],
           iter'[c] = i, ver'[c] = n, Kvmap[c].Version = n,
           \A d \in Clients \ {c} : iter'[d] = iter[d] /\ ver'[d] = ver[d]
    PROVE  KInv' /\ TestVarsOK' /\ OnceClient(c)' /\ Programs(c)
<1>0. PICK o : o = PutOf(c, <<Entry(c, i)>>, n)
  OBVIOUS
<1> USE <1>0
<1>1. Invoke(c, o) /\ Jump(c, "once") /\ "once" \in TestLocations
  BY DEF OnceWrite, PutJson, PutOf, TestLocations
<1> USE <1>1
<1>2. /\ o \in PutOps /\ o.Value \in Seq(Entries) /\ o.op = "Put" /\ o.Key = c
  <2>1. <<Entry(c, i)>> \in Seq(Entries) /\ <<Entry(c, i)>> \in Values /\ c \in Keys
    BY OneEntry, ClientFacts
  <2>2. ASSUME NEW v, v \in Seq(Entries), v \in Values, o = PutOf(c, v, n)
        PROVE  o \in PutOps /\ o.Value \in Seq(Entries) /\ o.op = "Put" /\ o.Key = c
    BY ONLY <2>1, <2>2, OpParts, n \in Nat
  <2> QED
    BY ONLY ZenonT(10), <1>0, <2>1, <2>2
<1> USE <1>2
<1>3. KInv'
  BY InvokeKInv, ClientFacts
<1>4. /\ Programs(c) /\ tpc' \in [Clerks -> TestLocations] /\ tpc'[c] = "once"
      /\ op'[c] = o /\ phase'[c] = "called" /\ performed'[c] = 0
  BY SMTT(30), AsksProgram
<1> USE <1>4
<1>5. TestVarsOK'
  BY ProgramTypes DEF TestVarsOK
<1>6. Kvmap' = Kvmap /\ n = n + 0
  BY SMTT(30) DEF Programs
<1>7. OnceClient(c)'
  BY SMTT(30), <1>6 DEF OnceClient
<1> QED
  BY <1>3, <1>5, <1>7

(* The steps of PutAtLeastOnce: the answer ErrNoKey never comes, and after  *)
(* ErrMaybe or ErrVersion the next version is the right one to put with.    *)
LEMMA OnceRuns ==
    ASSUME ListsAreValues, KInv, TestVarsOK, NEW c \in Clients, OnceClient(c),
           UNCHANGED <<fn, reliable, history>>,
           Stop(c) \/ PutAtLeastOnce(c) \/ OnceAnswered(c)
    PROVE  KInv' /\ TestVarsOK' /\ OnceClient(c)' /\ Programs(c)
<1>0. c \in Clerks /\ ver[c] \in Nat /\ iter[c] \in Nat
  BY SMTT(30), ClientFacts, TestAssumption DEF TestVarsOK
<1> USE <1>0
<1>1. CASE Stop(c)
  <2>1. /\ tpc[c] = "loop" /\ Jump(c, "done") /\ UNCHANGED <<vars, iter, ver, err, res>>
        /\ "done" \in TestLocations
    BY <1>1 DEF Stop, At, TestLocations
  <2> USE <2>1
  <2>2. /\ Programs(c) /\ tpc' \in [Clerks -> TestLocations] /\ tpc'[c] = "done"
        /\ UNCHANGED <<op, phase>>
    BY GoesProgram
  <2> USE <2>2
  <2>3. KInv' /\ TestVarsOK'
    BY SameKInv, ProgramTypes DEF TestVarsOK
  <2>4. OnceClient(c)'
    BY DEF OnceClient, Programs
  <2> QED
    BY <2>3, <2>4
<1>2. CASE PutAtLeastOnce(c)
  <2>1. /\ tpc[c] = "loop" /\ iter[c] < MaxIter /\ iter' = [iter EXCEPT ![c] = @ + 1]
        /\ OnceWrite(c, iter[c] + 1, ver[c]) /\ UNCHANGED <<ver, err, res>>
    BY <1>2 DEF PutAtLeastOnce, Iterate, At
  <2> USE <2>1
  <2>2. /\ iter' \in [Clients -> 0 .. MaxIter] /\ iter'[c] = iter[c] + 1 /\ iter[c] + 1 \in Nat
        /\ \A d \in Clients \ {c} : iter'[d] = iter[d]
    BY SMTT(30), TestAssumption DEF TestVarsOK
  <2>3. Kvmap[c].Version = ver[c]
    BY DEF OnceClient
  <2> QED
    BY <2>2, <2>3, WritesOnce DEF TestVarsOK
<1>3. CASE OnceAnswered(c)
  <2>1. tpc[c] = "once" /\ phase[c] = "idle"
    BY <1>3 DEF OnceAnswered, At
  <2> USE <2>1
  <2>2. /\ op[c] = PutOf(c, <<Entry(c, iter[c])>>, ver[c]) /\ performed[c] = 1
        /\ Kvmap[c].Version = ver[c] + performed[c] /\ c \in exists
        /\ Kvmap[c].Value = <<Entry(c, iter[c])>>
    BY DEF OnceClient
  <2> USE <2>2
  <2>3. op[c].op = "Put" /\ op[c].Key = c
    BY SMTT(30), OpParts
  <2>4. result[c].Err # ErrNoKey
    BY SMTT(30), <2>3, PutDone
  <2>5. /\ ver' = [ver EXCEPT ![c] = ver[c] + 1] /\ UNCHANGED <<iter, err, res>>
        /\ \/ Jump(c, "loop") /\ UNCHANGED vars
           \/ OnceWrite(c, iter[c], ver[c] + 1)
    BY <1>3, <2>4 DEF OnceAnswered
  <2> USE <2>5
  <2>6. /\ ver' \in [Clients -> Nat] /\ ver'[c] = ver[c] + 1 /\ ver[c] + 1 \in Nat
        /\ \A d \in Clients \ {c} : ver'[d] = ver[d]
    BY SMTT(30) DEF TestVarsOK
  <2> USE <2>6
  <2>7. Kvmap[c].Version = ver[c] + 1
    OBVIOUS
  <2> USE <2>7
  <2>8. CASE Jump(c, "loop") /\ UNCHANGED vars
    <3> USE <2>8
    <3>0. "loop" \in TestLocations
      BY DEF TestLocations
    <3>1. /\ Programs(c) /\ tpc' \in [Clerks -> TestLocations] /\ tpc'[c] = "loop"
          /\ UNCHANGED <<op, phase>>
      BY <3>0, GoesProgram
    <3> USE <3>1
    <3>2. KInv' /\ TestVarsOK'
      BY SameKInv, ProgramTypes DEF TestVarsOK
    <3>3. UNCHANGED <<exists, Kvmap>>
      BY DEF Programs
    <3>4. OnceClient(c)'
      BY <2>3, <3>3 DEF OnceClient
    <3> QED
      BY <3>2, <3>4
  <2>9. CASE OnceWrite(c, iter[c], ver[c] + 1)
    BY <2>9, WritesOnce DEF TestVarsOK
  <2> QED
    BY <2>8, <2>9
<1> QED
  BY <1>1, <1>2, <1>3

LEMMA OnceNet ==
    ASSUME KInv, TestVarsOK, OnceInv, NEW c \in Clerks, Moves(c), UNCHANGED client,
           c = Checker => op[c].op # "Put"
    PROVE  OnceInv'
<1>1. /\ Others(c) /\ exists \subseteq exists'
      /\ op[c].op # "Put" => UNCHANGED <<exists, Kvmap, performed>>
  BY NetMoves
<1> USE <1>1
<1>2. \A d \in Clients \ {c} : Same(d)
  BY MovesSame
<1>3. \A k \in Clients \ {c} : Kvmap'[k] = Kvmap[k]
  <2>1. CASE c = Checker
    BY <2>1
  <2>2. CASE c # Checker
    <3>1. c \in Clients
      BY <2>2 DEF Clients
    <3>2. \A k \in Keys \ {c} : Kvmap'[k] = Kvmap[k]
      BY <3>1, OnceServed DEF OnceInv
    <3> QED
      BY <3>2, ClientFacts
  <2> QED
    BY <2>1, <2>2
<1>4. ASSUME NEW d \in Clients PROVE OnceClient(d)'
  <2>1. CASE d # c
    BY <1>2, <1>3, <2>1, OnceFrame DEF OnceInv
  <2>2. CASE d = c
    BY <2>2, OnceServed DEF OnceInv
  <2> QED
    BY <2>1, <2>2
<1> QED
  BY <1>4 DEF OnceInv

LEMMA OnceRun ==
    ASSUME ListsAreValues, KInv, TestVarsOK, OnceInv, NEW c \in Clients,
           UNCHANGED <<fn, reliable, history>>,
           Stop(c) \/ PutAtLeastOnce(c) \/ OnceAnswered(c)
    PROVE  KInv' /\ TestVarsOK' /\ OnceInv' /\ Programs(c)
<1>1. KInv' /\ TestVarsOK' /\ OnceClient(c)' /\ Programs(c)
  BY OnceRuns DEF OnceInv
<1> USE <1>1
<1>2. UNCHANGED <<exists, Kvmap>> /\ \A d \in Clients \ {c} : Same(d)
  BY DEF Programs
<1>3. ASSUME NEW d \in Clients, d # c PROVE OnceClient(d)'
  BY <1>2, <1>3, OnceFrame DEF OnceInv
<1> QED
  BY <1>3 DEF OnceInv
==============================================================================
