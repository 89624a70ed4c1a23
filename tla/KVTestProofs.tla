---------------------------- MODULE KVTestProofs -----------------------------
(***************************************************************************)
(* For any number of clients, iterations and lost Calls: OneClientAppend,  *)
(* the test that runs the clients' programs, and the theorems.             *)
(***************************************************************************)
EXTENDS KVTestSteps

(* A leaf that names no prover is tried with Zenon, then with SMT. *)
USE ZenonT(20), SMTT(30)

(* What the argument uses of finite sets.  The steps take it as a           *)
(* hypothesis; it is proved at the end.                                     *)
FiniteCounts ==
    /\ IsFiniteSet({}) /\ Cardinality({}) = 0
    /\ \A n \in Nat : IsFiniteSet(1 .. n)
    /\ \A S : IsFiniteSet(S) =>
          /\ Cardinality(S) \in Nat
          /\ \A T \in SUBSET S : IsFiniteSet(T)
          /\ \A x : x \notin S => Cardinality(S \cup {x}) = Cardinality(S) + 1

-----------------------------------------------------------------------------
(***************************************************************************)
(* OneClientAppend                                                         *)
(***************************************************************************)
Entered(c) == {i \in DOMAIN Shared.Value : Shared.Value[i].Id = c}
Appending(c) == tpc[c] \in {"read", "append"}
Appended(c) == IF tpc[c] = "append" THEN performed[c] ELSE 0

AppendClient(c) ==
    /\ tpc[c] \in {"loop", "read", "append", "done"}
    /\ iter[c] > 0 => SharedKey \in exists
    /\ tpc[c] \in {"loop", "done"} => phase[c] = "idle" /\ iter[c] = res[c].Nok + res[c].Nmaybe
    /\ Appending(c) => iter[c] = res[c].Nok + res[c].Nmaybe + 1
    /\ tpc[c] = "read" =>
          op[c] = GetOf(SharedKey) /\ (phase[c] # "called" => reply[c].Err = OK)
    /\ tpc[c] = "append" =>
          /\ op[c] = PutOf(SharedKey, op[c].Value, op[c].Version)
          /\ op[c].Version <= Shared.Version
          /\ performed[c] = 0 /\ op[c].Version = Shared.Version =>
                op[c].Value = Append(Shared.Value, Entry(c, iter[c] - 1))

(* Its entries are numbered below its iterations, and as many as its Puts   *)
(* that were acknowledged, or at most one more for each ErrMaybe.           *)
EnteredOK(c) ==
    LET n == Cardinality(Entered(c)) IN
    SharedKey \in exists =>
        /\ \A i \in Entered(c) :
              Shared.Value[i].N < IF Appending(c) THEN iter[c] - 1 + Appended(c) ELSE iter[c]
        /\ res[c].Nok + Appended(c) <= n
        /\ n <= res[c].Nok + res[c].Nmaybe + Appended(c)

AppendList ==
    SharedKey \in exists =>
        /\ Shared.Version = Len(Shared.Value) + 1
        /\ \A i, j \in DOMAIN Shared.Value :
              i < j /\ Shared.Value[i].Id = Shared.Value[j].Id =>
                  Shared.Value[i].N < Shared.Value[j].N

AppendSetup ==
    /\ tpc[Checker] \in {"setup", "wait", "check", "passed", "fatal"}
    /\ tpc[Checker] = "setup" => phase[Checker] = "idle"
    /\ tpc[Checker] = "wait" =>
          /\ op[Checker] = PutOf(SharedKey, <<>>, 0)
          /\ phase[Checker] # "called" => SharedKey \in exists

AppendInv ==
    (\A c \in Clients : AppendClient(c) /\ EnteredOK(c)) /\ AppendList /\ AppendSetup

(* What is stored under the key is a list. *)
LEMMA SharedList ==
    ASSUME KInv, SharedKey \in exists
    PROVE  Shared.Value \in Seq(Entries)
  BY ClientFacts DEF KInv, ListsPut, Shared

(* The numbers of the entries that a client adds. *)
LEMMA EntryNumbers ==
    /\ \A n \in Nat : n - 1 < n - 1 + 1
    /\ \A i, n \in Nat : i < n - 1 + 0 => i < n - 1 + 1
    /\ \A i, n \in Nat, x \in {0, 1} : i < n - 1 + x => i < n
    /\ 0 .. MaxIter \subseteq Nat
  BY SMTT(30), TestAssumption

(* One more of either answer. *)
LEMMA OneMore ==
    ASSUME NEW m \in Nat, NEW n \in Nat
    PROVE  m + n + 1 = m + 1 + (n + 0) /\ m + n + 1 = m + 0 + (n + 1)
  OBVIOUS

(* A client's entries are a finite set of indexes. *)
LEMMA EntriesFinite ==
    ASSUME FiniteCounts, KInv, SharedKey \in exists, NEW c
    PROVE  IsFiniteSet(Entered(c)) /\ Cardinality(Entered(c)) \in Nat
<1>1. DOMAIN Shared.Value = 1 .. Len(Shared.Value) /\ Len(Shared.Value) \in Nat
  BY SharedList
<1> USE <1>1
<1>2. Entered(c) \in SUBSET (1 .. Len(Shared.Value))
  BY DEF Entered
<1> QED
  BY <1>2 DEF FiniteCounts

(* An entry is added to the list. *)
Adds(c) ==
    /\ SharedKey \in exists /\ exists' = exists
    /\ Shared'.Value = Append(Shared.Value, Entry(c, iter[c] - 1))
    /\ Shared'.Version = Shared.Version + 1

LEMMA AddedEntry ==
    ASSUME KInv, TestVarsOK, NEW c \in Clients, Adds(c), iter[c] > 0
    PROVE  LET n == Len(Shared.Value) + 1 IN
           /\ n \in Nat /\ DOMAIN Shared.Value = 1 .. n - 1 /\ DOMAIN Shared'.Value = 1 .. n
           /\ Len(Shared'.Value) = n /\ n \notin DOMAIN Shared.Value
           /\ \A i \in DOMAIN Shared.Value :
                 Shared'.Value[i] = Shared.Value[i] /\ Shared.Value[i].N \in Nat
           /\ Shared'.Value[n].Id = c /\ Shared'.Value[n].N = iter[c] - 1
<1>1. iter[c] - 1 \in Nat
  BY SMTT(30), TestAssumption DEF TestVarsOK
<1>2. Entry(c, iter[c] - 1) \in Entries
  BY <1>1 DEF Entry, Entries
<1>3. Entry(c, iter[c] - 1).Id = c /\ Entry(c, iter[c] - 1).N = iter[c] - 1
  BY DEF Entry
<1>4. PICK e \in Entries : e = Entry(c, iter[c] - 1)
  BY <1>2
<1> USE <1>4
<1>5. PICK list \in Seq(Entries) : list = Shared.Value
  BY SharedList DEF Adds
<1> USE <1>5
<1>6. Shared'.Value = Append(list, e)
  BY DEF Adds
<1>7. /\ Len(list) \in Nat /\ DOMAIN list = 1 .. Len(list)
      /\ DOMAIN Append(list, e) = 1 .. Len(list) + 1 /\ Len(Append(list, e)) = Len(list) + 1
      /\ \A i \in 1 .. Len(list) : Append(list, e)[i] = list[i] /\ list[i] \in Entries
      /\ Append(list, e)[Len(list) + 1] = e
  OBVIOUS
<1> USE <1>7
<1>8. \A i \in 1 .. Len(list) : list[i].N \in Nat
  BY DEF Entries
<1> QED
  BY SMTT(30), <1>3, <1>6, <1>8

(* The list of a client that does not add to it. *)
LEMMA EnteredFrame ==
    ASSUME FiniteCounts, KInv, TestVarsOK, NEW d \in Clients, AppendClient(d), EnteredOK(d), Same(d),
           \/ Shared' = Shared /\ exists' = exists
           \/ \E c \in Clients \ {d} : Adds(c) /\ iter[c] > 0
           \/ SharedKey \notin exists /\ Shared'.Value = <<>>
    PROVE  EnteredOK(d)'
<1>1. CASE Shared' = Shared /\ exists' = exists
  BY <1>1 DEF EnteredOK, Entered, Appending, Appended, Same, Still
<1>2. CASE \E c \in Clients \ {d} : Adds(c) /\ iter[c] > 0
  <2>1. PICK c \in Clients \ {d} : Adds(c) /\ iter[c] > 0
    BY <1>2
  <2> USE <2>1
  <2>2. PICK n \in Nat :
           /\ n = Len(Shared.Value) + 1
           /\ DOMAIN Shared.Value = 1 .. n - 1 /\ DOMAIN Shared'.Value = 1 .. n
           /\ \A i \in 1 .. n - 1 : Shared'.Value[i] = Shared.Value[i]
           /\ Shared'.Value[n].Id = c
    BY AddedEntry
  <2> USE <2>2
  <2>3. Entered(d)' = Entered(d)
    <3>1. Entered(d)' = {i \in DOMAIN Shared'.Value : Shared'.Value[i].Id = d}
      BY DEF Entered
    <3>2. Entered(d) = {i \in 1 .. n - 1 : Shared.Value[i].Id = d}
      BY DEF Entered
    <3>3. \A i \in 1 .. n : i \in 1 .. n - 1 \/ i = n
      BY SMTT(30)
    <3>4. \A i \in 1 .. n - 1 : i \in 1 .. n
      BY SMTT(30)
    <3> QED
      BY SMTT(30), <3>1, <3>2, <3>3, <3>4
  <2>4. \A i \in Entered(d) : Shared'.Value[i] = Shared.Value[i]
    BY DEF Entered
  <2>5. SharedKey \in exists
    BY DEF Adds
  <2>6. Appending(d)' = Appending(d) /\ Appended(d)' = Appended(d)
    BY DEF Appending, Appended, Same, Still
  <2> QED
    BY <2>3, <2>4, <2>5, <2>6 DEF EnteredOK, Same
<1>3. CASE SharedKey \notin exists /\ Shared'.Value = <<>>
  <2> USE <1>3
  <2>1. iter[d] = 0 /\ res[d].Nok \in Nat /\ res[d].Nmaybe \in Nat
    BY SMTT(30) DEF AppendClient, TestVarsOK
  <2>2. ~Appending(d) /\ res[d].Nok = 0 /\ res[d].Nmaybe = 0
    BY <2>1 DEF AppendClient, Appending
  <2> USE <2>2
  <2>3. Entered(d)' = {} /\ Cardinality(Entered(d)') = 0
    <3>1. Entered(d)' = {}
      BY DEF Entered
    <3> QED
      BY <3>1 DEF FiniteCounts
  <2>4. ~Appending(d)' /\ Appended(d)' = 0
    BY DEF Appending, Appended, Same
  <2>5. res'[d] = res[d]
    BY DEF Same
  <2> QED
    BY <2>3, <2>4, <2>5 DEF EnteredOK
<1> QED
  BY <1>1, <1>2, <1>3

(* A client that does not move. *)
LEMMA AppendFrame ==
    ASSUME KInv, TestVarsOK, NEW d \in Clients, AppendClient(d), Same(d), exists \subseteq exists',
           Grows(SharedKey)
    PROVE  AppendClient(d)'
<1>1. Shared.Version \in Nat
  BY VersionFacts, ClientFacts DEF Shared
<1>2. Shared' = Shared \/ (Shared'.Version \in Nat /\ Shared'.Version > Shared.Version)
  BY DEF Grows, Shared
<1>3. ASSUME tpc[d] = "append"
      PROVE  /\ op[d].Version <= Shared'.Version
             /\ performed[d] = 0 /\ op[d].Version = Shared'.Version =>
                    op[d].Value = Append(Shared'.Value, Entry(d, iter[d] - 1))
  <2>1. /\ op[d] = PutOf(SharedKey, op[d].Value, op[d].Version) /\ op[d].Version <= Shared.Version
        /\ performed[d] = 0 /\ op[d].Version = Shared.Version =>
              op[d].Value = Append(Shared.Value, Entry(d, iter[d] - 1))
    BY <1>3 DEF AppendClient
  <2> USE <2>1
  <2>2. op[d].op = "Put"
    BY DEF PutOf
  <2>3. op[d].Version \in Nat
    BY <2>2, OpFacts, ClientFacts DEF KInv, IInv
  <2> QED
    BY <1>1, <1>2, <2>3
<1>4. Appending(d)' = Appending(d)
  BY DEF Appending, Same
<1> QED
  BY <1>3, <1>4 DEF AppendClient, Same, Still

(* The list stays in order. *)
LEMMA AddsInOrder ==
    ASSUME KInv, TestVarsOK, NEW c \in Clients, Adds(c), iter[c] > 0, AppendList, EnteredOK(c),
           Appending(c), Appended(c) = 0
    PROVE  AppendList'
<1>1. PICK n \in Nat :
         /\ n = Len(Shared.Value) + 1
         /\ DOMAIN Shared.Value = 1 .. n - 1 /\ DOMAIN Shared'.Value = 1 .. n
         /\ Len(Shared'.Value) = n
         /\ \A i \in 1 .. n - 1 : Shared'.Value[i] = Shared.Value[i] /\ Shared.Value[i].N \in Nat
         /\ Shared'.Value[n].Id = c /\ Shared'.Value[n].N = iter[c] - 1
  BY AddedEntry
<1> USE <1>1
<1>2. SharedKey \in exists /\ Shared'.Version = Shared.Version + 1
  BY DEF Adds
<1> USE <1>2
<1>3. Shared.Version = n
  BY DEF AppendList
<1>4. ASSUME NEW i \in 1 .. n, NEW j \in 1 .. n, i < j, Shared'.Value[i].Id = Shared'.Value[j].Id
      PROVE  Shared'.Value[i].N < Shared'.Value[j].N
  <2> USE <1>4
  <2>1. i \in 1 .. n - 1
    BY SMTT(30)
  <2> USE <2>1
  <2>2. CASE j = n
    <3> USE <2>2
    <3>1. i \in Entered(c)
      BY DEF Entered
    <3>2. Shared.Value[i].N < iter[c] - 1 + Appended(c)
      BY <3>1 DEF EnteredOK
    <3>3. iter[c] - 1 + Appended(c) = iter[c] - 1
      BY SMTT(30), TestAssumption DEF TestVarsOK
    <3> QED
      BY <3>2, <3>3
  <2>3. CASE j # n
    <3>1. j \in 1 .. n - 1
      BY SMTT(30), <2>3
    <3> QED
      BY <3>1 DEF AppendList
  <2> QED
    BY <2>2, <2>3
<1> QED
  BY <1>3, <1>4 DEF AppendList

(* A client's list is as it was. *)
LEMMA EnteredStays ==
    ASSUME NEW c, EnteredOK(c), Shared' = Shared, exists' = exists, tpc'[c] = tpc[c],
           performed'[c] = performed[c], iter'[c] = iter[c], res'[c] = res[c]
    PROVE  EnteredOK(c)'
  BY DEF EnteredOK, Entered, Appending, Appended

LEMMA ListStays ==
    ASSUME AppendList, Shared' = Shared, exists' = exists
    PROVE  AppendList'
  BY DEF AppendList

(* Its operation is served, lost or answered. *)
LEMMA AppendServed ==
    ASSUME FiniteCounts, KInv, TestVarsOK, NEW c \in Clients, AppendClient(c), EnteredOK(c), AppendList,
           UNCHANGED client, Moves(c)
    PROVE  /\ AppendClient(c)' /\ EnteredOK(c)' /\ AppendList'
           /\ (Shared' = Shared /\ exists' = exists) \/ (Adds(c) /\ iter[c] > 0)
<1>0. IInv /\ c \in Clerks /\ UNCHANGED <<tpc, iter, ver, err, res>>
  BY ClientFacts DEF KInv, client
<1> USE <1>0
<1>1. /\ op' = op /\ phase[c] # "idle"
      /\ UNCHANGED <<exists, Kvmap, performed>> \/ (Put(c) /\ PutTakes(c))
      /\ op[c].op # "Put" => UNCHANGED <<exists, Kvmap, performed>>
  BY NetMoves
<1>2. tpc[c] \in {"read", "append"} /\ Appending(c)
  BY <1>1 DEF AppendClient, Appending
<1>3. /\ res[c].Nok \in Nat /\ res[c].Nmaybe \in Nat /\ iter[c] \in Nat
  BY SMTT(30), TestAssumption DEF TestVarsOK
<1>4. iter[c] > 0 /\ SharedKey \in exists
  BY <1>2, <1>3 DEF AppendClient
<1> USE <1>4
<1>5. /\ tpc[c] = "read" => op[c].op = "Get" /\ op[c].Key = SharedKey
      /\ tpc[c] = "append" => op[c].op = "Put" /\ op[c].Key = SharedKey
  <2>1. /\ tpc[c] = "read" => op[c] = GetOf(SharedKey)
        /\ tpc[c] = "append" => op[c] = PutOf(SharedKey, op[c].Value, op[c].Version)
    BY DEF AppendClient
  <2> QED
    BY <2>1 DEF GetOf, PutOf
<1>6. CASE UNCHANGED <<exists, Kvmap, performed>>
  <2> USE <1>6
  <2>1. Shared' = Shared /\ exists' = exists
    BY DEF Shared
  <2> USE <2>1
  <2>2. tpc[c] = "read" /\ phase'[c] # "called" => reply'[c].Err = OK
    <3> SUFFICES ASSUME tpc[c] = "read", phase'[c] # "called" PROVE reply'[c].Err = OK
      OBVIOUS
    <3>1. op[c].op = "Get" /\ op[c].Key = SharedKey
      BY <1>5
    <3> USE <3>1
    <3>2. CASE Get(c)
      BY SMTT(30), <3>2, GetMoves, ReplyParts DEF GetReply
    <3>3. CASE Return(c)
      BY <3>3, ReturnMoves DEF AppendClient
    <3> QED
      BY <3>2, <3>3, FailMoves DEF Moves, Put
  <2>3. AppendClient(c)'
    BY <1>1, <1>2, <2>2 DEF AppendClient, Appending
  <2> QED
    BY <2>3, EnteredStays, ListStays
<1>7. CASE Put(c) /\ PutTakes(c)
  <2>1. tpc[c] = "append" /\ op[c].Key = SharedKey
    BY <1>2, <1>5, <1>7 DEF Put
  <2>2. /\ exists' = exists \cup {SharedKey} /\ Shared'.Value = op[c].Value
        /\ Shared'.Version = op[c].Version + 1 /\ op[c].Version = Shared.Version
        /\ performed[c] = 0 /\ performed'[c] = 1
    BY SMTT(30), <1>7, <2>1 DEF PutTakes, Shared
  <2>3. op[c].Value = Append(Shared.Value, Entry(c, iter[c] - 1))
    BY <2>1, <2>2 DEF AppendClient
  <2>4. Adds(c)
    BY <2>2, <2>3 DEF Adds
  <2>5. Appended(c) = 0 /\ Appended(c)' = 1 /\ Appending(c)'
    BY <2>1, <2>2 DEF Appended, Appending
  <2> USE <2>5
  <2>6. AppendList'
    BY <1>2, <2>4, AddsInOrder
  <2>7. Shared.Version \in Nat
    BY VersionFacts, ClientFacts DEF Shared
  <2>8. AppendClient(c)'
    BY SMTT(30), <1>1, <2>1, <2>2, <2>7 DEF AppendClient, Appending
  <2>9. EnteredOK(c)'
    <3>1. PICK n \in Nat :
             /\ n = Len(Shared.Value) + 1
             /\ DOMAIN Shared.Value = 1 .. n - 1 /\ DOMAIN Shared'.Value = 1 .. n
             /\ \A i \in 1 .. n - 1 : Shared'.Value[i] = Shared.Value[i] /\ Shared.Value[i].N \in Nat
             /\ Shared'.Value[n].Id = c /\ Shared'.Value[n].N = iter[c] - 1
             /\ n \notin DOMAIN Shared.Value
      BY <2>4, AddedEntry
    <3> USE <3>1
    <3>2. Entered(c)' = Entered(c) \cup {n}
      <4>1. Entered(c)' = {i \in 1 .. n : Shared'.Value[i].Id = c}
        BY DEF Entered
      <4>2. Entered(c) = {i \in 1 .. n - 1 : Shared.Value[i].Id = c}
        BY DEF Entered
      <4>3. 1 .. n = (1 .. n - 1) \cup {n}
        BY SMTT(30)
      <4> QED
        BY <4>1, <4>2, <4>3
    <3>3. n \notin Entered(c)
      BY DEF Entered
    <3>4. Cardinality(Entered(c)') = Cardinality(Entered(c)) + 1 /\ Cardinality(Entered(c)) \in Nat
      <4>1. IsFiniteSet(Entered(c))
        BY EntriesFinite
      <4> QED
        BY ONLY <3>2, <3>3, <4>1, FiniteCounts DEF FiniteCounts
    <3>5. /\ \A i \in Entered(c) : Shared.Value[i].N < iter[c] - 1 + 0
          /\ res[c].Nok + 0 <= Cardinality(Entered(c))
          /\ Cardinality(Entered(c)) <= res[c].Nok + res[c].Nmaybe + 0
      BY <1>2 DEF EnteredOK
    <3> USE <3>5
    <3>6. ASSUME NEW i \in Entered(c)' PROVE Shared'.Value[i].N < iter[c] - 1 + 1
      <4>1. CASE i = n
        <5>1. Shared'.Value[i].N = iter[c] - 1 /\ iter[c] \in Nat
          BY <1>3, <4>1
        <5> QED
          BY ONLY ZenonT(20), <5>1, EntryNumbers
      <4>2. CASE i \in Entered(c)
        <5> USE <4>2
        <5>1. i \in 1 .. n - 1
          BY DEF Entered
        <5> USE <5>1
        <5>2. Shared.Value[i].N < iter[c] - 1 + 0 /\ Shared.Value[i].N \in Nat
          OBVIOUS
        <5>3. Shared'.Value[i] = Shared.Value[i]
          OBVIOUS
        <5> QED
          BY <1>3, <5>2, <5>3, EntryNumbers
      <4> QED
        BY <3>2, <3>6, <4>1, <4>2
    <3>7. /\ res[c].Nok + 1 <= Cardinality(Entered(c)')
          /\ Cardinality(Entered(c)') <= res[c].Nok + res[c].Nmaybe + 1
      BY SMTT(30), <1>3, <3>4
    <3> QED
      BY <3>6, <3>7 DEF EnteredOK
  <2> QED
    BY <2>4, <2>6, <2>8, <2>9
<1> QED
  BY <1>1, <1>6, <1>7

(* The client reads the list, for the first time or again. *)
LEMMA ReadsList ==
    ASSUME ListsAreValues, KInv, TestVarsOK, NEW c \in Clients, AppendRead(c), EnteredOK(c),
           UNCHANGED <<fn, reliable, history, ver, err, res>>, SharedKey \in exists,
           iter' \in [Clients -> 0 .. MaxIter], iter'[c] = res[c].Nok + res[c].Nmaybe + 1,
           \A d \in Clients \ {c} : iter'[d] = iter[d],
           \/ ~Appending(c) /\ iter'[c] = iter[c] + 1
           \/ Appending(c) /\ iter'[c] = iter[c] /\ Appended(c) = 0
    PROVE  /\ KInv' /\ TestVarsOK' /\ AppendClient(c)' /\ EnteredOK(c)' /\ Programs(c) /\ Shared' = Shared
<1>1. Invoke(c, GetOf(SharedKey)) /\ Jump(c, "read") /\ "read" \in TestLocations
  BY DEF AppendRead, GetJson, GetOf, TestLocations
<1>2. GetOf(SharedKey) \in GetOps /\ GetOf(SharedKey).op = "Get"
  BY OpParts, ClientFacts
<1>3. KInv'
  BY <1>1, <1>2, InvokeKInv, ClientFacts
<1>4. /\ Programs(c) /\ tpc' \in [Clerks -> TestLocations] /\ tpc'[c] = "read"
      /\ op'[c] = GetOf(SharedKey) /\ phase'[c] = "called" /\ performed'[c] = 0 /\ Shared' = Shared
  BY <1>1, AsksProgram
<1> USE <1>4
<1>5. TestVarsOK'
  BY ProgramTypes DEF TestVarsOK
<1>6. exists' = exists
  BY DEF Programs
<1>7. AppendClient(c)'
  BY <1>6 DEF AppendClient, Appending
<1>8. Appending(c)' /\ Appended(c)' = 0 /\ (~Appending(c) => Appended(c) = 0)
  BY DEF Appending, Appended
<1>9. Entered(c)' = Entered(c)
  BY DEF Entered
<1>10. iter[c] \in Nat /\ iter'[c] \in Nat
  BY EntryNumbers DEF TestVarsOK
<1>11. iter'[c] - 1 + 0 = IF Appending(c) THEN iter[c] - 1 + Appended(c) ELSE iter[c]
  BY SMTT(30), <1>10
<1>12. EnteredOK(c)'
  BY <1>8, <1>9, <1>11 DEF EnteredOK
<1> QED
  BY <1>3, <1>5, <1>7, <1>12

(* The steps of OneClientAppend; no Fatalf. *)
LEMMA AppendRuns ==
    ASSUME FiniteCounts, ListsAreValues, KInv, TestVarsOK, NEW c \in Clients, AppendClient(c), EnteredOK(c),
           AppendSetup, UNCHANGED <<fn, reliable, history>>,
           Stop(c) \/ OneClientAppend(c) \/ AppendWrite(c) \/ AppendAnswered(c)
    PROVE  /\ KInv' /\ TestVarsOK' /\ AppendClient(c)' /\ EnteredOK(c)' /\ Programs(c) /\ Shared' = Shared
<1>0. /\ c \in Clerks /\ IInv /\ res[c].Nok \in Nat /\ res[c].Nmaybe \in Nat /\ iter[c] \in Nat
  BY SMTT(30), ClientFacts, TestAssumption DEF KInv, TestVarsOK
<1>1. Shared.Version \in Nat
  BY VersionFacts, ClientFacts DEF Shared
<1>2. CASE Stop(c)
  <2>1. /\ tpc[c] = "loop" /\ iter[c] > 0 /\ Jump(c, "done") /\ UNCHANGED <<vars, iter, ver, err, res>>
        /\ "done" \in TestLocations
    BY <1>2 DEF Stop, At, TestLocations
  <2> USE <2>1
  <2>2. /\ Programs(c) /\ tpc' \in [Clerks -> TestLocations] /\ tpc'[c] = "done"
        /\ UNCHANGED <<op, phase, reply, result, performed, Shared>>
    BY GoesProgram
  <2> USE <2>2
  <2>3. KInv' /\ TestVarsOK'
    BY SameKInv, ProgramTypes DEF TestVarsOK
  <2>4. exists' = exists
    BY DEF Programs
  <2> USE <2>4
  <2>5. AppendClient(c)'
    BY DEF AppendClient, Appending
  <2>6. EnteredOK(c)'
    BY DEF EnteredOK, Entered, Appending, Appended
  <2> QED
    BY <2>3, <2>5, <2>6
<1>3. CASE OneClientAppend(c)
  <2>1. /\ tpc[c] = "loop" /\ iter[c] < MaxIter /\ iter' = [iter EXCEPT ![c] = @ + 1]
        /\ tpc[Checker] = "wait" /\ phase[Checker] = "idle"
        /\ AppendRead(c) /\ UNCHANGED <<ver, err, res>>
    BY <1>3 DEF OneClientAppend, Iterate, At
  <2> USE <2>1
  <2>2. /\ iter' \in [Clients -> 0 .. MaxIter] /\ iter'[c] = iter[c] + 1
        /\ \A d \in Clients \ {c} : iter'[d] = iter[d]
    BY SMTT(30), TestAssumption DEF TestVarsOK
  <2>3. SharedKey \in exists
    BY DEF AppendSetup
  <2>4. iter[c] = res[c].Nok + res[c].Nmaybe /\ ~Appending(c)
    BY DEF AppendClient, Appending
  <2> QED
    BY <2>2, <2>3, <2>4, ReadsList
<1>4. CASE AppendWrite(c)
  <2>1. tpc[c] = "read" /\ phase[c] = "idle" /\ Appending(c)
    BY <1>4 DEF AppendWrite, At, Appending
  <2>2. /\ op[c] = GetOf(SharedKey) /\ reply[c].Err = OK /\ iter[c] = res[c].Nok + res[c].Nmaybe + 1
    BY <2>1 DEF AppendClient
  <2>3. op[c].op = "Get" /\ op[c].Key = SharedKey /\ iter[c] > 0 /\ iter[c] - 1 \in Nat
    <3>1. op[c].op = "Get" /\ op[c].Key = SharedKey
      BY <2>2 DEF GetOf
    <3>2. iter[c] > 0
      BY ONLY <1>0, <2>2
    <3> QED
      BY <1>0, <3>1, <3>2
  <2>4. SharedKey \in exists
    BY <2>3 DEF AppendClient
  <2>5. result[c] = reply[c]
    BY <1>0, <2>1, <2>3, GetDone
  <2>6. /\ result[c].Version \in Nat /\ result[c].Version <= Shared.Version
        /\ result[c].Version = Shared.Version => result[c].Value = Shared.Value
        /\ result[c].Value \in Seq(Entries)
    <3>1. reply \in [Clerks -> Replies \cup {NoReply}]
      BY <1>0 DEF IInv, TypeOK
    <3>2. reply[c].Version \in Nat
      BY SMTT(30), <1>0, <3>1 DEF Replies, NoReply, Reply
    <3> QED
      BY <1>0, <2>1, <2>2, <2>3, <2>5, <3>2, ClientFacts DEF KInv, GetOK, Shared
  <2>7. PICK e \in Entries : e = Entry(c, iter[c] - 1)
    BY <2>3 DEF Entry, Entries
  <2>8. PICK list \in Seq(Entries) : list = Append(result[c].Value, e)
    <3>1. PICK old \in Seq(Entries) : old = result[c].Value
      BY <2>6
    <3>2. Append(old, e) \in Seq(Entries)
      BY <2>7
    <3> QED
      BY <3>1, <3>2
  <2>9. list \in Values
    BY DEF ListsAreValues
  <2>10. PICK o \in PutOps :
            /\ o = PutOf(SharedKey, list, result[c].Version)
            /\ o.op = "Put" /\ o.Value = list /\ o.Version = result[c].Version
    BY SMTT(30), <2>6, <2>9, ClientFacts, OpParts
  <2> USE <2>10
  <2>11. /\ Invoke(c, o) /\ Jump(c, "append") /\ UNCHANGED <<iter, ver, err, res>>
         /\ "append" \in TestLocations
    <3>1. result[c].Err = OK /\ OK # ErrNoKey
      BY <2>2, <2>5 DEF OK, ErrNoKey
    <3>2. /\ PutJson(c, SharedKey, Append(result[c].Value, Entry(c, iter[c] - 1)), result[c].Version)
          /\ Jump(c, "append") /\ UNCHANGED <<iter, ver, err, res>>
      BY <1>4, <3>1 DEF AppendWrite
    <3> QED
      BY <2>7, <2>8, <3>2 DEF PutJson, PutOf, TestLocations
  <2> USE <2>11
  <2>12. /\ Programs(c) /\ tpc' \in [Clerks -> TestLocations] /\ tpc'[c] = "append"
         /\ op'[c] = o /\ phase'[c] = "called" /\ performed'[c] = 0 /\ Shared' = Shared
    BY AsksProgram
  <2> USE <2>12
  <2>13. KInv'
    BY <1>0, <2>9, InvokeKInv
  <2>14. TestVarsOK'
    BY ProgramTypes DEF TestVarsOK
  <2>15. exists' = exists
    BY DEF Programs
  <2> USE <2>15
  <2>16. AppendClient(c)'
    <3>1. op'[c] = PutOf(SharedKey, op'[c].Value, op'[c].Version)
      OBVIOUS
    <3>2. /\ op'[c].Version <= Shared'.Version
          /\ op'[c].Version = Shared'.Version => op'[c].Value = Append(Shared'.Value, Entry(c, iter'[c] - 1))
      BY <2>6, <2>7, <2>8
    <3>3. Appending(c)' /\ iter'[c] = res'[c].Nok + res'[c].Nmaybe + 1
      BY <2>2 DEF Appending
    <3> QED
      BY <2>4, <3>1, <3>2, <3>3 DEF AppendClient
  <2>17. EnteredOK(c)'
    <3>1. Appending(c)' /\ Appended(c)' = 0 /\ Appended(c) = 0 /\ Entered(c)' = Entered(c)
      BY <2>1 DEF Appending, Appended, Entered
    <3> QED
      BY <2>1, <3>1 DEF EnteredOK
  <2> QED
    BY <2>13, <2>14, <2>16, <2>17
<1>5. CASE AppendAnswered(c)
  <2>1. tpc[c] = "append" /\ phase[c] = "idle" /\ Appending(c) /\ Appended(c) = performed[c]
    BY <1>5 DEF AppendAnswered, At, Appending, Appended
  <2>2. op[c] = PutOf(SharedKey, op[c].Value, op[c].Version) /\ iter[c] = res[c].Nok + res[c].Nmaybe + 1
    BY <2>1 DEF AppendClient
  <2>3. op[c].op = "Put" /\ iter[c] > 0
    BY <1>0, <2>2 DEF PutOf
  <2>4. SharedKey \in exists
    BY <2>3 DEF AppendClient
  <2>5. /\ result[c].Err = OK => performed[c] = 1
        /\ result[c].Err \in {ErrVersion, ErrNoKey} => performed[c] = 0
        /\ performed[c] \in {0, 1}
        /\ result[c].Err \in {OK, ErrMaybe, ErrVersion, ErrNoKey}
    BY <1>0, <2>1, <2>3, PutDone
  <2>6. CASE result[c].Err \in {OK, ErrMaybe}
    <3>1. /\ res' = Counted(c, result[c].Err) /\ Jump(c, "loop") /\ UNCHANGED <<vars, iter, ver, err>>
          /\ "loop" \in TestLocations
      BY <1>5, <2>6 DEF AppendAnswered, TestLocations
    <3> USE <3>1
    <3>2. /\ res' \in [Clients -> [Nok : Nat, Nmaybe : Nat]]
          /\ \A d \in Clients \ {c} : res'[d] = res[d]
          /\ res'[c].Nok = res[c].Nok + IF result[c].Err = OK THEN 1 ELSE 0
          /\ res'[c].Nmaybe = res[c].Nmaybe + IF result[c].Err = OK THEN 0 ELSE 1
      BY CountedOne
    <3> USE <3>2
    <3>3. /\ Programs(c) /\ tpc' \in [Clerks -> TestLocations] /\ tpc'[c] = "loop"
          /\ UNCHANGED <<op, phase, reply, result, performed, Shared>>
      BY GoesProgram
    <3> USE <3>3
    <3>4. KInv' /\ TestVarsOK'
      BY SameKInv, ProgramTypes DEF TestVarsOK
    <3>5. exists' = exists
      BY DEF Programs
    <3>6. iter[c] = res'[c].Nok + res'[c].Nmaybe
      <4>1. PICK ok \in Nat, maybe \in Nat : ok = res[c].Nok /\ maybe = res[c].Nmaybe
        BY <1>0
      <4> USE <4>1
      <4>2. iter[c] = ok + maybe + 1
        BY <2>2
      <4>3. \/ res'[c].Nok = ok + 1 /\ res'[c].Nmaybe = maybe + 0
            \/ res'[c].Nok = ok + 0 /\ res'[c].Nmaybe = maybe + 1
        OBVIOUS
      <4>4. iter[c] = ok + 1 + (maybe + 0) /\ iter[c] = ok + 0 + (maybe + 1)
        <5>1. ok + maybe + 1 = ok + 1 + (maybe + 0) /\ ok + maybe + 1 = ok + 0 + (maybe + 1)
          BY ONLY ZenonT(20), ok \in Nat, maybe \in Nat, OneMore
        <5> QED
          BY ONLY ZenonT(20), <4>2, <5>1
      <4> QED
        BY ONLY ZenonT(20), <4>3, <4>4
    <3>7. AppendClient(c)'
      BY <2>1, <2>4, <3>5, <3>6 DEF AppendClient, Appending
    <3>8. EnteredOK(c)'
      <4>1. /\ \A i \in Entered(c) : Shared.Value[i].N < iter[c] - 1 + performed[c]
            /\ res[c].Nok + performed[c] <= Cardinality(Entered(c))
            /\ Cardinality(Entered(c)) <= res[c].Nok + res[c].Nmaybe + performed[c]
        BY <2>1, <2>4 DEF EnteredOK
      <4> USE <4>1
      <4>2. /\ Shared.Value \in Seq(Entries) /\ Cardinality(Entered(c)) \in Nat
        BY <2>4, EntriesFinite, SharedList
      <4> USE <4>2
      <4>3. \A i \in Entered(c) : Shared.Value[i].N \in Nat
        <5>1. \A i \in DOMAIN Shared.Value : Shared.Value[i] \in Entries
          BY ONLY <4>2
        <5> QED
          BY <5>1 DEF Entered, Entries
      <4>4. \A i \in Entered(c) : Shared.Value[i].N < iter[c]
        BY <1>0, <2>5, <4>1, <4>3, EntryNumbers
      <4>5. /\ res'[c].Nok <= Cardinality(Entered(c))
            /\ Cardinality(Entered(c)) <= res'[c].Nok + res'[c].Nmaybe
        <5>1. ASSUME NEW ok \in Nat, NEW maybe \in Nat, NEW n \in Nat, NEW x \in {0, 1},
                     ok + x <= n, n <= ok + maybe + x
              PROVE  /\ x = 1 => ok + 1 <= n /\ n <= ok + 1 + (maybe + 0)
                     /\ ok + 0 <= n /\ n <= ok + 0 + (maybe + 1)
          BY ONLY <5>1
        <5>2. CASE result[c].Err = OK
          <6>1. res'[c].Nok = res[c].Nok + 1 /\ res'[c].Nmaybe = res[c].Nmaybe + 0
            BY ONLY <3>2, <5>2
          <6> QED
            BY ONLY <1>0, <2>5, <4>1, <4>2, <5>1, <5>2, <6>1
        <5>3. CASE result[c].Err # OK
          <6>1. res'[c].Nok = res[c].Nok + 0 /\ res'[c].Nmaybe = res[c].Nmaybe + 1
            BY ONLY <3>2, <5>3
          <6> QED
            BY ONLY <1>0, <2>5, <4>1, <4>2, <5>1, <6>1
        <5> QED
          BY ONLY <5>2, <5>3
      <4>6. ~Appending(c)' /\ Appended(c)' = 0 /\ Entered(c)' = Entered(c)
        BY DEF Appending, Appended, Entered
      <4>7. res'[c].Nok + 0 = res'[c].Nok /\ res'[c].Nok + res'[c].Nmaybe + 0 = res'[c].Nok + res'[c].Nmaybe
        BY SMTT(30), <1>0
      <4> QED
        BY <4>4, <4>5, <4>6, <4>7 DEF EnteredOK
    <3> QED
      BY <3>4, <3>7, <3>8
  <2>7. CASE result[c].Err \notin {OK, ErrMaybe}
    <3> USE <2>7
    <3>1. AppendRead(c) /\ UNCHANGED <<iter, ver, err, res>>
      BY <1>5 DEF AppendAnswered
    <3> USE <3>1
    <3>2. iter' \in [Clients -> 0 .. MaxIter]
      BY DEF TestVarsOK
    <3>3. performed[c] = 0
      BY <2>5
    <3> QED
      BY <2>1, <2>2, <2>4, <3>2, <3>3, ReadsList
  <2> QED
    BY <2>6, <2>7
<1> QED
  BY <1>2, <1>3, <1>4, <1>5

(* The empty list, which the server's first version of the key holds, has no *)
(* positions.                                                                *)
LEMMA EmptyList == Len(<<>>) = 0 /\ DOMAIN <<>> = {}
  OBVIOUS

(* The server, the network and the clerk move. *)
LEMMA AppendNet ==
    ASSUME FiniteCounts, KInv, TestVarsOK, AppendInv, NEW c \in Clerks, Moves(c), UNCHANGED client,
           c = Checker /\ op[c].op = "Put" => tpc[c] = "wait"
    PROVE  AppendInv'
<1>1. /\ Others(c) /\ op' = op /\ exists \subseteq exists' /\ Grows(SharedKey)
      /\ UNCHANGED <<exists, Kvmap, performed>> \/ (Put(c) /\ PutTakes(c))
      /\ phase[c] # "idle"
  BY NetMoves, ClientFacts
<1> USE <1>1
<1>2. \A d \in Clients \ {c} : Same(d)
  BY MovesSame
<1>3. ASSUME NEW d \in Clients, d # c PROVE AppendClient(d)'
  BY <1>2, <1>3, AppendFrame DEF AppendInv
<1>4. CASE c \in Clients
  <2> USE <1>4
  <2>1. /\ AppendClient(c)' /\ EnteredOK(c)' /\ AppendList'
        /\ (Shared' = Shared /\ exists' = exists) \/ (Adds(c) /\ iter[c] > 0)
    BY AppendServed DEF AppendInv
  <2> USE <2>1
  <2>2. ASSUME NEW d \in Clients, d # c PROVE EnteredOK(d)'
    BY <1>2, <2>2, EnteredFrame DEF AppendInv
  <2>3. AppendSetup'
    BY ClientFacts DEF AppendInv, AppendSetup, Others, Still, client
  <2> QED
    BY <1>3, <2>2, <2>3 DEF AppendInv
<1>5. CASE c \notin Clients
  <2> USE <1>5
  <2>1. c = Checker /\ UNCHANGED tpc
    BY DEF Clients, client
  <2> USE <2>1
  <2>2. SharedKey \in exists <=> Shared.Version # 0
    BY VersionFacts, ClientFacts DEF Shared
  <2>3. Put(c) => /\ tpc[c] = "wait" /\ op[c].Key = SharedKey
                  /\ op[c].Value = <<>> /\ op[c].Version = 0
    <3>1. Put(c) => tpc[c] = "wait"
      BY DEF Put
    <3>2. tpc[c] = "wait" => op[c] = PutOf(SharedKey, <<>>, 0)
      BY DEF AppendInv, AppendSetup
    <3> QED
      BY ONLY <3>1, <3>2, OpParts
  <2>4. CASE UNCHANGED <<exists, Kvmap, performed>>
    <3>1. Shared' = Shared /\ exists' = exists
      BY <2>4 DEF Shared
    <3> USE <3>1
    <3>2. ASSUME NEW d \in Clients PROVE EnteredOK(d)'
      BY <1>2, <3>2, EnteredFrame DEF AppendInv
    <3>3. AppendSetup'
      <4>1. tpc[c] = "wait" /\ phase'[c] # "called" => SharedKey \in exists
        <5> SUFFICES ASSUME tpc[c] = "wait", phase'[c] # "called" PROVE SharedKey \in exists
          OBVIOUS
        <5>1. op[c] = PutOf(SharedKey, <<>>, 0)
          BY DEF AppendInv, AppendSetup
        <5>2. op[c].op = "Put"
          BY <5>1 DEF PutOf
        <5>3. CASE Put(c)
          <6> USE <5>3
          <6>1. PutTakes(c) \/ PutFails(c)
            BY PutMoves DEF KInv
          <6>2. ~PutTakes(c)
            <7>1. PutTakes(c) => performed[c] = 0 /\ performed'[c] = 1
              BY DEF PutTakes
            <7> QED
              BY <2>4, <7>1
          <6> QED
            BY <2>2, <2>3, <6>1, <6>2 DEF PutFails, Shared
        <5>4. CASE Return(c)
          BY <5>4, ReturnMoves DEF AppendInv, AppendSetup, KInv
        <5> QED
          BY <5>2, <5>3, <5>4, FailMoves DEF Moves, Get, KInv
      <4>2. phase[c] = "idle" \/ tpc[c] # "setup"
        BY DEF AppendInv, AppendSetup
      <4> QED
        BY <4>1, <4>2 DEF AppendInv, AppendSetup
    <3> QED
      BY <1>3, <3>2, <3>3, ListStays DEF AppendInv
  <2>5. CASE Put(c) /\ PutTakes(c)
    <3> USE <2>5
    <3>1. /\ exists' = exists \cup {SharedKey} /\ Shared'.Value = <<>> /\ Shared'.Version = 0 + 1
          /\ Shared.Version = 0
      <4>1. /\ exists' = exists \cup {SharedKey} /\ Shared' = [Value |-> <<>>, Version |-> 0 + 1]
            /\ Shared.Version = 0
        BY <2>3 DEF PutTakes, Shared
      <4> QED
        BY ONLY ZenonT(20), <4>1
    <3> USE <3>1
    <3>2. ASSUME NEW d \in Clients PROVE EnteredOK(d)'
      BY <1>2, <2>2, <3>2, EnteredFrame DEF AppendInv
    <3>3. AppendList'
      BY EmptyList DEF AppendList
    <3>4. AppendSetup'
      BY <2>3 DEF AppendInv, AppendSetup
    <3> QED
      BY <1>3, <3>2, <3>3, <3>4 DEF AppendInv
  <2> QED
    BY <2>4, <2>5
<1> QED
  BY <1>4, <1>5

(* A client's program moves. *)
LEMMA AppendRun ==
    ASSUME FiniteCounts, ListsAreValues, KInv, TestVarsOK, AppendInv, NEW c \in Clients,
           UNCHANGED <<fn, reliable, history>>,
           Stop(c) \/ OneClientAppend(c) \/ AppendWrite(c) \/ AppendAnswered(c)
    PROVE  KInv' /\ TestVarsOK' /\ AppendInv' /\ Programs(c)
<1>1. KInv' /\ TestVarsOK' /\ AppendClient(c)' /\ EnteredOK(c)' /\ Programs(c) /\ Shared' = Shared
  BY AppendRuns DEF AppendInv
<1> USE <1>1
<1>2. UNCHANGED <<exists, Kvmap>> /\ \A d \in Clients \ {c} : Same(d)
  BY DEF Programs
<1> USE <1>2
<1>3. ASSUME NEW d \in Clients, d # c PROVE AppendClient(d)' /\ EnteredOK(d)'
  <2>1. Grows(SharedKey)
    BY DEF Grows
  <2> QED
    BY <1>3, <2>1, AppendFrame, EnteredFrame DEF AppendInv
<1>4. AppendSetup'
  BY ClientFacts DEF AppendInv, AppendSetup, Programs, Still
<1>5. AppendList'
  BY ListStays DEF AppendInv
<1> QED
  BY <1>3, <1>4, <1>5 DEF AppendInv

-----------------------------------------------------------------------------
(***************************************************************************)
(* The test itself                                                         *)
(***************************************************************************)
FnInv ==
    /\ fn = "OneClientPut" => PutInv
    /\ fn = "OneClientAppend" => AppendInv
    /\ fn = "PutAtLeastOnce" => OnceInv

(* The Checker puts only to set up the list for OneClientAppend. *)
CheckerPuts ==
    /\ tpc[Checker] = "setup" => fn = "OneClientAppend"
    /\ op[Checker].op = "Put" /\ phase[Checker] # "idle" =>
          fn = "OneClientAppend" /\ tpc[Checker] = "wait"

(* What a client does in its loop. *)
Goes(c) ==
    \/ Stop(c)
    \/ OneClientPut(c) \/ OnePutAnswered(c) \/ OnePutRead(c)
    \/ OneClientAppend(c) \/ AppendWrite(c) \/ AppendAnswered(c)
    \/ PutAtLeastOnce(c) \/ OnceAnswered(c)

(* A client runs the program it was started with, and stops once. *)
LEMMA RunsOwn ==
    ASSUME TestVarsOK, FnInv, fn # "oneClient", NEW c \in Clients, Run(c)
    PROVE  /\ Goes(c) /\ UNCHANGED <<fn, reliable, history, lpc, rounds, losses>>
           /\ fn = "OneClientPut" =>
                 Stop(c) \/ OneClientPut(c) \/ OnePutAnswered(c) \/ OnePutRead(c)
           /\ fn = "OneClientAppend" =>
                 Stop(c) \/ OneClientAppend(c) \/ AppendWrite(c) \/ AppendAnswered(c)
           /\ fn = "PutAtLeastOnce" =>
                 Stop(c) \/ PutAtLeastOnce(c) \/ OnceAnswered(c)
<1>1. /\ OneClientPut(c) => fn = "OneClientPut"
      /\ OneClientAppend(c) => fn = "OneClientAppend"
      /\ PutAtLeastOnce(c) => fn = "PutAtLeastOnce"
  BY DEF OneClientPut, OneClientAppend, PutAtLeastOnce, Iterate
<1>2. /\ OnePutAnswered(c) => tpc[c] = "put"
      /\ OnePutRead(c) => tpc[c] = "get"
      /\ AppendWrite(c) => tpc[c] = "read"
      /\ AppendAnswered(c) => tpc[c] = "append"
      /\ OnceAnswered(c) => tpc[c] = "once"
  BY DEF OnePutAnswered, OnePutRead, AppendWrite, AppendAnswered, OnceAnswered, At
<1>3. LockTest(c) => tpc[c] \in {"made", "look", "enter", "leave"}
  BY DEF LockTest, LockStep, MakeGuarded, Acquired, Enter, Leave, Left, StopLocking, At
<1>4. /\ fn = "OneClientPut" => tpc[c] \in {"loop", "put", "get", "done"}
      /\ fn = "OneClientAppend" => tpc[c] \in {"loop", "read", "append", "done"}
      /\ fn = "PutAtLeastOnce" => tpc[c] \in {"loop", "once", "done"}
  BY DEF FnInv, PutInv, PutClient, AppendInv, AppendClient, OnceInv, OnceClient
<1> USE <1>4
<1>5. fn \in {"OneClientPut", "OneClientAppend", "PutAtLeastOnce"}
  BY DEF TestVarsOK, Fns
<1> USE <1>5
<1>6. ~LockTest(c)
  BY <1>3
<1>7. Goes(c) /\ UNCHANGED <<fn, reliable, history, lpc, rounds, losses>>
  BY <1>6 DEF Run, Goes, lock
<1> QED
  BY <1>1, <1>2, <1>7 DEF Goes

(* The Checker's steps leave the clients and the server alone. *)
CheckerMoves ==
    /\ UNCHANGED <<exists, Kvmap, fn, reliable>>
    /\ \A d \in Clients : Same(d)

LEMMA CheckerFrame ==
    ASSUME FiniteCounts, KInv, TestVarsOK, FnInv, CheckerMoves, fn = "OneClientAppend" => AppendSetup'
    PROVE  FnInv'
<1>1. /\ UNCHANGED <<exists, Kvmap, fn, reliable>> /\ \A d \in Clients : Same(d)
      /\ Grows(SharedKey) /\ Shared' = Shared
  BY DEF CheckerMoves, Grows, Shared
<1> USE <1>1
<1>2. CASE fn = "OneClientPut"
  <2> USE <1>2
  <2>1. PutInv
    BY DEF FnInv
  <2> USE <2>1
  <2>2. \A d \in Clients : PutClient(d)'
    BY PutFrame DEF PutInv
  <2> QED
    BY <2>2 DEF FnInv, PutInv
<1>3. CASE fn = "OneClientAppend"
  <2> USE <1>3
  <2>1. AppendInv
    BY DEF FnInv
  <2> USE <2>1
  <2>2. \A d \in Clients : AppendClient(d)' /\ EnteredOK(d)'
    BY AppendFrame, EnteredFrame DEF AppendInv
  <2>3. AppendList'
    BY ListStays DEF AppendInv
  <2> QED
    BY <2>2, <2>3 DEF FnInv, AppendInv
<1>4. CASE fn = "PutAtLeastOnce"
  <2> USE <1>4
  <2>1. \A d \in Clients : OnceClient(d)'
    BY OnceFrame DEF FnInv, OnceInv
  <2> QED
    BY <2>1 DEF FnInv, OnceInv
<1> QED
  BY <1>2, <1>3, <1>4 DEF FnInv

LEMMA CheckerAsks ==
    ASSUME KInv, TestVarsOK, NEW o \in GetOps \cup PutOps, Invoke(Checker, o),
           NEW l \in TestLocations, Jump(Checker, l),
           UNCHANGED <<fn, reliable, history, iter, ver, err, res>>,
           o.op = "Put" => o.Value \in Seq(Entries)
    PROVE  /\ KInv' /\ TestVarsOK' /\ CheckerMoves
           /\ tpc'[Checker] = l /\ op'[Checker] = o /\ phase'[Checker] = "called"
           /\ \A d \in Clients : tpc'[d] = tpc[d]
<1>1. Checker \in Clerks /\ IInv
  BY ClientFacts DEF KInv
<1> USE <1>1
<1>2. KInv'
  BY InvokeKInv
<1>3. /\ Others(Checker) /\ UNCHANGED <<exists, Kvmap>>
      /\ op'[Checker] = o /\ phase'[Checker] = "called"
  BY InvokeMoves
<1> USE <1>3
<1>4. /\ tpc' \in [Clerks -> TestLocations] /\ tpc'[Checker] = l
      /\ \A d \in Clients : tpc'[d] = tpc[d]
  BY ClientFacts DEF Jump, TestVarsOK
<1> USE <1>4
<1>5. TestVarsOK'
  BY ProgramTypes DEF TestVarsOK
<1>6. \A d \in Clients : Same(d)
  BY ClientFacts DEF Same, Others
<1> QED
  BY <1>2, <1>5, <1>6 DEF CheckerMoves

LEMMA SetupStep ==
    ASSUME FiniteCounts, ListsAreValues, KInv, TestVarsOK, FnInv, CheckerPuts, Setup,
           UNCHANGED <<fn, reliable, history>>
    PROVE  KInv' /\ TestVarsOK' /\ FnInv' /\ CheckerPuts'
<1>1. /\ tpc[Checker] = "setup" /\ Invoke(Checker, PutOf(SharedKey, <<>>, 0))
      /\ Jump(Checker, "wait") /\ UNCHANGED <<iter, ver, err, res>> /\ "wait" \in TestLocations
  BY DEF Setup, At, PutJson, PutOf, TestLocations
<1> USE <1>1
<1>2. fn = "OneClientAppend"
  BY DEF CheckerPuts
<1>3. /\ PutOf(SharedKey, <<>>, 0) \in PutOps
      /\ PutOf(SharedKey, <<>>, 0).Value \in Seq(Entries)
  <2>1. <<>> \in Seq(Entries) /\ SharedKey \in Keys /\ 0 \in Nat
    BY ClientFacts
  <2> USE <2>1
  <2>2. <<>> \in Values
    BY DEF ListsAreValues
  <2> QED
    BY <2>2 DEF PutOf, PutOps
<1>4. /\ KInv' /\ TestVarsOK' /\ CheckerMoves
      /\ tpc'[Checker] = "wait" /\ op'[Checker] = PutOf(SharedKey, <<>>, 0)
      /\ phase'[Checker] = "called" /\ \A d \in Clients : tpc'[d] = tpc[d]
  BY <1>3, CheckerAsks
<1> USE <1>4
<1>5. AppendSetup'
  BY DEF AppendSetup
<1>6. FnInv'
  BY <1>5, CheckerFrame
<1>7. CheckerPuts'
  BY <1>2 DEF CheckerPuts
<1> QED
  BY <1>6, <1>7

LEMMA CheckStep ==
    ASSUME FiniteCounts, KInv, TestVarsOK, FnInv, Check, UNCHANGED <<fn, reliable, history>>
    PROVE  KInv' /\ TestVarsOK' /\ FnInv' /\ CheckerPuts'
<1>1. PICK k \in Clients \cup {SharedKey} : Invoke(Checker, GetOf(k))
  BY DEF Check, GetJson, GetOf
<1>2. Jump(Checker, "check") /\ UNCHANGED <<iter, ver, err, res>> /\ "check" \in TestLocations
  BY DEF Check, TestLocations
<1> USE <1>2
<1>3. k \in Keys
  BY ClientFacts
<1>4. GetOf(k) \in GetOps /\ GetOf(k).op = "Get"
  BY <1>3, OpParts
<1>5. /\ KInv' /\ TestVarsOK' /\ CheckerMoves
      /\ tpc'[Checker] = "check" /\ op'[Checker] = GetOf(k)
  BY <1>1, <1>4, CheckerAsks
<1> USE <1>5
<1>6. AppendSetup'
  BY DEF AppendSetup
<1>7. FnInv'
  BY <1>6, CheckerFrame
<1>8. CheckerPuts'
  BY <1>4 DEF CheckerPuts
<1> QED
  BY <1>7, <1>8

LEMMA JudgeStep ==
    ASSUME FiniteCounts, KInv, TestVarsOK, FnInv, Judge, UNCHANGED <<fn, reliable, history>>
    PROVE  KInv' /\ TestVarsOK' /\ FnInv' /\ CheckerPuts'
<1>1. PICK l \in {"passed", "fatal"} : Jump(Checker, l)
  BY DEF Judge
<1>2. /\ phase[Checker] = "idle" /\ UNCHANGED <<vars, iter, ver, err, res>>
      /\ "passed" \in TestLocations /\ "fatal" \in TestLocations
  BY DEF Judge, At, TestLocations
<1> USE <1>2
<1>3. UNCHANGED <<exists, Kvmap, op, phase, resend, reply, result, performed>>
  BY DEF vars, server, clerk
<1> USE <1>3
<1>4. /\ tpc' \in [Clerks -> TestLocations] /\ tpc'[Checker] = l
      /\ \A d \in Clients : tpc'[d] = tpc[d]
  BY <1>1, ClientFacts DEF Jump, TestVarsOK
<1> USE <1>4
<1>5. KInv' /\ TestVarsOK'
  BY SameKInv, ProgramTypes DEF TestVarsOK
<1>6. CheckerMoves
  BY DEF CheckerMoves, Same, Still
<1>7. AppendSetup'
  BY DEF AppendSetup
<1>8. FnInv'
  BY <1>6, <1>7, CheckerFrame
<1>9. CheckerPuts'
  BY DEF CheckerPuts
<1> QED
  BY <1>5, <1>8, <1>9

LockVarsOK ==
    /\ lpc \in [Clerks -> Locations]
    /\ rounds \in [Clerks -> 0 .. MaxRounds]
    /\ losses \in 0 .. MaxLosses

TestInv == KInv /\ TestVarsOK /\ LockVarsOK /\ FnInv /\ CheckerPuts

LEMMA InitTestInv ==
    ASSUME FiniteCounts, TestInit, fn # "oneClient"
    PROVE  TestInv
<1>1. IInv /\ LockVarsOK
  BY InitIInv, LockAssumption DEF TestInit, LockInit, LockVarsOK, Locations
<1>2. /\ exists = {} /\ op = [c \in Clerks |-> NoOp] /\ phase = [c \in Clerks |-> "idle"]
      /\ resend = [c \in Clerks |-> FALSE] /\ Kvmap = [k \in Keys |-> [Value |-> Empty, Version |-> 0]]
  BY DEF TestInit, LockInit, Init
<1>3. NoOp.op = "none"
  BY DEF NoOp
<1>4. KInv
  BY <1>1, <1>2, <1>3 DEF KInv, GetOK, ReturnOK, ListsPut
<1>5. TestVarsOK
  BY SMTT(30), TestAssumption DEF TestInit, TestVarsOK, TestLocations, Fns, OK
<1>6. /\ tpc[Checker] \in {"setup", "wait"} /\ phase[Checker] = "idle"
      /\ tpc[Checker] = "setup" <=> fn = "OneClientAppend"
  BY <1>2, ClientFacts DEF TestInit, Clients
<1>7. \A c \in Clients :
        /\ tpc[c] = "loop" /\ iter[c] = 0 /\ ver[c] = 0 /\ err[c] = OK /\ phase[c] = "idle"
        /\ res[c].Nok = 0 /\ res[c].Nmaybe = 0 /\ op[c] = NoOp /\ Kvmap[c].Version = 0
  BY <1>2, ClientFacts DEF TestInit
<1>8. Shared.Version = 0 /\ SharedKey \notin exists
  BY <1>2, ClientFacts DEF Shared
<1>9. CheckerPuts
  BY <1>2, <1>6, <1>7, <1>8 DEF CheckerPuts
<1>10. PutInv
  BY <1>7, <1>8 DEF PutInv, PutClient, OK, ErrMaybe
<1>11. fn = "OneClientAppend" => AppendInv
  <2>1. \A c \in Clients : AppendClient(c) /\ EnteredOK(c)
    BY <1>7, <1>8 DEF AppendClient, EnteredOK, Appending
  <2> QED
    BY <1>6, <1>8, <2>1 DEF AppendInv, AppendList, AppendSetup
<1>12. OnceInv
  BY <1>7 DEF OnceInv, OnceClient
<1> QED
  BY <1>1, <1>4, <1>5, <1>9, <1>10, <1>11, <1>12 DEF TestInv, FnInv

(* A client of the test runs. *)
LEMMA RunStep ==
    ASSUME FiniteCounts, ListsAreValues, TestInv, fn # "oneClient", NEW c \in Clients, Run(c)
    PROVE  TestInv'
<1>0. KInv /\ TestVarsOK /\ LockVarsOK /\ FnInv /\ CheckerPuts
  BY DEF TestInv
<1> USE <1>0
<1>1. /\ Goes(c) /\ UNCHANGED <<fn, reliable, history, lpc, rounds, losses>>
      /\ fn = "OneClientPut" =>
            Stop(c) \/ OneClientPut(c) \/ OnePutAnswered(c) \/ OnePutRead(c)
      /\ fn = "OneClientAppend" =>
            Stop(c) \/ OneClientAppend(c) \/ AppendWrite(c) \/ AppendAnswered(c)
      /\ fn = "PutAtLeastOnce" =>
            Stop(c) \/ PutAtLeastOnce(c) \/ OnceAnswered(c)
  BY RunsOwn
<1> USE <1>1
<1>2. fn \in {"OneClientPut", "OneClientAppend", "PutAtLeastOnce"}
  BY DEF TestVarsOK, Fns
<1>3. KInv' /\ TestVarsOK' /\ FnInv' /\ Programs(c)
  <2>1. CASE fn = "OneClientPut"
    <3> USE <2>1
    <3>1. KInv' /\ TestVarsOK' /\ PutInv' /\ Programs(c)
      BY PutRun DEF FnInv
    <3> QED
      BY <3>1 DEF FnInv
  <2>2. CASE fn = "OneClientAppend"
    <3> USE <2>2
    <3>1. KInv' /\ TestVarsOK' /\ AppendInv' /\ Programs(c)
      BY AppendRun DEF FnInv
    <3> QED
      BY <3>1 DEF FnInv
  <2>3. CASE fn = "PutAtLeastOnce"
    <3> USE <2>3
    <3>1. KInv' /\ TestVarsOK' /\ OnceInv' /\ Programs(c)
      BY OnceRun DEF FnInv
    <3> QED
      BY <3>1 DEF FnInv
  <2> QED
    BY <1>2, <2>1, <2>2, <2>3
<1> USE <1>3
<1>4. CheckerPuts'
  BY ClientFacts DEF CheckerPuts, Programs, Still
<1>5. LockVarsOK'
  BY DEF LockVarsOK
<1> QED
  BY <1>4, <1>5 DEF TestInv

(* The server, or the network. *)
LEMMA NetStep ==
    ASSUME FiniteCounts, TestInv, fn # "oneClient", NEW c \in Clerks, Moves(c),
           UNCHANGED <<fn, reliable, client>>, DOMAIN history' = Keys, LockVarsOK'
    PROVE  TestInv'
<1>0. KInv /\ TestVarsOK /\ FnInv /\ CheckerPuts
  BY DEF TestInv
<1> USE <1>0
<1>1. KInv'
  BY MovesKInv
<1>2. TestVarsOK'
  BY MovesTypes
<1>3. op' = op /\ phase[c] # "idle" /\ Others(c)
  BY NetMoves
<1> USE <1>3
<1>4. c = Checker /\ op[c].op = "Put" => tpc[c] = "wait" /\ fn = "OneClientAppend"
  BY DEF CheckerPuts
<1> USE <1>4
<1>7. CheckerPuts'
  BY ClientFacts DEF CheckerPuts, Others, Still, client
<1>5. fn \in {"OneClientPut", "OneClientAppend", "PutAtLeastOnce"}
  BY DEF TestVarsOK, Fns
<1>6. FnInv'
  <2>1. CASE fn = "OneClientPut"
    <3> USE <2>1
    <3>1. PutInv'
      BY PutNet DEF FnInv
    <3> QED
      BY <3>1 DEF FnInv
  <2>2. CASE fn = "OneClientAppend"
    <3> USE <2>2
    <3>1. AppendInv'
      BY AppendNet DEF FnInv
    <3> QED
      BY <3>1 DEF FnInv
  <2>3. CASE fn = "PutAtLeastOnce"
    <3> USE <2>3
    <3>1. OnceInv'
      BY OnceNet DEF FnInv
    <3> QED
      BY <3>1 DEF FnInv
  <2> QED
    BY <1>5, <2>1, <2>2, <2>3
<1> QED
  BY <1>1, <1>2, <1>6, <1>7 DEF TestInv

(* Every step of the test keeps the invariant. *)
LEMMA NextTestInv ==
    ASSUME FiniteCounts, ListsAreValues, TestInv, fn # "oneClient", [TestNext]_testVars
    PROVE  TestInv' /\ fn' # "oneClient"
<1>0. KInv /\ TestVarsOK /\ LockVarsOK /\ FnInv /\ CheckerPuts /\ DOMAIN history = Keys
  BY DEF TestInv, TestVarsOK
<1> USE <1>0
<1>1. CASE UNCHANGED testVars
  <2>1. UNCHANGED <<vars, fn, reliable, history, tpc, iter, ver, err, res, lpc, rounds, losses>>
    BY <1>1 DEF testVars, client, lock
  <2> USE <2>1
  <2>2. UNCHANGED <<exists, Kvmap, op, phase, resend, reply, result, performed>>
    BY DEF vars, server, clerk
  <2> USE <2>2
  <2>3. KInv' /\ TestVarsOK' /\ LockVarsOK'
    BY SameKInv, ProgramTypes DEF TestVarsOK, LockVarsOK
  <2>4. CheckerMoves
    BY DEF CheckerMoves, Same, Still
  <2>5. fn = "OneClientAppend" => AppendSetup'
    BY DEF FnInv, AppendInv, AppendSetup
  <2>6. FnInv'
    BY <2>4, <2>5, CheckerFrame
  <2>7. CheckerPuts'
    BY DEF CheckerPuts
  <2> QED
    BY <2>3, <2>6, <2>7 DEF TestInv
<1>2. CASE Test
  <2>1. /\ Setup \/ Check \/ Judge
        /\ UNCHANGED <<fn, reliable, history, lpc, rounds, losses>>
    BY <1>2 DEF Test, runClients, lock
  <2> USE <2>1
  <2>2. KInv' /\ TestVarsOK' /\ FnInv' /\ CheckerPuts'
    BY SetupStep, CheckStep, JudgeStep
  <2>3. LockVarsOK'
    BY DEF LockVarsOK
  <2> QED
    BY <2>2, <2>3 DEF TestInv
<1>3. ASSUME NEW c \in Clients, Run(c) PROVE TestInv' /\ fn' # "oneClient"
  BY <1>3, RunStep DEF Run
<1>4. ASSUME NEW c \in Clerks, Operate(c) PROVE TestInv' /\ fn' # "oneClient"
  <2> USE <1>4
  <2>1. /\ Get(c) \/ Put(c) \/ Return(c)
        /\ UNCHANGED <<lpc, rounds, losses, fn, reliable, client>>
    BY DEF Operate, Network, Serve
  <2> USE <2>1
  <2>2. DOMAIN history' = Keys
    BY DEF Operate, OpLogAppend
  <2>3. LockVarsOK'
    BY DEF LockVarsOK
  <2> QED
    BY <2>2, <2>3, NetStep DEF Moves
<1>5. ASSUME NEW c \in Clerks, CallIsLost(c) PROVE TestInv' /\ fn' # "oneClient"
  <2>1. /\ CallFails(c) /\ losses < MaxLosses /\ losses' = losses + 1
        /\ UNCHANGED <<lpc, rounds, fn, reliable, client, history>>
    BY <1>5 DEF CallIsLost, Lose
  <2> USE <2>1
  <2>2. LockVarsOK'
    BY SMTT(30), LockAssumption DEF LockVarsOK
  <2> QED
    BY <2>2, NetStep DEF Moves
<1> QED
  BY <1>1, <1>2, <1>3, <1>4, <1>5 DEF TestNext
-----------------------------------------------------------------------------
(***************************************************************************)
(* What the invariant says                                                 *)
(***************************************************************************)
LEMMA InvTypes == ASSUME TestInv PROVE TestTypeOK
<1>1. TypeOK /\ ServerOK /\ ListsPut
  BY DEF TestInv, KInv, IInv
<1>2. LockTypeOK
  BY <1>1 DEF TestInv, LockVarsOK, LockTypeOK
<1>3. ASSUME NEW k \in exists \ {LockKey}
      PROVE  Kvmap[k].Value \in Seq(Entries) /\ Kvmap[k].Version \in Nat \ {0}
  <2>1. k \in Keys /\ Kvmap[k].Version \in Nat
    BY <1>1 DEF TypeOK
  <2>2. Kvmap[k].Version > 0
    BY <1>1, <2>1 DEF ServerOK
  <2>3. Kvmap[k].Value \in Seq(Entries)
    BY <1>1 DEF ListsPut
  <2> QED
    BY <2>1, <2>2, <2>3
<1> QED
  BY <1>2, <1>3 DEF TestInv, TestVarsOK, TestTypeOK

LEMMA InvNoFatalf ==
    ASSUME TestInv, fn # "oneClient", NEW c \in Clients
    PROVE  tpc[c] # "fatal"
  BY DEF TestInv, TestVarsOK, Fns, FnInv, PutInv, PutClient, AppendInv, AppendClient,
         OnceInv, OnceClient

LEMMA InvOwnPut ==
    ASSUME TestInv, fn # "oneClient"
    PROVE  OwnPutIsRead
<1> SUFFICES ASSUME NEW c \in Clients, At(c, "get"), Mine(c)
             PROVE  result[c].Value = <<Entry(c, ver[c])>>
  BY DEF OwnPutIsRead
<1>1. PutClient(c)
  BY DEF TestInv, TestVarsOK, Fns, FnInv, PutInv, AppendInv, AppendClient, OnceInv,
         OnceClient, At
<1> USE <1>1
<1>2. op[c] = GetOf(SharedKey) /\ op[c].op = "Get"
  <2>1. op[c] = GetOf(SharedKey)
    BY DEF PutClient, At
  <2> QED
    BY ONLY ZenonT(10), <2>1, OpParts
<1>3. c \in Clerks /\ phase[c] = "idle"
  BY DEF At, Clients
<1> USE <1>3
<1>4. result[c] = reply[c]
  BY <1>2, GetDone DEF TestInv
<1> QED
  BY <1>4 DEF PutClient, At, Mine, OwnPut

LEMMA InvAppends ==
    ASSUME FiniteCounts, fn # "oneClient" => TestInv
    PROVE  AppendsKept
<1> SUFFICES ASSUME fn = "OneClientAppend", NEW c \in Clients, At(c, "loop"), iter[c] > 0
             PROVE  Cardinality(Entered(c)) \in res[c].Nok .. res[c].Nok + res[c].Nmaybe
  BY DEF AppendsKept, Entered, Shared
<1>1. KInv /\ TestVarsOK /\ AppendClient(c) /\ EnteredOK(c)
  BY DEF TestInv, FnInv, AppendInv
<1> USE <1>1
<1>2. SharedKey \in exists
  BY DEF AppendClient
<1> USE <1>2
<1>3. Cardinality(Entered(c)) \in Nat
  BY EntriesFinite
<1>4. Appended(c) = 0 /\ res[c].Nok \in Nat /\ res[c].Nmaybe \in Nat
  BY DEF Appended, At, TestVarsOK
<1> QED
  BY <1>3, <1>4 DEF EnteredOK
-----------------------------------------------------------------------------
(***************************************************************************)
(* Finite sets                                                             *)
(*                                                                         *)
(* FiniteSetTheorems is instantiated here and not extended, as its names   *)
(* are needed by no proof above.  An instance has a Cardinality of its own: *)
(* Finite and Card name those of the model, and are shown to be the same.  *)
(***************************************************************************)
Finite(S) == IsFiniteSet(S)

Card(S) == Cardinality(S)

(* The definitions of the two in the module FiniteSets. *)
LEMMA FiniteIs ==
    ASSUME NEW S
    PROVE  Finite(S) = \E q \in Seq(S) : \A s \in S : \E n \in 1 .. Len(q) : q[n] = s
  BY DEF Finite, IsFiniteSet

LEMMA CardIs ==
    ASSUME NEW S
    PROVE  Card(S) = LET CS[T \in SUBSET S] == IF T = {} THEN 0
                                               ELSE 1 + CS[T \ {CHOOSE x : x \in T}]
                     IN  CS[S]
  BY DEF Card, Cardinality

LEMMA CountsAre ==
    ASSUME Finite({}), Card({}) = 0, \A n \in Nat : Finite(1 .. n),
           \A S : Finite(S) =>
               /\ Card(S) \in Nat
               /\ \A T \in SUBSET S : Finite(T)
               /\ \A x : x \notin S => Card(S \cup {x}) = Card(S) + 1
    PROVE  FiniteCounts
  BY DEF FiniteCounts, Finite, Card

LOCAL INSTANCE FiniteSetTheorems

LEMMA CardSame == ASSUME NEW S PROVE Card(S) = Cardinality(S)
  BY CardIs DEF Cardinality

LEMMA FiniteSame == ASSUME NEW S PROVE Finite(S) = IsFiniteSet(S)
  BY FiniteIs DEF IsFiniteSet

(* What the steps assume of finite sets. *)
LEMMA CountsHold == FiniteCounts
<1>1. \A S : IsFiniteSet(S) =>
          /\ Cardinality(S) \in Nat
          /\ \A T \in SUBSET S : IsFiniteSet(T)
          /\ \A x : x \notin S => Cardinality(S \cup {x}) = Cardinality(S) + 1
  BY FS_CardinalityType, FS_Subset, FS_AddElement
<1>2. IsFiniteSet({}) /\ Cardinality({}) = 0 /\ \A n \in Nat : IsFiniteSet(1 .. n)
  BY SMTT(30), FS_Interval, FS_EmptySet
<1> QED
  BY <1>1, <1>2, CardSame, FiniteSame, CountsAre
-----------------------------------------------------------------------------
(***************************************************************************)
(* The theorems                                                            *)
(***************************************************************************)
LEMMA TestInvariant ==
    ASSUME ListsAreValues
    PROVE  TestSpec => [](fn # "oneClient" => TestInv)
<1>1. TestInit => (fn # "oneClient" => TestInv)
  BY CountsHold, InitTestInv
<1>2. (fn # "oneClient" => TestInv) /\ [TestNext]_testVars => (fn # "oneClient" => TestInv)'
  <2> SUFFICES ASSUME fn # "oneClient" => TestInv, [TestNext]_testVars, fn' # "oneClient"
               PROVE  TestInv'
    OBVIOUS
  <2>1. fn' = fn
    BY DEF TestNext, Test, Run, Operate, CallIsLost, testVars
  <2> QED
    BY <2>1, CountsHold, NextTestInv
<1> QED
  BY <1>1, <1>2, PTL DEF TestSpec

(* While the clients run OneClientPut, OneClientAppend or PutAtLeastOnce   *)
(* against the server, the server, the clerks and the test keep their       *)
(* types: under every key but the lock there is a list of entries, with a   *)
(* version of at least 1.                                                   *)
THEOREM TestTypeCorrect ==
    ASSUME ListsAreValues
    PROVE  TestSpec => [](fn # "oneClient" => TestTypeOK)
  BY InvTypes, TestInvariant, PTL

(* Spawned with OneClientPut, OneClientAppend or PutAtLeastOnce, no client  *)
(* calls Fatalf (kvtest1/kvtest.go), for any number of clients and          *)
(* iterations and whatever Calls the network loses: a key that was put is   *)
(* never missing, a Put that was OK is not read as somebody else's, and     *)
(* PutAtLeastOnce never gets ErrNoKey with a version other than 0.          *)
THEOREM ClientsNeverFatalf ==
    ASSUME ListsAreValues
    PROVE  TestSpec => [](fn # "oneClient" => \A c \in Clients : tpc[c] # "fatal")
<1>1. TestInv /\ fn # "oneClient" => \A c \in Clients : tpc[c] # "fatal"
  BY InvNoFatalf
<1> QED
  BY <1>1, TestInvariant, PTL

(* OnePut, as OneClientPut calls it: a client whose Put was OK and that     *)
(* reads the next version reads its own value.                              *)
THEOREM ReadsOwnPut ==
    ASSUME ListsAreValues
    PROVE  TestSpec => [](fn # "oneClient" => OwnPutIsRead)
<1>1. TestInv /\ fn # "oneClient" => OwnPutIsRead
  BY InvOwnPut
<1> QED
  BY <1>1, TestInvariant, PTL

(* OneClientAppend: between its iterations a client has in the list at least *)
(* as many entries as appends that were acknowledged, and at most one more  *)
(* for each that ended with ErrMaybe.                                       *)
THEOREM AcknowledgedAppends ==
    ASSUME ListsAreValues
    PROVE  TestSpec => []AppendsKept
<1>1. (fn # "oneClient" => TestInv) => AppendsKept
  BY CountsHold, InvAppends
<1> QED
  BY <1>1, TestInvariant, PTL
==============================================================================
