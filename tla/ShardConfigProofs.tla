-------------------------- MODULE ShardConfigProofs --------------------------
(***************************************************************************)
(* For any number of shards, groups and calls: after a JoinBalance or      *)
(* LeaveBalance that succeeded every shard has a group that is there, and  *)
(* no two groups differ by more than one shard.  Rebalance's second loop   *)
(* ends after at most one round per shard.                                 *)
(***************************************************************************)
EXTENDS ShardConfig, FiniteSetTheorems, WellFoundedInduction, TLAPS

(* A leaf that names no prover is tried with Zenon, then with SMT. *)
USE ZenonT(20), SMTT(30)

Assignments == [ShardIds -> Nat]

(* The shards that are not with one of the groups. *)
Elsewhere(shards, groups) == {s \in ShardIds : shards[s] \notin groups}

Even(shards, groups) ==
    \A g, h \in groups : Counts(shards, g) <= Counts(shards, h) + 1

(* After n rounds of the second loop it has ended, or there are groups that *)
(* have received shards, at most NShards - n shards are not with them, and  *)
(* none of them is ever the most loaded one again.                          *)
Received(shards, groups, taken) ==
    \A g \in taken, h \in groups : Counts(shards, g) <= Counts(shards, h) + 1

Progress(shards, groups, n) ==
    \/ IsBalanced(shards, groups)
    \/ \E taken \in SUBSET groups :
          /\ Received(shards, groups, taken)
          /\ Cardinality(Elsewhere(shards, taken)) <= NShards - n
-----------------------------------------------------------------------------
(***************************************************************************)
(* Induction                                                               *)
(***************************************************************************)
(* Every set of natural numbers has a least one. *)
LEMMA LeastNumber ==
    ASSUME NEW T \in SUBSET Nat, T # {}
    PROVE  \E n \in T : \A m \in T : n <= m
<1>1. IsWellFoundedOn(OpToRel(<, Nat), Nat)
  BY NatLessThanWellFounded
<1>2. PICK n \in T : \A m \in T : ~(<<m, n>> \in OpToRel(<, Nat))
  BY <1>1, WFMin
<1>3. \A m \in T : ~(m < n)
  BY <1>2 DEF OpToRel
<1> QED
  BY SMTT(30), <1>3

(* A property of numbers up to N that holds of 0 and of n + 1 if of n. *)
LEMMA UpTo ==
    ASSUME NEW N \in Nat, NEW good \in SUBSET (0 .. N), 0 \in good,
           \A n \in 0 .. N - 1 : n \in good => n + 1 \in good
    PROVE  good = 0 .. N
<1> SUFFICES ASSUME good # 0 .. N PROVE FALSE
  OBVIOUS
<1> DEFINE bad == (0 .. N) \ good
<1>0. bad \in SUBSET Nat /\ bad # {}
  <2>1. bad \in SUBSET Nat
    BY SMTT(30)
  <2>2. ~(0 .. N \subseteq good)
    BY Zenon
  <2> QED
    BY <2>1, <2>2, Zenon
<1> HIDE DEF bad
<1>1. PICK n \in bad : \A m \in bad : n <= m
  BY <1>0, LeastNumber
<1> USE DEF bad
<1>2. n # 0 /\ n - 1 \in 0 .. N - 1 /\ (n - 1) + 1 = n
  BY <1>1
<1>3. n - 1 \in good
  BY <1>1, <1>2
<1> QED
  BY <1>1, <1>2, <1>3

(* f gives the state of a loop after each of its N rounds. *)
LoopOf(f, N, x, step) == f[0] = x /\ \A n \in 1 .. N : f[n] = step[n][f[n - 1]]

(* Every loop has such a function. *)
LEMMA Rounds ==
    ASSUME NEW N \in Nat, NEW V, NEW x \in V, NEW step \in [1 .. N -> [V -> V]]
    PROVE  \E f \in [0 .. N -> V] : LoopOf(f, N, x, step)
<1> DEFINE Good(n) == \E f \in [0 .. n -> V] :
                         f[0] = x /\ \A m \in 1 .. n : f[m] = step[m][f[m - 1]]
           good == {n \in 0 .. N : Good(n)}
<1>1. 0 \in good
  <2> DEFINE f == [m \in 0 .. 0 |-> x]
  <2>1. f \in [0 .. 0 -> V] /\ f[0] = x
    OBVIOUS
  <2> HIDE DEF f
  <2>2. \A m \in 1 .. 0 : f[m] = step[m][f[m - 1]]
    OBVIOUS
  <2>3. Good(0)
    BY <2>1, <2>2
  <2> QED
    BY SMTT(30), <2>3
<1>2. ASSUME NEW n \in 0 .. N - 1, n \in good PROVE n + 1 \in good
  <2>1. PICK f \in [0 .. n -> V] : f[0] = x /\ \A m \in 1 .. n : f[m] = step[m][f[m - 1]]
    BY <1>2
  <2> DEFINE g == [m \in 0 .. n + 1 |-> IF m = n + 1 THEN step[n + 1][f[n]] ELSE f[m]]
  <2>2. n \in 0 .. n /\ n + 1 \in 1 .. N /\ n + 1 \in 0 .. N /\ f[n] \in V
    BY SMTT(30)
  <2>3. step[n + 1][f[n]] \in V
    BY <2>2
  <2>4. g \in [0 .. n + 1 -> V]
    <3>1. ASSUME NEW m \in 0 .. n + 1, m # n + 1 PROVE m \in 0 .. n
      BY SMTT(30), <3>1
    <3> QED
      BY <2>3, <3>1
  <2>5. g[0] = x
    BY SMTT(30), <2>1
  <2>6. ASSUME NEW m \in 1 .. n + 1 PROVE g[m] = step[m][g[m - 1]]
    <3>1. CASE m = n + 1
      BY <3>1
    <3>2. CASE m # n + 1
      <4>1. m \in 1 .. n /\ m - 1 \in 0 .. n + 1 /\ m - 1 # n + 1 /\ m \in 0 .. n + 1
        BY SMTT(30), <3>2
      <4> QED
        BY <2>1, <3>2, <4>1
    <3> QED
      BY <3>1, <3>2
  <2> HIDE DEF g
  <2>7. Good(n + 1)
    BY <2>4, <2>5, <2>6
  <2> HIDE DEF Good
  <2> QED
    BY <2>2, <2>7
<1> HIDE DEF Good
<1>3. good = 0 .. N
  BY <1>1, <1>2, UpTo
<1>4. Good(N)
  BY <1>3
<1> QED
  BY <1>4 DEF Good, LoopOf
-----------------------------------------------------------------------------
(***************************************************************************)
(* Counts                                                                  *)
(***************************************************************************)
(* The shards are finitely many. *)
LEMMA ShardsFinite ==
    /\ NShards \in Nat /\ IsFiniteSet(ShardIds) /\ Cardinality(ShardIds) = NShards
    /\ \A T \in SUBSET ShardIds : IsFiniteSet(T) /\ Cardinality(T) \in 0 .. NShards
<1>1. NShards \in Nat \ {0} /\ 0 \in Int /\ NShards - 1 \in Int
  BY ShardAssumption
<1>2. IsFiniteSet(0 .. NShards - 1) /\ Cardinality(0 .. NShards - 1) = NShards
  <2>1. /\ IsFiniteSet(0 .. NShards - 1)
        /\ Cardinality(0 .. NShards - 1) = IF 0 > NShards - 1 THEN 0 ELSE NShards - 1 - 0 + 1
    BY <1>1, FS_Interval
  <2> QED
    BY <1>1, <2>1
<1>3. ASSUME NEW T \in SUBSET ShardIds
      PROVE  IsFiniteSet(T) /\ Cardinality(T) \in 0 .. NShards
  <2>1. IsFiniteSet(T) /\ Cardinality(T) <= NShards
    BY <1>2, FS_Subset DEF ShardIds
  <2>2. Cardinality(T) \in Nat
    BY <2>1, FS_CardinalityType
  <2> QED
    BY <1>1, <2>1, <2>2
<1> QED
  BY <1>1, <1>2, <1>3 DEF ShardIds

(* A group has between none and all of the shards. *)
LEMMA CountsType ==
    ASSUME NEW shards, NEW g
    PROVE  Counts(shards, g) \in 0 .. NShards /\ Counts(shards, g) \in Nat
<1>1. {s \in ShardIds : shards[s] = g} \in SUBSET ShardIds
  OBVIOUS
<1> QED
  BY <1>1, ShardsFinite DEF Counts

(* Min finds what it looks for. *)
LEMMA MinOf ==
    ASSUME NEW S \in SUBSET Nat, S # {}
    PROVE  Min(S) \in S
<1>1. \E n \in S : \A m \in S : n <= m
  BY LeastNumber
<1> QED
  BY <1>1, ZenonT(40) DEF Min

(* analyze finds a least loaded group. *)
LEMMA LeastOf ==
    ASSUME NEW shards, NEW groups \in SUBSET Nat, groups # {}
    PROVE  /\ Least(shards, groups) \in groups
           /\ \A h \in groups : Counts(shards, h) >= Counts(shards, Least(shards, groups))
<1> DEFINE T == {Counts(shards, g) : g \in groups}
           S == {g \in groups : \A h \in groups : Counts(shards, h) >= Counts(shards, g)}
<1>1. T \in SUBSET Nat /\ T # {}
  BY CountsType
<1>2. PICK n \in T : \A m \in T : n <= m
  BY <1>1, LeastNumber
<1>3. PICK g \in groups : n = Counts(shards, g)
  BY <1>2
<1>4. \A h \in groups : Counts(shards, h) >= Counts(shards, g)
  BY <1>2, <1>3, CountsType
<1>5. S # {} /\ S \in SUBSET Nat
  BY <1>4
<1>6. Min(S) \in S
  BY <1>5, MinOf
<1>7. Least(shards, groups) = Min(S)
  BY DEF Least
<1> HIDE DEF T
<1> QED
  BY <1>6, <1>7

(* And a most loaded one. *)
LEMMA MostOf ==
    ASSUME NEW shards, NEW groups \in SUBSET Nat, groups # {}
    PROVE  /\ Most(shards, groups) \in groups
           /\ \A h \in groups : Counts(shards, h) <= Counts(shards, Most(shards, groups))
<1> DEFINE T == {NShards - Counts(shards, g) : g \in groups}
           S == {g \in groups : \A h \in groups : Counts(shards, h) <= Counts(shards, g)}
<1>0. \A g \in groups : NShards - Counts(shards, g) \in Nat
  BY SMTT(30), CountsType, ShardsFinite
<1>1. T \in SUBSET Nat /\ T # {}
  BY <1>0
<1>2. PICK n \in T : \A m \in T : n <= m
  BY <1>1, LeastNumber
<1>3. PICK g \in groups : n = NShards - Counts(shards, g)
  BY <1>2
<1>4. ASSUME NEW h \in groups PROVE Counts(shards, h) <= Counts(shards, g)
  <2>1. NShards - Counts(shards, g) <= NShards - Counts(shards, h)
    BY <1>2, <1>3
  <2>2. Counts(shards, g) \in Nat /\ Counts(shards, h) \in Nat /\ NShards \in Nat
    BY CountsType, ShardsFinite
  <2> QED
    BY <2>1, <2>2
<1>5. S # {} /\ S \in SUBSET Nat
  BY <1>4
<1>6. Min(S) \in S
  BY <1>5, MinOf
<1>7. Most(shards, groups) = Min(S)
  BY DEF Most
<1> HIDE DEF T
<1> QED
  BY <1>6, <1>7

(* One shard s moves from a to b: one less here and one more there. *)
LEMMA MoveCounts ==
    ASSUME NEW shards, NEW next, NEW s \in ShardIds, NEW a, NEW b, a # b,
           shards[s] = a, next[s] = b, \A t \in ShardIds : t # s => next[t] = shards[t]
    PROVE  /\ Counts(next, b) = Counts(shards, b) + 1
           /\ Counts(next, a) = Counts(shards, a) - 1
           /\ \A g : g # b /\ g # a => Counts(next, g) = Counts(shards, g)
<1> DEFINE of(sh, g) == {t \in ShardIds : sh[t] = g}
<1>1. \A sh, g : Counts(sh, g) = Cardinality(of(sh, g)) /\ IsFiniteSet(of(sh, g))
  BY ShardsFinite DEF Counts
<1>2. of(next, b) = of(shards, b) \cup {s} /\ s \notin of(shards, b)
  OBVIOUS
<1>3. of(next, a) = of(shards, a) \ {s} /\ s \in of(shards, a)
  OBVIOUS
<1>4. \A g : g # b /\ g # a => of(next, g) = of(shards, g)
  OBVIOUS
<1> HIDE DEF of
<1>5. Cardinality(of(shards, b) \cup {s}) = Cardinality(of(shards, b)) + 1
  BY <1>1, <1>2, FS_AddElement
<1>6. Cardinality(of(shards, a) \ {s}) = Cardinality(of(shards, a)) - 1
  BY <1>1, <1>3, FS_RemoveElement
<1> QED
  BY <1>1, <1>2, <1>3, <1>4, <1>5, <1>6
-----------------------------------------------------------------------------
(***************************************************************************)
(* The loops of Rebalance                                                  *)
(***************************************************************************)
(* The first loop leaves every shard with a group that is there. *)
LEMMA AssignedToGroups ==
    ASSUME NEW shards \in Assignments, NEW groups \in SUBSET Nat, groups # {}
    PROVE  Assigned(shards, groups) \in [ShardIds -> groups]
<1> DEFINE round(s, before) ==
               IF shards[s - 1] \in groups THEN before
               ELSE [before EXCEPT ![s - 1] = Least(before, groups)]
           step == [s \in 1 .. NShards |-> [before \in Assignments |-> round(s, before)]]
           upTo[s \in 0 .. NShards] ==
               IF s = 0 THEN shards
               ELSE LET before == upTo[s - 1]
                    IN  IF shards[s - 1] \in groups THEN before
                        ELSE [before EXCEPT ![s - 1] = Least(before, groups)]
<1>0. NShards \in Nat
  BY ShardsFinite
<1>1. ASSUME NEW s \in 1 .. NShards, NEW before \in Assignments
      PROVE  /\ round(s, before) \in Assignments
             /\ round(s, before)[s - 1] \in groups \/ shards[s - 1] \in groups
             /\ \A t \in ShardIds : t # s - 1 => round(s, before)[t] = before[t]
             /\ shards[s - 1] \in groups => round(s, before) = before
  <2>1. Least(before, groups) \in groups /\ s - 1 \in ShardIds
    BY <1>0, LeastOf DEF ShardIds
  <2> QED
    BY <2>1 DEF Assignments
<1> HIDE DEF round
<1>2. step \in [1 .. NShards -> [Assignments -> Assignments]]
  BY <1>1
<1>3. PICK f \in [0 .. NShards -> Assignments] :
        f[0] = shards /\ \A s \in 1 .. NShards : f[s] = step[s][f[s - 1]]
  <2> HIDE DEF step
  <2>1. \E f \in [0 .. NShards -> Assignments] : LoopOf(f, NShards, shards, step)
    BY <1>0, <1>2, Rounds
  <2> QED
    BY <2>1 DEF LoopOf
<1>4. \A s \in 1 .. NShards : f[s] = round(s, f[s - 1]) /\ f[s - 1] \in Assignments
  <2> SUFFICES ASSUME NEW s \in 1 .. NShards
               PROVE  f[s] = round(s, f[s - 1]) /\ f[s - 1] \in Assignments
    OBVIOUS
  <2>1. s - 1 \in 0 .. NShards
    BY SMTT(30), <1>0
  <2> QED
    BY <1>3, <2>1
<1>5. f = [s \in 0 .. NShards |->
             IF s = 0 THEN shards
             ELSE IF shards[s - 1] \in groups THEN f[s - 1]
                  ELSE [f[s - 1] EXCEPT ![s - 1] = Least(f[s - 1], groups)]]
  <2>1. ASSUME NEW s \in 0 .. NShards, s # 0 PROVE s \in 1 .. NShards
    BY <1>0, <2>1
  <2> QED
    BY <1>3, <1>4, <2>1 DEF round
<1>6. upTo = [s \in 0 .. NShards |->
             IF s = 0 THEN shards
             ELSE IF shards[s - 1] \in groups THEN upTo[s - 1]
                  ELSE [upTo[s - 1] EXCEPT ![s - 1] = Least(upTo[s - 1], groups)]]
  BY <1>5, ZenonT(40)
<1>7. Assigned(shards, groups) = upTo[NShards]
  BY DEF Assigned
<1> HIDE DEF upTo
<1>8. upTo[0] = shards /\ \A n \in 0 .. NShards - 1 : upTo[n + 1] = round(n + 1, upTo[n])
  <2>1. 0 \in 0 .. NShards
    BY SMTT(30), <1>0
  <2>2. ASSUME NEW n \in 0 .. NShards - 1 PROVE upTo[n + 1] = round(n + 1, upTo[n])
    <3>1. n + 1 \in 0 .. NShards /\ n + 1 # 0 /\ (n + 1) - 1 = n
      BY <1>0
    <3> QED
      BY <1>6, <3>1 DEF round
  <2> QED
    BY <1>6, <2>1, <2>2
<1> DEFINE Done(n) == /\ upTo[n] \in Assignments
                      /\ \A t \in ShardIds : /\ t < n => upTo[n][t] \in groups
                                             /\ t >= n => upTo[n][t] = shards[t]
           good == {n \in 0 .. NShards : Done(n)}
<1>9. 0 \in good
  BY SMTT(30), <1>0, <1>8 DEF ShardIds
<1>10. ASSUME NEW n \in 0 .. NShards - 1, n \in good PROVE n + 1 \in good
  <2>1. Done(n) /\ n + 1 \in 1 .. NShards /\ (n + 1) - 1 = n /\ n \in ShardIds
    BY SMTT(30), <1>0, <1>10 DEF ShardIds
  <2>2. /\ upTo[n + 1] \in Assignments
        /\ upTo[n + 1][n] \in groups \/ shards[n] \in groups
        /\ \A t \in ShardIds : t # n => upTo[n + 1][t] = upTo[n][t]
        /\ shards[n] \in groups => upTo[n + 1] = upTo[n]
    BY SMTT(30), <1>1, <1>8, <2>1
  <2>3. upTo[n][n] = shards[n]
    BY <2>1
  <2>4. ASSUME NEW t \in ShardIds
        PROVE  /\ t < n + 1 => upTo[n + 1][t] \in groups
               /\ t >= n + 1 => upTo[n + 1][t] = shards[t]
    <3>1. CASE t = n
      BY <2>2, <2>3, <3>1
    <3>2. CASE t # n
      BY <2>1, <2>2, <3>2 DEF ShardIds
    <3> QED
      BY <3>1, <3>2
  <2> QED
    BY SMTT(30), <2>1, <2>2, <2>4
<1>11. Done(NShards)
  <2> HIDE DEF Done
  <2>1. good = 0 .. NShards
    BY <1>0, <1>9, <1>10, UpTo
  <2> QED
    BY SMTT(30), <1>0, <2>1
<1>12. upTo[NShards] \in [ShardIds -> groups]
  <2>1. \A t \in ShardIds : t < NShards
    BY <1>0 DEF ShardIds
  <2> QED
    BY <1>11, <2>1 DEF Assignments
<1> QED
  BY <1>7, <1>12

(* A round of the second loop that does not end it. *)
LEMMA RoundMoves ==
    ASSUME NEW groups \in SUBSET Nat, groups # {}, NEW shards \in [ShardIds -> groups],
           ~IsBalanced(shards, groups), NEW taken \in SUBSET groups,
           Received(shards, groups, taken), NEW next, next = MoveOne(shards, groups)
    PROVE  /\ next \in [ShardIds -> groups]
           /\ \E more \in SUBSET groups :
                 /\ Received(next, groups, more)
                 /\ Cardinality(Elsewhere(next, more))
                        <= Cardinality(Elsewhere(shards, taken)) - 1
<1> DEFINE mg == Most(shards, groups)
           lg == Least(shards, groups)
           C(g) == Counts(shards, g)
           D(g) == Counts(next, g)
           from == {t \in ShardIds : shards[t] = mg}
           s == Min(from)
           more == taken \cup {lg}
<1>1. /\ mg \in groups /\ \A h \in groups : C(h) <= C(mg)
      /\ lg \in groups /\ \A h \in groups : C(h) >= C(lg)
  BY LeastOf, MostOf
<1>2. \A g : C(g) \in Nat /\ D(g) \in Nat
  BY CountsType
<1>3. C(mg) >= C(lg) + 2
  BY <1>2 DEF IsBalanced
<1> HIDE DEF mg, lg
<1>4. from # {} /\ from \in SUBSET Nat
  <2>1. from # {}
    <3>1. CASE from = {}
      <4>1. C(mg) = 0
        BY <3>1, FS_EmptySet DEF Counts
      <4> QED
        BY <1>2, <1>3, <4>1
    <3> QED
      BY <3>1
  <2> QED
    BY SMTT(30), <2>1 DEF ShardIds
<1>5. s \in ShardIds /\ shards[s] = mg
  <2>1. s \in from
    BY <1>4, MinOf
  <2> QED
    BY <2>1
<1>6. next = [shards EXCEPT ![s] = lg]
  BY DEF MoveOne, mg, lg
<1> HIDE DEF s, from
<1>7. mg # lg
  BY <1>2, <1>3
<1>9. /\ next \in [ShardIds -> groups] /\ next[s] = lg
      /\ \A t \in ShardIds : t # s => next[t] = shards[t]
  BY <1>1, <1>5, <1>6
<1>8. /\ D(lg) = C(lg) + 1 /\ D(mg) = C(mg) - 1
      /\ \A g : g # lg /\ g # mg => D(g) = C(g)
  BY SMTT(30), <1>5, <1>7, <1>9, MoveCounts
<1> HIDE DEF C, D
<1>10. \A g \in taken, h \in groups : C(g) <= C(h) + 1
  BY DEF Received, C
<1>11. mg \notin taken
  BY <1>1, <1>2, <1>3, <1>10
<1>12. ASSUME NEW g \in more, NEW h \in groups PROVE D(g) <= D(h) + 1
  <2>1. /\ C(lg) \in Nat /\ C(mg) \in Nat /\ C(g) \in Nat /\ C(h) \in Nat /\ D(g) \in Nat
        /\ D(h) \in Nat /\ C(h) >= C(lg) /\ C(h) <= C(mg)
    BY <1>1, <1>2
  <2>2. CASE g = lg
    <3>1. D(g) = C(lg) + 1
      BY <1>8, <2>2
    <3>2. D(h) >= C(lg)
      <4>1. CASE h = mg
        BY <1>3, <1>8, <2>1, <4>1
      <4>2. CASE h = lg
        BY <1>8, <2>1, <4>2
      <4>3. CASE h # mg /\ h # lg
        BY <1>8, <2>1, <4>3
      <4> QED
        BY <4>1, <4>2, <4>3
    <3> QED
      BY <2>1, <3>1, <3>2
  <2>3. CASE g # lg
    <3>1. g \in taken /\ g # mg /\ g \in groups
      BY <1>11, <2>3
    <3>2. D(g) = C(g) /\ C(g) <= C(h) + 1 /\ C(g) <= C(mg)
      BY <1>1, <1>8, <1>10, <2>3, <3>1
    <3>3. CASE h = mg
      BY <1>8, <2>1, <3>2, <3>3
    <3>4. CASE h = lg
      BY <1>8, <2>1, <3>2, <3>4
    <3>5. CASE h # mg /\ h # lg
      BY <1>8, <2>1, <3>2, <3>5
    <3> QED
      BY <3>3, <3>4, <3>5
  <2> QED
    BY <2>2, <2>3
<1>13. Received(next, groups, more)
  BY <1>12 DEF Received, D
<1>14. /\ Elsewhere(next, more) \subseteq Elsewhere(shards, taken) \ {s}
       /\ s \in Elsewhere(shards, taken)
  BY <1>5, <1>9, <1>11 DEF Elsewhere
<1>15. Cardinality(Elsewhere(next, more)) <= Cardinality(Elsewhere(shards, taken)) - 1
  <2>1. IsFiniteSet(Elsewhere(shards, taken))
    BY ShardsFinite DEF Elsewhere
  <2>2. /\ IsFiniteSet(Elsewhere(shards, taken) \ {s})
        /\ Cardinality(Elsewhere(shards, taken) \ {s}) = Cardinality(Elsewhere(shards, taken)) - 1
    BY <1>14, <2>1, FS_RemoveElement
  <2>3. Cardinality(Elsewhere(next, more)) <= Cardinality(Elsewhere(shards, taken) \ {s})
    BY <1>14, <2>2, FS_Subset
  <2> QED
    BY <2>2, <2>3
<1>16. more \in SUBSET groups
  BY <1>1
<1> HIDE DEF more
<1> QED
  BY <1>9, <1>13, <1>15, <1>16

(* An even distribution is one that the second loop leaves alone. *)
LEMMA BalancedIsEven ==
    ASSUME NEW groups \in SUBSET Nat, groups # {}, NEW shards, IsBalanced(shards, groups)
    PROVE  Even(shards, groups)
<1> DEFINE C(g) == Counts(shards, g)
           mg == Most(shards, groups)
           lg == Least(shards, groups)
<1>1. /\ mg \in groups /\ \A h \in groups : C(h) <= C(mg)
      /\ lg \in groups /\ \A h \in groups : C(h) >= C(lg)
  BY LeastOf, MostOf
<1>2. \A g : C(g) \in Nat
  BY CountsType
<1>3. C(mg) < C(lg) + 2
  BY DEF IsBalanced
<1> HIDE DEF C, mg, lg
<1>4. ASSUME NEW g \in groups, NEW h \in groups PROVE C(g) <= C(h) + 1
  <2>1. /\ C(g) \in Nat /\ C(h) \in Nat /\ C(mg) \in Nat /\ C(lg) \in Nat
        /\ C(g) <= C(mg) /\ C(h) >= C(lg)
    BY <1>1, <1>2
  <2> QED
    BY <1>3, <2>1
<1> QED
  BY <1>4 DEF Even, C

(* The second loop has ended after one round per shard: then every shard is *)
(* with a group that has received one, and the most loaded group would have *)
(* none.                                                                    *)
LEMMA MovedIsBalanced ==
    ASSUME NEW groups \in SUBSET Nat, groups # {}, NEW shards \in [ShardIds -> groups]
    PROVE  /\ Moved(shards, groups) \in [ShardIds -> groups]
           /\ IsBalanced(Moved(shards, groups), groups)
<1> DEFINE V == [ShardIds -> groups]
           round(before) == IF IsBalanced(before, groups) THEN before ELSE MoveOne(before, groups)
           step == [n \in 1 .. NShards |-> [before \in V |-> round(before)]]
           after[n \in 0 .. NShards] ==
               IF n = 0 THEN shards
               ELSE LET before == after[n - 1]
                    IN  IF IsBalanced(before, groups) THEN before ELSE MoveOne(before, groups)
<1>0. NShards \in Nat
  BY ShardsFinite
<1>1. ASSUME NEW before \in V PROVE round(before) \in V
  <2>1. CASE ~IsBalanced(before, groups)
    <3>1. Received(before, groups, {})
      BY DEF Received
    <3> QED
      BY <2>1, <3>1, RoundMoves
  <2> QED
    BY <2>1
<1>2. step \in [1 .. NShards -> [V -> V]]
  <2> HIDE DEF round
  <2> QED
    BY <1>1
<1>3. PICK f \in [0 .. NShards -> V] : LoopOf(f, NShards, shards, step)
  <2> HIDE DEF step
  <2>1. shards \in V
    OBVIOUS
  <2> HIDE DEF V
  <2> QED
    BY <1>0, <1>2, <2>1, Rounds
<1>4. f[0] = shards /\ \A n \in 1 .. NShards : f[n] = round(f[n - 1])
  <2>1. ASSUME NEW n \in 1 .. NShards PROVE f[n] = round(f[n - 1])
    <3>1. n - 1 \in 0 .. NShards
      BY SMTT(30), <1>0
    <3>2. f[n - 1] \in V /\ f[n] = step[n][f[n - 1]]
      BY <1>3, <3>1 DEF LoopOf
    <3> HIDE DEF round, V
    <3> QED
      BY <3>2
  <2> QED
    BY <1>3, <2>1 DEF LoopOf
<1>5. f = [n \in 0 .. NShards |->
             IF n = 0 THEN shards
             ELSE IF IsBalanced(f[n - 1], groups) THEN f[n - 1] ELSE MoveOne(f[n - 1], groups)]
  <2>1. ASSUME NEW n \in 0 .. NShards, n # 0 PROVE n \in 1 .. NShards
    BY <1>0, <2>1
  <2> QED
    BY <1>4, <2>1
<1>6. after = [n \in 0 .. NShards |->
             IF n = 0 THEN shards
             ELSE IF IsBalanced(after[n - 1], groups) THEN after[n - 1]
                  ELSE MoveOne(after[n - 1], groups)]
  BY <1>5, ZenonT(40)
<1>7. Moved(shards, groups) = after[NShards]
  BY DEF Moved
<1> HIDE DEF after
<1>8. after[0] = shards /\ \A n \in 0 .. NShards - 1 : after[n + 1] = round(after[n])
  <2>1. 0 \in 0 .. NShards
    BY SMTT(30), <1>0
  <2>2. ASSUME NEW n \in 0 .. NShards - 1 PROVE after[n + 1] = round(after[n])
    <3>1. n + 1 \in 0 .. NShards /\ n + 1 # 0 /\ (n + 1) - 1 = n
      BY <1>0
    <3> QED
      BY <1>6, <3>1
  <2> QED
    BY <1>6, <2>1, <2>2
<1> DEFINE Done(n) == after[n] \in V /\ Progress(after[n], groups, n)
           good == {n \in 0 .. NShards : Done(n)}
<1>9. 0 \in good
  <2>1. Received(shards, groups, {})
    BY DEF Received
  <2>2. Elsewhere(shards, {}) = ShardIds
    BY DEF Elsewhere
  <2>3. Cardinality(Elsewhere(shards, {})) <= NShards - 0
    BY <2>2, ShardsFinite
  <2> QED
    BY SMTT(30), <1>0, <1>8, <2>1, <2>3 DEF Progress
<1>10. ASSUME NEW n \in 0 .. NShards - 1, n \in good PROVE n + 1 \in good
  <2>1. after[n] \in V /\ Progress(after[n], groups, n) /\ after[n + 1] = round(after[n])
    BY <1>8, <1>10
  <2>2. CASE IsBalanced(after[n], groups)
    BY SMTT(30), <1>0, <2>1, <2>2 DEF Progress
  <2>3. CASE ~IsBalanced(after[n], groups)
    <3>1. PICK taken \in SUBSET groups :
            /\ Received(after[n], groups, taken)
            /\ Cardinality(Elsewhere(after[n], taken)) <= NShards - n
      BY <2>1, <2>3 DEF Progress
    <3>2. after[n + 1] = MoveOne(after[n], groups)
      BY <2>1, <2>3
    <3>3. /\ after[n + 1] \in V
          /\ \E more \in SUBSET groups :
                /\ Received(after[n + 1], groups, more)
                /\ Cardinality(Elsewhere(after[n + 1], more))
                       <= Cardinality(Elsewhere(after[n], taken)) - 1
      <4>1. PICK b : b = after[n]
        OBVIOUS
      <4>2. PICK c : c = after[n + 1]
        OBVIOUS
      <4>3. b \in V /\ ~IsBalanced(b, groups) /\ Received(b, groups, taken) /\ c = MoveOne(b, groups)
        BY <2>1, <2>3, <3>1, <3>2, <4>1, <4>2
      <4>4. /\ c \in V
            /\ \E more \in SUBSET groups :
                  /\ Received(c, groups, more)
                  /\ Cardinality(Elsewhere(c, more)) <= Cardinality(Elsewhere(b, taken)) - 1
        BY <4>3, RoundMoves
      <4> QED
        BY <4>1, <4>2, <4>4
    <3>4. PICK more \in SUBSET groups :
            /\ Received(after[n + 1], groups, more)
            /\ Cardinality(Elsewhere(after[n + 1], more))
                   <= Cardinality(Elsewhere(after[n], taken)) - 1
      BY <3>3
    <3>5. /\ Cardinality(Elsewhere(after[n], taken)) \in 0 .. NShards
          /\ Cardinality(Elsewhere(after[n + 1], more)) \in 0 .. NShards
      BY ShardsFinite DEF Elsewhere
    <3>6. Cardinality(Elsewhere(after[n + 1], more)) <= NShards - (n + 1)
      BY <1>0, <3>1, <3>4, <3>5
    <3> QED
      BY SMTT(30), <1>0, <3>3, <3>4, <3>6 DEF Progress
  <2> QED
    BY <2>2, <2>3
<1>11. Done(NShards)
  <2> HIDE DEF Done
  <2>1. good = 0 .. NShards
    BY <1>0, <1>9, <1>10, UpTo
  <2> QED
    BY SMTT(30), <1>0, <2>1
<1> DEFINE last == after[NShards]
<1>12. last \in V /\ Progress(last, groups, NShards)
  BY <1>11
<1> HIDE DEF last
<1>13. CASE ~IsBalanced(last, groups)
  <2>1. PICK taken \in SUBSET groups :
          Received(last, groups, taken) /\ Cardinality(Elsewhere(last, taken)) <= NShards - NShards
    BY <1>12, <1>13 DEF Progress
  <2>2. PICK more \in SUBSET groups :
          Cardinality(Elsewhere(MoveOne(last, groups), more))
              <= Cardinality(Elsewhere(last, taken)) - 1
    BY <1>12, <1>13, <2>1, RoundMoves
  <2>3. /\ Cardinality(Elsewhere(last, taken)) \in 0 .. NShards
        /\ Cardinality(Elsewhere(MoveOne(last, groups), more)) \in 0 .. NShards
    BY ShardsFinite DEF Elsewhere
  <2> QED
    BY <1>0, <2>1, <2>2, <2>3
<1> QED
  BY <1>7, <1>12, <1>13 DEF last
-----------------------------------------------------------------------------
(***************************************************************************)
(* The specification                                                       *)
(***************************************************************************)
(* The inductive invariant. *)
ShardInv ==
    /\ Groups \in SUBSET Gids
    /\ Shards \in Assignments
    /\ Balanced

(* Rebalance ends with an even distribution over the groups there are,     *)
(* whatever the shards' groups were: its second loop needs no more than    *)
(* NShards rounds.                                                         *)
THEOREM RebalanceEven ==
    ASSUME NEW shards \in Assignments, NEW groups \in SUBSET Gids
    PROVE  /\ Rebalance(shards, groups) \in Assignments
           /\ Even(Rebalance(shards, groups), groups)
           /\ groups # {} => /\ IsBalanced(Rebalance(shards, groups), groups)
                             /\ \A s \in ShardIds : Rebalance(shards, groups)[s] \in groups
<1>1. CASE groups = {}
  BY <1>1 DEF Rebalance, Assignments, Even, NoGroup
<1>2. CASE groups # {}
  <2>1. groups \in SUBSET Nat
    BY ShardAssumption
  <2>2. PICK r : r = Assigned(shards, groups)
    OBVIOUS
  <2>3. r \in [ShardIds -> groups]
    BY <1>2, <2>1, <2>2, AssignedToGroups
  <2>4. Rebalance(shards, groups) = Moved(r, groups)
    BY <1>2, <2>2 DEF Rebalance
  <2>5. Moved(r, groups) \in [ShardIds -> groups] /\ IsBalanced(Moved(r, groups), groups)
    BY <1>2, <2>1, <2>3, MovedIsBalanced
  <2>6. Even(Moved(r, groups), groups)
    BY <1>2, <2>1, <2>5, BalancedIsEven
  <2> QED
    BY <2>1, <2>4, <2>5, <2>6 DEF Assignments
<1> QED
  BY <1>1, <1>2

(* A change of the groups is followed by Rebalance. *)
LEMMA ChangeInv ==
    ASSUME ShardInv, NEW groups \in SUBSET Gids, Change(groups) \/ Failure(groups)
    PROVE  ShardInv'
<1>1. CASE Change(groups)
  <2>1. Groups' = groups /\ Shards' = Rebalance(Shards, groups) /\ Shards \in Assignments
    BY <1>1 DEF Change, ShardInv
  <2>2. /\ Shards' \in Assignments /\ Even(Shards', Groups')
        /\ Groups' # {} => \A s \in ShardIds : Shards'[s] \in Groups'
    BY <2>1, RebalanceEven
  <2> QED
    BY <2>1, <2>2 DEF ShardInv, Balanced, CheckConfig, Even, Counts
<1>2. CASE Failure(groups)
  BY <1>2 DEF Failure, ShardInv, Balanced
<1> QED
  BY <1>1, <1>2

(* Every step keeps the invariant. *)
LEMMA NextShardInv == ShardInv /\ [Next]_vars => ShardInv'
<1> SUFFICES ASSUME ShardInv, [Next]_vars PROVE ShardInv'
  OBVIOUS
<1>1. ASSUME NEW gids \in SUBSET Gids, JoinBalance(gids) PROVE ShardInv'
  BY <1>1, ChangeInv DEF JoinBalance, ShardInv
<1>2. ASSUME NEW gids, LeaveBalance(gids) PROVE ShardInv'
  <2>1. PICK left : Change(Groups \ left) \/ Failure(Groups \ left)
    BY <1>2 DEF LeaveBalance
  <2>2. Groups \ left \in SUBSET Gids
    BY DEF ShardInv
  <2> QED
    BY <2>1, <2>2, ChangeInv
<1>3. CASE UNCHANGED vars
  BY <1>3 DEF vars, ShardInv, Balanced, CheckConfig, Counts
<1> QED
  BY <1>1, <1>2, <1>3 DEF Next

(* After a JoinBalance or LeaveBalance that succeeded, CheckConfig passes:  *)
(* every shard has a group that is there, and no two groups differ by more  *)
(* than one shard, for any number of shards and groups.                     *)
THEOREM BalancedHolds == Spec => []Balanced
<1>1. Init => ShardInv
  <2> SUFFICES ASSUME Init PROVE ShardInv
    OBVIOUS
  <2>1. Groups = {} /\ Shards \in Assignments
    BY DEF Init, Assignments, NoGroup
  <2> QED
    BY <2>1 DEF ShardInv, Balanced, CheckConfig
<1>2. ShardInv => Balanced
  BY DEF ShardInv
<1> QED
  BY <1>1, <1>2, NextShardInv, PTL DEF Spec
==============================================================================
