----------------------------- MODULE ShardConfig -----------------------------
(***************************************************************************)
(* A shard configuration (shardkv1/shardcfg/shardcfg.go): which group      *)
(* serves which shard, and how Join, Leave and Rebalance change it.  The   *)
(* servers of a group are left out: no two groups share one (Join is fatal *)
(* if they do).                                                            *)
(***************************************************************************)
EXTENDS Integers, Sequences, FiniteSets, FiniteSetsExt, Functions

CONSTANTS
    NShards,
    Gids,       \* the groups that join and leave: positive numbers
    MaxNum      \* bound on Num

ASSUME ShardAssumption ==
    /\ NShards \in Nat \ {0} /\ MaxNum \in Nat
    /\ Gids \subseteq Nat \ {0} /\ IsFiniteSet(Gids)

ShardIds == 0 .. NShards - 1
NoGroup == 0

VARIABLES
    Num,        \* at most MaxNum
    Shards,     \* the group, or NoGroup, of each of the ShardIds
    Groups,     \* the Gids that have joined
    result      \* what the last JoinBalance or LeaveBalance returned

vars == <<Num, Shards, Groups, result>>

-----------------------------------------------------------------------------
(* analyze's counts, and the groups it finds: the first in the order of the *)
(* gids with the most, and with the least, shards.                          *)
Counts(shards, g) == Cardinality({s \in ShardIds : shards[s] = g})

Most(shards, groups) ==
    Min({g \in groups : \A h \in groups : Counts(shards, h) <= Counts(shards, g)})

(* Mutant: only the groups that serve a shard are counted. *)
LeastMutant(shards, groups) ==
    LET serving == {g \in groups : Counts(shards, g) > 0}
    IN  Min({g \in groups : serving # {} => g \in serving
                 /\ \A h \in serving : Counts(shards, h) >= Counts(shards, g)})

Least(shards, groups) ==
    Min({g \in groups : \A h \in groups : Counts(shards, h) >= Counts(shards, g)})

(* Rebalance's first loop: shard after shard, those whose group is not, or  *)
(* no longer, there go to the least loaded group.                           *)
Assigned(shards, groups) ==
    LET upTo[s \in 0 .. NShards] ==
            IF s = 0 THEN shards
            ELSE LET before == upTo[s - 1]
                 IN  IF shards[s - 1] \in groups THEN before
                     ELSE [before EXCEPT ![s - 1] = Least(before, groups)]
    IN  upTo[NShards]

IsBalanced(shards, groups) ==
    Counts(shards, Most(shards, groups)) < Counts(shards, Least(shards, groups)) + 2

(* One round of the second loop: the first shard of the most loaded group   *)
(* moves to the least loaded one.                                           *)
MoveOne(shards, groups) ==
    LET mg == Most(shards, groups)
        s == Min({t \in ShardIds : shards[t] = mg})
    IN  [shards EXCEPT ![s] = Least(shards, groups)]

(* The second loop.  NShards rounds are enough: Balanced would not hold     *)
(* otherwise.                                                               *)
Moved(shards, groups) ==
    LET after[n \in 0 .. NShards] ==
            IF n = 0 THEN shards
            ELSE LET before == after[n - 1]
                 IN  IF IsBalanced(before, groups) THEN before ELSE MoveOne(before, groups)
    IN  after[NShards]

RebalanceMutant(shards, groups) ==
    IF groups = {} THEN [s \in ShardIds |-> NoGroup]
    ELSE Moved([s \in ShardIds |-> Min(groups)], groups)

Rebalance(shards, groups) ==
    IF groups = {} THEN [s \in ShardIds |-> NoGroup]
    ELSE Moved(Assigned(shards, groups), groups)
-----------------------------------------------------------------------------
Change(groups) ==
    /\ Num < MaxNum
    /\ Groups' = groups
    /\ Num' = Num + 1
    /\ Shards' = Rebalance(Shards, groups)
    /\ result' = TRUE

(* A call that fails half-way keeps what it has done to Groups. *)
Failure(groups) ==
    /\ Groups' = groups
    /\ result' = FALSE
    /\ UNCHANGED <<Num, Shards>>

(* The gids come in the order of a Go map, any order. *)
JoinBalance(gids) ==
    \/ gids \cap Groups = {} /\ Change(Groups \cup gids)
    \/ /\ gids \cap Groups # {}
       /\ \E joined \in SUBSET (gids \ Groups) : Failure(Groups \cup joined)

LeaveBalance(gids) ==
    LET there(k) == gids[k] \in Groups /\ \A n \in 1 .. k - 1 : gids[n] # gids[k]
        left == {gids[k] : k \in {n \in DOMAIN gids : \A m \in 1 .. n : there(m)}}
    IN  \/ (\A k \in DOMAIN gids : there(k)) /\ Change(Groups \ left)
        \/ (\E k \in DOMAIN gids : ~there(k)) /\ Failure(Groups \ left)

(* The tests' check of a configuration. *)
CheckConfig ==
    /\ Groups # {} => \A s \in ShardIds : Shards[s] \in Groups
    /\ \A g, h \in Groups : Counts(Shards, g) <= Counts(Shards, h) + 1

(* MakeShardConfig *)
Init ==
    /\ Num = 0
    /\ Shards = [s \in ShardIds |-> NoGroup]
    /\ Groups = {}
    /\ result = TRUE

Next ==
    \/ \E gids \in SUBSET Gids \ {{}} : JoinBalance(gids)
    \/ \E n \in 1 .. 2 : \E gids \in [1 .. n -> Gids] : LeaveBalance(gids)

Spec == Init /\ [][Next]_vars
-----------------------------------------------------------------------------
(***************************************************************************)
(* Properties                                                              *)
(***************************************************************************)

(* After a JoinBalance or LeaveBalance that succeeded, CheckConfig passes:  *)
(* every shard is assigned to a group that is there, and no two groups      *)
(* differ by more than one shard, also if earlier calls failed half-way.    *)
Balanced == result => CheckConfig

(* How many shards can stay where they are if groups is to be balanced.     *)
CanStay(shards, groups) ==
    LET k == Cardinality(groups)
        share == NShards \div k
        kept == MapThenSumSet(LAMBDA g : Min({Counts(shards, g), share}), groups)
        bigger == {g \in groups : Counts(shards, g) > share}
    IN  kept + Min({Cardinality(bigger), NShards % k})

(* Rebalance moves as few shards as any balanced assignment would need.     *)
MovesFewest ==
    [][Num' # Num /\ Groups' # {} =>
          Cardinality({s \in ShardIds : Shards'[s] # Shards[s]})
              = NShards - CanStay(Shards, Groups')]_vars
==============================================================================
