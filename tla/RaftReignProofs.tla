--------------------------- MODULE RaftReignProofs ---------------------------
(***************************************************************************)
(* The first reign, for any number of peers, commands, heartbeats and lost *)
(* Calls: as long as only one election has been called and no peer has     *)
(* been restarted, no goroutine indexes a log out of range, all logs are   *)
(* prefixes of the leader's, and what is committed is on a majority.  With *)
(* a second election this ends: module MCRaft has runs that show how.      *)
(***************************************************************************)
EXTENDS RaftProofs

(* A leaf that names no prover is tried with Zenon, then with SMT. *)
USE ZenonT(20), SMTT(30)
-----------------------------------------------------------------------------
(***************************************************************************)
(* Logs                                                                    *)
(***************************************************************************)
(* The merge begins where the log ends. *)
LEMMA AtTheEnd ==
    ASSUME NEW pos \in Nat, NEW i \in Nat, NEW n \in Nat, NEW m \in Nat,
           pos <= n, i >= 1, i <= m, pos + i > n, i = 1 \/ ~(pos + (i - 1) > n)
    PROVE  i \in 1 .. m /\ pos + i - 1 = n
  OBVIOUS

(* The arithmetic of lengths, indices and counts. *)
LEMMA Sizes ==
    /\ \A n \in Nat : n <= n /\ n >= n
    /\ \A n, m \in Nat : n + 1 + m \in Nat
  OBVIOUS

(* A log that reaches behind an index holds it. *)
LEMMA Beyond == ASSUME NEW i \in Nat, NEW n \in Nat, NEW m \in Nat, i < n, n <= m PROVE m > i
  OBVIOUS

(* The places that a success and a refusal give nextIndex are in the log. *)
LEMMA LargerInLog ==
    ASSUME NEW m \in Nat, NEW n \in 1 .. m
    PROVE  /\ \A i \in Nat : i < m => Larger(n, i + 1) \in 1 .. m
           /\ Larger(n - 1, 1) \in 1 .. m
  BY DEF Larger

(* A majority counts each peer that holds the entry, and the leader. *)
LEMMA Counts ==
    ASSUME NEW counted \in Nat, NEW acked \in Nat, NEW holds \in Nat, counted <= 1 + acked
    PROVE  /\ acked <= holds => counted <= 1 + holds
           /\ acked + 1 <= holds => counted + 1 <= 1 + holds
  OBVIOUS

(* AppendEntries's merge of a piece of the leader's log into a prefix of it *)
(* gives a prefix that is no shorter than before and holds the piece: a    *)
(* late and short request takes nothing away (raft.go:273).                *)
LEMMA MergeGrows ==
    ASSUME NEW lg \in Seq(Entry), NEW big \in Seq(Entry), NEW es \in Seq(Entry),
           IsPrefix(lg, big), NEW pos \in 1 .. Len(lg),
           pos + Len(es) <= Len(big), \A i \in DOMAIN es : es[i] = big[pos + i]
    PROVE  /\ IsPrefix(Merge(lg, pos, es), big)
           /\ Len(Merge(lg, pos, es)) >= Len(lg)
           /\ Len(Merge(lg, pos, es)) >= pos + Len(es)
<1> DEFINE differs(i) == \/ pos + i > Len(lg)
                         \/ lg[pos + i].Index # es[i].Index
                         \/ lg[pos + i].Term # es[i].Term
           first == {i \in DOMAIN es : differs(i) /\ \A k \in 1 .. i - 1 : ~differs(k)}
           i0 == CHOOSE k \in first : TRUE
           p == SubSeq(lg, 1, pos + i0 - 1)
           q == SubSeq(es, i0, Len(es))
<1>0. /\ Len(lg) \in Nat /\ DOMAIN lg = 1 .. Len(lg)
      /\ Len(es) \in Nat /\ DOMAIN es = 1 .. Len(es)
      /\ Len(big) \in Nat /\ pos \in Nat /\ pos <= Len(lg)
  BY SeqLength
<1> USE <1>0
<1>1. Merge(lg, pos, es) = IF first = {} THEN lg ELSE p \o q
  BY SMTT(30) DEF Merge
<1>2. ASSUME NEW i \in DOMAIN es PROVE differs(i) <=> pos + i > Len(lg)
  <2>1. CASE pos + i <= Len(lg)
    <3> USE <2>1
    <3>1. pos + i \in 1 .. Len(lg)
      OBVIOUS
    <3>2. lg[pos + i] = es[i]
      BY <3>1 DEF IsPrefix
    <3> QED
      BY <3>2
  <2> QED
    BY <2>1
<1> HIDE DEF differs
<1>3. CASE first = {}
  <2> USE <1>3
  <2>1. pos + Len(es) <= Len(lg)
    <3> SUFFICES ASSUME pos + Len(es) > Len(lg) PROVE FALSE
      BY SMTT(30)
    <3> DEFINE n == Len(lg) - pos + 1
    <3>1. n \in DOMAIN es /\ pos + n > Len(lg) /\ \A k \in 1 .. n - 1 : k \in DOMAIN es /\ ~(pos + k > Len(lg))
      BY SMTT(30)
    <3> USE <3>1
    <3>2. differs(n) /\ \A k \in 1 .. n - 1 : ~differs(k)
      BY <1>2
    <3> HIDE DEF n
    <3> QED
      BY <3>2
  <2> QED
    BY SMTT(30), <1>1, <2>1
<1>4. CASE first # {}
  <2>1. i0 \in first
    BY ZenonT(40), <1>4
  <2>2. i0 \in DOMAIN es /\ differs(i0) /\ \A k \in 1 .. i0 - 1 : ~differs(k)
    BY <2>1
  <2> HIDE DEF i0
  <2>3. i0 \in 1 .. Len(es) /\ pos + i0 - 1 = Len(lg)
    <3>1. i0 \in Nat /\ i0 >= 1 /\ i0 <= Len(es) /\ pos + i0 > Len(lg)
      BY <1>2, <2>2
    <3> USE <3>1
    <3>2. ASSUME i0 # 1 PROVE ~(pos + (i0 - 1) > Len(lg))
      <4>1. i0 - 1 \in 1 .. i0 - 1 /\ i0 - 1 \in DOMAIN es
        BY <3>2
      <4> QED
        BY <1>2, <2>2, <4>1
    <3> QED
      BY <3>2, AtTheEnd
  <2> USE <2>3
  <2>0. i0 \in Nat /\ i0 >= 1 /\ i0 <= Len(es) /\ i0 = Len(lg) - pos + 1
    OBVIOUS
  <2>4. p = lg
    BY SeqWhole
  <2>5. /\ q \in Seq(Entry) /\ Len(q) = Len(es) - i0 + 1
        /\ \A i \in 1 .. Len(es) - i0 + 1 : q[i] = es[i0 + i - 1]
    <3>1. \A i \in i0 .. Len(es) : es[i] \in Entry
      BY SMTT(30), SeqElement
    <3>2. /\ q \in Seq(Entry) /\ Len(q) = (IF i0 <= Len(es) THEN Len(es) - i0 + 1 ELSE 0)
          /\ \A i \in 1 .. Len(es) - i0 + 1 : q[i] = es[i0 + i - 1]
      BY SMTT(30), <3>1, SeqPart
    <3> HIDE DEF q
    <3> QED
      BY <3>2
  <2> HIDE DEF p, q, first
  <2> DEFINE r == p \o q
  <2>6. /\ r \in Seq(Entry) /\ Len(r) = Len(lg) + Len(q)
        /\ \A i \in 1 .. Len(lg) + Len(q) :
              r[i] = IF i <= Len(lg) THEN lg[i] ELSE q[i - Len(lg)]
    <3>1. r = lg \o q /\ q \in Seq(Entry)
      BY <2>4, <2>5
    <3> HIDE DEF r
    <3> QED
      BY ONLY <3>1, SeqConcat, lg \in Seq(Entry)
  <2> USE <2>6
  <2> HIDE DEF r
  <2>7. Len(r) = pos + Len(es)
    BY SMTT(30), <2>0, <2>5
  <2> USE <2>7
  <2>8. ASSUME NEW i \in 1 .. Len(r) PROVE r[i] = big[i]
    <3>1. CASE i <= Len(lg)
      <4> USE <3>1
      <4>1. i \in 1 .. Len(lg) /\ i \in 1 .. Len(lg) + Len(q)
        OBVIOUS
      <4> QED
        BY <4>1 DEF IsPrefix
    <3>2. CASE ~(i <= Len(lg))
      <4> USE <3>2
      <4>1. /\ i - Len(lg) \in 1 .. Len(es) - i0 + 1 /\ i \in 1 .. Len(lg) + Len(q)
            /\ i0 + (i - Len(lg)) - 1 = i - pos /\ i - pos \in 1 .. Len(es)
            /\ pos + (i - pos) = i
        <5>1. i \in Nat /\ i > Len(lg) /\ i <= pos + Len(es)
          OBVIOUS
        <5>2. Len(lg) + Len(q) = pos + Len(es)
          OBVIOUS
        <5> QED
          BY SMTT(30), <2>0, <5>1, <5>2
      <4> USE <4>1
      <4>2. r[i] = q[i - Len(lg)]
        OBVIOUS
      <4>3. q[i - Len(lg)] = es[i - pos]
        BY <2>5
      <4>4. es[i - pos] = big[pos + (i - pos)]
        OBVIOUS
      <4> QED
        BY <4>2, <4>3, <4>4
    <3> QED
      BY <3>1, <3>2
  <2>9. Merge(lg, pos, es) = r
    BY <1>1, <1>4 DEF r
  <2>10. Len(r) >= Len(lg)
    OBVIOUS
  <2> QED
    BY <2>8, <2>9, <2>10 DEF IsPrefix
<1> QED
  BY <1>3, <1>4
-----------------------------------------------------------------------------
(***************************************************************************)
(* Log replication                                                         *)
(***************************************************************************)
(* Who has been counted stays counted as long as no goroutine is added.    *)
LEMMA AckedGrows ==
    ASSUME PeerCounts, NEW L, NEW j, NEW k, k.no = j.no, k.index = j.index,
           j.index \in Nat, \A t \in Servers : Len(log[t]) \in Nat /\ Len(log'[t]) \in Nat,
           \A t \in Servers : Len(log'[t]) >= Len(log[t]),
           \A d \in calls', t \in Servers : Sends(d, k, t) => \E c \in calls : Sends(c, j, t)
    PROVE  /\ Cardinality(Acked(j, L)) \in Nat /\ Cardinality(Acked(k, L)') \in Nat
           /\ Cardinality(Acked(j, L)) <= Cardinality(Acked(k, L)')
<1>1. Acked(j, L) \subseteq Acked(k, L)'
  <2> SUFFICES ASSUME NEW t \in Acked(j, L) PROVE t \in Acked(k, L)'
    OBVIOUS
  <2>1. t \in Servers \ {L} /\ Len(log[t]) > j.index /\ \A c \in calls : ~Sends(c, j, t)
    BY DEF Acked
  <2> USE <2>1
  <2>2. Len(log'[t]) > k.index
    OBVIOUS
  <2>3. \A d \in calls' : ~Sends(d, k, t)
    OBVIOUS
  <2> QED
    BY <2>2, <2>3 DEF Acked, Sends
<1>2. Acked(j, L) \in SUBSET Servers /\ Acked(k, L)' \in SUBSET Servers
  BY DEF Acked
<1> QED
  BY <1>1, <1>2 DEF PeerCounts

(* They are the same for a tryToCommit whose waiter or Counter has changed. *)
LEMMA AckedNext ==
    ASSUME NEW L, NEW j, NEW k, k.no = j.no, k.index = j.index
    PROVE  Acked(k, L)' = Acked(j, L)'
  BY DEF Acked, Sends

(* Logs that have grown, or not, and commitIndexes that follow. *)
LEMMA LogsGrow ==
    ASSUME PeerCounts, NEW L \in Servers, Reign(L), RInv, RInv', IsPrefix(log[L], log'[L]),
           \A s \in Servers : Len(log'[s]) >= Len(log[s]),
           \A s \in Servers : commitIndex'[s] >= commitIndex[s],
           commitIndex'[L] = commitIndex[L],
           \A s \in Servers : commitIndex'[s] <= commitIndex[L] /\ commitIndex'[s] < Len(log'[s]),
           UNCHANGED <<lastApplied, logs>>
    PROVE  Commits(L)' /\ Applies(L)' /\ \A c \in calls : Carries(c, L)'
<1>0. \A s \in Servers : /\ Len(log[s]) \in Nat /\ Len(log'[s]) \in Nat
                         /\ commitIndex[s] \in Nat /\ commitIndex'[s] \in Nat
                         /\ lastApplied[s] \in Nat
  <2>1. \A s \in Servers : Len(log[s]) \in Nat /\ commitIndex[s] \in Nat /\ lastApplied[s] \in Nat
    BY Types
  <2>2. \A s \in Servers : log'[s] \in Seq(Entry) /\ commitIndex'[s] \in Nat
    BY DEF RInv, TypeOK
  <2> QED
    BY <2>1, <2>2, SeqLength
<1> USE <1>0
<1>1. Commits(L)'
  <2>1. Holders(commitIndex[L]) \subseteq Holders(commitIndex[L])'
    BY DEF Holders
  <2>2. /\ Holders(commitIndex[L])' \in SUBSET Servers
        /\ Holders(commitIndex[L]) \in SUBSET Servers
    BY DEF Holders
  <2>4. /\ Cardinality(Holders(commitIndex[L])) <= Cardinality(Holders(commitIndex[L])')
        /\ Cardinality(Holders(commitIndex[L])) \in Nat
        /\ Cardinality(Holders(commitIndex[L])') \in Nat /\ Cardinality(Servers) \in Nat
    BY <2>1, <2>2 DEF PeerCounts
  <2> USE <2>4
  <2>5. Cardinality(Holders(commitIndex[L])) > Cardinality(Servers) \div 2
    BY DEF Reign, Commits, Majority
  <2>6. Cardinality(Holders(commitIndex[L])') > Cardinality(Servers) \div 2
    <3>1. Cardinality(Servers) \div 2 \in Int
      OBVIOUS
    <3> QED
      BY <2>5, <3>1
  <2>7. Holders(commitIndex[L])' = {t \in Servers : Len(log'[t]) > commitIndex'[L]}
    BY DEF Holders
  <2> QED
    BY <2>6, <2>7 DEF Commits, Holders, Majority
<1>2. Applies(L)'
  <2> SUFFICES ASSUME NEW s \in Servers
               PROVE  /\ lastApplied[s] <= commitIndex'[s]
                      /\ Len(logs[s]) = lastApplied[s]
                      /\ \A i \in 1 .. Len(logs[s]) : logs[s][i] = log'[L][i + 1].Command
    BY DEF Applies
  <2>1. /\ lastApplied[s] <= commitIndex[s] /\ Len(logs[s]) = lastApplied[s]
        /\ \A i \in 1 .. Len(logs[s]) : logs[s][i] = log[L][i + 1].Command
    BY DEF Reign, Applies
  <2> USE <2>1
  <2>2. commitIndex[s] <= commitIndex[L] /\ commitIndex[L] < Len(log[L])
    BY DEF Reign, Commits
  <2>3. ASSUME NEW i \in 1 .. Len(logs[s]) PROVE log'[L][i + 1] = log[L][i + 1]
    <3>1. i + 1 \in 1 .. Len(log[L])
      BY <2>2
    <3> QED
      BY <3>1 DEF IsPrefix
  <2>4. lastApplied[s] <= commitIndex'[s]
    <3>1. ASSUME NEW a \in Nat, NEW b \in Nat, NEW d \in Nat, a <= b, d >= b PROVE a <= d
      BY ONLY <3>1
    <3> QED
      BY <3>1
  <2>5. ASSUME NEW i \in 1 .. Len(logs[s]) PROVE logs[s][i] = log'[L][i + 1].Command
    BY ONLY <2>1, <2>3, <2>5, Zenon
  <2> QED
    BY ONLY <2>1, <2>4, <2>5, Zenon
<1>3. ASSUME NEW c \in calls PROVE Carries(c, L)'
  <2>0. Carries(c, L) /\ c.to \in Servers /\ c.args.PrevLogIndex \in Nat
    BY CallFacts DEF Reign, Replicates, Carries
  <2>1. /\ Carries(c, L) /\ c.to \in Servers /\ c.args.PrevLogIndex \in Nat
        /\ Len(c.args.Entries) \in Nat /\ DOMAIN c.args.Entries = 1 .. Len(c.args.Entries)
        /\ c.args.LeaderCommit \in Nat
    BY <2>0, CallFacts, SeqLength
  <2> USE <2>1
  <2>2. Reach(c) <= Len(log[L]) /\ Reach(c) \in Nat
    BY DEF Carries, Reach
  <2> USE <2>2
  <2>3. Reach(c)' = Reach(c)
    BY DEF Reach
  <2>4. ASSUME NEW i \in DOMAIN c.args.Entries
        PROVE  c.args.Entries[i] = log'[L][c.args.PrevLogIndex + 1 + i]
    <3>1. c.args.PrevLogIndex + 1 + i \in 1 .. Len(log[L])
      <4>1. i \in Nat /\ i <= Len(c.args.Entries) /\ i >= 1
        OBVIOUS
      <4>2. c.args.PrevLogIndex + 1 + Len(c.args.Entries) <= Len(log[L])
        BY DEF Reach
      <4>3. ASSUME NEW prev \in Nat, NEW n \in Nat, NEW m \in Nat, prev + 1 + n <= m, i <= n
            PROVE  prev + 1 + i \in 1 .. m
        BY ONLY <4>1, <4>3
      <4>4. Len(log[L]) \in Nat
        OBVIOUS
      <4> QED
        BY ONLY ZenonT(10), <2>1, <4>1, <4>2, <4>3, <4>4
    <3>2. c.args.Entries[i] = log[L][c.args.PrevLogIndex + 1 + i]
      BY DEF Carries
    <3> QED
      BY <3>1, <3>2 DEF IsPrefix
  <2>5. c.phase \in {"replied", "write"} /\ c.reply.Ok => Reach(c) <= Len(log'[c.to])
    BY SMTT(30) DEF Carries
  <2>6. c.phase = "write" => c.next \in 1 .. Len(log'[L])
    <3>1. \A n, m \in Nat : n >= m => 1 .. m \subseteq 1 .. n
      BY ONLY SMTT(30)
    <3>2. c.phase = "write" => c.next \in 1 .. Len(log[L])
      BY DEF Carries
    <3> QED
      BY <3>1, <3>2
  <2>7. Reach(c) <= Len(log'[L]) /\ c.args.LeaderCommit <= commitIndex'[L]
    BY SMTT(30) DEF Carries
  <2> QED
    BY <2>3, <2>4, <2>5, <2>6, <2>7 DEF Carries
<1> QED
  BY <1>1, <1>2, <1>3

(* What a Call says of itself is the same after a step. *)
LEMMA CallSays ==
    \A c : /\ Reach(c)' = Reach(c) /\ Tries(c)' = Tries(c) /\ Reading(c)' = Reading(c)
           /\ \A j, t : Sends(c, j, t)' = Sends(c, j, t)
  BY DEF Reach, Tries, Reading, Sends

(* A Call c moves on: what takes its place goes to the same peer, and at   *)
(* most one goroutine of tryToCommit takes the place of one.  Logs may have *)
(* grown.                                                                   *)
LEMMA CallReign ==
    ASSUME PeerCounts, RInv, RInv', NEW L \in Servers, Reign(L), NEW c \in calls, NEW new,
           calls' = (calls \ {c}) \cup new,
           \A d \in new :
               /\ d.no = c.no /\ d.to = c.to /\ CallOf(d, L, currentTerm[L]) /\ Carries(d, L)'
               /\ Tries(d) => Tries(c)
               /\ Tries(d) /\ ~Reading(d) => \A j \in jobs : j.no = d.no => j.index < Reach(d),
           \A d, x \in new : Tries(d) /\ Tries(x) => d = x,
           \A x \in calls : Carries(x, L)',
           UNCHANGED <<elections, jobs, panicked, spawned>>,
           count'["elections"] = count["elections"], count'["starts"] = count["starts"],
           currentTerm'[L] = currentTerm[L],
           \A s \in Servers : currentTerm'[s] <= currentTerm[L],
           \A s \in Servers : s # L => state'[s] = Follower,
           \A s \in Servers : Len(log'[s]) >= Len(log[s]) /\ IsPrefix(log'[s], log'[L]),
           NextInLog(L)', Commits(L)', Applies(L)'
    PROVE  Reign(L)'
<1>0. /\ jobs \subseteq Jobs
      /\ \A s \in Servers : Len(log[s]) \in Nat /\ Len(log'[s]) \in Nat
  <2>1. /\ jobs \subseteq Jobs /\ \A s \in Servers : Len(log[s]) \in Nat
    BY Types
  <2>2. \A s \in Servers : log'[s] \in Seq(Entry)
    BY DEF RInv, TypeOK
  <2> QED
    BY <2>1, <2>2, SeqLength
<1>1. \A x \in calls' : (x \in calls /\ x # c) \/ x \in new
  OBVIOUS
<1>2. Alone(L)'
  <2>1. \A x \in calls' : CallOf(x, L, currentTerm[L])
    BY <1>1 DEF Reign, Alone
  <2> QED
    BY <2>1 DEF Reign, Alone
<1>3. count'["elections"] # 0
  BY DEF Reign, Idle
<1>4. Replicates(L)'
  BY <1>1 DEF Replicates
<1>5. ASSUME NEW x \in calls', NEW j, NEW t \in Servers, Sends(x, j, t)
      PROVE  \E y \in calls : Sends(y, j, t)
  BY <1>1, <1>5 DEF Sends
<1>6. JobsCount(L)'
  <2>1. ASSUME NEW j \in jobs
        PROVE  j.index < Len(log'[L]) /\ j.Counter <= 1 + Cardinality(Acked(j, L)')
    <3>1. j.index \in Nat /\ j.Counter \in Nat
      BY <1>0 DEF Jobs
    <3> USE <3>1
    <3>2. /\ Cardinality(Acked(j, L)) \in Nat /\ Cardinality(Acked(j, L)') \in Nat
          /\ Cardinality(Acked(j, L)) <= Cardinality(Acked(j, L)')
      BY <1>0, <1>5, AckedGrows
    <3>3. j.Counter <= 1 + Cardinality(Acked(j, L)) /\ j.index < Len(log[L])
      BY DEF Reign, JobsCount
    <3>4. Len(log[L]) \in Nat /\ Len(log'[L]) \in Nat /\ Len(log[L]) <= Len(log'[L])
      BY <1>0
    <3> QED
      BY SMTT(30), <3>2, <3>3, <3>4
  <2> QED
    BY <2>1 DEF Reign, JobsCount
<1>7. CallsCount'
  <2>1. ASSUME NEW x \in calls', Tries(x), NEW j \in jobs, j.no = x.no
        PROVE  j.waiter # "start" /\ (~Reading(x) => j.index < Reach(x))
    <3> USE <2>1
    <3>1. CASE x \in calls
      BY <3>1 DEF Reign, CallsCount
    <3>2. CASE x \in new
      <4>1. Tries(c) /\ c.no = j.no
        BY <3>2
      <4> QED
        BY <3>2, <4>1 DEF Reign, CallsCount
    <3> QED
      BY <1>1, <3>1, <3>2
  <2>2. ASSUME NEW x \in calls', NEW y \in calls', Tries(x), Tries(y), x.no = y.no, x.to = y.to
        PROVE  x = y
    <3>1. ASSUME NEW d \in new, Tries(d), NEW z \in calls, z # c, Tries(z), z.no = d.no, z.to = d.to
          PROVE  FALSE
      <4>1. Tries(c) /\ c.no = z.no /\ c.to = z.to
        BY <3>1
      <4> QED
        BY <3>1, <4>1 DEF Reign, CallsCount
    <3>2. CASE x \in calls /\ y \in calls
      BY <2>2, <3>2 DEF Reign, CallsCount
    <3> QED
      BY <1>1, <2>2, <3>1, <3>2
  <2> QED
    BY <2>1, <2>2, CallSays DEF CallsCount
<1> QED
  BY <1>2, <1>3, <1>4, <1>6, <1>7 DEF Reign

(* One Call takes its place. *)
LEMMA CallGoesOn ==
    ASSUME PeerCounts, RInv, RInv', NEW L \in Servers, Reign(L), NEW c \in calls, NEW d,
           calls' = Replace(calls, c, d),
           d.no = c.no, d.to = c.to, CallOf(d, L, currentTerm[L]), Carries(d, L)',
           Tries(d) => Tries(c),
           Tries(d) /\ ~Reading(d) => \A j \in jobs : j.no = d.no => j.index < Reach(d),
           \A x \in calls : Carries(x, L)',
           UNCHANGED <<elections, jobs, panicked, spawned>>,
           count'["elections"] = count["elections"], count'["starts"] = count["starts"],
           currentTerm'[L] = currentTerm[L],
           \A s \in Servers : currentTerm'[s] <= currentTerm[L],
           \A s \in Servers : s # L => state'[s] = Follower,
           \A s \in Servers : Len(log'[s]) >= Len(log[s]) /\ IsPrefix(log'[s], log'[L]),
           NextInLog(L)', Commits(L)', Applies(L)'
    PROVE  Reign(L)'
<1>1. PICK new : new = {d}
  OBVIOUS
<1>2. calls' = (calls \ {c}) \cup new
  BY <1>1 DEF Replace
<1>3. \A x \in new :
        /\ x.no = c.no /\ x.to = c.to /\ CallOf(x, L, currentTerm[L]) /\ Carries(x, L)'
        /\ Tries(x) => Tries(c)
        /\ Tries(x) /\ ~Reading(x) => \A j \in jobs : j.no = x.no => j.index < Reach(x)
  <2>1. \A x \in new : x = d
    BY <1>1
  <2>2. ASSUME NEW x \in new PROVE Carries(x, L)'
    BY <2>1
  <2> QED
    BY <2>1, <2>2
<1>4. \A x, y \in new : Tries(x) /\ Tries(y) => x = y
  BY <1>1
<1> QED
  BY <1>2, <1>3, <1>4, CallReign

(* None does: the Call is over. *)
LEMMA CallIsOver ==
    ASSUME PeerCounts, RInv, RInv', NEW L \in Servers, Reign(L), NEW c \in calls,
           calls' = calls \ {c}, \A x \in calls : Carries(x, L)',
           UNCHANGED <<elections, jobs, panicked, spawned>>,
           count'["elections"] = count["elections"], count'["starts"] = count["starts"],
           currentTerm'[L] = currentTerm[L],
           \A s \in Servers : currentTerm'[s] <= currentTerm[L],
           \A s \in Servers : s # L => state'[s] = Follower,
           \A s \in Servers : Len(log'[s]) >= Len(log[s]) /\ IsPrefix(log'[s], log'[L]),
           NextInLog(L)', Commits(L)', Applies(L)'
    PROVE  Reign(L)'
<1>1. PICK new : new = {}
  OBVIOUS
<1>2. calls' = (calls \ {c}) \cup new
  BY <1>1
<1>3. \A x \in new : FALSE
  BY <1>1
<1> QED
  BY <1>2, <1>3, CallReign

(* Arguments of which only the term is known carry nothing. *)
LEMMA NothingCarried ==
    ASSUME RInv, NEW L \in Servers, NEW term \in Nat, NEW c, c.args = NoArgs(term),
           c.phase \notin {"replied", "write"}
    PROVE  Carries(c, L)
<1>1. c.args.PrevLogIndex = 0 /\ c.args.Entries = <<>> /\ c.args.LeaderCommit = 0
  BY DEF NoArgs
<1>2. Len(<<>>) = 0 /\ DOMAIN <<>> = {}
  BY SeqEmpty
<1>3. Len(log[L]) \in Nat \ {0} /\ commitIndex[L] \in Nat
  BY Types
<1> QED
  BY <1>1, <1>2, <1>3 DEF Carries, Reach

(* What a Call carries when its goroutine has only been started. *)
LEMMA NewCallsCarry ==
    ASSUME RInv, NEW L \in Servers, NEW kind, NEW no,
           NEW c \in NewCalls(kind, no, L, currentTerm[L])
    PROVE  /\ c.kind = kind /\ c.no = no /\ c.from = L /\ c.to \in Servers \ {L}
           /\ c.phase # "adopt" /\ c.args.Term = currentTerm[L] /\ c.reply.Term = 0
           /\ Carries(c, L) /\ Reading(c)
<1>1. PICK t \in Servers \ {L} :
        c = [kind |-> kind, no |-> no, try |-> 0, from |-> L, to |-> t,
             phase |-> IF kind = "commit" THEN "LeaderCommit" ELSE "PrevLogIndex",
             args |-> NoArgs(currentTerm[L]), reply |-> NoReply, next |-> 0]
  BY DEF NewCalls
<1>2. /\ c.kind = kind /\ c.no = no /\ c.from = L /\ c.to = t
      /\ c.phase \in {"LeaderCommit", "PrevLogIndex"}
      /\ c.args = NoArgs(currentTerm[L]) /\ c.reply = NoReply
  BY <1>1
<1>3. c.args.Term = currentTerm[L] /\ c.reply.Term = 0
  BY <1>2 DEF NoArgs, NoReply
<1>4. Carries(c, L)
  BY <1>2, NothingCarried, Types
<1> QED
  BY <1>2, <1>3, <1>4 DEF Reading

(* There is one goroutine per other peer. *)
LEMMA NewCallsApart ==
    ASSUME NEW kind, NEW no, NEW s, NEW term, NEW c \in NewCalls(kind, no, s, term),
           NEW d \in NewCalls(kind, no, s, term), c.to = d.to
    PROVE  c = d
<1> DEFINE call(t) ==
        [kind |-> kind, no |-> no, try |-> 0, from |-> s, to |-> t,
         phase |-> IF kind = "commit" THEN "LeaderCommit" ELSE "PrevLogIndex",
         args |-> NoArgs(term), reply |-> NoReply, next |-> 0]
<1>1. PICK t \in Servers \ {s} : c = call(t)
  BY DEF NewCalls
<1> USE <1>1
<1>2. PICK u \in Servers \ {s} : d = call(u)
  BY DEF NewCalls
<1> USE <1>2
<1>3. c.to = t /\ d.to = u
  OBVIOUS
<1> HIDE DEF call
<1> QED
  BY <1>3

(* A heartbeat: only L sends one. *)
LEMMA sendHeartBeatReign ==
    ASSUME RInv, RInv', NEW L \in Servers, Reign(L), NEW s \in Servers, sendHeartBeat(s)
    PROVE  Reign(L)'
<1> USE DEF Reign
<1>1. s = L /\ Leads(L)
  <2>1. spawned[s]["sendHeartBeat"] > 0
    BY DEF sendHeartBeat, runs
  <2> QED
    BY <2>1 DEF Alone, Leads
<1>2. count["elections"] # 0
  <2>1. spawned[L]["sendHeartBeat"] > 0
    BY <1>1 DEF sendHeartBeat, runs
  <2> QED
    BY <2>1 DEF Idle
<1>3. /\ count'["elections"] = count["elections"] /\ count'["starts"] = count["starts"]
  BY Types DEF sendHeartBeat, Happens, Counted
<1>4. /\ UNCHANGED <<currentTerm, state, log, commitIndex, lastApplied, nextIndex, logs,
                     elections, jobs, panicked>>
      /\ spawned' = [spawned EXCEPT ![L]["sendHeartBeat"] = @ - 1]
      /\ calls' = calls \cup NewCalls("heartbeat", count["beats"], L, currentTerm[L])
  BY <1>1 DEF sendHeartBeat, runs, peer, Runs
<1> USE <1>4
<1>5. ASSUME NEW c \in calls'
      PROVE  \/ c \in calls
             \/ /\ c.kind = "heartbeat" /\ c.from = L /\ c.to \in Servers \ {L}
                /\ c.phase # "adopt" /\ c.args.Term = currentTerm[L] /\ c.reply.Term = 0
                /\ Carries(c, L)
  <2>1. c \in calls \/ c \in NewCalls("heartbeat", count["beats"], L, currentTerm[L])
    OBVIOUS
  <2>2. CASE c \in NewCalls("heartbeat", count["beats"], L, currentTerm[L])
    BY ONLY <2>2, RInv, L \in Servers, NewCallsCarry
  <2> QED
    BY <2>1, <2>2
<1> USE <1>5
<1>6. Alone(L)'
  <2>1. ASSUME NEW c \in calls' PROVE CallOf(c, L, currentTerm[L])
    <3>1. currentTerm[L] \in Nat /\ (c \in calls => CallOf(c, L, currentTerm[L]))
      BY Types DEF Alone
    <3> QED
      BY <3>1 DEF CallOf
  <2>2. ASSUME NEW t \in Servers, t # L PROVE spawned'[t]["sendHeartBeat"] = 0
    <3>1. spawned'[t] = spawned[t]
      BY <2>2, Types
    <3> QED
      BY <2>2, <3>1 DEF Alone
  <2> QED
    BY <1>3, <2>1, <2>2 DEF Alone
<1>7. NextInLog(L)'
  BY <1>1 DEF NextInLog
<1>8. Commits(L)' /\ Applies(L)'
  BY DEF Commits, Holders, Majority, Applies
<1>9. Replicates(L)'
  <2>1. ASSUME NEW c \in calls' PROVE Carries(c, L)'
    <3>1. Carries(c, L)
      BY DEF Replicates
    <3> QED
      BY <3>1 DEF Carries, Reach
  <2> QED
    BY <2>1 DEF Replicates, IsPrefix
<1>10. JobsCount(L)'
  <2>1. ASSUME NEW j \in jobs PROVE Acked(j, L)' = Acked(j, L)
    <3>1. \A c \in calls', t \in Servers : Sends(c, j, t) => c \in calls
      BY DEF Sends, Tries
    <3>2. calls \subseteq calls'
      OBVIOUS
    <3> QED
      BY <3>1, <3>2 DEF Acked, Sends, Tries
  <2> QED
    BY <1>3, <2>1 DEF JobsCount
<1>11. CallsCount'
  <2>1. \A c \in calls' : Tries(c) => c \in calls
    BY DEF Tries
  <2> QED
    BY <2>1, CallSays DEF CallsCount
<1> QED
  BY <1>2, <1>3, <1>6, <1>7, <1>8, <1>9, <1>10, <1>11

(* Start: L's log grows by one entry, which tryToCommit is to replicate. *)
LEMMA StartReign ==
    ASSUME PeerCounts, RInv, RInv', NEW L \in Servers, Reign(L), NEW s \in Servers, Start(s)
    PROVE  Reign(L)'
<1> DEFINE x == [Term |-> currentTerm[L], Index |-> Len(log[L]), Command |-> count["starts"] + 1]
<1>k. PICK k : k = [no |-> count["starts"], from |-> L, term |-> currentTerm[L],
                    index |-> Len(log[L]), Counter |-> 1, waiter |-> "start"]
  OBVIOUS
<1>0. /\ \A t \in Servers : /\ log[t] \in Seq(Entry) /\ Len(log[t]) \in Nat /\ Len(log'[t]) \in Nat
                            /\ commitIndex[t] \in Nat
      /\ jobs \subseteq Jobs /\ count["starts"] \in Nat
  <2>1. \A t \in Servers : log'[t] \in Seq(Entry)
    BY DEF RInv, TypeOK
  <2>2. \A t \in Servers : Len(log'[t]) \in Nat
    BY <2>1, SeqLength
  <2> QED
    BY <2>2, Types DEF Counted
<1> USE <1>0
<1>1. s = L /\ Leads(L) /\ state[L] = Leader
  BY DEF Reign, Alone, Leads, Start, MayStart, Follower, Leader
<1>2. count["elections"] # 0
  BY <1>1 DEF Reign, Idle
<1>3. /\ count'["elections"] = count["elections"] /\ count'["starts"] = count["starts"] + 1
  BY Types DEF Start, Happens, Counted
<1>4. /\ UNCHANGED <<currentTerm, state, commitIndex, lastApplied, nextIndex, logs,
                     spawned, elections, calls, panicked>>
      /\ log' = [log EXCEPT ![L] = Append(log[L], x)]
      /\ jobs' = jobs \cup {k}
  BY <1>1, <1>k DEF Start, Runs
<1> USE <1>4
<1>5. /\ k.no = count["starts"] /\ k.from = L /\ k.term = currentTerm[L]
      /\ k.index = Len(log[L]) /\ k.Counter = 1 /\ k.waiter = "start"
  BY <1>k
<1>6. x \in Entry
  <2>1. currentTerm[L] \in Nat /\ Len(log[L]) \in Nat /\ count["starts"] + 1 \in Nat
    <3>1. currentTerm[L] \in Nat /\ Len(log[L]) \in Nat
      BY Types
    <3> QED
      BY <3>1
  <2> QED
    BY ONLY <2>1 DEF Entry
<1> HIDE DEF x
<1>7. /\ Len(log'[L]) = Len(log[L]) + 1
      /\ \A i \in 1 .. Len(log[L]) : log'[L][i] = log[L][i]
      /\ \A t \in Servers : t # L => log'[t] = log[t]
  <2>1. log'[L] = Append(log[L], x) /\ \A t \in Servers : t # L => log'[t] = log[t]
    BY Types
  <2> QED
    BY SMTT(30), <1>6, <2>1, SeqAppend
<1>8. IsPrefix(log[L], log'[L]) /\ \A t \in Servers : Len(log'[t]) >= Len(log[t])
  BY <1>7 DEF IsPrefix
<1>9. \A t \in Servers : IsPrefix(log'[t], log'[L])
  <2> SUFFICES ASSUME NEW t \in Servers PROVE IsPrefix(log'[t], log'[L])
    OBVIOUS
  <2>1. CASE t = L
    BY <2>1 DEF IsPrefix
  <2>2. CASE t # L
    <3>1. log'[t] = log[t] /\ IsPrefix(log[t], log[L])
      BY <1>7, <2>2 DEF Reign, Replicates
    <3> USE <3>1
    <3>2. Len(log[t]) \in Nat /\ Len(log[L]) \in Nat /\ Len(log[t]) <= Len(log[L])
      BY DEF IsPrefix
    <3> USE <3>2
    <3>3. ASSUME NEW i \in 1 .. Len(log[t]) PROVE log[t][i] = log'[L][i]
      <4>1. i \in 1 .. Len(log[L])
        OBVIOUS
      <4> QED
        BY <1>7, <4>1 DEF IsPrefix
    <3>4. Len(log[t]) <= Len(log'[L])
      BY SMTT(30), <1>7
    <3> QED
      BY <3>3, <3>4 DEF IsPrefix
  <2> QED
    BY <2>1, <2>2
<1>10. Commits(L)' /\ Applies(L)' /\ \A c \in calls : Carries(c, L)'
  <2>1. ASSUME NEW t \in Servers
        PROVE  /\ commitIndex'[t] >= commitIndex[t] /\ commitIndex'[t] <= commitIndex[L]
               /\ commitIndex'[t] < Len(log'[t])
    <3>1. commitIndex[t] <= commitIndex[L] /\ commitIndex[t] < Len(log[t])
      BY DEF Reign, Commits
    <3> QED
      BY <1>8, <3>1
  <2> QED
    BY <1>8, <2>1, LogsGrow
<1>11. Replicates(L)'
  BY <1>9, <1>10 DEF Replicates
<1>12. Alone(L)'
  <2>1. JobOf(k, L, currentTerm[L])
    BY <1>5 DEF JobOf
  <2> QED
    BY <1>3, <2>1 DEF Reign, Alone
<1>13. NextInLog(L)'
  <2>1. ASSUME NEW t \in Servers PROVE nextIndex[L][t] \in 1 .. Len(log'[L])
    <3>1. nextIndex[L][t] \in 1 .. Len(log[L])
      BY <1>1 DEF Reign, NextInLog
    <3> QED
      BY SMTT(30), <1>7, <3>1
  <2> QED
    BY <2>1 DEF NextInLog
<1>14. \A j \in jobs : j.no < count["starts"] /\ j.no \in Nat
  BY DEF Reign, JobsCount, Jobs
<1>15. JobsCount(L)'
  <2>1. ASSUME NEW j \in jobs
        PROVE  /\ j.no < count'["starts"] /\ j.index < Len(log'[L])
               /\ j.waiter = "start" => j.Counter = 1
               /\ j.Counter <= 1 + Cardinality(Acked(j, L)')
    <3>1. j.index \in Nat /\ j.Counter \in Nat /\ j.no \in Nat
      BY DEF Jobs
    <3> USE <3>1
    <3>2. /\ Cardinality(Acked(j, L)) \in Nat /\ Cardinality(Acked(j, L)') \in Nat
          /\ Cardinality(Acked(j, L)) <= Cardinality(Acked(j, L)')
      BY <1>8, AckedGrows
    <3>3. /\ j.Counter <= 1 + Cardinality(Acked(j, L)) /\ j.index < Len(log[L])
          /\ j.no < count["starts"] /\ (j.waiter = "start" => j.Counter = 1)
      BY DEF Reign, JobsCount
    <3>4. Len(log[L]) \in Nat /\ Len(log'[L]) = Len(log[L]) + 1
      BY <1>7
    <3>5. j.no < count'["starts"]
      BY SMTT(30), <1>3, <3>3
    <3>6. j.index < Len(log'[L])
      BY ONLY <3>1, <3>3, <3>4
    <3>7. j.Counter <= 1 + Cardinality(Acked(j, L)')
      BY ONLY <3>1, <3>2, <3>3
    <3> QED
      BY <3>3, <3>5, <3>6, <3>7
  <2>2. /\ k.no < count'["starts"] /\ k.index < Len(log'[L])
        /\ k.waiter = "start" => k.Counter = 1
        /\ k.Counter <= 1 + Cardinality(Acked(k, L)')
    <3>1. Acked(k, L)' \in SUBSET Servers
      BY DEF Acked
    <3>2. Cardinality(Acked(k, L)') \in Nat
      BY <3>1 DEF PeerCounts
    <3> QED
      BY SMTT(30), <1>3, <1>5, <1>7, <3>2
  <2>3. ASSUME NEW i \in jobs', NEW j \in jobs', i.no = j.no PROVE i = j
    <3>1. i \in jobs => i.no # k.no
      BY <1>5, <1>14
    <3>2. j \in jobs => j.no # k.no
      BY <1>5, <1>14
    <3>3. i \in jobs /\ j \in jobs => i = j
      BY <2>3 DEF Reign, JobsCount
    <3> QED
      BY ONLY <1>4, <2>3, <3>1, <3>2, <3>3
  <2>4. ASSUME NEW j \in jobs'
        PROVE  /\ j.no < count'["starts"] /\ j.index < Len(log'[L])
               /\ j.waiter = "start" => j.Counter = 1
               /\ j.Counter <= 1 + Cardinality(Acked(j, L)')
    <3>1. CASE j = k
      <4> USE <3>1
      <4>1. Acked(j, L)' = Acked(k, L)'
        BY AckedNext
      <4> QED
        BY <2>2, <4>1
    <3> QED
      BY <2>1, <3>1
  <2> QED
    BY <2>3, <2>4 DEF JobsCount
<1>16. CallsCount'
  <2>1. ASSUME NEW c \in calls, Tries(c) PROVE c.no # k.no
    <3>1. PICK j \in jobs : j.no = c.no
      BY <2>1 DEF RInv, CallsHaveJobs, Tries
    <3> QED
      BY <1>5, <1>14, <3>1
  <2> QED
    BY <2>1, CallSays DEF Reign, CallsCount
<1> QED
  BY <1>2, <1>3, <1>10, <1>11, <1>12, <1>13, <1>15, <1>16 DEF Reign

(* A waiter moves on.  Its Counter is right as long as its index and number *)
(* are the same.                                                            *)
LEMMA JobReign ==
    ASSUME NEW L \in Servers, RInv, Reign(L), NEW j \in jobs, NEW k,
           k.no = j.no, k.from = j.from, k.term = j.term, k.index = j.index,
           k.Counter = j.Counter, j.waiter # "start", k.waiter # "start",
           jobs' = Replace(jobs, j, k),
           UNCHANGED <<currentTerm, state, log, nextIndex, spawned, elections, calls, count>>
    PROVE  /\ Alone(L)' /\ count'["elections"] # 0 /\ NextInLog(L)' /\ JobsCount(L)'
           /\ CallsCount'
<1>1. \A i \in jobs' : (i \in jobs /\ i # j) \/ i = k
  BY DEF Replace
<1> USE <1>1
<1>2. Alone(L)'
  <2>1. JobOf(k, L, currentTerm[L])
    BY DEF Reign, Alone, JobOf
  <2> QED
    BY <2>1 DEF Reign, Alone
<1>3. count'["elections"] # 0 /\ Leads(L)
  BY DEF Reign, Idle, Leads
<1> USE <1>3
<1>4. NextInLog(L)'
  BY DEF Reign, NextInLog
<1>5. JobsCount(L)'
  <2>1. \A i : Acked(i, L)' = Acked(i, L)
    BY CallSays DEF Acked
  <2>2. Acked(k, L) = Acked(j, L)
    BY DEF Acked, Sends
  <2>3. \A i \in jobs' :
            /\ i.no < count["starts"] /\ i.index < Len(log[L])
            /\ i.waiter = "start" => i.Counter = 1
            /\ i.Counter <= 1 + Cardinality(Acked(i, L))
    BY <2>2 DEF Reign, JobsCount
  <2>4. \A i, h \in jobs' : i.no = h.no => i = h
    BY SMTT(30) DEF Reign, JobsCount
  <2> QED
    BY <2>1, <2>3, <2>4 DEF JobsCount
<1>6. CallsCount'
  <2>1. ASSUME NEW c \in calls, Tries(c), NEW i \in jobs', i.no = c.no
        PROVE  i.waiter # "start" /\ (~Reading(c) => i.index < Reach(c))
    BY <2>1 DEF Reign, CallsCount
  <2> QED
    BY <2>1, CallSays DEF Reign, CallsCount
<1> QED
  BY <1>2, <1>4, <1>5, <1>6

(* The waiter goes to sleep. *)
LEMMA waitReign ==
    ASSUME RInv, NEW L \in Servers, Reign(L), NEW j \in jobs, wait(j)
    PROVE  Reign(L)'
<1>1. j \in Jobs
  BY Types
<1>2. PICK k : k = [j EXCEPT !.waiter = "asleep"]
  OBVIOUS
<1> USE <1>2
<1>3. /\ k.no = j.no /\ k.from = j.from /\ k.term = j.term /\ k.index = j.index
      /\ k.Counter = j.Counter /\ k.waiter = "asleep" /\ j.waiter = "waiting"
  BY <1>1 DEF Jobs, wait
<1>4. /\ UNCHANGED <<currentTerm, state, log, commitIndex, lastApplied, nextIndex, logs,
                     spawned, elections, calls, count, panicked>>
      /\ jobs' = Replace(jobs, j, k)
  BY DEF wait, peer, Runs
<1> USE <1>4
<1>5. /\ Alone(L)' /\ count'["elections"] # 0 /\ NextInLog(L)' /\ JobsCount(L)' /\ CallsCount'
  BY <1>3, JobReign
<1>6. Replicates(L)' /\ Commits(L)' /\ Applies(L)'
  BY DEF Reign, Replicates, Carries, IsPrefix, Reach, Commits, Holders,
     Majority, Applies
<1> QED
  BY <1>5, <1>6 DEF Reign

(* A majority has been counted, so a majority holds the entry. *)
LEMMA CountedHold ==
    ASSUME PeerCounts, RInv, NEW L \in Servers, Reign(L), NEW j \in jobs, Majority(j.Counter)
    PROVE  Majority(Cardinality(Holders(j.index)))
<1>1. /\ j.Counter \in Nat /\ j.index \in Nat /\ j.index < Len(log[L])
      /\ j.Counter <= 1 + Cardinality(Acked(j, L))
  BY Types DEF Jobs, Reign, JobsCount
<1> USE <1>1
<1>2. /\ Acked(j, L) \in SUBSET Servers /\ Holders(j.index) \in SUBSET Servers
      /\ L \notin Acked(j, L) /\ Acked(j, L) \cup {L} \subseteq Holders(j.index)
  BY DEF Acked, Holders
<1> USE <1>2
<1>3. Cardinality(Acked(j, L) \cup {L}) = Cardinality(Acked(j, L)) + 1
  BY RaftAssumption DEF PeerCounts
<1>4. /\ Cardinality(Acked(j, L) \cup {L}) <= Cardinality(Holders(j.index))
      /\ Cardinality(Acked(j, L)) \in Nat /\ Cardinality(Holders(j.index)) \in Nat
      /\ Cardinality(Servers) \in Nat
  BY RaftAssumption DEF PeerCounts
<1> USE <1>4
<1>5. Cardinality(Servers) \div 2 \in Int
  OBVIOUS
<1> QED
  BY <1>3, <1>5 DEF Majority

(* tryToCommit commits what it has counted. *)
LEMMA commitReign ==
    ASSUME PeerCounts, RInv, RInv', NEW L \in Servers, Reign(L), NEW j \in jobs, commit(j)
    PROVE  Reign(L)'
<1>1. j \in Jobs /\ j.from = L /\ j.term = currentTerm[L]
  BY Types DEF Reign, Alone, JobOf
<1>2. PICK k : k = [j EXCEPT !.waiter = "done"]
  OBVIOUS
<1>3. /\ k.no = j.no /\ k.from = j.from /\ k.term = j.term /\ k.index = j.index
      /\ k.Counter = j.Counter /\ k.waiter = "done" /\ j.waiter = "waiting"
  BY <1>1, <1>2 DEF Jobs, commit
<1>4. /\ UNCHANGED <<currentTerm, state, log, lastApplied, nextIndex, logs,
                     spawned, elections, calls, count, panicked>>
      /\ jobs' = Replace(jobs, j, k)
      /\ commitIndex' = [commitIndex EXCEPT ![L] = NewCommit(j)]
  BY <1>1, <1>2 DEF commit, Runs
<1> USE <1>4
<1>5. /\ Alone(L)' /\ count'["elections"] # 0 /\ NextInLog(L)' /\ JobsCount(L)' /\ CallsCount'
  BY <1>3, JobReign
<1>6. \A s \in Servers : /\ Len(log[s]) \in Nat /\ commitIndex[s] \in Nat
                         /\ lastApplied[s] \in Nat
  BY Types
<1> USE <1>6
<1>7. /\ NewCommit(j) \in Nat /\ NewCommit(j) >= commitIndex[L] /\ NewCommit(j) < Len(log[L])
      /\ Majority(Cardinality(Holders(NewCommit(j))))
  <2>1. j.index \in Nat /\ j.index < Len(log[L])
    BY <1>1 DEF Jobs, Reign, JobsCount
  <2> USE <2>1
  <2>2. commitIndex[L] < Len(log[L]) /\ Majority(Cardinality(Holders(commitIndex[L])))
    BY DEF Reign, Commits
  <2>3. CASE NewCommit(j) = commitIndex[L]
    BY <2>2, <2>3
  <2>4. CASE NewCommit(j) # commitIndex[L]
    <3>1. Majority(j.Counter) /\ NewCommit(j) = j.index /\ j.index > commitIndex[L]
      BY <1>1, <2>4 DEF NewCommit, Larger
    <3> QED
      BY <3>1, CountedHold
  <2> QED
    BY <2>3, <2>4
<1> USE <1>7
<1>8. /\ commitIndex'[L] = NewCommit(j)
      /\ \A s \in Servers : commitIndex'[s] = IF s = L THEN NewCommit(j) ELSE commitIndex[s]
  BY Types
<1> USE <1>8
<1>9. Commits(L)'
  <2>1. \A s \in Servers : commitIndex'[s] <= commitIndex'[L] /\ commitIndex'[s] < Len(log[s])
    BY SMTT(30) DEF Reign, Commits
  <2>2. Holders(commitIndex[L])' = Holders(NewCommit(j))
    BY DEF Holders
  <2> QED
    BY <2>1, <2>2 DEF Commits, Majority
<1>10. Applies(L)'
  <2>1. \A s \in Servers : lastApplied[s] <= commitIndex'[s]
    BY SMTT(30) DEF Reign, Applies
  <2> QED
    BY <2>1 DEF Reign, Applies
<1>11. Replicates(L)'
  <2>1. ASSUME NEW c \in calls PROVE Carries(c, L)'
    <3>1. Carries(c, L) /\ c.args.LeaderCommit \in Nat
      BY CallFacts DEF Reign, Replicates
    <3> USE <3>1
    <3>2. c.args.LeaderCommit <= commitIndex'[L]
      BY SMTT(30) DEF Carries
    <3> QED
      BY <3>2 DEF Carries, Reach
  <2> QED
    BY <2>1 DEF Reign, Replicates, IsPrefix
<1> QED
  BY <1>5, <1>9, <1>10, <1>11 DEF Reign

(* All that is committed is there, and the applier ends with it. *)
LEMMA InRange ==
    \A n, m, k \in Nat :
        m < n /\ k <= m =>
            ~(m >= n) /\ Smaller(m, n - 1) = m /\ Smaller(m, Larger(k + 1, n)) = m
  BY DEF Smaller, Larger

(* The applier: what is committed is in the log. *)
LEMMA applierReign ==
    ASSUME RInv, NEW L \in Servers, Reign(L), NEW s \in Servers, applier(s)
    PROVE  Reign(L)'
<1>0. \A t \in Servers : /\ Len(log[t]) \in Nat /\ commitIndex[t] \in Nat
                         /\ lastApplied[t] \in Nat /\ logs[t] \in Seq(Nat)
  BY Types
<1> USE <1>0
<1>1. /\ commitIndex[s] < Len(log[s]) /\ commitIndex[s] > lastApplied[s]
      /\ lastApplied[s] <= commitIndex[s] /\ Len(logs[s]) = lastApplied[s]
      /\ Len(log[s]) <= Len(log[L])
  BY DEF Reign, Commits, Applies, Replicates, IsPrefix, applier
<1> USE <1>1
<1> DEFINE new == [i \in 1 .. commitIndex[s] - lastApplied[s] |->
                      log[s][lastApplied[s] + i + 1].Command]
           n == commitIndex[s] - lastApplied[s]
<1>2. /\ lastApplied' = [lastApplied EXCEPT ![s] = commitIndex[s]]
      /\ logs' = [logs EXCEPT ![s] = @ \o new]
      /\ UNCHANGED <<currentTerm, log, commitIndex, state, nextIndex, spawned, elections,
                     jobs, calls, count>>
      /\ ~panicked'
  <2>1. /\ ~(commitIndex[s] >= Len(log[s]))
        /\ Smaller(commitIndex[s], Len(log[s]) - 1) = commitIndex[s]
        /\ Smaller(commitIndex[s], Larger(lastApplied[s] + 1, Len(log[s]))) = commitIndex[s]
    BY ONLY <1>0, <1>1, InRange, s \in Servers
  <2> QED
    BY <2>1 DEF applier, readApplyCh
<1>3. n \in Nat /\ n = commitIndex[s] - lastApplied[s]
  OBVIOUS
<1>4. ASSUME NEW i \in 1 .. n
      PROVE  /\ lastApplied[s] + i + 1 \in 1 .. Len(log[s])
             /\ log[s][lastApplied[s] + i + 1].Command \in Nat
  <2>1. lastApplied[s] + i + 1 \in 1 .. Len(log[s])
    <3>1. /\ lastApplied[s] \in Nat /\ commitIndex[s] \in Nat /\ Len(log[s]) \in Nat
          /\ commitIndex[s] < Len(log[s])
      OBVIOUS
    <3>2. i \in Nat /\ i <= commitIndex[s] - lastApplied[s]
      BY <1>3, <3>1
    <3> QED
      BY ONLY <3>1, <3>2
  <2> USE <2>1
  <2>2. log[s][lastApplied[s] + i + 1] \in Entry
    BY SeqElement, Types
  <2> QED
    BY <2>2 DEF Entry
<1>5. /\ new \in Seq(Nat) /\ Len(new) = n
      /\ \A i \in 1 .. n : new[i] = log[s][lastApplied[s] + i + 1].Command
  <2>1. new \in [1 .. n -> Nat]
    BY <1>4
  <2> USE <2>1
  <2>2. new \in Seq(Nat)
    <3> HIDE DEF n, new
    <3> QED
      BY ONLY <1>3, <2>1
  <2> USE <2>2
  <2>3. DOMAIN new = 1 .. n
    OBVIOUS
  <2>4. Len(new) = n
    BY <1>3, <2>3, SeqLength
  <2> QED
    BY <2>4
<1> HIDE DEF n, new
<1>6. /\ logs'[s] = logs[s] \o new /\ lastApplied'[s] = commitIndex[s]
      /\ \A t \in Servers : t # s => logs'[t] = logs[t] /\ lastApplied'[t] = lastApplied[t]
  BY <1>2, Types
<1>7. /\ Len(logs'[s]) = commitIndex[s]
      /\ \A i \in 1 .. Len(logs'[s]) :
            logs'[s][i] = IF i <= lastApplied[s] THEN logs[s][i] ELSE new[i - lastApplied[s]]
  <2>1. /\ Len(logs[s] \o new) = Len(logs[s]) + Len(new)
        /\ \A i \in 1 .. Len(logs[s]) + Len(new) :
              (logs[s] \o new)[i] = IF i <= Len(logs[s]) THEN logs[s][i]
                                    ELSE new[i - Len(logs[s])]
    BY ONLY ZenonT(10), <1>0, <1>5, SeqConcat, s \in Servers
  <2>2. Len(logs[s]) + Len(new) = commitIndex[s]
    BY <1>3, <1>5
  <2> QED
    BY <1>6, <2>1, <2>2
<1> USE <1>7
<1>8. ASSUME NEW i \in 1 .. Len(logs'[s]) PROVE logs'[s][i] = log[L][i + 1].Command
  <2>1. CASE i <= lastApplied[s]
    <3> USE <2>1
    <3>1. i \in 1 .. Len(logs[s])
      OBVIOUS
    <3> QED
      BY SMTT(30), <3>1 DEF Reign, Applies
  <2>2. CASE ~(i <= lastApplied[s])
    <3> USE <2>2
    <3>1. /\ i - lastApplied[s] \in 1 .. n
          /\ lastApplied[s] + (i - lastApplied[s]) + 1 = i + 1 /\ i + 1 \in 1 .. Len(log[s])
      <4>1. i \in Nat /\ i <= commitIndex[s]
        BY ONLY <1>0, <1>7, i \in 1 .. Len(logs'[s])
      <4>2. ASSUME NEW applied \in Nat, NEW committed \in Nat, NEW len \in Nat,
                   i <= committed, ~(i <= applied), committed < len
            PROVE  /\ i - applied \in 1 .. committed - applied
                   /\ applied + (i - applied) + 1 = i + 1 /\ i + 1 \in 1 .. len
        BY ONLY <4>1, <4>2
      <4> QED
        BY <1>3, <4>1, <4>2
    <3> USE <3>1
    <3>2. new[i - lastApplied[s]] = log[s][i + 1].Command
      BY <1>5
    <3>3. log[s][i + 1] = log[L][i + 1]
      BY DEF Reign, Replicates, IsPrefix
    <3> QED
      BY <3>2, <3>3
  <2> QED
    BY <2>1, <2>2
<1>9. Applies(L)'
  <2>1. ASSUME NEW t \in Servers
        PROVE  /\ lastApplied'[t] <= commitIndex[t] /\ Len(logs'[t]) = lastApplied'[t]
               /\ \A i \in 1 .. Len(logs'[t]) : logs'[t][i] = log[L][i + 1].Command
    <3>1. CASE t = s
      <4>1. /\ lastApplied'[s] <= commitIndex[s] /\ Len(logs'[s]) = lastApplied'[s]
        BY SMTT(30), <1>6
      <4> QED
        BY <1>8, <3>1, <4>1
    <3>2. CASE t # s
      <4>1. /\ lastApplied[t] <= commitIndex[t] /\ Len(logs[t]) = lastApplied[t]
            /\ \A i \in 1 .. Len(logs[t]) : logs[t][i] = log[L][i + 1].Command
        BY DEF Reign, Applies
      <4> QED
        BY ONLY <1>6, <3>2, <4>1, t \in Servers
    <3> QED
      BY <3>1, <3>2
  <2> QED
    BY SMTT(30), <1>2, <2>1 DEF Applies
<1>10. Alone(L)' /\ (count'["elections"] = 0 => Idle(L)') /\ (Leads(L)' => NextInLog(L)')
  BY <1>2 DEF Reign, Alone, Idle, Leads, NextInLog
<1>11. Replicates(L)' /\ Commits(L)'
  BY <1>2 DEF Reign, Replicates, Carries, IsPrefix, Reach, Commits, Holders, Majority
<1>12. JobsCount(L)' /\ CallsCount'
  <2>1. \A j : Acked(j, L)' = Acked(j, L)
    BY <1>2, CallSays DEF Acked
  <2> QED
    BY <1>2, <2>1, CallSays DEF Reign, JobsCount, CallsCount
<1> QED
  BY <1>2, <1>9, <1>10, <1>11, <1>12 DEF Reign
-----------------------------------------------------------------------------
(* tryToCommit starts its goroutines: none of them has been started before. *)
LEMMA tryToCommitReign ==
    ASSUME PeerCounts, RInv, RInv', NEW L \in Servers, Reign(L), NEW j \in jobs, tryToCommit(j)
    PROVE  Reign(L)'
<1> DEFINE New == NewCalls("commit", j.no, L, currentTerm[L])
<1>1. /\ j \in Jobs /\ j.from = L /\ j.term = currentTerm[L] /\ j.waiter = "start"
      /\ currentTerm[L] \in Nat
  BY Types DEF Reign, Alone, JobOf, tryToCommit
<1>2. PICK k : k = [j EXCEPT !.waiter = "waiting"]
  OBVIOUS
<1>3. /\ k.no = j.no /\ k.from = L /\ k.term = currentTerm[L] /\ k.index = j.index
      /\ k.Counter = j.Counter /\ k.waiter = "waiting"
  BY <1>1, <1>2 DEF Jobs
<1>4. /\ UNCHANGED <<currentTerm, state, log, commitIndex, lastApplied, nextIndex, logs,
                     spawned, elections, count, panicked>>
      /\ jobs' = Replace(jobs, j, k)
      /\ calls' = calls \cup New
  BY <1>1, <1>2 DEF tryToCommit, peer, Runs
<1> USE <1>4
<1>5. \A i \in jobs' : (i \in jobs /\ i # j) \/ i = k
  BY DEF Replace
<1>6. ASSUME NEW c \in New
      PROVE  /\ c.kind = "commit" /\ c.no = j.no /\ c.from = L /\ c.to \in Servers \ {L}
             /\ c.phase # "adopt" /\ c.args.Term = currentTerm[L] /\ c.reply.Term = 0
             /\ Carries(c, L) /\ Reading(c)
             /\ \A d \in New : d.to = c.to => d = c
  <2>1. c \in NewCalls("commit", j.no, L, currentTerm[L])
    OBVIOUS
  <2> HIDE DEF New
  <2>2. /\ c.kind = "commit" /\ c.no = j.no /\ c.from = L /\ c.to \in Servers \ {L}
        /\ c.phase # "adopt" /\ c.args.Term = currentTerm[L] /\ c.reply.Term = 0
        /\ Carries(c, L) /\ Reading(c)
    BY ONLY <2>1, RInv, L \in Servers, NewCallsCarry
  <2>3. \A d \in NewCalls("commit", j.no, L, currentTerm[L]) : d.to = c.to => d = c
    BY ONLY <2>1, NewCallsApart
  <2> QED
    BY <2>2, <2>3 DEF New
<1> HIDE DEF New
<1>7. \A c \in calls : Tries(c) => c.no # j.no
  BY <1>1 DEF Reign, CallsCount
<1>8. \A i \in jobs : i.no = j.no => i = j
  BY DEF Reign, JobsCount
<1>9. Alone(L)'
  <2>1. ASSUME NEW c \in calls'
        PROVE  CallOf(c, L, currentTerm[L])
    <3>1. CASE c \in calls
      BY <3>1 DEF Reign, Alone
    <3>2. CASE c \in New
      BY SMTT(30), <1>1, <1>6, <3>2 DEF CallOf
    <3> QED
      BY <3>1, <3>2
  <2>2. \A i \in jobs' : JobOf(i, L, currentTerm[L])
    BY <1>3, <1>5 DEF Reign, Alone, JobOf
  <2> QED
    BY <2>1, <2>2 DEF Reign, Alone
<1>10. count'["elections"] # 0 /\ NextInLog(L)'
  BY DEF Reign, Idle, Leads, NextInLog
<1>11. Replicates(L)'
  <2>1. ASSUME NEW c \in calls' PROVE Carries(c, L)'
    <3>1. Carries(c, L)
      BY <1>6 DEF Reign, Replicates
    <3> QED
      BY <3>1 DEF Carries, Reach
  <2> QED
    BY <2>1 DEF Reign, Replicates, IsPrefix
<1>12. Commits(L)' /\ Applies(L)'
  BY DEF Reign, Commits, Holders, Majority, Applies
<1>13. JobsCount(L)'
  <2>1. ASSUME NEW i \in jobs, i # j PROVE Acked(i, L)' = Acked(i, L)
    <3>1. \A c \in calls', t \in Servers : Sends(c, i, t) => c \in calls
      BY <1>6, <1>8, <2>1 DEF Sends
    <3>2. calls \subseteq calls'
      OBVIOUS
    <3> QED
      BY <3>1, <3>2, CallSays DEF Acked
  <2>2. k.Counter = 1 /\ k.no < count["starts"] /\ k.index < Len(log[L])
    BY <1>1, <1>3 DEF Reign, JobsCount
  <2> USE <2>2
  <2>3. Cardinality(Acked(k, L)') \in Nat
    <3>1. Acked(k, L)' \in SUBSET Servers
      BY DEF Acked
    <3> QED
      BY <3>1 DEF PeerCounts
  <2>4. ASSUME NEW i \in jobs'
        PROVE  /\ i.no < count["starts"] /\ i.index < Len(log[L])
               /\ i.waiter = "start" => i.Counter = 1
               /\ i.Counter <= 1 + Cardinality(Acked(i, L)')
    <3>1. CASE i \in jobs /\ i # j
      BY <2>1, <3>1 DEF Reign, JobsCount
    <3>2. CASE i = k
      <4> USE <3>2
      <4>1. Acked(i, L)' = Acked(k, L)'
        BY AckedNext
      <4>2. k.Counter <= 1 + Cardinality(Acked(k, L)')
        BY <2>3
      <4> QED
        BY <1>3, <4>1, <4>2
    <3> QED
      BY <1>5, <3>1, <3>2
  <2>5. \A i, h \in jobs' : i.no = h.no => i = h
    BY <1>3, <1>5, <1>8 DEF Reign, JobsCount
  <2> QED
    BY <2>4, <2>5 DEF JobsCount
<1>14. CallsCount'
  <2>1. ASSUME NEW c \in calls', Tries(c), NEW i \in jobs', i.no = c.no
        PROVE  i.waiter # "start" /\ (~Reading(c) => i.index < Reach(c))
    <3> USE <2>1
    <3>1. CASE c \in New
      BY <1>3, <1>5, <1>6, <1>8, <3>1
    <3>2. CASE c \in calls
      <4> USE <3>2
      <4>1. i \in jobs
        BY <1>3, <1>5, <1>7
      <4> QED
        BY <4>1 DEF Reign, CallsCount
    <3> QED
      BY <3>1, <3>2
  <2>2. ASSUME NEW c \in calls', NEW d \in calls', Tries(c), Tries(d), c.no = d.no, c.to = d.to
        PROVE  c = d
    <3> USE <2>2
    <3>1. CASE c \in New /\ d \in New
      BY <1>6, <3>1
    <3>2. CASE c \in calls /\ d \in calls
      BY <3>2 DEF Reign, CallsCount
    <3> QED
      BY <1>6, <1>7, <3>1, <3>2
  <2> QED
    BY <2>1, <2>2, CallSays DEF CallsCount
<1> QED
  BY <1>9, <1>10, <1>11, <1>12, <1>13, <1>14 DEF Reign

(* What a Call changes in its goroutine and nowhere else. *)
LEMMA PeersKept ==
    ASSUME RInv, NEW L \in Servers, Reign(L), calls # {},
           UNCHANGED <<currentTerm, state, log, commitIndex, lastApplied, logs>>
    PROVE  /\ count["elections"] # 0 /\ NextInLog(L)
           /\ currentTerm'[L] = currentTerm[L]
           /\ \A s \in Servers : currentTerm'[s] <= currentTerm[L]
           /\ \A s \in Servers : s # L => state'[s] = Follower
           /\ \A s \in Servers : Len(log'[s]) >= Len(log[s]) /\ IsPrefix(log'[s], log'[L])
           /\ Commits(L)' /\ Applies(L)' /\ \A x \in calls : Carries(x, L)'
<1>1. count["elections"] # 0 /\ NextInLog(L)
  BY DEF Reign, Idle, Leads
<1>2. \A s \in Servers : Len(log[s]) \in Nat
  BY Types
<1>3. Commits(L)' /\ Applies(L)'
  BY DEF Reign, Commits, Holders, Majority, Applies
<1>4. \A x \in calls : Carries(x, L)'
  BY DEF Reign, Replicates, Carries, Reach
<1>5. \A s \in Servers : IsPrefix(log'[s], log'[L])
  BY DEF Reign, Replicates
<1>6. /\ \A s \in Servers : currentTerm'[s] <= currentTerm[L]
      /\ \A s \in Servers : s # L => state'[s] = Follower
  BY <1>1 DEF Reign, Alone
<1>7. ASSUME NEW s \in Servers PROVE Len(log'[s]) >= Len(log[s])
  BY <1>2
<1> QED
  BY <1>1, <1>3, <1>4, <1>5, <1>6, <1>7

(* An argument is read: it is a place or a piece of L's log, so that nothing *)
(* is out of range, and what the Call carries is L's.                        *)
LEMMA ReadsReign ==
    ASSUME PeerCounts, RInv, RInv', NEW L \in Servers, Reign(L), NEW c \in calls, Reading(c),
           NEW inRange \in BOOLEAN, inRange, NEW d, Reads(c, inRange, d),
           d.kind = c.kind, d.no = c.no, d.from = c.from, d.to = c.to, d.reply = c.reply,
           Reading(d) \/ d.phase = "sent", d.args.Term = c.args.Term,
           d.args.PrevLogIndex \in Nat, Reach(d) <= Len(log[L]),
           \A i \in DOMAIN d.args.Entries :
               d.args.Entries[i] = log[L][d.args.PrevLogIndex + 1 + i],
           d.args.LeaderCommit <= commitIndex[L],
           Tries(d) /\ ~Reading(d) => \A j \in jobs : j.index < Reach(d)
    PROVE  Reign(L)'
<1>1. /\ calls' = Replace(calls, c, d) /\ UNCHANGED panicked
      /\ UNCHANGED <<currentTerm, state, log, commitIndex, lastApplied, nextIndex, logs,
                     spawned, elections, jobs, count>>
  BY DEF Reads, peer
<1>2. /\ count["elections"] # 0 /\ NextInLog(L) /\ currentTerm'[L] = currentTerm[L]
      /\ \A s \in Servers : currentTerm'[s] <= currentTerm[L]
      /\ \A s \in Servers : s # L => state'[s] = Follower
      /\ \A s \in Servers : Len(log'[s]) >= Len(log[s]) /\ IsPrefix(log'[s], log'[L])
      /\ Commits(L)' /\ Applies(L)' /\ \A x \in calls : Carries(x, L)'
  BY <1>1, PeersKept
<1>3. NextInLog(L)'
  BY <1>1, <1>2 DEF NextInLog
<1>4. d.phase \notin {"replied", "write", "adopt", "late"} /\ c.phase # "late"
  BY DEF Reading
<1>5. CallOf(d, L, currentTerm[L])
  <2>1. CallOf(c, L, currentTerm[L])
    BY DEF Reign, Alone
  <2> QED
    BY <1>4, <2>1 DEF CallOf
<1>6. Carries(d, L)'
  BY <1>1, <1>4, CallSays DEF Carries
<1>7. Tries(d) => Tries(c)
  BY <1>4 DEF Tries
<1> QED
  BY <1>1, <1>2, <1>3, <1>5, <1>6, <1>7, CallGoesOn

(* What a goroutine that reads its arguments has read so far. *)
LEMMA ReadSoFar ==
    ASSUME RInv, NEW L \in Servers, Reign(L), NEW c \in calls, Reading(c)
    PROVE  /\ c \in Calls /\ c.from = L /\ c.to \in Servers
           /\ c.args.PrevLogIndex \in Nat /\ c.args.PrevLogIndex + 1 <= Len(log[L])
           /\ c.args.Entries = <<>> /\ DOMAIN c.args.Entries = {} /\ Len(c.args.Entries) = 0
           /\ c.args.LeaderCommit <= commitIndex[L]
           /\ log[L] \in Seq(Entry) /\ Len(log[L]) \in Nat
           /\ nextIndex[L][c.to] \in 1 .. Len(log[L])
<1>1. /\ c \in Calls /\ c.from = L /\ c.to \in Servers /\ Carries(c, L)
  BY CallFacts DEF Reign, Alone, CallOf, Replicates
<1>2. c.args.Entries = <<>> /\ DOMAIN c.args.Entries = {} /\ Len(c.args.Entries) = 0
  BY SeqEmpty DEF RInv, CallsIndexed, CallIndexed
<1>3. c.args.PrevLogIndex \in Nat /\ c.args.PrevLogIndex + 1 <= Len(log[L])
      /\ c.args.LeaderCommit <= commitIndex[L]
  <2>1. \A n \in Nat : n + 1 + 0 = n + 1
    OBVIOUS
  <2> QED
    BY <1>1, <1>2, <2>1 DEF Carries, Reach
<1>4. nextIndex[L][c.to] \in 1 .. Len(log[L])
  BY <1>1 DEF Reign, Leads, NextInLog
<1>5. log[L] \in Seq(Entry) /\ Len(log[L]) \in Nat
  BY Types
<1> QED
  BY <1>1, <1>2, <1>3, <1>4, <1>5

(* rf.commitIndex is read; it may grow before the request is sent. *)
LEMMA readLeaderCommitReign ==
    ASSUME PeerCounts, RInv, RInv', NEW L \in Servers, Reign(L), NEW c \in calls, readLeaderCommit(c)
    PROVE  Reign(L)'
<1>1. PICK d : d = [c EXCEPT !.args.LeaderCommit = commitIndex[c.from],
                             !.phase = IF c.kind = "commit" THEN "PrevLogIndex" ELSE "sent"]
  OBVIOUS
<1>2. Reading(c) /\ Reads(c, TRUE, d)
  BY <1>1 DEF readLeaderCommit, Reading
<1>3. /\ c \in Calls /\ c.from = L /\ c.to \in Servers
      /\ c.args.PrevLogIndex \in Nat /\ c.args.PrevLogIndex + 1 <= Len(log[L])
      /\ c.args.Entries = <<>> /\ DOMAIN c.args.Entries = {} /\ Len(c.args.Entries) = 0
  BY <1>2, ReadSoFar
<1>4. /\ d.kind = c.kind /\ d.no = c.no /\ d.from = c.from /\ d.to = c.to /\ d.reply = c.reply
      /\ d.phase = (IF c.kind = "commit" THEN "PrevLogIndex" ELSE "sent")
      /\ d.args.Term = c.args.Term /\ d.args.PrevLogIndex = c.args.PrevLogIndex
      /\ d.args.Entries = c.args.Entries /\ d.args.LeaderCommit = commitIndex[L]
  BY <1>1, <1>3 DEF Calls, AppendEntriesArgs
<1>5. Reading(d) \/ d.phase = "sent"
  BY <1>4 DEF Reading
<1>6. Tries(d) => Reading(d)
  BY <1>4 DEF Tries, Reading
<1>7. Reach(d) <= Len(log[L])
  <2>1. \A n \in Nat : n + 1 + 0 = n + 1
    OBVIOUS
  <2> QED
    BY <1>3, <1>4, <2>1 DEF Reach
<1>8. d.args.LeaderCommit <= commitIndex[L]
  BY <1>4, Types, Sizes
<1>9. d.args.PrevLogIndex \in Nat /\ \A i \in DOMAIN d.args.Entries : FALSE
  BY <1>3, <1>4
<1> QED
  BY <1>2, <1>4, <1>5, <1>6, <1>7, <1>8, <1>9, ReadsReign

(* The arithmetic of nextIndex and PrevLogIndex. *)
LEMMA BeforeNext ==
    ASSUME NEW m \in Nat, NEW n \in 1 .. m
    PROVE  n - 1 \in Nat /\ n - 1 + 1 + 0 <= m
  OBVIOUS

(* nextIndex is read. *)
LEMMA readPrevLogIndexReign ==
    ASSUME PeerCounts, RInv, RInv', NEW L \in Servers, Reign(L), NEW c \in calls, readPrevLogIndex(c)
    PROVE  Reign(L)'
<1>1. PICK d : d = [c EXCEPT !.args.PrevLogIndex = nextIndex[c.from][c.to] - 1,
                             !.phase = "PrevLogTerm"]
  OBVIOUS
<1>2. Reading(c) /\ Reads(c, TRUE, d)
  BY <1>1 DEF readPrevLogIndex, Reading
<1>3. /\ c \in Calls /\ c.from = L /\ c.args.LeaderCommit <= commitIndex[L]
      /\ c.args.Entries = <<>> /\ DOMAIN c.args.Entries = {} /\ Len(c.args.Entries) = 0
      /\ nextIndex[L][c.to] \in 1 .. Len(log[L]) /\ Len(log[L]) \in Nat
  BY <1>2, ReadSoFar
<1>4. /\ d.kind = c.kind /\ d.no = c.no /\ d.from = c.from /\ d.to = c.to /\ d.reply = c.reply
      /\ d.phase = "PrevLogTerm"
      /\ d.args.Term = c.args.Term /\ d.args.PrevLogIndex = nextIndex[L][c.to] - 1
      /\ d.args.Entries = c.args.Entries /\ d.args.LeaderCommit = c.args.LeaderCommit
  BY <1>1, <1>3 DEF Calls, AppendEntriesArgs
<1>5. Reading(d)
  BY <1>4 DEF Reading
<1>6. d.args.PrevLogIndex \in Nat /\ d.args.PrevLogIndex + 1 + 0 <= Len(log[L])
  BY <1>3, <1>4, BeforeNext
<1>7. Reach(d) <= Len(log[L]) /\ \A i \in DOMAIN d.args.Entries : FALSE
  BY <1>3, <1>4, <1>6 DEF Reach
<1> QED
  BY <1>2, <1>3, <1>4, <1>5, <1>6, <1>7, ReadsReign

(* nextIndex is read again; it may have changed, but is still in the log. *)
LEMMA readPrevLogTermReign ==
    ASSUME PeerCounts, RInv, RInv', NEW L \in Servers, Reign(L), NEW c \in calls, readPrevLogTerm(c)
    PROVE  Reign(L)'
<1> DEFINE term == log[c.from][nextIndex[c.from][c.to]].Term
           ok == nextIndex[c.from][c.to] \in 1 .. Len(log[c.from])
<1>1. PICK d : d = [c EXCEPT !.args.PrevLogTerm = term,
                             !.phase = IF c.kind = "commit" THEN "Entries" ELSE "LeaderCommit"]
  OBVIOUS
<1>2. Reading(c) /\ Reads(c, ok, d)
  BY <1>1 DEF readPrevLogTerm, Reading
<1>3. /\ c \in Calls /\ c.from = L /\ c.args.LeaderCommit <= commitIndex[L]
      /\ c.args.PrevLogIndex \in Nat /\ c.args.PrevLogIndex + 1 <= Len(log[L])
      /\ c.args.Entries = <<>> /\ DOMAIN c.args.Entries = {} /\ Len(c.args.Entries) = 0
      /\ nextIndex[L][c.to] \in 1 .. Len(log[L])
  BY <1>2, ReadSoFar
<1>4. ok /\ ok \in BOOLEAN
  BY <1>3
<1> HIDE DEF term, ok
<1>5. /\ d.kind = c.kind /\ d.no = c.no /\ d.from = c.from /\ d.to = c.to /\ d.reply = c.reply
      /\ d.phase = (IF c.kind = "commit" THEN "Entries" ELSE "LeaderCommit")
      /\ d.args.Term = c.args.Term /\ d.args.PrevLogIndex = c.args.PrevLogIndex
      /\ d.args.Entries = c.args.Entries /\ d.args.LeaderCommit = c.args.LeaderCommit
  BY <1>1, <1>3 DEF Calls, AppendEntriesArgs
<1>6. Reading(d)
  BY <1>5 DEF Reading
<1>7. Reach(d) <= Len(log[L])
  <2>1. \A n \in Nat : n + 1 + 0 = n + 1
    OBVIOUS
  <2> QED
    BY <1>3, <1>5, <2>1 DEF Reach
<1>8. d.args.PrevLogIndex \in Nat /\ \A i \in DOMAIN d.args.Entries : FALSE
  BY <1>3, <1>5
<1> QED
  BY <1>2, <1>3, <1>4, <1>5, <1>6, <1>7, <1>8, ReadsReign

(* The log from a place on, to its end. *)
LEMMA ToTheEnd ==
    ASSUME NEW prev \in Nat, NEW n \in Nat, prev + 1 <= n
    PROVE  prev + 1 \in 0 .. n /\ prev + 1 + (n - (prev + 1)) = n
  OBVIOUS

(* The entries that are read reach to the end of L's log: so they contain   *)
(* the one that tryToCommit is to replicate.                                *)
LEMMA readEntriesReign ==
    ASSUME PeerCounts, RInv, RInv', NEW L \in Servers, Reign(L), NEW c \in calls, readEntries(c)
    PROVE  Reign(L)'
<1> DEFINE lg == log[L]
           prev == c.args.PrevLogIndex
           ok == prev + 1 \in 0 .. Len(lg)
<1>1. PICK es : es = SubSeq(lg, prev + 1 + 1, Len(lg))
  OBVIOUS
<1>2. Reading(c)
  BY DEF readEntries, Reading
<1>3. /\ c \in Calls /\ c.from = L /\ c.args.LeaderCommit <= commitIndex[L]
      /\ prev \in Nat /\ prev + 1 <= Len(lg) /\ lg \in Seq(Entry) /\ Len(lg) \in Nat
  BY <1>2, ReadSoFar
<1>4. PICK d : d = [c EXCEPT !.args.Entries = es, !.phase = "sent"]
  OBVIOUS
<1>5. Reads(c, ok, d)
  BY <1>1, <1>3, <1>4 DEF readEntries
<1>6. ok /\ ok \in BOOLEAN /\ prev + 1 + (Len(lg) - (prev + 1)) = Len(lg)
  BY <1>3, ToTheEnd
<1>7. /\ es \in Seq(Entry) /\ Len(es) = Len(lg) - (prev + 1)
      /\ \A i \in DOMAIN es : es[i] = lg[prev + 1 + i]
  <2>1. PICK first : first = prev + 1
    OBVIOUS
  <2>2. Indexed(lg) /\ first \in 0 .. Len(lg) /\ es = SubSeq(lg, first + 1, Len(lg))
    BY <1>1, <1>6, <2>1, PeerLog
  <2>3. /\ es \in Seq(Entry) /\ Len(es) = Len(lg) - first
        /\ \A i \in DOMAIN es : es[i] = lg[first + i] /\ es[i].Index = first - 1 + i
    <3> HIDE DEF lg, prev
    <3> QED
      BY <1>3, <2>2, EntriesBehind
  <2> QED
    BY <2>1, <2>3
<1> HIDE DEF ok
<1>8. /\ d.kind = c.kind /\ d.no = c.no /\ d.from = c.from /\ d.to = c.to /\ d.reply = c.reply
      /\ d.phase = "sent"
      /\ d.args.Term = c.args.Term /\ d.args.PrevLogIndex = prev
      /\ d.args.Entries = es /\ d.args.LeaderCommit = c.args.LeaderCommit
  BY <1>3, <1>4 DEF Calls, AppendEntriesArgs
<1>9. Reach(d) = Len(lg)
  BY <1>6, <1>7, <1>8 DEF Reach
<1>10. Reach(d) <= Len(lg)
  BY <1>3, <1>9, Sizes
<1>11. \A j \in jobs : j.index < Reach(d)
  BY <1>9 DEF Reign, JobsCount
<1>12. /\ d.args.PrevLogIndex \in Nat
       /\ \A i \in DOMAIN d.args.Entries : d.args.Entries[i] = lg[d.args.PrevLogIndex + 1 + i]
  BY <1>3, <1>7, <1>8
<1> QED
  BY <1>2, <1>3, <1>5, <1>6, <1>8, <1>10, <1>11, <1>12, ReadsReign

(* A peer handles a request of L's, late or not: it takes a piece of L's log *)
(* and answers in L's term.                                                  *)
LEMMA HandleAppendEntriesReign ==
    ASSUME PeerCounts, RInv, RInv', NEW L \in Servers, Reign(L), NEW c \in calls,
           NEW success \in BOOLEAN, HandleAppendEntries(c.to, c.args, success)
    PROVE  /\ UNCHANGED <<nextIndex, spawned, elections, jobs, count, panicked>>
           /\ Larger(c.args.Term, currentTerm[c.to]) = currentTerm[L]
           /\ currentTerm'[L] = currentTerm[L]
           /\ \A s \in Servers : currentTerm'[s] <= currentTerm[L]
           /\ \A s \in Servers : s # L => state'[s] = Follower
           /\ \A s \in Servers : Len(log'[s]) >= Len(log[s]) /\ IsPrefix(log'[s], log'[L])
           /\ NextInLog(L)' /\ Commits(L)' /\ Applies(L)' /\ \A x \in calls : Carries(x, L)'
           /\ success => Reach(c) <= Len(log'[c.to])
<1> DEFINE t == c.to
           a == c.args
<1>1. /\ c \in Calls /\ t \in Servers /\ t # L /\ a.Term = currentTerm[L] /\ a.Term \in Nat
      /\ currentTerm[t] \in Nat /\ currentTerm[t] <= a.Term
      /\ a.PrevLogIndex \in Nat /\ a.Entries \in Seq(Entry) /\ a.LeaderCommit \in Nat
      /\ Carries(c, L)
  <2>1. Carries(c, L) /\ CallOf(c, L, currentTerm[L])
    BY DEF Reign, Alone, Replicates
  <2>2. a.PrevLogIndex \in Nat
    BY <2>1 DEF Carries
  <2> QED
    BY <2>1, <2>2, CallFacts, Types DEF Reign, Alone, CallOf
<1> USE <1>1
<1>2. ~(a.Term < currentTerm[t]) /\ Larger(a.Term, currentTerm[t]) = a.Term
  BY DEF Larger
<1>3. /\ setNewTermBybiggerTerm(t, a.Term)
      /\ \/ ~success /\ UNCHANGED <<log, commitIndex>>
         \/ \E pos \in PrevPos(log[t], a) :
               /\ log' = [log EXCEPT ![t] = Merge(@, pos, a.Entries)]
               /\ commitIndex' = [commitIndex EXCEPT ![t] =
                     IF @ < a.LeaderCommit
                     THEN Smaller(a.LeaderCommit, Last(log'[t]).Index) ELSE @]
      /\ UNCHANGED <<lastApplied, nextIndex, logs, spawned, elections, jobs, count, panicked>>
  BY <1>2 DEF HandleAppendEntries, Runs
<1>4. \A s \in Servers : /\ log[s] \in Seq(Entry) /\ Len(log[s]) \in Nat
                         /\ commitIndex[s] \in Nat /\ IsPrefix(log[s], log[L])
                         /\ commitIndex[s] <= commitIndex[L] /\ commitIndex[s] < Len(log[s])
  BY Types DEF Reign, Replicates, Commits
<1>5. /\ log'[L] = log[L] /\ commitIndex'[L] = commitIndex[L]
      /\ \A s \in Servers : /\ Len(log'[s]) >= Len(log[s]) /\ IsPrefix(log'[s], log[L])
                            /\ commitIndex'[s] >= commitIndex[s]
                            /\ commitIndex'[s] <= commitIndex[L]
                            /\ commitIndex'[s] < Len(log'[s])
      /\ success => Reach(c) <= Len(log'[t])
  <2>1. CASE ~success /\ UNCHANGED <<log, commitIndex>>
    BY <1>4, <2>1
  <2>2. ASSUME NEW pos \in PrevPos(log[t], a),
               log' = [log EXCEPT ![t] = Merge(@, pos, a.Entries)],
               commitIndex' = [commitIndex EXCEPT ![t] =
                   IF @ < a.LeaderCommit
                   THEN Smaller(a.LeaderCommit, Last(log'[t]).Index) ELSE @]
        PROVE  <1>5!:
    <3>1. pos \in 1 .. Len(log[t]) /\ a.PrevLogIndex = pos - 1
      BY SMTT(30), PeerLog, PrevPosIsPlace
    <3>2. /\ Reach(c) = pos + Len(a.Entries) /\ Len(a.Entries) \in Nat /\ pos \in Nat
          /\ DOMAIN a.Entries = 1 .. Len(a.Entries)
      BY SMTT(30), <1>4, <3>1, SeqLength DEF Reach
    <3>3. pos + Len(a.Entries) <= Len(log[L])
      BY <3>2 DEF Carries
    <3>4. \A i \in DOMAIN a.Entries : a.Entries[i] = log[L][pos + i]
      <4>1. ASSUME NEW i \in DOMAIN a.Entries PROVE a.PrevLogIndex + 1 + i = pos + i
        BY <3>1, <3>2
      <4> QED
        BY <4>1 DEF Carries
    <3> DEFINE m == Merge(log[t], pos, a.Entries)
    <3>5. IsPrefix(m, log[L]) /\ Len(m) >= Len(log[t]) /\ Len(m) >= pos + Len(a.Entries)
      BY ONLY ZenonT(10), <1>1, <1>4, <3>1, <3>3, <3>4, MergeGrows, L \in Servers
    <3>6. log'[t] = m /\ \A s \in Servers : s # t => log'[s] = log[s]
      BY <2>2, Types
    <3> USE <3>6
    <3> HIDE DEF m
    <3>7. \A s \in Servers : Len(log'[s]) >= Len(log[s]) /\ IsPrefix(log'[s], log[L])
      BY ONLY <1>4, <3>5, <3>6
    <3>8. Len(m) \in Nat /\ Last(log'[t]).Index = Len(m) - 1
      <4>1. log'[t] \in Seq(Entry) /\ log'[t] # <<>>
            /\ \A i \in DOMAIN log'[t] : log'[t][i].Index = i - 1
        BY DEF RInv, TypeOK, LogIndexed
      <4> USE <4>1
      <4>2. Len(m) \in Nat /\ m # <<>> /\ DOMAIN m = 1 .. Len(m) /\ m \in Seq(Entry)
        BY SeqLength
      <4> USE <4>2
      <4>3. Len(m) # 0
        BY SeqEmpty
      <4>4. Len(m) \in DOMAIN m
        BY SMTT(30), <4>3
      <4> QED
        BY <4>4 DEF Last
    <3>9. /\ commitIndex'[t] = IF commitIndex[t] < a.LeaderCommit
                               THEN Smaller(a.LeaderCommit, Len(m) - 1) ELSE commitIndex[t]
          /\ \A s \in Servers : s # t => commitIndex'[s] = commitIndex[s]
      BY <2>2, <3>8, Types
    <3> USE <3>9
    <3>10. /\ commitIndex'[t] >= commitIndex[t] /\ commitIndex'[t] <= commitIndex[L]
           /\ commitIndex'[t] < Len(m)
      <4>1. /\ commitIndex[t] \in Nat /\ commitIndex[L] \in Nat /\ Len(log[t]) \in Nat
            /\ commitIndex[t] <= commitIndex[L] /\ commitIndex[t] < Len(log[t])
        BY <1>4
      <4>2. a.LeaderCommit <= commitIndex[L] /\ a.LeaderCommit \in Nat
        BY DEF Carries
      <4> QED
        BY ONLY <3>5, <3>8, <3>9, <4>1, <4>2 DEF Smaller
    <3>11. \A s \in Servers : /\ commitIndex'[s] >= commitIndex[s]
                              /\ commitIndex'[s] <= commitIndex[L]
                              /\ commitIndex'[s] < Len(log'[s])
      <4> SUFFICES ASSUME NEW s \in Servers
                   PROVE  /\ commitIndex'[s] >= commitIndex[s]
                          /\ commitIndex'[s] <= commitIndex[L]
                          /\ commitIndex'[s] < Len(log'[s])
        OBVIOUS
      <4>1. CASE s = t
        BY <3>10, <4>1
      <4>2. CASE s # t
        BY <1>4, <4>2, Sizes
      <4> QED
        BY <4>1, <4>2
    <3>12. Reach(c) <= Len(log'[t])
      BY <3>2, <3>5
    <3> QED
      BY <3>7, <3>11, <3>12
  <2> QED
    BY <1>3, <2>1, <2>2
<1> USE <1>5
<1>6. IsPrefix(log[L], log'[L]) /\ \A s \in Servers : IsPrefix(log'[s], log'[L])
  BY <1>4
<1>7. Commits(L)' /\ Applies(L)' /\ \A x \in calls : Carries(x, L)'
  BY <1>3, <1>6, LogsGrow
<1>8. /\ currentTerm'[L] = currentTerm[L]
      /\ \A s \in Servers : currentTerm'[s] <= currentTerm[L]
      /\ \A s \in Servers : s # L => state'[s] = Follower
  BY <1>3, Types DEF Reign, Alone, setNewTermBybiggerTerm
<1>9. NextInLog(L)'
  BY <1>3 DEF Reign, Leads, NextInLog
<1>10. \A s \in Servers : Len(log'[s]) >= Len(log[s]) /\ IsPrefix(log'[s], log'[L])
  BY <1>6
<1> QED
  BY <1>2, <1>3, <1>7, <1>8, <1>9, <1>10

(* The reply is under way. *)
LEMMA AppendEntriesReign ==
    ASSUME PeerCounts, RInv, RInv', NEW L \in Servers, Reign(L), NEW c \in calls, AppendEntries(c)
    PROVE  Reign(L)'
<1>1. PICK success \in BOOLEAN :
        /\ HandleAppendEntries(c.to, c.args, success)
        /\ calls' = Replace(calls, c,
              [c EXCEPT !.phase = "replied",
                        !.reply = [Term |-> Larger(c.args.Term, currentTerm[c.to]),
                                   Ok |-> success]])
  BY DEF AppendEntries
<1>2. /\ UNCHANGED <<nextIndex, spawned, elections, jobs, count, panicked>>
      /\ Larger(c.args.Term, currentTerm[c.to]) = currentTerm[L]
      /\ currentTerm'[L] = currentTerm[L]
      /\ \A s \in Servers : currentTerm'[s] <= currentTerm[L]
      /\ \A s \in Servers : s # L => state'[s] = Follower
      /\ \A s \in Servers : Len(log'[s]) >= Len(log[s]) /\ IsPrefix(log'[s], log'[L])
      /\ NextInLog(L)' /\ Commits(L)' /\ Applies(L)' /\ \A x \in calls : Carries(x, L)'
      /\ success => Reach(c) <= Len(log'[c.to])
  BY <1>1, HandleAppendEntriesReign
<1>3. PICK d : d = [c EXCEPT !.phase = "replied",
                             !.reply = [Term |-> currentTerm[L], Ok |-> success]]
  OBVIOUS
<1>4. c \in Calls /\ c.phase = "sent" /\ CallOf(c, L, currentTerm[L]) /\ currentTerm[L] \in Nat
  BY CallFacts, Types DEF AppendEntries, Reign, Alone
<1>5. /\ d.kind = c.kind /\ d.no = c.no /\ d.from = c.from /\ d.to = c.to /\ d.args = c.args
      /\ d.phase = "replied" /\ d.reply.Term = currentTerm[L] /\ d.reply.Ok = success
  BY <1>3, <1>4 DEF Calls
<1>6. calls' = Replace(calls, c, d)
  BY <1>1, <1>2, <1>3
<1>7. CallOf(d, L, currentTerm[L])
  BY <1>4, <1>5, Sizes DEF CallOf
<1>8. Carries(d, L)'
  <2>1. Carries(c, L)'
    BY <1>2
  <2>2. Reach(d)' = Reach(c)' /\ Reach(c)' = Reach(c)
    BY <1>5 DEF Reach
  <2> QED
    BY <1>2, <1>5, <2>1, <2>2 DEF Carries
<1>9. /\ Tries(d) => Tries(c)
      /\ Tries(d) => \A j \in jobs : j.no = d.no => j.index < Reach(d)
  <2>1. Reach(d) = Reach(c) /\ (Tries(d) => Tries(c)) /\ ~Reading(c)
    BY <1>4, <1>5 DEF Reach, Tries, Reading
  <2> QED
    BY <1>5, <2>1 DEF Reign, CallsCount
<1> QED
  BY <1>2, <1>5, <1>6, <1>7, <1>8, <1>9, CallGoesOn

(* Nobody hears it. *)
LEMMA lateAppendEntriesReign ==
    ASSUME PeerCounts, RInv, RInv', NEW L \in Servers, Reign(L), NEW c \in calls, lateAppendEntries(c)
    PROVE  Reign(L)'
<1>1. PICK success \in BOOLEAN : HandleAppendEntries(c.to, c.args, success)
  BY DEF lateAppendEntries
<1>2. /\ UNCHANGED <<nextIndex, spawned, elections, jobs, count, panicked>>
      /\ currentTerm'[L] = currentTerm[L]
      /\ \A s \in Servers : currentTerm'[s] <= currentTerm[L]
      /\ \A s \in Servers : s # L => state'[s] = Follower
      /\ \A s \in Servers : Len(log'[s]) >= Len(log[s]) /\ IsPrefix(log'[s], log'[L])
      /\ NextInLog(L)' /\ Commits(L)' /\ Applies(L)' /\ \A x \in calls : Carries(x, L)'
  BY <1>1, HandleAppendEntriesReign
<1>3. calls' = calls \ {c}
  BY DEF lateAppendEntries
<1> QED
  BY <1>2, <1>3, CallIsOver

(* A goroutine of tryToCommit begins again, as it began. *)
LEMMA AgainReign ==
    ASSUME RInv, RInv', NEW L \in Servers, Reign(L), NEW c \in calls, NEW d,
           d.kind = c.kind, d.no = c.no, d.from = c.from, d.to = c.to, d.phase = "LeaderCommit",
           d.args = NoArgs(c.args.Term), d.reply = NoReply
    PROVE  CallOf(d, L, currentTerm[L]) /\ Carries(d, L)' /\ Reading(d)
<1>1. CallOf(c, L, currentTerm[L]) /\ currentTerm[L] \in Nat
  BY Types DEF Reign, Alone
<1>2. d.args.Term = c.args.Term /\ d.reply.Term = 0
  BY DEF NoArgs, NoReply
<1>3. CallOf(d, L, currentTerm[L])
  BY <1>1, <1>2 DEF CallOf
<1>4. d.args.PrevLogIndex = 0 /\ d.args.Entries = <<>> /\ d.args.LeaderCommit = 0
  BY DEF NoArgs
<1>5. Len(<<>>) = 0 /\ DOMAIN <<>> = {}
  BY SeqEmpty
<1>6. Len(log'[L]) \in Nat \ {0} /\ commitIndex'[L] \in Nat
  <2>1. log'[L] \in Seq(Entry) /\ log'[L] # <<>> /\ commitIndex'[L] \in Nat
    BY DEF RInv, TypeOK, LogIndexed
  <2> QED
    BY <2>1, SeqLength, SeqEmpty
<1>7. Carries(d, L)'
  BY <1>4, <1>5, <1>6 DEF Carries, Reach
<1> QED
  BY <1>3, <1>7 DEF Reading

(* Call fails: the request may be late, and tryToCommit sends another.      *)
LEMMA AppendEntriesFailsReign ==
    ASSUME PeerCounts, RInv, RInv', NEW L \in Servers, Reign(L), NEW c \in calls, AppendEntriesFails(c)
    PROVE  Reign(L)'
<1>1. /\ UNCHANGED <<currentTerm, state, log, commitIndex, lastApplied, nextIndex, logs,
                     spawned, elections, jobs, panicked>>
      /\ count'["elections"] = count["elections"] /\ count'["starts"] = count["starts"]
  BY Types DEF AppendEntriesFails, peer, Runs, Happens, Counted
<1>2. /\ count["elections"] # 0 /\ NextInLog(L) /\ currentTerm'[L] = currentTerm[L]
      /\ \A s \in Servers : currentTerm'[s] <= currentTerm[L]
      /\ \A s \in Servers : s # L => state'[s] = Follower
      /\ \A s \in Servers : Len(log'[s]) >= Len(log[s]) /\ IsPrefix(log'[s], log'[L])
      /\ Commits(L)' /\ Applies(L)' /\ \A x \in calls : Carries(x, L)'
  BY <1>1, PeersKept
<1>3. NextInLog(L)'
  BY <1>1, <1>2 DEF NextInLog
<1>4. c \in Calls /\ c.phase \in {"sent", "replied"} /\ CallOf(c, L, currentTerm[L])
  BY CallFacts DEF AppendEntriesFails, Reign, Alone
<1>5. PICK late : late = [c EXCEPT !.phase = "late"]
  OBVIOUS
<1>6. PICK again : again = [Again(c) EXCEPT !.try = @ + 1]
  OBVIOUS
<1>7. PICK new : new = (IF c.phase = "sent" THEN {late} ELSE {})
                          \cup (IF c.kind = "commit" THEN {again} ELSE {})
  OBVIOUS
<1>8. calls' = (calls \ {c}) \cup new
  BY <1>5, <1>6, <1>7 DEF AppendEntriesFails
<1>9. /\ late.no = c.no /\ late.to = c.to /\ late.phase = "late"
      /\ CallOf(late, L, currentTerm[L]) /\ Carries(late, L)' /\ ~Tries(late)
  <2>1. /\ late.kind = c.kind /\ late.no = c.no /\ late.from = c.from /\ late.to = c.to
        /\ late.args = c.args /\ late.reply = c.reply /\ late.phase = "late"
    BY <1>4, <1>5 DEF Calls
  <2>2. Carries(c, L)'
    BY <1>2
  <2> QED
    BY <1>4, <2>1, <2>2 DEF CallOf, Carries, Reach, Tries
<1>10. /\ again.kind = c.kind /\ again.no = c.no /\ again.to = c.to
       /\ CallOf(again, L, currentTerm[L]) /\ Carries(again, L)' /\ Reading(again)
  <2>1. /\ Again(c) \in Calls /\ Again(c).kind = c.kind /\ Again(c).no = c.no
        /\ Again(c).from = c.from /\ Again(c).to = c.to /\ Again(c).phase = "LeaderCommit"
        /\ Again(c).args = NoArgs(c.args.Term) /\ Again(c).reply = NoReply
    BY <1>4, AgainFacts
  <2>2. /\ again.kind = c.kind /\ again.no = c.no /\ again.from = c.from /\ again.to = c.to
        /\ again.phase = "LeaderCommit" /\ again.args = NoArgs(c.args.Term)
        /\ again.reply = NoReply
    BY <1>6, <2>1 DEF Calls
  <2> QED
    BY <2>2, AgainReign
<1>11. \A d \in new : d = late \/ (d = again /\ c.kind = "commit")
  BY <1>7
<1>12. \A d \in new :
         /\ d.no = c.no /\ d.to = c.to /\ CallOf(d, L, currentTerm[L]) /\ Carries(d, L)'
         /\ Tries(d) => Tries(c)
         /\ Tries(d) /\ ~Reading(d) => \A j \in jobs : j.no = d.no => j.index < Reach(d)
  <2>1. c.kind = "commit" => Tries(c)
    BY <1>4 DEF Tries
  <2>2. ASSUME NEW d \in new PROVE Carries(d, L)'
    BY <1>9, <1>10, <1>11
  <2> QED
    BY <1>9, <1>10, <1>11, <2>1, <2>2
<1>13. \A d, x \in new : Tries(d) /\ Tries(x) => d = x
  BY <1>9, <1>11
<1> QED
  BY <1>1, <1>2, <1>3, <1>8, <1>12, <1>13, CallReign

(* A goroutine has used its reply and remembers what nextIndex will be. *)
LEMMA CallWritesReign ==
    ASSUME PeerCounts, RInv, RInv', NEW L \in Servers, Reign(L), NEW c \in calls,
           c.phase = "replied", NEW n \in 1 .. Len(log[L]),
           calls' = Replace(calls, c, [c EXCEPT !.phase = "write", !.next = n]),
           UNCHANGED <<currentTerm, state, log, commitIndex, lastApplied, nextIndex, logs,
                       spawned, elections, jobs, count, panicked>>
    PROVE  Reign(L)'
<1>1. /\ count["elections"] # 0 /\ NextInLog(L) /\ currentTerm'[L] = currentTerm[L]
      /\ \A s \in Servers : currentTerm'[s] <= currentTerm[L]
      /\ \A s \in Servers : s # L => state'[s] = Follower
      /\ \A s \in Servers : Len(log'[s]) >= Len(log[s]) /\ IsPrefix(log'[s], log'[L])
      /\ Commits(L)' /\ Applies(L)' /\ \A x \in calls : Carries(x, L)'
  BY PeersKept
<1>2. NextInLog(L)'
  BY <1>1 DEF NextInLog
<1>3. PICK d : d = [c EXCEPT !.phase = "write", !.next = n]
  OBVIOUS
<1>4. c \in Calls /\ CallOf(c, L, currentTerm[L])
  BY CallFacts DEF Reign, Alone
<1>5. /\ d.kind = c.kind /\ d.no = c.no /\ d.from = c.from /\ d.to = c.to /\ d.args = c.args
      /\ d.reply = c.reply /\ d.phase = "write" /\ d.next = n
  BY <1>3, <1>4 DEF Calls
<1>6. calls' = Replace(calls, c, d)
  BY <1>3
<1>7. CallOf(d, L, currentTerm[L])
  BY <1>4, <1>5 DEF CallOf
<1>8. Carries(d, L)'
  <2>1. Carries(c, L)' /\ n \in 1 .. Len(log'[L])
    BY <1>1
  <2>2. Reach(d)' = Reach(c)'
    BY <1>5 DEF Reach
  <2> QED
    BY <1>5, <2>1, <2>2 DEF Carries
<1>9. /\ Tries(d) => Tries(c)
      /\ Tries(d) => \A j \in jobs : j.no = d.no => j.index < Reach(d)
  <2>1. Reach(d) = Reach(c) /\ (Tries(d) => Tries(c)) /\ ~Reading(c)
    BY <1>5 DEF Reach, Tries, Reading
  <2> QED
    BY <1>5, <2>1 DEF Reign, CallsCount
<1> QED
  BY <1>1, <1>2, <1>5, <1>6, <1>7, <1>8, <1>9, CallGoesOn

(* A place before nextIndex is still one of the log. *)
LEMMA SteppedBackInLog ==
    ASSUME RInv, NEW L \in Servers, Reign(L), NEW c \in calls
    PROVE  SteppedBack(c) \in 1 .. Len(log[L])
<1>1. c.from = L /\ c.to \in Servers /\ Len(log[L]) \in Nat
  BY CallFacts, Types DEF Reign, Alone, CallOf
<1>2. nextIndex[L][c.to] \in 1 .. Len(log[L])
  BY <1>1 DEF Reign, Leads, NextInLog
<1> QED
  BY <1>1, <1>2, LargerInLog DEF SteppedBack

(* The place behind an entry that tryToCommit has replicated is, too. *)
LEMMA AdvancedInLog ==
    ASSUME RInv, NEW L \in Servers, Reign(L), NEW c \in calls, Tries(c)
    PROVE  Advanced(c) \in 1 .. Len(log[L])
<1>1. c.from = L /\ c.to \in Servers /\ Len(log[L]) \in Nat /\ jobs \subseteq Jobs
  BY CallFacts, Types DEF Reign, Alone, CallOf
<1>2. nextIndex[L][c.to] \in 1 .. Len(log[L])
  BY <1>1 DEF Reign, Leads, NextInLog
<1>3. (CHOOSE j \in jobs : j.no = c.no) \in jobs
  <2>1. \E j \in jobs : j.no = c.no
    BY DEF Tries, RInv, CallsHaveJobs
  <2> QED
    BY <2>1
<1>4. IndexOf(c) \in Nat /\ IndexOf(c) < Len(log[L])
  BY <1>1, <1>3 DEF IndexOf, Jobs, Reign, JobsCount
<1> QED
  BY <1>1, <1>2, <1>4, LargerInLog DEF Advanced

(* L uses the answer to a heartbeat; its term is not bigger. *)
LEMMA heartBeatReplyReign ==
    ASSUME PeerCounts, RInv, RInv', NEW L \in Servers, Reign(L), NEW c \in calls, heartBeatReply(c)
    PROVE  Reign(L)'
<1>1. /\ c.from = L /\ c.reply.Term \in Nat /\ currentTerm[L] \in Nat
      /\ c.reply.Term <= currentTerm[L] /\ c.phase = "replied"
  BY CallFacts, Types DEF Reign, Alone, CallOf, heartBeatReply
<1>2. ~(c.reply.Term > currentTerm[c.from])
  BY ONLY <1>1
<1>3. /\ UNCHANGED <<currentTerm, state, log, commitIndex, lastApplied, nextIndex, logs,
                     spawned, elections, jobs, count, panicked>>
      /\ \/ calls' = calls \ {c}
         \/ calls' = Replace(calls, c, [c EXCEPT !.phase = "write", !.next = SteppedBack(c)])
  BY <1>2 DEF heartBeatReply, Runs
<1>4. CASE calls' = calls \ {c}
  <2>1. /\ count["elections"] # 0 /\ NextInLog(L) /\ currentTerm'[L] = currentTerm[L]
        /\ \A s \in Servers : currentTerm'[s] <= currentTerm[L]
        /\ \A s \in Servers : s # L => state'[s] = Follower
        /\ \A s \in Servers : Len(log'[s]) >= Len(log[s]) /\ IsPrefix(log'[s], log'[L])
        /\ Commits(L)' /\ Applies(L)' /\ \A x \in calls : Carries(x, L)'
    BY <1>3, PeersKept
  <2>2. NextInLog(L)'
    BY <1>3, <2>1 DEF NextInLog
  <2> QED
    BY <1>3, <1>4, <2>1, <2>2, CallIsOver
<1>5. CASE calls' = Replace(calls, c, [c EXCEPT !.phase = "write", !.next = SteppedBack(c)])
  BY <1>1, <1>3, <1>5, SteppedBackInLog, CallWritesReign
<1> QED
  BY <1>3, <1>4, <1>5

(* A goroutine of tryToCommit uses its reply; its term is not bigger. *)
LEMMA commitReplyReign ==
    ASSUME PeerCounts, RInv, RInv', NEW L \in Servers, Reign(L), NEW c \in calls, commitReply(c)
    PROVE  Reign(L)'
<1>1. /\ c.from = L /\ c.reply.Term \in Nat /\ currentTerm[L] \in Nat
      /\ c.reply.Term <= currentTerm[L] /\ c.phase = "replied" /\ c.kind = "commit"
  BY CallFacts, Types DEF Reign, Alone, CallOf, commitReply
<1>2. ~(c.reply.Term > currentTerm[c.from])
  BY ONLY <1>1
<1>3. /\ UNCHANGED <<currentTerm, state, log, commitIndex, lastApplied, nextIndex, logs,
                     spawned, elections, jobs, count, panicked>>
      /\ \/ calls' = Replace(calls, c, [c EXCEPT !.phase = "write", !.next = Advanced(c)])
         \/ calls' = Replace(calls, c, [c EXCEPT !.phase = "write", !.next = SteppedBack(c)])
  BY <1>2 DEF commitReply, peer, Runs
<1>4. Advanced(c) \in 1 .. Len(log[L])
  BY <1>1, AdvancedInLog DEF Tries
<1>5. PICK n \in 1 .. Len(log[L]) :
        calls' = Replace(calls, c, [c EXCEPT !.phase = "write", !.next = n])
  BY <1>3, <1>4, SteppedBackInLog
<1> QED
  BY <1>1, <1>3, <1>5, CallWritesReign

(* What is written to nextIndex was a place of L's log, and still is. *)
LEMMA WrittenInLog ==
    ASSUME RInv, NEW L \in Servers, Reign(L), NEW c \in calls, writeNextIndex(c)
    PROVE  NextInLog(L)'
<1>1. c.from = L /\ c.to \in Servers /\ c.next \in 1 .. Len(log[L]) /\ log'[L] = log[L]
  BY CallFacts DEF Reign, Alone, CallOf, Replicates, Carries, writeNextIndex
<1>2. /\ nextIndex \in [Servers -> [Servers -> Nat]]
      /\ nextIndex' = [nextIndex EXCEPT ![L][c.to] = c.next]
  BY <1>1, Types DEF writeNextIndex
<1>3. ASSUME NEW u \in Servers PROVE nextIndex'[L][u] \in 1 .. Len(log[L])
  <2>1. nextIndex[L][u] \in 1 .. Len(log[L])
    BY DEF Reign, Leads, NextInLog
  <2>2. nextIndex'[L][u] = IF u = c.to THEN c.next ELSE nextIndex[L][u]
    BY <1>1, <1>2
  <2> QED
    BY <1>1, <2>1, <2>2
<1> QED
  BY <1>1, <1>3 DEF NextInLog

(* After a success: the peer that answered has the entry and is counted once. *)
LEMMA writeSuccessReign ==
    ASSUME PeerCounts, RInv, RInv', NEW L \in Servers, Reign(L), NEW c \in calls,
           writeNextIndex(c), c.kind = "commit", c.reply.Ok
    PROVE  Reign(L)'
<1> DEFINE up(j) == IF j.no = c.no THEN Broadcast([j EXCEPT !.Counter = @ + 1]) ELSE j
<1>1. /\ c.from = L /\ c.to \in Servers /\ c.to # L /\ Tries(c) /\ ~Reading(c)
      /\ c.phase = "write" /\ Reach(c) <= Len(log[c.to]) /\ jobs \subseteq Jobs
  BY CallFacts, Types
     DEF Reign, Alone, CallOf, Replicates, Carries, Tries, Reading, writeNextIndex
<1> USE <1>1
<1>2. /\ UNCHANGED <<currentTerm, state, log, commitIndex, lastApplied, logs, spawned,
                     elections, count, panicked>>
      /\ calls' = calls \ {c} /\ jobs' = {up(j) : j \in jobs}
  BY DEF writeNextIndex, Runs
<1> USE <1>2
<1>3. ASSUME NEW j \in jobs
      PROVE  /\ up(j).no = j.no /\ up(j).from = j.from /\ up(j).term = j.term
             /\ up(j).index = j.index
             /\ j.no # c.no => up(j) = j
             /\ j.no = c.no => up(j).Counter = j.Counter + 1
             /\ up(j).waiter = "start" => j.waiter = "start"
  BY DEF Broadcast, Jobs
<1> HIDE DEF up
<1>4. PICK g \in jobs : g.no = c.no
  BY DEF RInv, CallsHaveJobs
<1>5. /\ \A j \in jobs : j.no = c.no => j = g
      /\ g.waiter # "start" /\ g.index < Reach(c) /\ g.index \in Nat
      /\ g.index < Len(log[L])
  BY <1>4 DEF Reign, JobsCount, CallsCount, Jobs
<1>6. /\ count["elections"] # 0 /\ NextInLog(L) /\ currentTerm'[L] = currentTerm[L]
      /\ \A s \in Servers : currentTerm'[s] <= currentTerm[L]
      /\ \A s \in Servers : s # L => state'[s] = Follower
      /\ \A s \in Servers : Len(log'[s]) >= Len(log[s]) /\ IsPrefix(log'[s], log'[L])
      /\ Commits(L)' /\ Applies(L)' /\ \A x \in calls : Carries(x, L)'
  BY PeersKept
<1>7. NextInLog(L)'
  BY WrittenInLog
<1>8. Alone(L)'
  <2>1. \A j \in jobs' : JobOf(j, L, currentTerm[L])
    BY SMTT(30), <1>3 DEF Reign, Alone, JobOf
  <2> QED
    BY <2>1 DEF Reign, Alone
<1>9. Replicates(L)'
  BY <1>6 DEF Replicates
<1>10. \A s \in Servers : Len(log[s]) \in Nat /\ Len(log'[s]) \in Nat
  BY Types
<1>11. JobsCount(L)'
  <2>1. ASSUME NEW j \in jobs
        PROVE  /\ up(j).no < count["starts"] /\ up(j).index < Len(log[L])
               /\ up(j).waiter = "start" => up(j).Counter = 1
    BY <1>3, <1>4, <1>5 DEF Reign, JobsCount
  <2>2. ASSUME NEW j \in jobs, NEW k, k = up(j)
        PROVE  k.Counter <= 1 + Cardinality(Acked(k, L)')
    <3>1. /\ j.index \in Nat /\ j.Counter \in Nat /\ k.no = j.no /\ k.index = j.index
          /\ j.Counter <= 1 + Cardinality(Acked(j, L))
      BY <1>3, <2>2 DEF Jobs, Reign, JobsCount
    <3> USE <3>1
    <3>2. \A x \in calls', t \in Servers : Sends(x, k, t) => \E y \in calls : Sends(y, j, t)
      BY DEF Sends
    <3>3. /\ Cardinality(Acked(j, L)) \in Nat /\ Cardinality(Acked(k, L)') \in Nat
          /\ Cardinality(Acked(j, L)) <= Cardinality(Acked(k, L)')
      <4>1. \A t \in Servers : Len(log'[t]) >= Len(log[t])
        BY <1>6
      <4> QED
        BY ONLY ZenonT(20), PeerCounts, <1>10, <3>1, <3>2, <4>1, AckedGrows
    <3>4. CASE j.no # c.no
      <4>1. k.Counter = j.Counter
        BY <1>3, <2>2, <3>4
      <4> QED
        BY ZenonT(20), <3>3, <4>1, Counts
    <3>5. CASE j.no = c.no
      <4> USE <3>5
      <4>1. j = g /\ k.Counter = j.Counter + 1
        BY <1>3, <1>5, <2>2
      <4>2. c.to \notin Acked(j, L)
        BY DEF Acked, Sends
      <4>3. c.to \in Acked(k, L)'
        <5>1. Len(log[c.to]) > j.index
          <6>1. c.args.PrevLogIndex \in Nat /\ Len(c.args.Entries) \in Nat
            BY CallFacts, SeqLength DEF Reign, Replicates, Carries
          <6>2. Reach(c) \in Nat
            BY <6>1, Sizes DEF Reach
          <6> QED
            BY ONLY ZenonT(20), <1>1, <1>5, <1>10, <3>1, <4>1, <6>2, Beyond
        <5>2. \A x \in calls' : ~Sends(x, k, c.to)
          BY DEF Sends, Reign, CallsCount
        <5> QED
          BY <5>1, <5>2, CallSays DEF Acked
      <4>4. Acked(j, L) \subseteq Acked(k, L)'
        BY SMTT(30) DEF Acked, Sends, Tries
      <4>5. /\ Acked(j, L) \in SUBSET Servers /\ Acked(k, L)' \in SUBSET Servers
            /\ Acked(j, L) \cup {c.to} \in SUBSET Servers
            /\ Acked(j, L) \cup {c.to} \subseteq Acked(k, L)'
        BY <4>3, <4>4 DEF Acked
      <4> USE <4>5
      <4>6. Cardinality(Acked(j, L) \cup {c.to}) = Cardinality(Acked(j, L)) + 1
        BY <4>2 DEF PeerCounts
      <4>7. Cardinality(Acked(j, L) \cup {c.to}) <= Cardinality(Acked(k, L)')
        BY DEF PeerCounts
      <4>8. Cardinality(Acked(j, L)) + 1 <= Cardinality(Acked(k, L)')
        BY <4>6, <4>7
      <4>9. j.Counter + 1 <= 1 + Cardinality(Acked(k, L)')
        BY ONLY ZenonT(20), <3>1, <3>3, <4>8, Counts
      <4> QED
        BY <4>1, <4>9
    <3> QED
      BY <3>4, <3>5
  <2>3. ASSUME NEW i \in jobs', NEW h \in jobs', i.no = h.no PROVE i = h
    <3>1. PICK j \in jobs : i = up(j)
      OBVIOUS
    <3>2. PICK k \in jobs : h = up(k)
      OBVIOUS
    <3>3. j.no = k.no
      BY ONLY <1>3, <2>3, <3>1, <3>2
    <3>4. j = k
      BY <3>3 DEF Reign, JobsCount
    <3> QED
      BY ONLY <3>1, <3>2, <3>4
  <2>4. ASSUME NEW k \in jobs'
        PROVE  /\ k.no < count["starts"] /\ k.index < Len(log[L])
               /\ k.waiter = "start" => k.Counter = 1
               /\ k.Counter <= 1 + Cardinality(Acked(k, L)')
    <3>1. PICK j \in jobs : k = up(j)
      OBVIOUS
    <3> QED
      BY <2>1, <2>2, <3>1
  <2> QED
    BY <2>3, <2>4 DEF JobsCount
<1>12. CallsCount'
  <2>1. ASSUME NEW x \in calls', Tries(x), NEW k \in jobs', k.no = x.no
        PROVE  k.waiter # "start" /\ (~Reading(x) => k.index < Reach(x))
    <3> USE <2>1
    <3>1. PICK j \in jobs : k = up(j)
      OBVIOUS
    <3> USE <3>1
    <3>2. j.no = x.no /\ x \in calls
      BY <1>3
    <3> QED
      BY <1>3, <3>2 DEF Reign, CallsCount
  <2>2. \A x, y \in calls' :
            Tries(x) /\ Tries(y) /\ x.no = y.no /\ x.to = y.to => x = y
    BY DEF Reign, CallsCount
  <2> QED
    BY <2>1, <2>2, CallSays DEF CallsCount
<1> QED
  BY <1>6, <1>7, <1>8, <1>9, <1>11, <1>12 DEF Reign

(* After a refusal the goroutine ends, or tries again. *)
LEMMA writeNextIndexReign ==
    ASSUME PeerCounts, RInv, RInv', NEW L \in Servers, Reign(L), NEW c \in calls, writeNextIndex(c)
    PROVE  Reign(L)'
<1>1. CASE c.kind = "commit" /\ c.reply.Ok
  BY <1>1, writeSuccessReign
<1>2. CASE ~(c.kind = "commit" /\ c.reply.Ok)
  <2>1. /\ UNCHANGED <<currentTerm, state, log, commitIndex, lastApplied, logs, spawned,
                       elections, jobs, count, panicked>>
        /\ calls' = Replace(calls, c, Again(c)) \/ calls' = calls \ {c}
    BY <1>2 DEF writeNextIndex, Runs
  <2>2. /\ currentTerm'[L] = currentTerm[L]
        /\ \A s \in Servers : currentTerm'[s] <= currentTerm[L]
        /\ \A s \in Servers : s # L => state'[s] = Follower
        /\ \A s \in Servers : Len(log'[s]) >= Len(log[s]) /\ IsPrefix(log'[s], log'[L])
        /\ Commits(L)' /\ Applies(L)' /\ \A x \in calls : Carries(x, L)'
    BY <2>1, PeersKept
  <2>3. NextInLog(L)'
    BY WrittenInLog
  <2>4. CASE calls' = calls \ {c}
    BY <2>1, <2>2, <2>3, <2>4, CallIsOver
  <2>5. CASE calls' = Replace(calls, c, Again(c))
    <3>1. PICK d : d = Again(c)
      OBVIOUS
    <3>2. c \in Calls /\ c.phase = "write"
      BY CallFacts DEF writeNextIndex
    <3>3. /\ d.kind = c.kind /\ d.no = c.no /\ d.from = c.from /\ d.to = c.to
          /\ d.phase = "LeaderCommit" /\ d.args = NoArgs(c.args.Term) /\ d.reply = NoReply
      BY <3>1, <3>2, AgainFacts
    <3>4. CallOf(d, L, currentTerm[L]) /\ Carries(d, L)' /\ Reading(d)
      BY <3>3, AgainReign
    <3>5. Tries(d) => Tries(c)
      BY <3>2, <3>3 DEF Tries
    <3>6. calls' = Replace(calls, c, d)
      BY <2>5, <3>1
    <3> QED
      BY <2>1, <2>2, <2>3, <3>3, <3>4, <3>5, <3>6, CallGoesOn
  <2> QED
    BY <2>1, <2>4, <2>5
<1> QED
  BY <1>1, <1>2
-----------------------------------------------------------------------------
(***************************************************************************)
(* The reign as a whole                                                    *)
(***************************************************************************)
(* Every step but a candidacy and a restart leaves L's reign as it is. *)
LEMMA StepReign ==
    ASSUME PeerCounts, RInv, RInv', NEW L \in Servers, Reign(L), [Next]_vars,
           \A s \in Servers : ~becomeCandidate(s) /\ ~Restart(s)
    PROVE  Reign(L)'
<1>1. CASE UNCHANGED vars
  <2>1. UNCHANGED <<currentTerm, log, commitIndex, lastApplied, state, nextIndex, logs,
                    spawned, elections, jobs, calls, panicked, count>>
    BY <1>1 DEF vars, peer
  <2>2. Alone(L)' /\ (count'["elections"] = 0 => Idle(L)') /\ (Leads(L)' => NextInLog(L)')
    BY <2>1 DEF Reign, Alone, Idle, Leads, NextInLog
  <2>3. Replicates(L)'
    BY <2>1 DEF Reign, Replicates, Carries, IsPrefix, Reach
  <2>4. JobsCount(L)' /\ CallsCount'
    <3>1. \A j : Acked(j, L)' = Acked(j, L)
      BY <2>1, CallSays DEF Acked
    <3> QED
      BY <2>1, <3>1, CallSays DEF Reign, JobsCount, CallsCount
  <2>5. Commits(L)' /\ Applies(L)'
    BY <2>1 DEF Reign, Commits, Holders, Majority, Applies
  <2> QED
    BY <2>1, <2>2, <2>3, <2>4, <2>5 DEF Reign
<1>2. CASE ElectionStep
  BY <1>2, tickerReign, RequestVoteReign, RequestVoteReplyReign, RequestVoteFailsReign,
     becomeLeaderReign, electionOverReign DEF ElectionStep, ElectionWork
<1>3. CASE ReplicationStep
  <2>1. ASSUME NEW c \in calls, commitAdopt(c) PROVE FALSE
    BY <2>1 DEF commitAdopt, Reign, Alone, CallOf
  <2> QED
    BY <1>3, <2>1, applierReign, readLeaderCommitReign, readPrevLogIndexReign,
       readPrevLogTermReign, readEntriesReign, AppendEntriesReign, lateAppendEntriesReign,
       heartBeatReplyReign, commitReplyReign, writeNextIndexReign, tryToCommitReign, waitReign,
       commitReign, sendHeartBeatReign, StartReign, AppendEntriesFailsReign
       DEF ReplicationStep, ReplicationWork
<1> QED
  BY <1>1, <1>2, <1>3 DEF Next

(* What is counted happens no less often than before; a step counts at most *)
(* an election or a restart.                                                *)
LEMMA CountsGrow ==
    ASSUME RInv, [Next]_vars
    PROVE  /\ count'["elections"] \in Nat /\ count'["restarts"] \in Nat
           /\ count["elections"] \in Nat /\ count["restarts"] \in Nat
           /\ count'["restarts"] >= count["restarts"]
           /\ \A s \in Servers : Restart(s) => count'["restarts"] = count["restarts"] + 1
           /\ \A s \in Servers : becomeCandidate(s) =>
                  count'["elections"] = count["elections"] + 1
           /\ (\A s \in Servers : ~becomeCandidate(s)) =>
                  count'["elections"] = count["elections"]
<1>1. count \in [Counted -> Nat]
  BY Types
<1> USE <1>1
<1>2. \/ UNCHANGED count
      \/ \E what \in Counted \ {"elections"} : count' = [count EXCEPT ![what] = @ + 1]
      \/ \E s \in Servers : becomeCandidate(s)
  <2>1. CASE UNCHANGED vars
    BY <2>1 DEF vars
  <2>2. CASE ElectionStep
    <3>1. CASE ElectionWork
      <4>1. ASSUME NEW e \in elections, NEW s \in Servers, RequestVote(e, s)
            PROVE  UNCHANGED count
        BY <4>1 DEF RequestVote
      <4>2. ASSUME NEW e \in elections, NEW s \in Servers, RequestVoteReply(e, s)
            PROVE  UNCHANGED count
        BY <4>2 DEF RequestVoteReply
      <4>3. ASSUME NEW e \in elections, becomeLeader(e) \/ electionOver(e)
            PROVE  UNCHANGED count
        BY <4>3 DEF becomeLeader, electionOver
      <4> QED
        BY <3>1, <4>1, <4>2, <4>3 DEF ElectionWork
    <3>2. ASSUME NEW e \in elections, NEW s \in Servers, RequestVote(e, s)
          PROVE  UNCHANGED count
      BY <3>2 DEF RequestVote
    <3>3. ASSUME NEW s \in Servers, ticker(s) PROVE UNCHANGED count
      BY <3>3 DEF ticker
    <3>4. ASSUME NEW e \in elections, NEW s \in Servers, RequestVoteFails(e, s)
          PROVE  \E what \in Counted \ {"elections"} : count' = [count EXCEPT ![what] = @ + 1]
      <4>1. count' = [count EXCEPT !["losses"] = @ + 1] /\ "losses" \in Counted \ {"elections"}
        BY <3>4 DEF RequestVoteFails, Happens, Counted
      <4> QED
        BY <4>1
    <3> QED
      BY <2>2, <3>1, <3>2, <3>3, <3>4 DEF ElectionStep
  <2>3. CASE ReplicationWork
    <3>1. ASSUME NEW c \in calls, readLeaderCommit(c) \/ readPrevLogIndex(c)
                                    \/ readPrevLogTerm(c) \/ readEntries(c)
          PROVE  UNCHANGED count
      BY <3>1 DEF readLeaderCommit, readPrevLogIndex, readPrevLogTerm, readEntries, Reads
    <3>2. ASSUME NEW c \in calls, AppendEntries(c) PROVE UNCHANGED count
      BY <3>2 DEF AppendEntries, HandleAppendEntries
    <3>3. ASSUME NEW c \in calls, heartBeatReply(c) \/ commitReply(c) \/ writeNextIndex(c)
                                    \/ commitAdopt(c)
          PROVE  UNCHANGED count
      BY <3>3 DEF heartBeatReply, commitReply, writeNextIndex, commitAdopt
    <3>4. ASSUME NEW j \in jobs, tryToCommit(j) \/ wait(j) \/ commit(j) PROVE UNCHANGED count
      BY <3>4 DEF tryToCommit, wait, commit
    <3>5. ASSUME NEW s \in Servers, applier(s) PROVE UNCHANGED count
      BY <3>5 DEF applier
    <3> QED
      BY <2>3, <3>1, <3>2, <3>3, <3>4, <3>5 DEF ReplicationWork
  <2>4. CASE ReplicationStep /\ ~ReplicationWork
    <3>1. ASSUME NEW c \in calls, lateAppendEntries(c) PROVE UNCHANGED count
      BY <3>1 DEF lateAppendEntries, HandleAppendEntries
    <3>2. ASSUME NEW c \in calls, AppendEntriesFails(c)
          PROVE  \E what \in Counted \ {"elections"} : count' = [count EXCEPT ![what] = @ + 1]
      BY <3>2 DEF AppendEntriesFails, Happens, Counted
    <3>3. ASSUME NEW s \in Servers, sendHeartBeat(s) \/ Start(s)
          PROVE  \E what \in Counted \ {"elections"} : count' = [count EXCEPT ![what] = @ + 1]
      BY <3>3 DEF sendHeartBeat, Start, Happens, Counted
    <3> QED
      BY <2>4, <3>1, <3>2, <3>3 DEF ReplicationStep
  <2>5. CASE \E s \in Servers : Restart(s)
    BY <2>5 DEF Restart, Happens, Counted
  <2> QED
    BY <2>1, <2>2, <2>3, <2>4, <2>5 DEF Next
<1>3. \/ UNCHANGED count
      \/ \E what \in Counted : count' = [count EXCEPT ![what] = @ + 1]
  BY <1>2 DEF becomeCandidate, Happens, Counted
<1>4. /\ count'["elections"] \in Nat /\ count'["restarts"] \in Nat
      /\ count["elections"] \in Nat /\ count["restarts"] \in Nat
      /\ count'["restarts"] >= count["restarts"]
  BY SMTT(30), <1>3 DEF Counted
<1>5. \A s \in Servers : Restart(s) => count'["restarts"] = count["restarts"] + 1
  BY DEF Restart, Happens, Counted
<1>6. \A s \in Servers : becomeCandidate(s) => count'["elections"] = count["elections"] + 1
  BY DEF becomeCandidate, Happens, Counted
<1>7. (\A s \in Servers : ~becomeCandidate(s)) => count'["elections"] = count["elections"]
  BY <1>2 DEF Counted
<1> QED
  BY <1>4, <1>5, <1>6, <1>7

(* The inductive step: a restart or a second candidacy ends the first      *)
(* reign, and the first candidacy says whose it is.                        *)
LEMMA NextReign == PeerCounts /\ RInv /\ ReignInv /\ [Next]_vars => ReignInv'
<1> SUFFICES ASSUME PeerCounts, RInv, ReignInv, [Next]_vars, FirstReign'
             PROVE  IF count'["elections"] = 0 THEN \A L \in Servers : Reign(L)'
                    ELSE \E L \in Servers : Reign(L)'
  BY DEF ReignInv
<1>0. RInv'
  BY NextInv
<1>1. /\ count'["elections"] \in Nat /\ count'["restarts"] \in Nat
      /\ count["elections"] \in Nat /\ count["restarts"] \in Nat
      /\ count'["restarts"] >= count["restarts"]
      /\ \A s \in Servers : Restart(s) => count'["restarts"] = count["restarts"] + 1
      /\ \A s \in Servers : becomeCandidate(s) => count'["elections"] = count["elections"] + 1
      /\ (\A s \in Servers : ~becomeCandidate(s)) => count'["elections"] = count["elections"]
  BY CountsGrow
<1> USE <1>1
<1>2. count'["elections"] <= 1 /\ count'["restarts"] = 0
  BY DEF FirstReign
<1> USE <1>2
<1>3. \A s \in Servers : ~Restart(s)
  OBVIOUS
<1>4. FirstReign
  <2>1. count["restarts"] = 0
    OBVIOUS
  <2>2. count["elections"] <= 1
    OBVIOUS
  <2> QED
    BY <2>1, <2>2 DEF FirstReign
<1> USE <1>4
<1>5. ASSUME NEW s \in Servers, becomeCandidate(s) PROVE Reign(s)' /\ count'["elections"] = 1
  <2> USE <1>5
  <2>1. count["elections"] = 0
    OBVIOUS
  <2> USE <2>1
  <2>2. Reign(s)
    BY DEF ReignInv
  <2> QED
    BY <2>2, becomeCandidateReign
<1>6. CASE \A s \in Servers : ~becomeCandidate(s)
  <2> USE <1>6
  <2>1. count'["elections"] = count["elections"]
    OBVIOUS
  <2>2. \A L \in Servers : Reign(L) => Reign(L)'
    BY <1>0, <1>3, StepReign
  <2> QED
    BY <2>1, <2>2 DEF ReignInv
<1> QED
  BY <1>5, <1>6
-----------------------------------------------------------------------------
(***************************************************************************)
(* Counting peers                                                          *)
(*                                                                         *)
(* FiniteSetTheorems is instantiated here and not extended, as its names   *)
(* are needed by no proof above.  An instance has a Cardinality of its own: *)
(* Finite and Card name those of the model, and are shown to be the same.  *)
(***************************************************************************)
Finite(S) == IsFiniteSet(S)

Card(S) == Cardinality(S)

(* The definitions of the two in the module FiniteSets. *)
LEMMA FiniteIs ==
    ASSUME NEW S
    PROVE  Finite(S) = \E q \in Seq(S) : \A s \in S : \E n \in 1 .. Len(q) : q[n] = s
  BY DEF Finite, IsFiniteSet

LEMMA CardIs ==
    ASSUME NEW S
    PROVE  Card(S) = LET CS[T \in SUBSET S] == IF T = {} THEN 0
                                               ELSE 1 + CS[T \ {CHOOSE x : x \in T}]
                     IN  CS[S]
  BY DEF Card, Cardinality

(* The set of peers that Make is given is finite. *)
LEMMA ServersFinite == Finite(Servers)
  BY RaftAssumption DEF Finite

(* The counts that tryToCommit and the elections compare, in terms of Card. *)
LEMMA PeerCountsIs ==
    ASSUME Card({}) = 0,
           \A S \in SUBSET Servers :
               /\ Card(S) \in Nat
               /\ \A T \in SUBSET Servers : S \subseteq T => Card(S) <= Card(T)
               /\ \A t \in Servers : t \notin S => Card(S \cup {t}) = Card(S) + 1
    PROVE  PeerCounts
  BY DEF PeerCounts, Card

LOCAL INSTANCE FiniteSetTheorems

LEMMA CardSame == ASSUME NEW S PROVE Card(S) = Cardinality(S)
  BY CardIs DEF Cardinality

LEMMA FiniteSame == ASSUME NEW S PROVE Finite(S) = IsFiniteSet(S)
  BY FiniteIs DEF IsFiniteSet

(* Servers is finite, so sets of peers are counted as one expects. *)
LEMMA PeersCount == PeerCounts
<1>1. IsFiniteSet(Servers)
  BY ServersFinite, FiniteSame
<1>2. ASSUME NEW S \in SUBSET Servers
      PROVE  /\ Card(S) \in Nat
             /\ \A T \in SUBSET Servers : S \subseteq T => Card(S) <= Card(T)
             /\ \A t \in Servers : t \notin S => Card(S \cup {t}) = Card(S) + 1
  <2>1. IsFiniteSet(S)
    BY <1>1, FS_Subset
  <2>2. Cardinality(S) \in Nat
    BY <2>1, FS_CardinalityType
  <2>3. \A T \in SUBSET Servers : S \subseteq T => Cardinality(S) <= Cardinality(T)
    BY <1>1, FS_Subset
  <2>4. \A t \in Servers : t \notin S => Cardinality(S \cup {t}) = Cardinality(S) + 1
    BY <2>1, FS_AddElement
  <2> QED
    BY <2>2, <2>3, <2>4, CardSame
<1>3. Card({}) = 0
  BY CardSame, FS_EmptySet
<1> QED
  BY <1>2, <1>3, PeerCountsIs
-----------------------------------------------------------------------------
(***************************************************************************)
(* The theorems                                                            *)
(***************************************************************************)
(* The invariants hold of the specification. *)
LEMMA ReignHolds == Spec => [](RInv /\ ReignInv)
<1>1. Init => RInv /\ ReignInv
  BY InitInv, InitReign, PeersCount
<1>2. RInv /\ ReignInv /\ [Next]_vars => (RInv /\ ReignInv)'
  BY NextInv, NextReign, PeersCount
<1> QED
  BY <1>1, <1>2, PTL DEF Spec

(* In the first reign rf.log is never indexed out of range, neither by the *)
(* goroutines that build the arguments of AppendEntries nor by the applier. *)
THEOREM FirstReignNoPanic == Spec => [](FirstReign => NoPanic)
<1>1. RInv /\ ReignInv => (FirstReign => NoPanic)
  BY PeersCount, Reigns, ReignMeans
<1> QED
  BY <1>1, ReignHolds, PTL

(* Nor do two logs differ that have entries of the same Index and Term: they *)
(* are beginnings of the one leader's log, whatever requests were lost, late *)
(* or reordered.                                                             *)
THEOREM FirstReignLogMatching == Spec => [](FirstReign => LogMatching)
<1>1. RInv /\ ReignInv => (FirstReign => LogMatching)
  BY PeersCount, Reigns, ReignMeans
<1> QED
  BY <1>1, ReignHolds, PTL

(* What any peer takes for committed is in the logs of a majority, with all *)
(* that precedes it: tryToCommit's Counter never counts a peer that does not *)
(* hold the entry, or one peer twice.                                        *)
THEOREM FirstReignCommitted == Spec => [](FirstReign => CommittedOnMajority)
<1>1. RInv /\ ReignInv => (FirstReign => CommittedOnMajority)
  BY PeersCount, Reigns, ReignMeans
<1> QED
  BY <1>1, ReignHolds, PTL

(* What a peer has acknowledged it keeps: no late or shorter AppendEntries *)
(* takes it away again.                                                    *)
THEOREM FirstReignAcknowledged == Spec => [](FirstReign => AcknowledgedHeld)
<1>1. RInv /\ ReignInv => (FirstReign => AcknowledgedHeld)
  BY PeersCount, Reigns, ReignMeans
<1> QED
  BY <1>1, ReignHolds, PTL

(* No two peers apply different commands at the same index: checkLogs finds *)
(* nothing.  The runs with two elections refute it without FirstReign.      *)
THEOREM FirstReignStateMachine == Spec => [](FirstReign => StateMachineSafety)
<1>1. RInv /\ ReignInv => (FirstReign => StateMachineSafety)
  BY PeersCount, Reigns, ReignMeans
<1> QED
  BY <1>1, ReignHolds, PTL
==============================================================================
