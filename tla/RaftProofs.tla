------------------------------ MODULE RaftProofs -----------------------------
(***************************************************************************)
(* For any number of peers, elections, commands, lost Calls and restarts:  *)
(* the Index stored in a log entry is its place in the log, the waiter of   *)
(* tryToCommit does not sleep on a majority, and terms fall in two ways     *)
(* only.  The second half is about the first reign, which module            *)
(* RaftReignProofs completes.                                               *)
(***************************************************************************)
EXTENDS Raft, TLAPS

(* A leaf that names no prover is tried with Zenon, then with SMT. *)
USE ZenonT(20), SMTT(30)

Indexed(lg) == lg # <<>> /\ \A i \in DOMAIN lg : lg[i].Index = i - 1

(* A goroutine has not yet read all its arguments, the Entries last. *)
Reading(c) == c.phase \in {"LeaderCommit", "PrevLogIndex", "PrevLogTerm", "Entries"}

(* The entries of a Call follow the entry that PrevLogIndex names. *)
CallIndexed(c) ==
    /\ \A i \in DOMAIN c.args.Entries : c.args.Entries[i].Index = c.args.PrevLogIndex + i
    /\ Reading(c) => c.args.Entries = <<>>

CallsIndexed == \A c \in calls : CallIndexed(c)

(* The tryToCommit that waits for a Call is still there when it returns. *)
CallsHaveJobs ==
    \A c \in calls :
        c.kind = "commit" /\ c.phase # "late" => \E j \in jobs : j.no = c.no /\ j.from = c.from

(* The inductive invariant. *)
RInv == TypeOK /\ LogIndexed /\ CallsIndexed /\ CallsHaveJobs
-----------------------------------------------------------------------------
(***************************************************************************)
(* Slices                                                                  *)
(***************************************************************************)
(* An element of rf.log, of a Call's Entries or of a peer's applied commands. *)
LEMMA SeqElement ==
    ASSUME NEW S, NEW q \in Seq(S), NEW i \in 1 .. Len(q)
    PROVE  q[i] \in S
  OBVIOUS

(* len of a slice, and the places it has. *)
LEMMA SeqLength ==
    ASSUME NEW S, NEW q \in Seq(S)
    PROVE  Len(q) \in Nat /\ DOMAIN q = 1 .. Len(q) /\ q \in [1 .. Len(q) -> S]
  OBVIOUS

(* A nil slice, and one that is not. *)
LEMMA SeqEmpty ==
    ASSUME NEW S
    PROVE  <<>> \in Seq(S) /\ Len(<<>>) = 0 /\ \A q \in Seq(S) : q # <<>> => Len(q) \in Nat \ {0}
  OBVIOUS

(* append of one element, as in Start. *)
LEMMA SeqAppend ==
    ASSUME NEW S, NEW q \in Seq(S), NEW x \in S
    PROVE  /\ Append(q, x) \in Seq(S) /\ Len(Append(q, x)) = Len(q) + 1
           /\ Append(q, x)[Len(q) + 1] = x
           /\ \A i \in 1 .. Len(q) : Append(q, x)[i] = q[i]
  OBVIOUS

(* append of a slice, as in the merge of AppendEntries. *)
LEMMA SeqConcat ==
    ASSUME NEW S, NEW q \in Seq(S), NEW r \in Seq(S)
    PROVE  /\ q \o r \in Seq(S) /\ Len(q \o r) = Len(q) + Len(r)
           /\ \A i \in 1 .. Len(q) + Len(r) :
                 (q \o r)[i] = IF i <= Len(q) THEN q[i] ELSE r[i - Len(q)]
  OBVIOUS

(* A slice expression, as in rf.log[next:]. *)
LEMMA SeqPart ==
    ASSUME NEW S, NEW q, NEW m \in Int, NEW n \in Int, \A i \in m .. n : q[i] \in S
    PROVE  /\ SubSeq(q, m, n) \in Seq(S)
           /\ Len(SubSeq(q, m, n)) = IF m <= n THEN n - m + 1 ELSE 0
           /\ \A i \in 1 .. n - m + 1 : SubSeq(q, m, n)[i] = q[m + i - 1]
  OBVIOUS

(* The slice of everything. *)
LEMMA SeqWhole ==
    ASSUME NEW S, NEW q \in Seq(S)
    PROVE  SubSeq(q, 1, Len(q)) = q
  OBVIOUS
-----------------------------------------------------------------------------
(* rf.log[len(rf.log)-1] is an entry. *)
LEMMA LastIsEntry ==
    ASSUME NEW lg \in Seq(Entry), Indexed(lg)
    PROVE  /\ Last(lg) \in Entry
           /\ Last(lg).Index \in Nat /\ Last(lg).Term \in Nat
           /\ Len(lg) \in Nat \ {0} /\ DOMAIN lg = 1 .. Len(lg)
<1>1. Len(lg) \in Nat \ {0} /\ DOMAIN lg = 1 .. Len(lg)
  BY SeqEmpty, SeqLength DEF Indexed
<1>2. Last(lg) \in Entry
  BY <1>1, SeqElement DEF Last
<1> QED
  BY <1>1, <1>2 DEF Entry

(* The consistency check of AppendEntries stops at the entry whose place    *)
(* PrevLogIndex gives.                                                      *)
LEMMA PrevPosIsPlace ==
    ASSUME NEW lg \in Seq(Entry), Indexed(lg), NEW a, a.PrevLogIndex \in Int,
           NEW pos \in PrevPos(lg, a)
    PROVE  pos \in 1 .. Len(lg) /\ a.PrevLogIndex = pos - 1
  BY LastIsEntry DEF PrevPos, Indexed

(* Start's append keeps every Index equal to its place. *)
LEMMA AppendIndexed ==
    ASSUME NEW lg \in Seq(Entry), Indexed(lg), NEW e \in Entry, e.Index = Len(lg)
    PROVE  Append(lg, e) \in Seq(Entry) /\ Indexed(Append(lg, e))
<1> DEFINE r == Append(lg, e)
<1>1. /\ r \in Seq(Entry) /\ r # <<>> /\ Len(r) = Len(lg) + 1
      /\ \A i \in 1 .. Len(lg) : r[i] = lg[i]
      /\ r[Len(lg) + 1] = e
  BY SeqAppend
<1>2. DOMAIN r = 1 .. Len(lg) + 1 /\ DOMAIN lg = 1 .. Len(lg) /\ Len(lg) \in Nat
  BY <1>1, SeqLength
<1> HIDE DEF r
<1>3. ASSUME NEW i \in DOMAIN r PROVE r[i].Index = i - 1
  <2>1. CASE i \in 1 .. Len(lg)
    BY <1>1, <1>2, <2>1 DEF Indexed
  <2>2. CASE i = Len(lg) + 1
    BY <1>1, <1>2, <2>2
  <2> QED
    BY <1>2, <2>1, <2>2
<1> QED
  BY <1>1, <1>3 DEF Indexed, r

(* AppendEntries's merge too: a prefix of the log up to the place of the    *)
(* first different entry, and the rest of the entries from there on.        *)
LEMMA MergeIndexed ==
    ASSUME NEW lg \in Seq(Entry), Indexed(lg), NEW es \in Seq(Entry),
           NEW pos \in 1 .. Len(lg), \A i \in DOMAIN es : es[i].Index = pos - 1 + i
    PROVE  Merge(lg, pos, es) \in Seq(Entry) /\ Indexed(Merge(lg, pos, es))
<1> DEFINE differs(i) == \/ pos + i > Len(lg)
                         \/ lg[pos + i].Index # es[i].Index
                         \/ lg[pos + i].Term # es[i].Term
           first == {i \in DOMAIN es : differs(i) /\ \A k \in 1 .. i - 1 : ~differs(k)}
           i0 == CHOOSE k \in first : TRUE
           n == pos + i0 - 1
           p == SubSeq(lg, 1, n)
           q == SubSeq(es, i0, Len(es))
<1>0. /\ Len(lg) \in Nat \ {0} /\ DOMAIN lg = 1 .. Len(lg)
      /\ Len(es) \in Nat /\ DOMAIN es = 1 .. Len(es)
  BY LastIsEntry, SeqLength
<1>1. Merge(lg, pos, es) = IF first = {} THEN lg ELSE p \o q
  BY SMTT(30) DEF Merge
<1>2. CASE first = {}
  BY <1>1, <1>2
<1>3. CASE first # {}
  <2>1. i0 \in 1 .. Len(es) /\ \A k \in 1 .. i0 - 1 : pos + k <= Len(lg)
    <3>1. i0 \in first
      BY ZenonT(40), <1>3
    <3>2. \A k \in 1 .. i0 - 1 : ~differs(k)
      BY <3>1
    <3>3. i0 \in DOMAIN es
      BY <3>1
    <3> HIDE DEF i0
    <3> QED
      BY SMTT(30), <1>0, <3>2, <3>3
  <2> HIDE DEF i0
  <2>2. n \in 1 .. Len(lg)
    <3>1. CASE i0 = 1
      BY <1>0, <3>1
    <3>2. CASE i0 # 1
      <4>1. i0 - 1 \in 1 .. i0 - 1
        BY SMTT(30), <1>0, <2>1, <3>2
      <4>2. pos + (i0 - 1) <= Len(lg)
        BY <2>1, <4>1
      <4> QED
        BY <1>0, <2>1, <4>2
    <3> QED
      BY <3>1, <3>2
  <2>3. /\ p \in Seq(Entry) /\ Len(p) = n
        /\ \A i \in 1 .. n : p[i] = lg[i]
    <3>1. \A i \in 1 .. n : lg[i] \in Entry
      BY SMTT(30), <1>0, <2>2, SeqElement
    <3>2. n \in Int /\ 1 <= n
      BY <1>0, <2>2
    <3> HIDE DEF n
    <3>3. /\ p \in Seq(Entry) /\ Len(p) = (IF 1 <= n THEN n - 1 + 1 ELSE 0)
          /\ \A i \in 1 .. n - 1 + 1 : p[i] = lg[1 + i - 1]
      BY SMTT(30), <3>1, <3>2, SeqPart
    <3> HIDE DEF p
    <3> QED
      BY SMTT(30), <3>2, <3>3
  <2>4. /\ q \in Seq(Entry) /\ Len(q) = Len(es) - i0 + 1
        /\ \A i \in 1 .. Len(es) - i0 + 1 : q[i] = es[i0 + i - 1]
    <3>1. \A i \in i0 .. Len(es) : es[i] \in Entry
      BY SMTT(30), <1>0, <2>1, SeqElement
    <3>2. /\ q \in Seq(Entry) /\ Len(q) = (IF i0 <= Len(es) THEN Len(es) - i0 + 1 ELSE 0)
          /\ \A i \in 1 .. Len(es) - i0 + 1 : q[i] = es[i0 + i - 1]
      BY SMTT(30), <1>0, <2>1, <3>1, SeqPart
    <3> HIDE DEF q
    <3> QED
      BY SMTT(30), <1>0, <2>1, <3>2
  <2> HIDE DEF n, p, q, first
  <2> DEFINE r == p \o q
  <2>5. /\ r \in Seq(Entry) /\ Len(r) = Len(p) + Len(q)
        /\ \A i \in 1 .. Len(p) + Len(q) :
              r[i] = IF i <= Len(p) THEN p[i] ELSE q[i - Len(p)]
    <3>1. p \in Seq(Entry) /\ q \in Seq(Entry)
      BY <2>3, <2>4
    <3> QED
      BY ONLY <3>1, SeqConcat
  <2> HIDE DEF r
  <2>6. DOMAIN r = 1 .. Len(r) /\ r # <<>>
    <3>1. DOMAIN r = 1 .. Len(r)
      BY <2>5, SeqLength
    <3>2. Len(r) # 0
      BY SMTT(30), <1>0, <2>1, <2>2, <2>3, <2>4, <2>5
    <3> QED
      BY <3>1, <3>2, SeqEmpty
  <2>7. n = pos + i0 - 1
    BY DEF n
  <2>8. /\ DOMAIN r = 1 .. n + (Len(es) - i0 + 1)
        /\ \A i \in DOMAIN r : r[i] = IF i <= n THEN lg[i] ELSE es[i - pos]
    <3>1. DOMAIN r = 1 .. n + (Len(es) - i0 + 1)
      BY <2>3, <2>4, <2>5, <2>6
    <3>2. ASSUME NEW i \in DOMAIN r, i <= n PROVE r[i] = lg[i]
      <4>1. i \in 1 .. n /\ i \in 1 .. Len(p) + Len(q)
        BY SMTT(30), <1>0, <2>1, <2>2, <2>3, <2>4, <3>1, <3>2
      <4> QED
        BY <2>3, <2>5, <3>2, <4>1
    <3>3. ASSUME NEW i \in DOMAIN r, ~(i <= n) PROVE r[i] = es[i - pos]
      <4>1. /\ i - n \in 1 .. Len(es) - i0 + 1 /\ i \in 1 .. Len(p) + Len(q)
            /\ i0 + (i - n) - 1 = i - pos
        <5>1. i \in 1 .. n + (Len(es) - i0 + 1)
          BY <3>1
        <5>2. n \in Int /\ i0 \in Int /\ pos \in Int
          BY <2>1, <2>2
        <5>3. Len(p) + Len(q) = n + (Len(es) - i0 + 1)
          BY <2>3, <2>4
        <5>4. Len(es) \in Int /\ i \in Int
          BY SMTT(30), <1>0, <5>1, <5>2
        <5>5. i - n \in 1 .. Len(es) - i0 + 1
          BY SMTT(30), <3>3, <5>1, <5>2, <5>4
        <5>6. i0 + (i - n) - 1 = i - pos
          BY <2>7, <5>2, <5>4
        <5> QED
          BY <5>1, <5>3, <5>5, <5>6
      <4>2. r[i] = q[i - n]
        BY SMTT(30), <2>3, <2>5, <3>3, <4>1
      <4> QED
        BY <2>4, <4>1, <4>2
    <3> QED
      BY <3>1, <3>2, <3>3
  <2>9. ASSUME NEW i \in DOMAIN r PROVE r[i].Index = i - 1
    <3>1. CASE i <= n
      <4>1. i \in DOMAIN lg
        BY SMTT(30), <1>0, <2>2, <2>8, <3>1
      <4> QED
        BY <2>8, <3>1, <4>1 DEF Indexed
    <3>2. CASE ~(i <= n)
      <4>1. i - pos \in DOMAIN es /\ pos - 1 + (i - pos) = i - 1
        BY SMTT(30), <1>0, <2>1, <2>2, <2>7, <2>8, <3>2
      <4> QED
        BY <2>8, <3>2, <4>1
    <3> QED
      BY <3>1, <3>2
  <2> QED
    BY <1>1, <1>3, <2>5, <2>6, <2>9 DEF Indexed, r, n, p, q
<1> QED
  BY <1>2, <1>3
-----------------------------------------------------------------------------
(* The peer's fields, and the goroutines and Calls, have their types. *)
PeerType ==
    /\ currentTerm \in [Servers -> Nat]
    /\ voteFor \in [Servers -> Servers \cup {None}]
    /\ log \in [Servers -> Seq(Entry)]
    /\ commitIndex \in [Servers -> Nat]
    /\ lastApplied \in [Servers -> Nat]
    /\ state \in [Servers -> {Follower, Candidate, Leader}]
    /\ nextIndex \in [Servers -> [Servers -> Nat]]
    /\ logs \in [Servers -> Seq(Nat)]

WorkType ==
    /\ spawned \in [Servers -> [Goroutines -> Nat]]
    /\ elections \subseteq Elections
    /\ jobs \subseteq Jobs
    /\ calls \subseteq Calls
    /\ panicked \in BOOLEAN
    /\ count \in [Counted -> Nat]

(* The two are all that TypeOK says of the peers (raft.go:25), before a step *)
(* and after it.                                                            *)
LEMMA TypeParts ==
    (TypeOK <=> PeerType /\ WorkType) /\ (TypeOK' <=> PeerType' /\ WorkType')
  BY DEF TypeOK, PeerType, WorkType

(* A peer's log has its type and its indices. *)
LEMMA PeerLog ==
    ASSUME RInv, NEW s \in Servers
    PROVE  log[s] \in Seq(Entry) /\ Indexed(log[s])
  BY DEF RInv, TypeOK, LogIndexed, Indexed

(* setNewTermBybiggerTerm and the locked comparison before it. *)
LEMMA NewTermType ==
    ASSUME TypeOK, NEW s \in Servers, NEW term \in Nat,
           setNewTermBybiggerTerm(s, term) \/ AdoptBigger(s, term)
    PROVE  /\ currentTerm' \in [Servers -> Nat]
           /\ voteFor' \in [Servers -> Servers \cup {None}]
           /\ state' \in [Servers -> {Follower, Candidate, Leader}]
<1>1. CASE setNewTermBybiggerTerm(s, term)
  <2>1. currentTerm' \in [Servers -> Nat]
    BY <1>1 DEF TypeOK, setNewTermBybiggerTerm
  <2>2. voteFor' \in [Servers -> Servers \cup {None}]
    BY <1>1 DEF TypeOK, setNewTermBybiggerTerm
  <2>3. state' \in [Servers -> {Follower, Candidate, Leader}]
    BY <1>1 DEF TypeOK, setNewTermBybiggerTerm
  <2> QED
    BY <2>1, <2>2, <2>3
<1>2. CASE UNCHANGED <<currentTerm, voteFor, state>>
  BY <1>2 DEF TypeOK
<1> QED
  BY <1>1, <1>2 DEF AdoptBigger

(* The bounded things are counted. *)
LEMMA HappensType ==
    ASSUME TypeOK, NEW what \in Counted, NEW bound, Happens(what, bound)
    PROVE  count' \in [Counted -> Nat] /\ count[what] \in Nat
  BY SMTT(30) DEF TypeOK, Happens

(* A goroutine is started, or begins to run. *)
LEMMA SpawnedType ==
    ASSUME TypeOK, NEW s \in Servers, NEW g \in Goroutines, go(s, g) \/ runs(s, g)
    PROVE  spawned' \in [Servers -> [Goroutines -> Nat]]
<1>1. /\ spawned \in [Servers -> [Goroutines -> Nat]]
      /\ spawned[s] \in [Goroutines -> Nat] /\ spawned[s][g] \in Nat
  BY DEF TypeOK
<1>2. PICK n \in Nat : spawned' = [spawned EXCEPT ![s][g] = n]
  <2>1. \A n \in Nat : n + 1 \in Nat /\ (n > 0 => n - 1 \in Nat)
    OBVIOUS
  <2> QED
    BY <1>1, <2>1 DEF go, runs
<1>3. [spawned[s] EXCEPT ![g] = n] \in [Goroutines -> Nat]
  BY <1>1, <1>2
<1> QED
  BY <1>1, <1>2, <1>3

(* A step that leaves the Calls and the tryToCommits alone. *)
LEMMA SameCalls ==
    ASSUME RInv, UNCHANGED <<jobs, calls>>
    PROVE  jobs' \subseteq Jobs /\ calls' \subseteq Calls /\ CallsIndexed' /\ CallsHaveJobs'
  BY DEF RInv, TypeOK, CallsIndexed, CallsHaveJobs

(* A step that leaves the logs alone. *)
LEMMA SameLog == ASSUME RInv, UNCHANGED log PROVE log' \in [Servers -> Seq(Entry)] /\ LogIndexed'
  BY DEF RInv, TypeOK, LogIndexed

(* Some Calls end and new ones take their place; those of tryToCommit       *)
(* belong to a job.                                                         *)
LEMMA CallsChange ==
    ASSUME RInv, NEW new, calls' \subseteq calls \cup new,
           \A d \in new :
               /\ d \in Calls /\ CallIndexed(d)
               /\ d.kind = "commit" /\ d.phase # "late" =>
                      \E k \in jobs' : k.no = d.no /\ k.from = d.from,
           \A j \in jobs : \E k \in jobs' : k.no = j.no /\ k.from = j.from
    PROVE  calls' \subseteq Calls /\ CallsIndexed' /\ CallsHaveJobs'
<1>1. calls' \subseteq Calls
  BY DEF RInv, TypeOK
<1>2. CallsIndexed'
  <2> SUFFICES ASSUME NEW d \in calls' PROVE CallIndexed(d)
    BY DEF CallsIndexed, CallIndexed, Reading
  <2> QED
    BY DEF RInv, CallsIndexed
<1>3. CallsHaveJobs'
  <2> SUFFICES ASSUME NEW d \in calls', d.kind = "commit", d.phase # "late"
               PROVE  \E k \in jobs' : k.no = d.no /\ k.from = d.from
    BY DEF CallsHaveJobs
  <2>1. CASE d \in calls
    <3>1. PICK j \in jobs : j.no = d.no /\ j.from = d.from
      BY <2>1 DEF RInv, CallsHaveJobs
    <3> QED
      BY <3>1
  <2>2. CASE d \in new
    BY <2>2
  <2> QED
    BY <2>1, <2>2
<1> QED
  BY <1>1, <1>2, <1>3

(* One Call moves on; a request that is late stays late. *)
LEMMA CallMoves ==
    ASSUME RInv, NEW c \in calls, NEW d \in Calls,
           d.kind = c.kind, d.no = c.no, d.from = c.from,
           c.phase # "late" \/ d.phase = "late", CallIndexed(d),
           calls' \subseteq calls \cup {d}, UNCHANGED jobs
    PROVE  jobs' \subseteq Jobs /\ calls' \subseteq Calls /\ CallsIndexed' /\ CallsHaveJobs'
<1>1. jobs' \subseteq Jobs
  BY DEF RInv, TypeOK
<1>2. d.kind = "commit" /\ d.phase # "late" => \E k \in jobs' : k.no = d.no /\ k.from = d.from
  BY DEF RInv, CallsHaveJobs
<1>3. \A x \in {d} :
        /\ x \in Calls /\ CallIndexed(x)
        /\ x.kind = "commit" /\ x.phase # "late" =>
               \E k \in jobs' : k.no = x.no /\ k.from = x.from
  BY <1>2
<1>4. \A j \in jobs : \E k \in jobs' : k.no = j.no /\ k.from = j.from
  OBVIOUS
<1>5. calls' \subseteq Calls /\ CallsIndexed' /\ CallsHaveJobs'
  BY ONLY ZenonT(20), <1>3, <1>4, CallsChange, RInv, calls' \subseteq calls \cup {d}
<1> QED
  BY <1>1, <1>5

(* A Call whose arguments have been read keeps them. *)
LEMMA CallKept ==
    ASSUME RInv, NEW c \in calls, NEW d \in Calls,
           d.kind = c.kind, d.no = c.no, d.from = c.from, d.args = c.args,
           c.phase # "late" \/ d.phase = "late", ~Reading(d),
           calls' \subseteq calls \cup {d}, UNCHANGED jobs
    PROVE  jobs' \subseteq Jobs /\ calls' \subseteq Calls /\ CallsIndexed' /\ CallsHaveJobs'
<1>1. CallIndexed(d)
  BY DEF RInv, CallsIndexed, CallIndexed
<1> QED
  BY <1>1, CallMoves

(* The Calls stay, or some end, and the tryToCommits move on. *)
LEMMA JobsKept ==
    ASSUME RInv, calls' \subseteq calls,
           \A j \in jobs : \E k \in jobs' : k.no = j.no /\ k.from = j.from
    PROVE  calls' \subseteq Calls /\ CallsIndexed' /\ CallsHaveJobs'
<1>1. calls' \subseteq Calls /\ CallsIndexed'
  BY DEF RInv, TypeOK, CallsIndexed
<1>2. CallsHaveJobs'
  <2> SUFFICES ASSUME NEW d \in calls', d.kind = "commit", d.phase # "late"
               PROVE  \E k \in jobs' : k.no = d.no /\ k.from = d.from
    BY DEF CallsHaveJobs
  <2>1. PICK j \in jobs : j.no = d.no /\ j.from = d.from
    BY DEF RInv, CallsHaveJobs
  <2> QED
    BY <2>1
<1> QED
  BY <1>1, <1>2

(* Some Calls are over. *)
LEMMA CallsEnd ==
    ASSUME RInv, calls' \subseteq calls, UNCHANGED jobs
    PROVE  jobs' \subseteq Jobs /\ calls' \subseteq Calls /\ CallsIndexed' /\ CallsHaveJobs'
  BY DEF RInv, TypeOK, CallsIndexed, CallsHaveJobs

(* The fields of a Call and its arguments. *)
LEMMA CallFacts ==
    ASSUME RInv, NEW c \in calls
    PROVE  /\ c \in Calls /\ c.from \in Servers /\ c.to \in Servers /\ c.no \in Nat
           /\ c.reply.Term \in Nat /\ c.reply.Ok \in BOOLEAN /\ c.next \in Nat
           /\ c.args.Term \in Nat /\ c.args.PrevLogIndex \in Int
           /\ c.args.Entries \in Seq(Entry) /\ c.args.LeaderCommit \in Nat
  BY DEF RInv, TypeOK, Calls, Replies, AppendEntriesArgs

(* Arguments of which only the term is known. *)
LEMMA NoArgsFacts ==
    ASSUME NEW term \in Nat
    PROVE  /\ NoArgs(term) \in AppendEntriesArgs /\ NoArgs(term).Entries = <<>>
           /\ NoReply \in Replies
<1>1. <<>> \in Seq(Entry)
  BY SeqEmpty
<1> QED
  BY <1>1 DEF NoArgs, AppendEntriesArgs, Replies, NoReply

(* Goroutines that have just been started carry no entries yet. *)
LEMMA NewCallsFacts ==
    ASSUME NEW kind \in {"heartbeat", "commit"}, NEW no \in Nat, NEW s \in Servers,
           NEW term \in Nat, NEW c \in NewCalls(kind, no, s, term)
    PROVE  /\ c \in Calls /\ c.kind = kind /\ c.no = no /\ c.from = s
           /\ CallIndexed(c)
<1>1. PICK t \in Servers \ {s} :
        c = [kind |-> kind, no |-> no, try |-> 0, from |-> s, to |-> t,
             phase |-> IF kind = "commit" THEN "LeaderCommit" ELSE "PrevLogIndex",
             args |-> NoArgs(term), reply |-> NoReply, next |-> 0]
  BY DEF NewCalls
<1>2. c.args \in AppendEntriesArgs /\ c.reply \in Replies /\ c.args.Entries = <<>>
  BY <1>1, NoArgsFacts
<1>3. c \in Calls
  BY <1>1, <1>2 DEF Calls, Phases
<1>4. CallIndexed(c)
  <2>1. DOMAIN c.args.Entries = {}
    BY <1>2
  <2> QED
    BY <1>2, <2>1 DEF CallIndexed
<1> QED
  BY <1>1, <1>3, <1>4

(* A goroutine of tryToCommit that begins again. *)
LEMMA AgainFacts ==
    ASSUME NEW c \in Calls
    PROVE  /\ Again(c) \in Calls /\ Again(c).kind = c.kind /\ Again(c).no = c.no
           /\ Again(c).from = c.from /\ Again(c).to = c.to
           /\ Again(c).phase = "LeaderCommit" /\ Again(c).args = NoArgs(c.args.Term)
           /\ Again(c).reply = NoReply /\ CallIndexed(Again(c))
<1>1. c.args.Term \in Nat
  BY DEF Calls, AppendEntriesArgs
<1>2. NoArgs(c.args.Term) \in AppendEntriesArgs /\ NoReply \in Replies
      /\ NoArgs(c.args.Term).Entries = <<>>
  BY <1>1, NoArgsFacts
<1>3. /\ Again(c) \in Calls /\ Again(c).kind = c.kind /\ Again(c).no = c.no
      /\ Again(c).from = c.from /\ Again(c).to = c.to
      /\ Again(c).phase = "LeaderCommit" /\ Again(c).args = NoArgs(c.args.Term)
      /\ Again(c).reply = NoReply
  BY <1>2 DEF Again, Calls, Phases
<1>4. CallIndexed(Again(c))
  <2>1. Again(c).args.Entries = <<>> /\ DOMAIN <<>> = {}
    BY <1>2, <1>3
  <2> QED
    BY <2>1 DEF CallIndexed
<1> QED
  BY <1>3, <1>4
-----------------------------------------------------------------------------
(* The entries behind place "next" of a log of n entries. *)
LEMMA PlacesBehind ==
    ASSUME NEW n \in Nat, NEW next \in 0 .. n, NEW i \in 1 .. n - next
    PROVE  /\ i \in 1 .. n - (next + 1) + 1 /\ (next + 1) + i - 1 = next + i
           /\ next + i \in 1 .. n /\ next + i - 1 = next - 1 + i
  OBVIOUS

(* There are none behind the last. *)
LEMMA NothingBehind ==
    \A n, next \in Nat : next <= n /\ ~(next + 1 <= n) => n - next = 0
  OBVIOUS

(* A term and the next. *)
LEMMA NatNext == \A n \in Nat : n + 1 \in Nat
  OBVIOUS

(* The ticker starts a goroutine and changes nothing else. *)
LEMMA tickerInv == ASSUME RInv, NEW s \in Servers, ticker(s) PROVE RInv'
<1>1. jobs' \subseteq Jobs /\ calls' \subseteq Calls /\ CallsIndexed' /\ CallsHaveJobs' /\ LogIndexed'
  BY SameCalls, SameLog DEF ticker, peer
<1>2. spawned' \in [Servers -> [Goroutines -> Nat]]
  BY SpawnedType DEF ticker, RInv, Goroutines
<1>3. PeerType'
  BY DEF ticker, peer, RInv, TypeOK, PeerType
<1>4. WorkType'
  BY <1>1, <1>2 DEF ticker, Runs, RInv, TypeOK, WorkType
<1> QED
  BY <1>1, <1>3, <1>4, TypeParts DEF RInv

(* A candidate votes for itself and asks the others. *)
LEMMA becomeCandidateInv == ASSUME RInv, NEW s \in Servers, becomeCandidate(s) PROVE RInv'
<1>1. jobs' \subseteq Jobs /\ calls' \subseteq Calls /\ CallsIndexed' /\ CallsHaveJobs' /\ LogIndexed'
  BY SameCalls, SameLog DEF becomeCandidate
<1>2. spawned' \in [Servers -> [Goroutines -> Nat]]
  BY SpawnedType DEF becomeCandidate, RInv, Goroutines
<1>3. /\ currentTerm' \in [Servers -> Nat]
      /\ state' \in [Servers -> {Follower, Candidate, Leader}]
  <2>1. /\ currentTerm \in [Servers -> Nat] /\ currentTerm' = [currentTerm EXCEPT ![s] = @ + 1]
        /\ state \in [Servers -> {Follower, Candidate, Leader}]
        /\ state' = [state EXCEPT ![s] = Candidate]
    BY DEF becomeCandidate, RInv, TypeOK
  <2>2. currentTerm[s] + 1 \in Nat
    BY <2>1, NatNext
  <2> QED
    BY <2>1, <2>2
<1>4. voteFor' \in [Servers -> Servers \cup {None}]
  BY DEF becomeCandidate, RInv, TypeOK
<1>5. PeerType'
  BY <1>3, <1>4 DEF becomeCandidate, RInv, TypeOK, PeerType
<1>6. count' \in [Counted -> Nat] /\ count["elections"] \in Nat
  BY HappensType DEF becomeCandidate, RInv, Counted
<1>7. elections' \subseteq Elections
  <2> DEFINE b == [t \in Servers |-> [phase |-> "sent", reply |-> NoReply]]
             e == [no |-> count["elections"], from |-> s, status |-> "open",
                   Term |-> currentTerm[s] + 1,
                   LastLogIndex |-> Last(log[s]).Index, LastLogTerm |-> Last(log[s]).Term,
                   ballot |-> b]
  <2>1. Last(log[s]).Index \in Nat /\ Last(log[s]).Term \in Nat
    BY PeerLog, LastIsEntry
  <2>2. b \in [Servers -> Ballots]
    BY DEF Ballots, Replies, NoReply
  <2>3. currentTerm[s] + 1 \in Nat
    BY SMTT(30) DEF RInv, TypeOK
  <2>4. elections' = elections \cup {e}
    BY DEF becomeCandidate
  <2> HIDE DEF b
  <2>5. e \in Elections
    BY <1>6, <2>1, <2>2, <2>3 DEF Elections
  <2> HIDE DEF e
  <2> QED
    BY <2>4, <2>5 DEF RInv, TypeOK
<1>8. WorkType'
  BY <1>1, <1>2, <1>6, <1>7 DEF becomeCandidate, Runs, RInv, TypeOK, WorkType
<1> QED
  BY <1>1, <1>5, <1>8, TypeParts DEF RInv

(* What an election holds. *)
LEMMA ElectionFacts ==
    ASSUME RInv, NEW e \in elections
    PROVE  /\ e \in Elections /\ e.from \in Servers /\ e.Term \in Nat
           /\ e.ballot \in [Servers -> Ballots]
           /\ \A t \in Servers : e.ballot[t].reply.Term \in Nat
  BY DEF RInv, TypeOK, Elections, Ballots, Replies

(* The late requests of an election that is over. *)
LEMMA RemainsFacts ==
    ASSUME NEW e \in Elections
    PROVE  /\ Remains(e) \in Elections /\ Remains(e).from = e.from /\ Remains(e).Term = e.Term
           /\ \A t \in Servers : Remains(e).ballot[t].reply = NoReply
<1> DEFINE b == [t \in Servers |->
                   [phase |-> IF e.ballot[t].phase \in {"sent", "late"} THEN "late" ELSE "counted",
                    reply |-> NoReply]]
<1>1. NoReply \in Replies
  BY DEF NoReply, Replies
<1>2. b \in [Servers -> Ballots] /\ \A t \in Servers : b[t].reply = NoReply
  BY <1>1 DEF Ballots
<1>3. Remains(e) = [e EXCEPT !.status = "over", !.ballot = b]
  BY DEF Remains
<1> HIDE DEF b
<1>4. /\ [e EXCEPT !.status = "over", !.ballot = b] \in Elections
      /\ [e EXCEPT !.status = "over", !.ballot = b].from = e.from
      /\ [e EXCEPT !.status = "over", !.ballot = b].Term = e.Term
      /\ [e EXCEPT !.status = "over", !.ballot = b].ballot = b
  BY <1>2 DEF Elections
<1> QED
  BY <1>2, <1>3, <1>4

(* An election in which a ballot or the status changes is one. *)
LEMMA ElectionMoves ==
    ASSUME RInv, NEW e \in elections, NEW t \in Servers
    PROVE  /\ \A b \in Ballots :
                 Replace(elections, e, [e EXCEPT !.ballot[t] = b]) \subseteq Elections
           /\ Replace(elections, e, [e EXCEPT !.ballot[t].phase = "counted"]) \subseteq Elections
           /\ Replace(elections, e, [e EXCEPT !.status = "won"]) \subseteq Elections
           /\ Replace(elections, e, Remains(e)) \subseteq Elections
<1>1. elections \subseteq Elections /\ e \in Elections
  BY DEF RInv, TypeOK
<1>2. \A b \in Ballots : [e EXCEPT !.ballot[t] = b] \in Elections
  BY <1>1 DEF Elections
<1>3. [e EXCEPT !.status = "won"] \in Elections
  BY <1>1 DEF Elections
<1>4. [e EXCEPT !.ballot[t].phase = "counted"] \in Elections
  <2>1. [e.ballot[t] EXCEPT !.phase = "counted"] \in Ballots
    BY <1>1 DEF Elections, Ballots
  <2>2. [e EXCEPT !.ballot[t].phase = "counted"]
          = [e EXCEPT !.ballot[t] = [e.ballot[t] EXCEPT !.phase = "counted"]]
    BY <1>1 DEF Elections
  <2> QED
    BY <1>2, <2>1, <2>2
<1>5. Remains(e) \in Elections
  BY <1>1, RemainsFacts
<1> QED
  BY <1>1, <1>2, <1>3, <1>4, <1>5 DEF Replace

(* A peer answers a candidate. *)
LEMMA RequestVoteInv ==
    ASSUME RInv, NEW e \in elections, NEW t \in Servers, RequestVote(e, t)
    PROVE  RInv'
<1>1. jobs' \subseteq Jobs /\ calls' \subseteq Calls /\ CallsIndexed' /\ CallsHaveJobs' /\ LogIndexed'
  BY SameCalls, SameLog DEF RequestVote
<1>2. currentTerm[t] \in Nat /\ Larger(e.Term, currentTerm[t]) \in Nat
  BY ElectionFacts DEF RInv, TypeOK, Larger
<1>3. currentTerm' \in [Servers -> Nat]
  BY <1>2 DEF RequestVote, RInv, TypeOK
<1>4. state' \in [Servers -> {Follower, Candidate, Leader}]
  BY DEF RequestVote, RInv, TypeOK
<1>5. voteFor' \in [Servers -> Servers \cup {None}]
  <2>1. \A v \in Servers \cup {None} :
           [voteFor EXCEPT ![t] = v] \in [Servers -> Servers \cup {None}]
    BY DEF RInv, TypeOK
  <2>2. e.from \in Servers /\ voteFor[t] \in Servers \cup {None}
    BY ElectionFacts DEF RInv, TypeOK
  <2> QED
    BY <2>1, <2>2 DEF RequestVote
<1>6. PeerType'
  BY <1>3, <1>4, <1>5 DEF RequestVote, RInv, TypeOK, PeerType
<1>7. elections' \subseteq Elections
  <2> DEFINE vote == IF e.Term > currentTerm[t] THEN None ELSE voteFor[t]
             grant == ~(e.Term < currentTerm[t]) /\ vote \in {None, e.from} /\ Qualified(log[t], e)
             b == IF e.ballot[t].phase = "late" THEN [phase |-> "counted", reply |-> NoReply]
                  ELSE [phase |-> "replied",
                        reply |-> [Term |-> Larger(e.Term, currentTerm[t]), Ok |-> grant]]
  <2>1. elections' = Replace(elections, e, [e EXCEPT !.ballot[t] = b])
    BY DEF RequestVote
  <2>2. grant \in BOOLEAN
    OBVIOUS
  <2> HIDE DEF grant
  <2>3. b \in Ballots
    BY <1>2, <2>2 DEF Ballots, Replies, NoReply
  <2> HIDE DEF b
  <2> QED
    BY <2>1, <2>3, ElectionMoves
<1>8. WorkType'
  BY <1>1, <1>7 DEF RequestVote, Runs, RInv, TypeOK, WorkType
<1> QED
  BY <1>1, <1>6, <1>8, TypeParts DEF RInv

(* The candidate counts an answer. *)
LEMMA RequestVoteReplyInv ==
    ASSUME RInv, NEW e \in elections, NEW t \in Servers, RequestVoteReply(e, t)
    PROVE  RInv'
<1>1. jobs' \subseteq Jobs /\ calls' \subseteq Calls /\ CallsIndexed' /\ CallsHaveJobs' /\ LogIndexed'
  BY SameCalls, SameLog DEF RequestVoteReply
<1>2. /\ currentTerm' \in [Servers -> Nat]
      /\ voteFor' \in [Servers -> Servers \cup {None}]
      /\ state' \in [Servers -> {Follower, Candidate, Leader}]
  BY ElectionFacts, NewTermType DEF RequestVoteReply, RInv
<1>3. PeerType'
  BY <1>2 DEF RequestVoteReply, RInv, TypeOK, PeerType
<1>4. elections' \subseteq Elections
  BY ElectionMoves DEF RequestVoteReply
<1>5. WorkType'
  BY <1>1, <1>4 DEF RequestVoteReply, Runs, RInv, TypeOK, WorkType
<1> QED
  BY <1>1, <1>3, <1>5, TypeParts DEF RInv

(* A Call of the candidate fails and counts as a refusal. *)
LEMMA RequestVoteFailsInv ==
    ASSUME RInv, NEW e \in elections, NEW t \in Servers, RequestVoteFails(e, t)
    PROVE  RInv'
<1>1. jobs' \subseteq Jobs /\ calls' \subseteq Calls /\ CallsIndexed' /\ CallsHaveJobs' /\ LogIndexed'
  BY SameCalls, SameLog DEF RequestVoteFails, peer
<1>2. PeerType'
  BY DEF RequestVoteFails, peer, RInv, TypeOK, PeerType
<1>3. elections' \subseteq Elections
  <2> DEFINE b == [phase |-> IF e.ballot[t].phase = "sent" THEN "late" ELSE "counted",
                   reply |-> NoReply]
  <2>1. b \in Ballots
    BY DEF Ballots, Replies, NoReply
  <2>2. elections' = Replace(elections, e, [e EXCEPT !.ballot[t] = b])
    <3>1. e \in Elections
      BY ElectionFacts
    <3> QED
      BY <3>1 DEF RequestVoteFails, Elections
  <2> HIDE DEF b
  <2> QED
    BY <2>1, <2>2, ElectionMoves
<1>4. count' \in [Counted -> Nat]
  BY HappensType DEF RequestVoteFails, RInv, Counted
<1>5. WorkType'
  BY <1>1, <1>3, <1>4 DEF RequestVoteFails, Runs, RInv, TypeOK, WorkType
<1> QED
  BY <1>1, <1>2, <1>5, TypeParts DEF RInv

(* A candidate that has counted a majority becomes leader. *)
LEMMA becomeLeaderInv == ASSUME RInv, NEW e \in elections, becomeLeader(e) PROVE RInv'
<1>1. jobs' \subseteq Jobs /\ calls' \subseteq Calls /\ CallsIndexed' /\ CallsHaveJobs' /\ LogIndexed'
  BY SameCalls, SameLog DEF becomeLeader
<1>2. e.from \in Servers
  BY ElectionFacts
<1>3. Last(log[e.from]).Index \in Nat
  BY <1>2, PeerLog, LastIsEntry
<1>4. nextIndex' \in [Servers -> [Servers -> Nat]]
  <2>1. [t \in Servers |-> Last(log[e.from]).Index + 1] \in [Servers -> Nat]
    BY <1>3
  <2> QED
    BY <2>1 DEF becomeLeader, RInv, TypeOK
<1>5. state' \in [Servers -> {Follower, Candidate, Leader}]
  BY DEF becomeLeader, RInv, TypeOK
<1>6. spawned' \in [Servers -> [Goroutines -> Nat]]
  BY <1>2, SpawnedType DEF becomeLeader, RInv, Goroutines
<1>7. PeerType'
  BY <1>4, <1>5 DEF becomeLeader, RInv, TypeOK, PeerType
<1>8. elections' \subseteq Elections
  BY <1>2, ElectionMoves DEF becomeLeader
<1>9. WorkType'
  BY <1>1, <1>6, <1>8 DEF becomeLeader, Runs, RInv, TypeOK, WorkType
<1> QED
  BY <1>1, <1>7, <1>9, TypeParts DEF RInv

(* becomeCandidate returns. *)
LEMMA electionOverInv == ASSUME RInv, NEW e \in elections, electionOver(e) PROVE RInv'
<1>1. jobs' \subseteq Jobs /\ calls' \subseteq Calls /\ CallsIndexed' /\ CallsHaveJobs' /\ LogIndexed'
  BY SameCalls, SameLog DEF electionOver, peer
<1>2. PeerType'
  BY DEF electionOver, peer, RInv, TypeOK, PeerType
<1>3. elections' \subseteq Elections
  BY ElectionFacts, ElectionMoves DEF electionOver
<1>4. WorkType'
  BY <1>1, <1>3 DEF electionOver, Runs, RInv, TypeOK, WorkType
<1> QED
  BY <1>1, <1>2, <1>4, TypeParts DEF RInv
-----------------------------------------------------------------------------
(* One goroutine per peer sends a heartbeat. *)
LEMMA sendHeartBeatInv == ASSUME RInv, NEW s \in Servers, sendHeartBeat(s) PROVE RInv'
<1>1. LogIndexed' /\ PeerType'
  BY SameLog DEF sendHeartBeat, peer, RInv, TypeOK, PeerType
<1>2. spawned' \in [Servers -> [Goroutines -> Nat]]
  BY SpawnedType DEF sendHeartBeat, RInv, Goroutines
<1>3. count' \in [Counted -> Nat] /\ count["beats"] \in Nat
  BY HappensType DEF sendHeartBeat, RInv, Counted
<1>4. calls' \subseteq Calls /\ CallsIndexed' /\ CallsHaveJobs'
  <2>1. currentTerm[s] \in Nat
    BY DEF RInv, TypeOK
  <2>2. jobs' = jobs /\ jobs' \subseteq Jobs
    BY DEF sendHeartBeat, RInv, TypeOK
  <2>3. calls' = calls \cup NewCalls("heartbeat", count["beats"], s, currentTerm[s])
    BY DEF sendHeartBeat
  <2>4. \A c \in NewCalls("heartbeat", count["beats"], s, currentTerm[s]) :
           c \in Calls /\ c.kind = "heartbeat" /\ CallIndexed(c)
    BY SMTT(30), <1>3, <2>1, NewCallsFacts
  <2> QED
    <3> DEFINE started == NewCalls("heartbeat", count["beats"], s, currentTerm[s])
    <3>1. calls' \subseteq calls \cup started
      BY <2>3
    <3>2. \A c \in started :
             /\ c \in Calls /\ CallIndexed(c)
             /\ c.kind = "commit" /\ c.phase # "late" =>
                    \E k \in jobs' : k.no = c.no /\ k.from = c.from
      BY <2>4
    <3>3. \A j \in jobs : \E k \in jobs' : k.no = j.no /\ k.from = j.from
      BY <2>2
    <3> HIDE DEF started
    <3> QED
      BY ONLY ZenonT(20), <3>1, <3>2, <3>3, CallsChange, RInv
<1>5. WorkType'
  BY <1>2, <1>3, <1>4 DEF sendHeartBeat, Runs, RInv, TypeOK, WorkType
<1> QED
  BY <1>1, <1>4, <1>5, TypeParts DEF RInv

(* Start appends a command at the end of the log and starts tryToCommit. *)
LEMMA StartInv == ASSUME RInv, NEW s \in Servers, Start(s) PROVE RInv'
<1> DEFINE entry == [Term |-> currentTerm[s], Index |-> Len(log[s]),
                     Command |-> count["starts"] + 1]
           job == [no |-> count["starts"], from |-> s, term |-> currentTerm[s],
                   index |-> Len(log[s]), Counter |-> 1, waiter |-> "start"]
<1>1. count' \in [Counted -> Nat] /\ count["starts"] \in Nat
  BY HappensType DEF Start, RInv, Counted
<1>2. Len(log[s]) \in Nat /\ currentTerm[s] \in Nat
  BY PeerLog, LastIsEntry DEF RInv, TypeOK
<1>3. log' = [log EXCEPT ![s] = Append(@, entry)] /\ jobs' = jobs \cup {job}
  BY DEF Start
<1>4. entry \in Entry /\ entry.Index = Len(log[s])
  BY SMTT(30), <1>1, <1>2 DEF Entry
<1>5. job \in Jobs
  BY <1>1, <1>2 DEF Jobs
<1> HIDE DEF entry, job
<1>6. Append(log[s], entry) \in Seq(Entry) /\ Indexed(Append(log[s], entry))
  BY <1>4, PeerLog, AppendIndexed
<1>7. log' \in [Servers -> Seq(Entry)] /\ LogIndexed'
  <2>1. log' \in [Servers -> Seq(Entry)]
    BY <1>3, <1>6 DEF RInv, TypeOK
  <2>2. \A t \in Servers : Indexed(log'[t])
    BY <1>3, <1>6, PeerLog DEF RInv, TypeOK
  <2> QED
    BY <2>1, <2>2 DEF LogIndexed, Indexed
<1>8. jobs' \subseteq Jobs /\ calls' \subseteq Calls /\ CallsIndexed' /\ CallsHaveJobs'
  BY <1>3, <1>5 DEF Start, RInv, TypeOK, CallsIndexed, CallsHaveJobs
<1>9. PeerType' /\ WorkType'
  <2>1. PeerType'
    BY <1>7 DEF Start, RInv, TypeOK, PeerType
  <2>2. WorkType'
    BY <1>1, <1>8 DEF Start, Runs, RInv, TypeOK, WorkType
  <2> QED
    BY <2>1, <2>2
<1> QED
  BY <1>7, <1>8, <1>9, TypeParts DEF RInv

(* A tryToCommit whose waiter moves on is still there. *)
LEMMA JobMoves ==
    ASSUME RInv, NEW j \in jobs, NEW w \in {"start", "waiting", "asleep", "done"},
           jobs' = Replace(jobs, j, [j EXCEPT !.waiter = w])
    PROVE  /\ jobs' \subseteq Jobs
           /\ \A i \in jobs : \E k \in jobs' : k.no = i.no /\ k.from = i.from
           /\ j.no \in Nat /\ j.from \in Servers /\ j.index \in Nat
<1> DEFINE k == [j EXCEPT !.waiter = w]
<1>1. j \in Jobs /\ jobs \subseteq Jobs
  BY DEF RInv, TypeOK
<1>2. k \in Jobs /\ k.no = j.no /\ k.from = j.from
  BY <1>1 DEF Jobs
<1>3. jobs' = (jobs \ {j}) \cup {k}
  BY DEF Replace
<1>4. j.no \in Nat /\ j.from \in Servers /\ j.index \in Nat
  BY <1>1 DEF Jobs
<1> HIDE DEF k
<1> QED
  BY <1>1, <1>2, <1>3, <1>4

(* tryToCommit starts one goroutine per peer. *)
LEMMA tryToCommitInv == ASSUME RInv, NEW j \in jobs, tryToCommit(j) PROVE RInv'
<1>1. LogIndexed' /\ PeerType'
  BY SameLog DEF tryToCommit, peer, RInv, TypeOK, PeerType
<1>2. /\ jobs' \subseteq Jobs
      /\ \A i \in jobs : \E k \in jobs' : k.no = i.no /\ k.from = i.from
      /\ j.no \in Nat /\ j.from \in Servers
  BY JobMoves DEF tryToCommit
<1>3. currentTerm[j.from] \in Nat
  BY <1>2 DEF RInv, TypeOK
<1>4. calls' \subseteq Calls /\ CallsIndexed' /\ CallsHaveJobs'
  <2>1. calls' = calls \cup NewCalls("commit", j.no, j.from, currentTerm[j.from])
    BY DEF tryToCommit
  <2>2. \E k \in jobs' : k.no = j.no /\ k.from = j.from
    BY <1>2
  <2> DEFINE started == NewCalls("commit", j.no, j.from, currentTerm[j.from])
  <2>3. \A c \in started :
           c \in Calls /\ c.no = j.no /\ c.from = j.from /\ CallIndexed(c)
    BY SMTT(30), <1>2, <1>3, NewCallsFacts
  <2> HIDE DEF started
  <2>4. calls' \subseteq calls \cup started
    BY <2>1 DEF started
  <2>5. \A c \in started :
           /\ c \in Calls /\ CallIndexed(c)
           /\ c.kind = "commit" /\ c.phase # "late" =>
                  \E k \in jobs' : k.no = c.no /\ k.from = c.from
    BY <2>2, <2>3
  <2>6. \A i \in jobs : \E k \in jobs' : k.no = i.no /\ k.from = i.from
    BY <1>2
  <2> QED
    BY ONLY ZenonT(20), <2>4, <2>5, <2>6, CallsChange, RInv
<1>5. WorkType'
  BY <1>2, <1>4 DEF tryToCommit, Runs, RInv, TypeOK, WorkType
<1> QED
  BY <1>1, <1>4, <1>5, TypeParts DEF RInv
-----------------------------------------------------------------------------
(* A goroutine reads an argument, or indexes the log out of range. *)
LEMMA ReadsInv ==
    ASSUME RInv, NEW c \in calls, c.phase # "late", NEW inRange \in BOOLEAN, NEW d,
           Reads(c, inRange, d),
           inRange => d \in Calls /\ d.kind = c.kind /\ d.no = c.no /\ d.from = c.from
                      /\ CallIndexed(d)
    PROVE  RInv'
<1>1. LogIndexed' /\ PeerType'
  <2>1. UNCHANGED peer
    BY DEF Reads
  <2> QED
    BY <2>1, SameLog DEF peer, RInv, TypeOK, PeerType
<1>2. UNCHANGED jobs /\ panicked' \in BOOLEAN
  BY DEF Reads, RInv, TypeOK
<1>3. jobs' \subseteq Jobs /\ calls' \subseteq Calls /\ CallsIndexed' /\ CallsHaveJobs'
  <2>1. CASE inRange /\ calls' = Replace(calls, c, d)
    <3>1. calls' \subseteq calls \cup {d}
      BY <2>1 DEF Replace
    <3>2. d \in Calls /\ d.kind = c.kind /\ d.no = c.no /\ d.from = c.from /\ CallIndexed(d)
      BY <2>1
    <3> QED
      BY ONLY ZenonT(20), <1>2, <3>1, <3>2, CallMoves, RInv, c \in calls, c.phase # "late"
  <2>2. CASE UNCHANGED calls
    BY <1>2, <2>2, SameCalls
  <2> QED
    BY <2>1, <2>2 DEF Reads
<1>4. WorkType'
  BY <1>2, <1>3 DEF Reads, RInv, TypeOK, WorkType
<1> QED
  BY <1>1, <1>3, <1>4, TypeParts DEF RInv

(* A Call that still reads has no entries, whatever it reads but these. *)
LEMMA StillEmpty ==
    ASSUME RInv, NEW c \in calls, Reading(c), NEW d, d.args.Entries = c.args.Entries
    PROVE  CallIndexed(d)
<1>1. d.args.Entries = <<>> /\ DOMAIN d.args.Entries = {}
  BY DEF RInv, CallsIndexed, CallIndexed
<1> QED
  BY <1>1 DEF CallIndexed

(* rf.commitIndex is read. *)
LEMMA readLeaderCommitInv == ASSUME RInv, NEW c \in calls, readLeaderCommit(c) PROVE RInv'
<1> DEFINE d == [c EXCEPT !.args.LeaderCommit = commitIndex[c.from],
                          !.phase = IF c.kind = "commit" THEN "PrevLogIndex" ELSE "sent"]
<1>1. c \in Calls /\ c.phase = "LeaderCommit" /\ Reads(c, TRUE, d) /\ commitIndex[c.from] \in Nat
  BY CallFacts DEF readLeaderCommit, RInv, TypeOK
<1>2. /\ d \in Calls /\ d.kind = c.kind /\ d.no = c.no /\ d.from = c.from
      /\ d.args.Entries = c.args.Entries
  BY <1>1 DEF Calls, AppendEntriesArgs, Phases
<1> HIDE DEF d
<1>3. CallIndexed(d)
  BY <1>1, <1>2, StillEmpty DEF Reading
<1> QED
  BY <1>1, <1>2, <1>3, ReadsInv

(* rf.leaderTool.nextIndex[server] is read. *)
LEMMA readPrevLogIndexInv == ASSUME RInv, NEW c \in calls, readPrevLogIndex(c) PROVE RInv'
<1> DEFINE d == [c EXCEPT !.args.PrevLogIndex = nextIndex[c.from][c.to] - 1,
                          !.phase = "PrevLogTerm"]
<1>1. c \in Calls /\ c.phase = "PrevLogIndex" /\ Reads(c, TRUE, d)
  BY CallFacts DEF readPrevLogIndex
<1>2. nextIndex[c.from][c.to] - 1 \in Int
  <2>1. nextIndex[c.from][c.to] \in Nat
    BY CallFacts DEF RInv, TypeOK
  <2> QED
    BY <2>1
<1>3. /\ d \in Calls /\ d.kind = c.kind /\ d.no = c.no /\ d.from = c.from
      /\ d.args.Entries = c.args.Entries
  BY <1>1, <1>2 DEF Calls, AppendEntriesArgs, Phases
<1> HIDE DEF d
<1>4. CallIndexed(d)
  BY <1>1, <1>3, StillEmpty DEF Reading
<1> QED
  BY <1>1, <1>3, <1>4, ReadsInv

(* It is read again for the entry whose term is PrevLogTerm. *)
LEMMA readPrevLogTermInv == ASSUME RInv, NEW c \in calls, readPrevLogTerm(c) PROVE RInv'
<1> DEFINE lg == log[c.from]
           next == nextIndex[c.from][c.to]
           d == [c EXCEPT !.args.PrevLogTerm = lg[next].Term,
                          !.phase = IF c.kind = "commit" THEN "Entries" ELSE "LeaderCommit"]
<1>1. c \in Calls /\ c.from \in Servers /\ c.phase = "PrevLogTerm"
      /\ Reads(c, next \in 1 .. Len(lg), d)
  BY CallFacts DEF readPrevLogTerm
<1>2. ASSUME next \in 1 .. Len(lg) PROVE lg[next].Term \in Nat
  <2>1. lg \in Seq(Entry)
    BY <1>1, PeerLog
  <2>2. lg[next] \in Entry
    BY <1>2, <2>1, SeqElement
  <2> HIDE DEF lg, next
  <2> QED
    BY <2>2 DEF Entry
<1> DEFINE ok == next \in 1 .. Len(lg)
<1> HIDE DEF lg, next
<1>3. ok => /\ d \in Calls /\ d.kind = c.kind /\ d.no = c.no /\ d.from = c.from
            /\ d.args.Entries = c.args.Entries
  BY <1>1, <1>2 DEF Calls, AppendEntriesArgs, Phases
<1>4. Reads(c, ok, d) /\ ok \in BOOLEAN
  BY <1>1
<1> HIDE DEF d, ok
<1>5. ok => CallIndexed(d)
  BY <1>1, <1>3, StillEmpty DEF Reading
<1> QED
  BY <1>1, <1>3, <1>4, <1>5, ReadsInv

(* The entries behind a place of a log are its own. *)
LEMMA EntriesBehind ==
    ASSUME NEW lg \in Seq(Entry), Indexed(lg), NEW first \in 0 .. Len(lg),
           NEW es, es = SubSeq(lg, first + 1, Len(lg))
    PROVE  /\ es \in Seq(Entry) /\ Len(es) = Len(lg) - first
           /\ \A i \in DOMAIN es : es[i] = lg[first + i] /\ es[i].Index = first - 1 + i
<1>1. /\ Len(lg) \in Nat /\ DOMAIN lg = 1 .. Len(lg) /\ first \in Nat /\ first <= Len(lg)
  BY LastIsEntry
<1>2. ASSUME NEW i \in first + 1 .. Len(lg) PROVE lg[i] \in Entry
  <2>1. i \in 1 .. Len(lg)
    BY <1>1
  <2> QED
    BY <2>1, SeqElement
<1>3. first + 1 \in Int /\ Len(lg) \in Int
  BY <1>1
<1>4. /\ es \in Seq(Entry)
      /\ Len(es) = (IF first + 1 <= Len(lg) THEN Len(lg) - (first + 1) + 1 ELSE 0)
      /\ \A i \in 1 .. Len(lg) - (first + 1) + 1 : es[i] = lg[(first + 1) + i - 1]
  BY SMTT(30), <1>2, <1>3, SeqPart
<1>5. Len(es) = Len(lg) - first
  <2>1. CASE first + 1 <= Len(lg)
    BY <1>1, <1>4, <2>1
  <2>2. CASE ~(first + 1 <= Len(lg))
    <3>1. Len(lg) - first = 0
      BY ONLY ZenonT(20), <1>1, <2>2, NothingBehind
    <3> QED
      BY <1>4, <2>2, <3>1
  <2> QED
    BY <2>1, <2>2
<1>6. DOMAIN es = 1 .. Len(lg) - first
  BY <1>4, <1>5, SeqLength
<1>7. ASSUME NEW i \in DOMAIN es PROVE es[i] = lg[first + i] /\ es[i].Index = first - 1 + i
  <2>1. i \in 1 .. Len(lg) - first
    BY <1>6
  <2>2. /\ i \in 1 .. Len(lg) - (first + 1) + 1 /\ (first + 1) + i - 1 = first + i
        /\ first + i \in 1 .. Len(lg) /\ first + i - 1 = first - 1 + i
    BY ONLY ZenonT(20), <1>1, <2>1, PlacesBehind, first \in 0 .. Len(lg)
  <2>3. es[i] = lg[first + i]
    BY <1>4, <2>2
  <2>4. lg[first + i].Index = first + i - 1
    BY <1>1, <2>2 DEF Indexed
  <2> QED
    BY <2>2, <2>3, <2>4
<1> QED
  BY <1>4, <1>5, <1>7

(* The entries behind PrevLogIndex are read. *)
LEMMA readEntriesInv == ASSUME RInv, NEW c \in calls, readEntries(c) PROVE RInv'
<1> DEFINE lg == log[c.from]
           prev == c.args.PrevLogIndex
           es == SubSeq(lg, prev + 1 + 1, Len(lg))
           d == [c EXCEPT !.args.Entries = es, !.phase = "sent"]
           ok == prev + 1 \in 0 .. Len(lg)
<1>1. /\ c \in Calls /\ c.from \in Servers /\ c.phase = "Entries"
      /\ c.args.PrevLogIndex \in Int /\ Reads(c, ok, d)
  BY CallFacts DEF readEntries
<1>2. lg \in Seq(Entry) /\ Indexed(lg)
  BY <1>1, PeerLog
<1> HIDE DEF lg
<1>3. ASSUME ok PROVE es \in Seq(Entry) /\ \A i \in DOMAIN es : es[i].Index = prev + i
  <2> DEFINE first == prev + 1
  <2>1. first \in 0 .. Len(lg) /\ es = SubSeq(lg, first + 1, Len(lg))
    BY <1>3
  <2>2. first - 1 = prev
    BY <1>1
  <2> HIDE DEF first, prev, es
  <2>3. es \in Seq(Entry) /\ \A i \in DOMAIN es : es[i].Index = first - 1 + i
    BY SMTT(30), <1>2, <2>1, EntriesBehind
  <2> QED
    BY <2>2, <2>3
<1> HIDE DEF es
<1>4. ok => /\ d \in Calls /\ d.kind = c.kind /\ d.no = c.no /\ d.from = c.from
            /\ d.args.Entries = es /\ d.args.PrevLogIndex = prev /\ d.phase = "sent"
  BY <1>1, <1>3 DEF Calls, AppendEntriesArgs, Phases
<1>5. ok \in BOOLEAN
  OBVIOUS
<1> HIDE DEF d, ok, prev
<1>6. ok => CallIndexed(d)
  BY <1>3, <1>4 DEF CallIndexed, Reading
<1> QED
  BY <1>1, <1>4, <1>5, <1>6, ReadsInv

(* The handler of AppendEntries keeps terms and logs as they should be. *)
LEMMA HandleAppendEntriesType ==
    ASSUME RInv, NEW c \in calls, NEW success \in BOOLEAN,
           HandleAppendEntries(c.to, c.args, success)
    PROVE  /\ PeerType' /\ LogIndexed' /\ UNCHANGED <<spawned, elections, jobs, count>>
           /\ panicked' \in BOOLEAN
<1> DEFINE t == c.to
           a == c.args
<1>1. t \in Servers /\ a.Term \in Nat /\ a.PrevLogIndex \in Int
      /\ a.Entries \in Seq(Entry) /\ a.LeaderCommit \in Nat
  BY CallFacts
<1>2. log[t] \in Seq(Entry) /\ Indexed(log[t]) /\ currentTerm[t] \in Nat
  BY <1>1, PeerLog, Zenon DEF RInv, TypeOK
<1>3. /\ UNCHANGED <<lastApplied, nextIndex, logs, spawned, elections, jobs, count, panicked>>
  BY DEF HandleAppendEntries, Runs
<1>4. /\ currentTerm' \in [Servers -> Nat]
      /\ voteFor' \in [Servers -> Servers \cup {None}]
      /\ state' \in [Servers -> {Follower, Candidate, Leader}]
  <2>1. CASE setNewTermBybiggerTerm(t, a.Term)
    BY <1>1, <2>1, NewTermType DEF RInv
  <2>2. CASE UNCHANGED <<currentTerm, voteFor, state>>
    BY <2>2 DEF RInv, TypeOK
  <2> QED
    BY <2>1, <2>2 DEF HandleAppendEntries
<1>5. /\ log' \in [Servers -> Seq(Entry)] /\ LogIndexed'
      /\ commitIndex' \in [Servers -> Nat]
  <2>1. CASE UNCHANGED <<log, commitIndex>>
    BY <2>1, SameLog DEF RInv, TypeOK
  <2>2. ASSUME NEW pos \in PrevPos(log[t], a),
               log' = [log EXCEPT ![t] = Merge(@, pos, a.Entries)],
               commitIndex' = [commitIndex EXCEPT ![t] =
                   IF @ < a.LeaderCommit
                   THEN Smaller(a.LeaderCommit, Last(log'[t]).Index) ELSE @]
        PROVE  /\ log' \in [Servers -> Seq(Entry)] /\ LogIndexed'
               /\ commitIndex' \in [Servers -> Nat]
    <3>1. pos \in 1 .. Len(log[t]) /\ a.PrevLogIndex = pos - 1
      BY <1>1, <1>2, PrevPosIsPlace
    <3>2. \A i \in DOMAIN a.Entries : a.Entries[i].Index = pos - 1 + i
      BY <3>1 DEF RInv, CallsIndexed, CallIndexed
    <3> DEFINE new == Merge(log[t], pos, a.Entries)
    <3>3. new \in Seq(Entry) /\ Indexed(new)
      BY <1>1, <1>2, <3>1, <3>2, MergeIndexed
    <3> HIDE DEF new, a, t
    <3>4. /\ log' \in [Servers -> Seq(Entry)] /\ log'[t] = new
          /\ \A s \in Servers : Indexed(log'[s])
      <4>1. log' = [log EXCEPT ![t] = new] /\ log \in [Servers -> Seq(Entry)]
        BY <2>2 DEF RInv, TypeOK, new
      <4> QED
        BY <1>1, <3>3, <4>1, PeerLog
    <3>5. Last(log'[t]).Index \in Nat
      BY <3>3, <3>4, LastIsEntry
    <3>6. commitIndex' \in [Servers -> Nat]
      BY <1>1, <2>2, <3>5 DEF RInv, TypeOK, Smaller
    <3> QED
      BY <3>4, <3>6 DEF LogIndexed, Indexed
  <2> QED
    BY <2>1, <2>2 DEF HandleAppendEntries
<1>6. PeerType'
  BY <1>3, <1>4, <1>5 DEF RInv, TypeOK, PeerType
<1>7. panicked' \in BOOLEAN
  BY <1>3 DEF RInv, TypeOK
<1> QED
  BY <1>3, <1>5, <1>6, <1>7

(* A follower handles AppendEntries and its reply is under way. *)
LEMMA AppendEntriesInv == ASSUME RInv, NEW c \in calls, AppendEntries(c) PROVE RInv'
<1>1. PICK success \in BOOLEAN :
        /\ HandleAppendEntries(c.to, c.args, success)
        /\ calls' = Replace(calls, c,
              [c EXCEPT !.phase = "replied",
                        !.reply = [Term |-> Larger(c.args.Term, currentTerm[c.to]),
                                   Ok |-> success]])
  BY DEF AppendEntries
<1> DEFINE reply == [Term |-> Larger(c.args.Term, currentTerm[c.to]), Ok |-> success]
           d == [c EXCEPT !.phase = "replied", !.reply = reply]
<1>2. /\ PeerType' /\ LogIndexed' /\ UNCHANGED <<spawned, elections, jobs, count>>
      /\ panicked' \in BOOLEAN
  BY <1>1, HandleAppendEntriesType
<1>3. c \in Calls /\ c.to \in Servers /\ c.args.Term \in Nat /\ c.phase = "sent"
  BY CallFacts DEF AppendEntries
<1>4. reply \in Replies
  <2>1. currentTerm[c.to] \in Nat
    BY <1>3 DEF RInv, TypeOK
  <2> QED
    BY <1>3, <2>1 DEF Replies, Larger
<1>5. calls' \subseteq calls \cup {d}
  BY <1>1 DEF Replace
<1> HIDE DEF reply
<1>6. /\ d \in Calls /\ d.kind = c.kind /\ d.no = c.no /\ d.from = c.from /\ d.args = c.args
      /\ d.phase = "replied"
  BY <1>3, <1>4 DEF Calls, Phases
<1> HIDE DEF d
<1>7. jobs' \subseteq Jobs /\ calls' \subseteq Calls /\ CallsIndexed' /\ CallsHaveJobs'
  <2>1. c.phase # "late" /\ ~Reading(d)
    BY <1>3, <1>6 DEF Reading
  <2> QED
    BY <1>2, <1>5, <1>6, <2>1, CallKept
<1>8. WorkType'
  BY <1>2, <1>7 DEF RInv, TypeOK, WorkType
<1> QED
  BY <1>2, <1>7, <1>8, TypeParts DEF RInv

(* It may handle a request that nobody waits for. *)
LEMMA lateAppendEntriesInv == ASSUME RInv, NEW c \in calls, lateAppendEntries(c) PROVE RInv'
<1>1. PICK success \in BOOLEAN : HandleAppendEntries(c.to, c.args, success)
  BY DEF lateAppendEntries
<1>2. /\ PeerType' /\ LogIndexed' /\ UNCHANGED <<spawned, elections, jobs, count>>
      /\ panicked' \in BOOLEAN
  BY <1>1, HandleAppendEntriesType
<1>3. jobs' \subseteq Jobs /\ calls' \subseteq Calls /\ CallsIndexed' /\ CallsHaveJobs'
  BY <1>2, CallsEnd DEF lateAppendEntries
<1>4. WorkType'
  BY <1>2, <1>3 DEF RInv, TypeOK, WorkType
<1> QED
  BY <1>2, <1>3, <1>4, TypeParts DEF RInv

(* A Call that failed is given up or sent again; its request may be late. *)
LEMMA AppendEntriesFailsInv == ASSUME RInv, NEW c \in calls, AppendEntriesFails(c) PROVE RInv'
<1> DEFINE late == [c EXCEPT !.phase = "late"]
           again == [Again(c) EXCEPT !.try = @ + 1]
<1>1. LogIndexed' /\ PeerType'
  BY SameLog DEF AppendEntriesFails, peer, RInv, TypeOK, PeerType
<1>2. c \in Calls /\ c.phase # "late"
  BY CallFacts DEF AppendEntriesFails
<1>3. jobs' \subseteq Jobs /\ calls' \subseteq Calls /\ CallsIndexed' /\ CallsHaveJobs'
  <2>1. UNCHANGED jobs /\ calls' \subseteq calls \cup {late, again}
    BY DEF AppendEntriesFails
  <2>2. late \in Calls /\ late.phase = "late" /\ late.args = c.args
    BY <1>2 DEF Calls, Phases
  <2>3. /\ again \in Calls /\ again.kind = c.kind /\ again.no = c.no /\ again.from = c.from
        /\ again.args = Again(c).args /\ again.phase = Again(c).phase
    <3>1. Again(c) \in Calls /\ Again(c).kind = c.kind /\ Again(c).no = c.no
          /\ Again(c).from = c.from
      BY <1>2, AgainFacts
    <3> QED
      BY <3>1 DEF Calls
  <2> HIDE DEF late, again
  <2>4. CallIndexed(late) /\ CallIndexed(again)
    <3>1. CallIndexed(late)
      BY <2>2 DEF RInv, CallsIndexed, CallIndexed, Reading
    <3>2. CallIndexed(Again(c))
      BY <1>2, AgainFacts
    <3>3. CallIndexed(again)
      BY <2>3, <3>2 DEF CallIndexed, Reading
    <3> QED
      BY <3>1, <3>3
  <2>5. again.kind = "commit" => \E k \in jobs' : k.no = again.no /\ k.from = again.from
    BY <1>2, <2>1, <2>3 DEF RInv, CallsHaveJobs
  <2>6. \A d \in {late, again} :
           /\ d \in Calls /\ CallIndexed(d)
           /\ d.kind = "commit" /\ d.phase # "late" =>
                  \E k \in jobs' : k.no = d.no /\ k.from = d.from
    BY <2>2, <2>3, <2>4, <2>5
  <2>7. \A j \in jobs : \E k \in jobs' : k.no = j.no /\ k.from = j.from
    BY <2>1
  <2>8. calls' \subseteq Calls /\ CallsIndexed' /\ CallsHaveJobs'
    BY ONLY ZenonT(20), <2>1, <2>6, <2>7, CallsChange, RInv
  <2> QED
    BY <2>1, <2>8 DEF RInv, TypeOK
<1>4. count' \in [Counted -> Nat]
  BY HappensType DEF AppendEntriesFails, RInv, Counted
<1>5. WorkType'
  BY <1>3, <1>4 DEF AppendEntriesFails, Runs, RInv, TypeOK, WorkType
<1> QED
  BY <1>1, <1>3, <1>5, TypeParts DEF RInv

(* What nextIndex will be is a natural number: after a refusal at least 1. *)
LEMMA SteppedBackType ==
    ASSUME RInv, NEW c \in calls
    PROVE  SteppedBack(c) \in Nat
<1>1. nextIndex[c.from][c.to] \in Nat
  BY CallFacts DEF RInv, TypeOK
<1>2. \A n \in Nat : Larger(n - 1, 1) \in Nat
  BY DEF Larger
<1> QED
  BY <1>1, <1>2 DEF SteppedBack

(* After a success it is at least the place behind the job's entry. *)
LEMMA AdvancedType ==
    ASSUME RInv, NEW c \in calls, c.kind = "commit", c.phase # "late"
    PROVE  Advanced(c) \in Nat
<1>1. nextIndex[c.from][c.to] \in Nat
  BY CallFacts DEF RInv, TypeOK
<1>2. (CHOOSE j \in jobs : j.no = c.no) \in Jobs
  <2>1. \E j \in jobs : j.no = c.no
    BY DEF RInv, CallsHaveJobs
  <2> QED
    BY <2>1 DEF RInv, TypeOK
<1>3. IndexOf(c) \in Nat
  BY <1>2 DEF IndexOf, Jobs
<1>4. \A n, i \in Nat : Larger(n, i + 1) \in Nat
  BY DEF Larger
<1> QED
  BY <1>1, <1>3, <1>4 DEF Advanced

(* A goroutine that has used its reply remembers what nextIndex will be. *)
LEMMA CallWrites ==
    ASSUME RInv, NEW c \in calls, c.phase # "late", NEW n \in Nat,
           calls' = Replace(calls, c, [c EXCEPT !.phase = "write", !.next = n]), UNCHANGED jobs
    PROVE  jobs' \subseteq Jobs /\ calls' \subseteq Calls /\ CallsIndexed' /\ CallsHaveJobs'
<1> DEFINE d == [c EXCEPT !.phase = "write", !.next = n]
<1>1. c \in Calls /\ calls' \subseteq calls \cup {d}
  BY CallFacts DEF Replace
<1>2. /\ d \in Calls /\ d.kind = c.kind /\ d.no = c.no /\ d.from = c.from /\ d.args = c.args
      /\ d.phase = "write"
  BY <1>1 DEF Calls, Phases
<1> HIDE DEF d
<1>3. ~Reading(d)
  BY <1>2 DEF Reading
<1> QED
  BY <1>1, <1>2, <1>3, CallKept

(* A leader uses the answer to a heartbeat. *)
LEMMA heartBeatReplyInv == ASSUME RInv, NEW c \in calls, heartBeatReply(c) PROVE RInv'
<1>1. LogIndexed'
  BY SameLog DEF heartBeatReply
<1>2. jobs' \subseteq Jobs /\ calls' \subseteq Calls /\ CallsIndexed' /\ CallsHaveJobs'
  <2>1. UNCHANGED jobs /\ c.phase # "late"
    BY DEF heartBeatReply
  <2>2. CASE calls' = calls \ {c}
    BY <2>1, <2>2, CallsEnd
  <2>3. CASE calls' = Replace(calls, c, [c EXCEPT !.phase = "write", !.next = SteppedBack(c)])
    BY <2>1, <2>3, SteppedBackType, CallWrites
  <2> QED
    BY <2>2, <2>3 DEF heartBeatReply
<1>3. /\ currentTerm' \in [Servers -> Nat]
      /\ voteFor' \in [Servers -> Servers \cup {None}]
      /\ state' \in [Servers -> {Follower, Candidate, Leader}]
  <2>1. CASE UNCHANGED <<currentTerm, voteFor, state>>
    BY SMTT(30), <2>1 DEF RInv, TypeOK
  <2>2. CASE setNewTermBybiggerTerm(c.from, c.reply.Term)
    BY <2>2, CallFacts, NewTermType DEF RInv
  <2> QED
    BY <2>1, <2>2 DEF heartBeatReply
<1>4. PeerType'
  BY <1>3 DEF heartBeatReply, RInv, TypeOK, PeerType
<1>5. WorkType'
  BY <1>2 DEF heartBeatReply, Runs, RInv, TypeOK, WorkType
<1> QED
  BY <1>1, <1>2, <1>4, <1>5, TypeParts DEF RInv

(* A goroutine of tryToCommit uses its reply: the job is still there. *)
LEMMA commitReplyInv == ASSUME RInv, NEW c \in calls, commitReply(c) PROVE RInv'
<1>1. LogIndexed' /\ PeerType'
  BY SameLog DEF commitReply, peer, RInv, TypeOK, PeerType
<1>2. c \in Calls /\ c.kind = "commit" /\ c.phase # "late" /\ UNCHANGED jobs
  BY CallFacts DEF commitReply
<1>3. jobs' \subseteq Jobs /\ calls' \subseteq Calls /\ CallsIndexed' /\ CallsHaveJobs'
  <2>1. CASE \/ calls' = Replace(calls, c, [c EXCEPT !.phase = "write", !.next = Advanced(c)])
             \/ calls' = Replace(calls, c, [c EXCEPT !.phase = "write", !.next = SteppedBack(c)])
    <3>1. PICK n \in Nat : calls' = Replace(calls, c, [c EXCEPT !.phase = "write", !.next = n])
      BY <1>2, <2>1, AdvancedType, SteppedBackType
    <3> QED
      BY <1>2, <3>1, CallWrites
  <2>2. CASE calls' = Replace(calls, c, [c EXCEPT !.phase = "adopt"])
    <3> DEFINE d == [c EXCEPT !.phase = "adopt"]
    <3>1. /\ d \in Calls /\ d.kind = c.kind /\ d.no = c.no /\ d.from = c.from
          /\ d.args = c.args /\ d.phase = "adopt"
      BY <1>2 DEF Calls, Phases
    <3>2. calls' \subseteq calls \cup {d}
      BY <2>2 DEF Replace
    <3> HIDE DEF d
    <3>3. ~Reading(d)
      BY <3>1 DEF Reading
    <3> QED
      BY <1>2, <3>1, <3>2, <3>3, CallKept
  <2> QED
    BY <2>1, <2>2 DEF commitReply
<1>4. WorkType'
  BY <1>3 DEF commitReply, Runs, RInv, TypeOK, WorkType
<1> QED
  BY <1>1, <1>3, <1>4, TypeParts DEF RInv

(* Who is woken stays the same job otherwise, and is not asleep. *)
LEMMA BroadcastFacts ==
    ASSUME NEW j \in Jobs
    PROVE  /\ Broadcast(j) \in Jobs /\ Broadcast(j).no = j.no /\ Broadcast(j).from = j.from
           /\ Broadcast(j).Counter = j.Counter /\ Broadcast(j).waiter # "asleep"
  BY DEF Broadcast, Jobs

(* nextIndex is written. *)
LEMMA writeNextIndexInv == ASSUME RInv, NEW c \in calls, writeNextIndex(c) PROVE RInv'
<1>1. LogIndexed'
  BY SameLog DEF writeNextIndex
<1>2. c.from \in Servers /\ c.to \in Servers /\ c \in Calls /\ c.next \in Nat
      /\ c.phase # "late"
  BY CallFacts DEF writeNextIndex
<1>3. nextIndex' \in [Servers -> [Servers -> Nat]]
  <2>1. /\ nextIndex \in [Servers -> [Servers -> Nat]]
        /\ nextIndex' = [nextIndex EXCEPT ![c.from][c.to] = c.next]
    BY DEF writeNextIndex, RInv, TypeOK
  <2> QED
    BY SMTT(30), <1>2, <2>1
<1>4. jobs' \subseteq Jobs /\ calls' \subseteq Calls /\ CallsIndexed' /\ CallsHaveJobs'
  <2>1. CASE /\ jobs' = {IF j.no = c.no THEN Broadcast([j EXCEPT !.Counter = @ + 1]) ELSE j :
                           j \in jobs}
             /\ calls' = calls \ {c}
    <3> DEFINE up(j) == IF j.no = c.no THEN Broadcast([j EXCEPT !.Counter = @ + 1]) ELSE j
    <3>1. jobs' = {up(j) : j \in jobs}
      BY <2>1
    <3>2. ASSUME NEW j \in jobs
          PROVE  up(j) \in Jobs /\ up(j).no = j.no /\ up(j).from = j.from
      <4>1. j \in Jobs
        BY DEF RInv, TypeOK
      <4>2. /\ [j EXCEPT !.Counter = @ + 1] \in Jobs
            /\ [j EXCEPT !.Counter = @ + 1].no = j.no
            /\ [j EXCEPT !.Counter = @ + 1].from = j.from
        BY SMTT(30), <4>1 DEF Jobs
      <4> QED
        BY <4>1, <4>2, BroadcastFacts
    <3> HIDE DEF up
    <3>3. jobs' \subseteq Jobs
      BY <3>1, <3>2
    <3>4. \A j \in jobs : \E k \in jobs' : k.no = j.no /\ k.from = j.from
      BY <3>1, <3>2
    <3>5. calls' \subseteq Calls /\ CallsIndexed' /\ CallsHaveJobs'
      BY <2>1, <3>4, JobsKept
    <3> QED
      BY <3>3, <3>5
  <2>2. CASE calls' = Replace(calls, c, Again(c)) /\ UNCHANGED jobs
    <3>1. /\ Again(c) \in Calls /\ Again(c).kind = c.kind /\ Again(c).no = c.no
          /\ Again(c).from = c.from /\ CallIndexed(Again(c))
      BY <1>2, AgainFacts
    <3>2. calls' \subseteq calls \cup {Again(c)}
      BY <2>2 DEF Replace
    <3> QED
      BY <1>2, <2>2, <3>1, <3>2, CallMoves
  <2>3. CASE calls' = calls \ {c} /\ UNCHANGED jobs
    BY <2>3, CallsEnd
  <2> QED
    BY <2>1, <2>2, <2>3 DEF writeNextIndex
<1>5. PeerType'
  BY <1>3 DEF writeNextIndex, RInv, TypeOK, PeerType
<1>6. WorkType'
  BY <1>4 DEF writeNextIndex, Runs, RInv, TypeOK, WorkType
<1> QED
  BY <1>1, <1>4, <1>5, <1>6, TypeParts DEF RInv

(* A goroutine of tryToCommit adopts the term it has read. *)
LEMMA commitAdoptInv == ASSUME RInv, NEW c \in calls, commitAdopt(c) PROVE RInv'
<1>1. LogIndexed'
  BY SameLog DEF commitAdopt
<1>2. jobs' \subseteq Jobs /\ calls' \subseteq Calls /\ CallsIndexed' /\ CallsHaveJobs'
  <2>1. CASE UNCHANGED jobs
    BY <2>1, CallsEnd DEF commitAdopt
  <2>2. CASE jobs' = {IF j.no = c.no THEN Broadcast(j) ELSE j : j \in jobs}
    <3> DEFINE woken(j) == IF j.no = c.no THEN Broadcast(j) ELSE j
    <3>1. jobs' = {woken(j) : j \in jobs}
      BY <2>2
    <3>2. ASSUME NEW j \in jobs
          PROVE  woken(j) \in Jobs /\ woken(j).no = j.no /\ woken(j).from = j.from
      BY SMTT(30), BroadcastFacts DEF RInv, TypeOK
    <3> HIDE DEF woken
    <3>3. jobs' \subseteq Jobs
      BY <3>1, <3>2
    <3>4. \A j \in jobs : \E k \in jobs' : k.no = j.no /\ k.from = j.from
      BY <3>1, <3>2
    <3>5. calls' \subseteq Calls /\ CallsIndexed' /\ CallsHaveJobs'
      BY <3>4, JobsKept DEF commitAdopt
    <3> QED
      BY <3>3, <3>5
  <2> QED
    BY <2>1, <2>2 DEF commitAdopt
<1>3. /\ currentTerm' \in [Servers -> Nat]
      /\ voteFor' \in [Servers -> Servers \cup {None}]
      /\ state' \in [Servers -> {Follower, Candidate, Leader}]
  BY CallFacts, NewTermType DEF commitAdopt, RInv
<1>4. PeerType'
  BY SMTT(30), <1>3 DEF commitAdopt, RInv, TypeOK, PeerType
<1>5. WorkType'
  BY SMTT(30), <1>2 DEF commitAdopt, Runs, RInv, TypeOK, WorkType
<1> QED
  BY <1>1, <1>2, <1>4, <1>5, TypeParts DEF RInv

(* tryToCommit's waiter goes to sleep. *)
LEMMA waitInv == ASSUME RInv, NEW j \in jobs, wait(j) PROVE RInv'
<1>1. LogIndexed' /\ PeerType'
  BY SameLog DEF wait, peer, RInv, TypeOK, PeerType
<1>2. /\ jobs' \subseteq Jobs
      /\ \A i \in jobs : \E k \in jobs' : k.no = i.no /\ k.from = i.from
  BY JobMoves DEF wait
<1>3. calls' \subseteq Calls /\ CallsIndexed' /\ CallsHaveJobs'
  BY <1>2, JobsKept DEF wait
<1>4. WorkType'
  BY <1>2, <1>3 DEF wait, Runs, RInv, TypeOK, WorkType
<1> QED
  BY <1>1, <1>3, <1>4, TypeParts DEF RInv

(* tryToCommit's waiter commits its entry, or gives up. *)
LEMMA commitInv == ASSUME RInv, NEW j \in jobs, commit(j) PROVE RInv'
<1>1. LogIndexed'
  BY SameLog DEF commit
<1>2. /\ jobs' \subseteq Jobs
      /\ \A i \in jobs : \E k \in jobs' : k.no = i.no /\ k.from = i.from
      /\ j.from \in Servers /\ j.index \in Nat
  BY JobMoves DEF commit
<1>3. calls' \subseteq Calls /\ CallsIndexed' /\ CallsHaveJobs'
  BY <1>2, JobsKept DEF commit
<1>4. commitIndex' \in [Servers -> Nat]
  <2>1. commitIndex \in [Servers -> Nat]
    BY DEF RInv, TypeOK
  <2>2. NewCommit(j) \in Nat
    BY <1>2, <2>1 DEF NewCommit, Larger
  <2> QED
    BY <2>1, <2>2 DEF commit
<1>5. PeerType'
  BY <1>4 DEF commit, RInv, TypeOK, PeerType
<1>6. WorkType'
  BY <1>2, <1>3 DEF commit, Runs, RInv, TypeOK, WorkType
<1> QED
  BY <1>1, <1>3, <1>5, <1>6, TypeParts DEF RInv

(* The entries between two places of a log, of which the first may be behind *)
(* its end.                                                                 *)
LEMMA PlacesBetween ==
    ASSUME NEW len \in Nat, NEW last \in Nat, NEW applied \in Nat,
           NEW n, n = Smaller(last, len - 1) - applied
    PROVE  /\ n \in Int
           /\ \A i \in 1 .. n : applied + i + 1 \in 1 .. len
  BY DEF Smaller

(* A command for each of n places, none if n is negative. *)
LEMMA CommandsSeq ==
    ASSUME NEW n \in Int, NEW f, \A i \in 1 .. n : f[i] \in Nat
    PROVE  [i \in 1 .. n |-> f[i]] \in Seq(Nat)
<1>1. CASE n \in Nat
  BY <1>1
<1>2. CASE n \notin Nat
  <2>1. 1 .. n = 1 .. 0
    BY <1>2
  <2> QED
    BY SMTT(30), <2>1
<1> QED
  BY <1>1, <1>2

(* The applier sends the committed commands up to one that is not there. *)
LEMMA applierInv == ASSUME RInv, NEW s \in Servers, applier(s) PROVE RInv'
<1>1. jobs' \subseteq Jobs /\ calls' \subseteq Calls /\ CallsIndexed' /\ CallsHaveJobs' /\ LogIndexed'
  BY SameCalls, SameLog DEF applier
<1> DEFINE lg == log[s]
           n == Smaller(commitIndex[s], Len(lg) - 1) - lastApplied[s]
           f == [i \in 1 .. n |-> lg[lastApplied[s] + i + 1].Command]
<1>2. /\ lg \in Seq(Entry) /\ Len(lg) \in Nat /\ commitIndex[s] \in Nat
      /\ lastApplied[s] \in Nat /\ logs \in [Servers -> Seq(Nat)]
  BY PeerLog, LastIsEntry DEF RInv, TypeOK
<1>3. /\ lastApplied' = [lastApplied EXCEPT ![s] =
            Smaller(commitIndex[s], Larger(lastApplied[s] + 1, Len(lg)))]
      /\ logs' = [logs EXCEPT ![s] = @ \o f]
      /\ panicked' \in BOOLEAN
  BY DEF applier, readApplyCh
<1> HIDE DEF lg
<1>4. lastApplied' \in [Servers -> Nat]
  <2>1. Smaller(commitIndex[s], Larger(lastApplied[s] + 1, Len(lg))) \in Nat
    BY <1>2 DEF Smaller, Larger
  <2> QED
    BY <1>3, <2>1 DEF RInv, TypeOK
<1>5. logs' \in [Servers -> Seq(Nat)]
  <2>1. n \in Int /\ \A i \in 1 .. n : lastApplied[s] + i + 1 \in 1 .. Len(lg)
    BY <1>2, PlacesBetween
  <2>2. ASSUME NEW i \in 1 .. n PROVE f[i] \in Nat
    <3>1. lg[lastApplied[s] + i + 1] \in Entry
      BY <1>2, <2>1, SeqElement
    <3> HIDE DEF n
    <3>2. f[i] = lg[lastApplied[s] + i + 1].Command
      OBVIOUS
    <3> QED
      BY <3>1, <3>2 DEF Entry
  <2> HIDE DEF n
  <2>3. f = [i \in 1 .. n |-> f[i]]
    OBVIOUS
  <2> HIDE DEF f
  <2>4. f \in Seq(Nat)
    BY <2>1, <2>2, <2>3, CommandsSeq
  <2>5. logs[s] \o f \in Seq(Nat)
    BY <1>2, <2>4, SeqConcat
  <2> QED
    BY <1>2, <1>3, <2>5
<1>6. PeerType'
  BY <1>4, <1>5 DEF applier, RInv, TypeOK, PeerType
<1>7. WorkType'
  BY <1>1, <1>3 DEF applier, RInv, TypeOK, WorkType
<1> QED
  BY <1>1, <1>6, <1>7, TypeParts DEF RInv

(* A restarted peer starts from the dummy entry.  Of its goroutines only     *)
(* late requests are left, and with its tryToCommits their Calls are gone.  *)
LEMMA RestartInv == ASSUME RInv, NEW s \in Servers, Restart(s) PROVE RInv'
<1>1. count' \in [Counted -> Nat]
  BY HappensType DEF Restart, RInv, Counted
<1>2. <<Dummy>> \in Seq(Entry) /\ Indexed(<<Dummy>>)
  BY DEF Dummy, Entry, Indexed
<1>3. log' \in [Servers -> Seq(Entry)] /\ LogIndexed'
  <2>1. log' = [log EXCEPT ![s] = <<Dummy>>] /\ log \in [Servers -> Seq(Entry)]
    BY DEF Restart, RInv, TypeOK
  <2>2. \A t \in Servers : Indexed(log'[t])
    BY SMTT(30), <1>2, <2>1, PeerLog
  <2> QED
    BY SMTT(30), <1>2, <2>1, <2>2 DEF LogIndexed, Indexed
<1>4. logs' \in [Servers -> Seq(Nat)]
  <2>1. <<>> \in Seq(Nat)
    BY SMTT(30), SeqEmpty
  <2> QED
    BY <2>1 DEF Restart, newRfsrv, RInv, TypeOK
<1>5. /\ currentTerm' \in [Servers -> Nat] /\ commitIndex' \in [Servers -> Nat]
      /\ lastApplied' \in [Servers -> Nat]
      /\ nextIndex' \in [Servers -> [Servers -> Nat]]
  BY SMTT(30) DEF Restart, RInv, TypeOK
<1>6. voteFor' \in [Servers -> Servers \cup {None}]
  BY SMTT(30) DEF Restart, RInv, TypeOK
<1>7. /\ state' \in [Servers -> {Follower, Candidate, Leader}]
      /\ spawned' \in [Servers -> [Goroutines -> Nat]]
  <2>1. state' \in [Servers -> {Follower, Candidate, Leader}]
    BY DEF Restart, RInv, TypeOK
  <2>2. [g \in Goroutines |-> 0] \in [Goroutines -> Nat]
    OBVIOUS
  <2>3. spawned' \in [Servers -> [Goroutines -> Nat]]
    BY <2>2 DEF Restart, RInv, TypeOK
  <2> QED
    BY <2>1, <2>3
<1>8. jobs' \subseteq Jobs
  BY DEF Restart, RInv, TypeOK
<1>9. elections' \subseteq Elections
  <2> DEFINE cutOff(e) == [e EXCEPT !.ballot[s] =
                 IF @.phase = "late" THEN [phase |-> "counted", reply |-> NoReply] ELSE @]
  <2>1. elections' = {IF e.from = s THEN Remains(e) ELSE cutOff(e) : e \in elections}
    BY DEF Restart
  <2>2. ASSUME NEW e \in elections PROVE Remains(e) \in Elections /\ cutOff(e) \in Elections
    <3>1. e \in Elections /\ e.ballot \in [Servers -> Ballots]
      BY ElectionFacts
    <3>2. Remains(e) \in Elections
      BY <3>1, RemainsFacts
    <3> DEFINE b == IF e.ballot[s].phase = "late" THEN [phase |-> "counted", reply |-> NoReply]
                    ELSE e.ballot[s]
    <3>3. b \in Ballots
      BY <3>1 DEF Ballots, Replies, NoReply
    <3>4. cutOff(e) = [e EXCEPT !.ballot[s] = b]
      BY <3>1 DEF Elections
    <3> HIDE DEF b
    <3>5. [e EXCEPT !.ballot[s] = b] \in Elections
      BY <3>1, <3>3 DEF Elections
    <3> QED
      BY <3>2, <3>4, <3>5
  <2> HIDE DEF cutOff
  <2> QED
    BY <2>1, <2>2
<1> DEFINE sent == {c \in calls : c.from = s /\ c.phase \in {"sent", "late"}}
           late == {[c EXCEPT !.phase = "late"] : c \in sent}
<1>10. ASSUME NEW d \in late PROVE d \in Calls /\ d.phase = "late" /\ CallIndexed(d)
  <2>1. PICK c \in calls : d = [c EXCEPT !.phase = "late"]
    OBVIOUS
  <2>2. c \in Calls /\ CallIndexed(c)
    BY DEF RInv, TypeOK, CallsIndexed
  <2>3. d \in Calls /\ d.phase = "late" /\ d.args = c.args
    BY <2>1, <2>2 DEF Calls, Phases
  <2> QED
    BY <2>2, <2>3 DEF CallIndexed, Reading
<1>11. ASSUME NEW d \in calls' PROVE d \in late \/ (d \in calls /\ d.from # s)
  BY DEF Restart
<1> HIDE DEF late
<1>12. calls' \subseteq Calls /\ CallsIndexed'
  <2>1. \A d \in calls' : d \in Calls /\ CallIndexed(d)
    BY <1>10, <1>11 DEF RInv, TypeOK, CallsIndexed
  <2> QED
    BY <2>1 DEF CallsIndexed, CallIndexed, Reading
<1>13. CallsHaveJobs'
  <2> SUFFICES ASSUME NEW b \in calls', b.kind = "commit", b.phase # "late"
               PROVE  \E k \in jobs' : k.no = b.no /\ k.from = b.from
    BY SMTT(30) DEF CallsHaveJobs
  <2>1. b \in calls /\ b.from # s
    BY <1>10, <1>11
  <2>2. PICK j \in jobs : j.no = b.no /\ j.from = b.from
    BY SMTT(30), <2>1 DEF RInv, CallsHaveJobs
  <2>3. j \in jobs'
    BY SMTT(30), <2>1, <2>2 DEF Restart
  <2> QED
    BY <2>2, <2>3
<1>14. PeerType'
  BY <1>3, <1>4, <1>5, <1>6, <1>7 DEF PeerType
<1>15. WorkType'
  BY <1>1, <1>7, <1>8, <1>9, <1>12 DEF Restart, Runs, RInv, TypeOK, WorkType
<1> QED
  BY <1>3, <1>12, <1>13, <1>14, <1>15, TypeParts DEF RInv
-----------------------------------------------------------------------------
(* The peers that Make builds satisfy the invariant. *)
LEMMA InitInv == Init => RInv
<1> SUFFICES ASSUME Init PROVE RInv
  OBVIOUS
<1>1. <<Dummy>> \in Seq(Entry) /\ Indexed(<<Dummy>>)
  BY DEF Dummy, Entry, Indexed
<1>2. log \in [Servers -> Seq(Entry)] /\ LogIndexed
  BY <1>1 DEF Init, Make, LogIndexed, Indexed
<1>3. logs \in [Servers -> Seq(Nat)]
  <2>1. <<>> \in Seq(Nat)
    BY SeqEmpty
  <2> QED
    BY <2>1 DEF Init
<1>4. PeerType
  BY <1>2, <1>3 DEF Init, Make, PeerType
<1>5. WorkType
  <2>1. spawned \in [Servers -> [Goroutines -> Nat]]
    BY DEF Init
  <2> QED
    BY <2>1 DEF Init, WorkType
<1>6. CallsIndexed /\ CallsHaveJobs
  BY DEF Init, CallsIndexed, CallsHaveJobs
<1> QED
  BY <1>2, <1>4, <1>5, <1>6, TypeParts DEF RInv

(* Every step of a peer, of a goroutine or of the network preserves it. *)
LEMMA NextInv == RInv /\ [Next]_vars => RInv'
<1> SUFFICES ASSUME RInv, [Next]_vars PROVE RInv'
  OBVIOUS
<1>1. CASE ElectionStep
  BY <1>1, tickerInv, becomeCandidateInv, RequestVoteInv, RequestVoteReplyInv,
     RequestVoteFailsInv, becomeLeaderInv, electionOverInv DEF ElectionStep, ElectionWork
<1>2. CASE ReplicationStep
  BY <1>2, sendHeartBeatInv, StartInv, applierInv, readLeaderCommitInv, readPrevLogIndexInv,
     readPrevLogTermInv, readEntriesInv, AppendEntriesInv, lateAppendEntriesInv,
     AppendEntriesFailsInv, heartBeatReplyInv, commitReplyInv, writeNextIndexInv,
     commitAdoptInv, tryToCommitInv, waitInv, commitInv DEF ReplicationStep, ReplicationWork
<1>3. CASE \E s \in Servers : Restart(s)
  BY SMTT(30), <1>3, RestartInv
<1>4. CASE UNCHANGED vars
  <2>1. PeerType' /\ WorkType'
    BY <1>4 DEF vars, peer, RInv, TypeOK, PeerType, WorkType
  <2>2. LogIndexed' /\ CallsIndexed' /\ CallsHaveJobs'
    BY <1>4, SameLog, SameCalls DEF vars, peer
  <2> QED
    BY <2>1, <2>2, TypeParts DEF RInv
<1> QED
  BY <1>1, <1>2, <1>3, <1>4 DEF Next

(* Raft's peers, goroutines and Calls keep to their types, whatever is      *)
(* read and written without rf.mu.                                          *)
THEOREM TypeCorrect == Spec => []TypeOK
<1>1. RInv => TypeOK
  BY DEF RInv
<1> QED
  BY <1>1, InitInv, NextInv, PTL DEF Spec

(* The Index stored in an entry is its place in the log, for any number of  *)
(* peers, leaders, overwritten entries, lost Calls and restarts: len(rf.log) *)
(* in Start and rf.log[lastApplied] in the applier mean what they should.   *)
THEOREM EntriesInPlace == Spec => []LogIndexed
<1>1. RInv => LogIndexed
  BY DEF RInv
<1> QED
  BY <1>1, InitInv, NextInv, PTL DEF Spec

(* A step that starts no sleeper and wakes those it counts for. *)
LEMMA NextWakes == RInv /\ MajorityWakes /\ [Next]_vars => MajorityWakes'
<1> SUFFICES ASSUME RInv, MajorityWakes, [Next]_vars PROVE MajorityWakes'
  OBVIOUS
<1>0. jobs \subseteq Jobs
  BY DEF RInv, TypeOK
<1>1. CASE jobs' \subseteq jobs
  BY <1>1 DEF MajorityWakes
<1>2. ASSUME NEW j \in jobs, NEW w \in {"waiting", "asleep", "done"},
             jobs' = Replace(jobs, j, [j EXCEPT !.waiter = w]),
             w = "asleep" => ~Majority(j.Counter)
      PROVE  MajorityWakes'
  <2> DEFINE k == [j EXCEPT !.waiter = w]
  <2>1. k.waiter = w /\ k.Counter = j.Counter /\ jobs' \subseteq jobs \cup {k}
    BY <1>0, <1>2 DEF Jobs, Replace
  <2> HIDE DEF k
  <2>2. ASSUME NEW i \in jobs', i.waiter = "asleep" PROVE ~Majority(i.Counter)
    BY <1>2, <2>1, <2>2 DEF MajorityWakes
  <2> QED
    BY <2>2 DEF MajorityWakes, Majority
<1>3. ASSUME NEW s \in Servers, Start(s) PROVE MajorityWakes'
  <2>1. PICK k : k.waiter = "start" /\ jobs' = jobs \cup {k}
    BY <1>3 DEF Start
  <2>2. ASSUME NEW i \in jobs', i.waiter = "asleep" PROVE ~Majority(i.Counter)
    BY <2>1, <2>2 DEF MajorityWakes
  <2> QED
    BY <2>2 DEF MajorityWakes, Majority
<1>4. ASSUME NEW j \in jobs, tryToCommit(j) \/ wait(j) \/ commit(j) PROVE MajorityWakes'
  BY <1>2, <1>4 DEF tryToCommit, wait, commit
<1>5. ASSUME NEW c \in calls, writeNextIndex(c) PROVE MajorityWakes'
  <2>1. CASE UNCHANGED jobs
    BY <1>1, <2>1
  <2>2. CASE jobs' = {IF j.no = c.no THEN Broadcast([j EXCEPT !.Counter = @ + 1]) ELSE j :
                        j \in jobs}
    <3>1. ASSUME NEW i \in jobs', i.waiter = "asleep" PROVE ~Majority(i.Counter)
      <4>1. PICK j \in jobs : i = IF j.no = c.no THEN Broadcast([j EXCEPT !.Counter = @ + 1])
                                 ELSE j
        BY <2>2, <3>1
      <4>2. [j EXCEPT !.Counter = @ + 1] \in Jobs
        BY SMTT(30), <1>0 DEF Jobs
      <4>3. Broadcast([j EXCEPT !.Counter = @ + 1]).waiter # "asleep"
        BY <4>2, BroadcastFacts
      <4>4. i = j
        BY <3>1, <4>1, <4>3
      <4> QED
        BY <3>1, <4>4 DEF MajorityWakes
    <3> QED
      BY <3>1 DEF MajorityWakes, Majority
  <2> QED
    BY <1>5, <2>1, <2>2 DEF writeNextIndex
<1>6. ASSUME NEW c \in calls, commitAdopt(c) PROVE MajorityWakes'
  <2>1. CASE UNCHANGED jobs
    BY <1>1, <2>1
  <2>2. CASE jobs' = {IF j.no = c.no THEN Broadcast(j) ELSE j : j \in jobs}
    <3>1. ASSUME NEW i \in jobs', i.waiter = "asleep" PROVE ~Majority(i.Counter)
      <4>1. PICK j \in jobs : i = IF j.no = c.no THEN Broadcast(j) ELSE j
        BY <2>2, <3>1
      <4>2. i = j
        BY <1>0, <3>1, <4>1, BroadcastFacts
      <4> QED
        BY <3>1, <4>2 DEF MajorityWakes
    <3> QED
      BY <3>1 DEF MajorityWakes, Majority
  <2> QED
    BY <1>6, <2>1, <2>2 DEF commitAdopt
<1>7. CASE ElectionStep
  <2>1. UNCHANGED jobs
    BY ZenonT(40), <1>7 DEF ElectionStep, ElectionWork, ticker, becomeCandidate, RequestVote, RequestVoteReply,
                RequestVoteFails, becomeLeader, electionOver
  <2> QED
    BY SMTT(30), <1>1, <2>1
<1>8. ASSUME NEW c \in calls,
             \/ readLeaderCommit(c) \/ readPrevLogIndex(c) \/ readPrevLogTerm(c)
             \/ readEntries(c) \/ AppendEntries(c) \/ lateAppendEntries(c)
             \/ AppendEntriesFails(c) \/ heartBeatReply(c) \/ commitReply(c)
      PROVE  MajorityWakes'
  <2>1. UNCHANGED jobs
    BY <1>8 DEF readLeaderCommit, readPrevLogIndex, readPrevLogTerm, readEntries, Reads,
                AppendEntries, lateAppendEntries, HandleAppendEntries,
                AppendEntriesFails, heartBeatReply, commitReply
  <2> QED
    BY <1>1, <2>1
<1>9. ASSUME NEW s \in Servers, sendHeartBeat(s) \/ applier(s) \/ Restart(s)
      PROVE  MajorityWakes'
  <2>1. jobs' \subseteq jobs
    BY <1>9 DEF sendHeartBeat, applier, Restart
  <2> QED
    BY <1>1, <2>1
<1>10. CASE UNCHANGED vars
  BY <1>1, <1>10 DEF vars
<1> QED
  BY <1>3, <1>4, <1>5, <1>6, <1>7, <1>8, <1>9, <1>10
     DEF Next, ReplicationStep, ReplicationWork

(* No waiter of tryToCommit sleeps on an entry that a majority has          *)
(* appended, for any number of peers, commands, lost Calls and restarts.    *)
THEOREM NoLostMajority == Spec => []MajorityWakes
<1>1. Init => MajorityWakes
  BY SMTT(30) DEF Init, MajorityWakes
<1> QED
  BY <1>1, InitInv, NextInv, NextWakes, PTL DEF Spec

(* Each step raises a term, leaves it, or is one of the two that lower it.  *)
LEMMA NextTerms ==
    RInv /\ [Next]_vars =>
        \A s \in Servers :
          \/ currentTerm'[s] >= currentTerm[s]
          \/ count'["restarts"] > count["restarts"]
          \/ \E c \in calls : c.from = s /\ c.phase = "adopt" /\ c \notin calls'
<1> DEFINE Grows == \A s \in Servers : currentTerm'[s] >= currentTerm[s]
           Fell(s) == \E c \in calls : c.from = s /\ c.phase = "adopt" /\ c \notin calls'
<1> SUFFICES ASSUME RInv, [Next]_vars
             PROVE  \/ Grows
                    \/ count'["restarts"] > count["restarts"]
                    \/ \A s \in Servers : currentTerm'[s] >= currentTerm[s] \/ Fell(s)
  OBVIOUS
<1>0. currentTerm \in [Servers -> Nat] /\ elections \subseteq Elections /\ calls \subseteq Calls
  BY DEF RInv, TypeOK
<1>1. CASE UNCHANGED currentTerm
  BY <1>0, <1>1
<1>2. ASSUME NEW s \in Servers, becomeCandidate(s) PROVE Grows
  <2>1. currentTerm' = [currentTerm EXCEPT ![s] = currentTerm[s] + 1]
    BY <1>2 DEF becomeCandidate
  <2> QED
    BY SMTT(30), <1>0, <2>1
<1>3. ASSUME NEW e \in elections, NEW t \in Servers, RequestVote(e, t) PROVE Grows
  <2>1. currentTerm' = [currentTerm EXCEPT ![t] = Larger(e.Term, currentTerm[t])]
    BY <1>3 DEF RequestVote
  <2>2. e.Term \in Nat
    BY <1>0 DEF Elections
  <2> QED
    BY <1>0, <2>1, <2>2 DEF Larger
<1>4. ASSUME NEW e \in elections, NEW t \in Servers, RequestVoteReply(e, t) PROVE Grows
  <2>1. e.from \in Servers /\ e.ballot[t].reply.Term \in Nat
    BY <1>0 DEF Elections, Ballots, Replies
  <2> QED
    BY <1>0, <1>4, <2>1 DEF RequestVoteReply, AdoptBigger, setNewTermBybiggerTerm
<1>5. ASSUME NEW c \in calls, AppendEntries(c) \/ lateAppendEntries(c) PROVE Grows
  <2>1. c.to \in Servers /\ c.args.Term \in Nat
    BY <1>0 DEF Calls, AppendEntriesArgs
  <2>2. \/ UNCHANGED currentTerm
        \/ c.args.Term >= currentTerm[c.to] /\ setNewTermBybiggerTerm(c.to, c.args.Term)
    BY <1>5 DEF AppendEntries, lateAppendEntries, HandleAppendEntries
  <2> QED
    BY SMTT(30), <1>0, <2>1, <2>2 DEF setNewTermBybiggerTerm
<1>6. ASSUME NEW c \in calls, heartBeatReply(c) PROVE Grows
  <2>1. c.from \in Servers /\ c.reply.Term \in Nat
    BY SMTT(30), <1>0 DEF Calls, Replies
  <2>2. \/ UNCHANGED currentTerm
        \/ c.reply.Term > currentTerm[c.from] /\ setNewTermBybiggerTerm(c.from, c.reply.Term)
    BY <1>6 DEF heartBeatReply
  <2> QED
    BY SMTT(30), <1>0, <2>1, <2>2 DEF setNewTermBybiggerTerm
<1>7. ASSUME NEW c \in calls, commitAdopt(c)
      PROVE  \A s \in Servers : currentTerm'[s] >= currentTerm[s] \/ Fell(s)
  <2>1. /\ currentTerm' = [currentTerm EXCEPT ![c.from] = c.reply.Term]
        /\ c.phase = "adopt" /\ c \notin calls'
    BY <1>7 DEF commitAdopt, setNewTermBybiggerTerm
  <2>2. Fell(c.from)
    BY SMTT(30), <2>1
  <2> HIDE DEF Fell
  <2> QED
    BY SMTT(30), <1>0, <2>1, <2>2
<1>8. ASSUME NEW s \in Servers, Restart(s) PROVE count'["restarts"] > count["restarts"]
  BY SMTT(30), <1>8 DEF Restart, Happens, RInv, TypeOK, Counted
<1>9. CASE \/ \E s \in Servers : ticker(s) \/ sendHeartBeat(s) \/ Start(s) \/ applier(s)
           \/ \E e \in elections : becomeLeader(e) \/ electionOver(e)
           \/ \E e \in elections, t \in Servers : RequestVoteFails(e, t)
           \/ \E c \in calls : \/ readLeaderCommit(c) \/ readPrevLogIndex(c)
                                \/ readPrevLogTerm(c) \/ readEntries(c)
                                \/ AppendEntriesFails(c) \/ commitReply(c) \/ writeNextIndex(c)
           \/ \E j \in jobs : tryToCommit(j) \/ wait(j) \/ commit(j)
           \/ UNCHANGED vars
  <2>1. UNCHANGED currentTerm
    BY <1>9 DEF ticker, sendHeartBeat, Start, applier, becomeLeader, electionOver,
                RequestVoteFails, readLeaderCommit, readPrevLogIndex, readPrevLogTerm,
                readEntries, Reads, AppendEntriesFails, commitReply, writeNextIndex,
                tryToCommit, wait, commit, vars, peer
  <2> QED
    BY SMTT(30), <1>1, <2>1
<1> QED
  BY <1>2, <1>3, <1>4, <1>5, <1>6, <1>7, <1>8, <1>9
     DEF Next, ElectionStep, ElectionWork, ReplicationStep, ReplicationWork

(* Whatever is delayed, reordered or lost, a peer's term falls only by a    *)
(* restart or by tryToCommit's unlocked adoption of a term.                 *)
THEOREM TermsFallNowhereElse == Spec => TermsGrow
<1>1. RInv /\ [Next]_vars =>
        [\A s \in Servers :
          \/ currentTerm'[s] >= currentTerm[s]
          \/ count'["restarts"] > count["restarts"]
          \/ \E c \in calls : c.from = s /\ c.phase = "adopt" /\ c \notin calls']_vars
  BY NextTerms
<1> QED
  BY <1>1, InitInv, NextInv, PTL DEF Spec, TermsGrow
-----------------------------------------------------------------------------
(***************************************************************************)
(* The first reign: as long as only one election has been called and no    *)
(* peer has been restarted.  Here is its invariant, what it says and how    *)
(* it survives the election; module RaftReignProofs has the replication.   *)
(***************************************************************************)
(* An election, a Call and a tryToCommit of L in its term n. *)
ElectionOf(e, L, n) ==
    /\ e.from = L /\ e.Term = n
    /\ \A t \in Servers : e.ballot[t].reply.Term <= n

CallOf(c, L, n) ==
    /\ c.from = L /\ c.to # L /\ c.args.Term = n
    /\ c.reply.Term <= n /\ c.phase # "adopt"

JobOf(j, L, n) == j.from = L /\ j.term = n

(* Only L has stood for election, and everything that is under way is its. *)
Alone(L) ==
    /\ currentTerm[L] = count["elections"]
    /\ \A s \in Servers :
          /\ currentTerm[s] <= currentTerm[L]
          /\ s # L => state[s] = Follower /\ spawned[s]["sendHeartBeat"] = 0
    /\ \A e \in elections : ElectionOf(e, L, currentTerm[L])
    /\ \A c \in calls : CallOf(c, L, currentTerm[L])
    /\ \A j \in jobs : JobOf(j, L, currentTerm[L])

(* Before the election there is nothing. *)
Idle(L) ==
    /\ elections = {} /\ calls = {} /\ jobs = {}
    /\ state[L] # Leader /\ spawned[L]["sendHeartBeat"] = 0

(* Once L leads, nextIndex points into its log. *)
Leads(L) ==
    state[L] = Leader \/ spawned[L]["sendHeartBeat"] # 0 \/ calls # {} \/ jobs # {}

NextInLog(L) == \A t \in Servers : nextIndex[L][t] \in 1 .. Len(log[L])

IsPrefix(lg, big) ==
    /\ Len(lg) <= Len(big)
    /\ \A i \in 1 .. Len(lg) : lg[i] = big[i]

(* How far a log reaches that has taken the entries of a Call. *)
Reach(c) == c.args.PrevLogIndex + 1 + Len(c.args.Entries)

(* A Call carries a piece of L's log, and writes a place of it to nextIndex. *)
Carries(c, L) ==
    /\ c.args.PrevLogIndex \in Nat /\ Reach(c) <= Len(log[L])
    /\ \A i \in DOMAIN c.args.Entries : c.args.Entries[i] = log[L][c.args.PrevLogIndex + 1 + i]
    /\ c.args.LeaderCommit <= commitIndex[L]
    /\ c.phase \in {"replied", "write"} /\ c.reply.Ok => Reach(c) <= Len(log[c.to])
    /\ c.phase = "write" => c.next \in 1 .. Len(log[L])

Replicates(L) ==
    /\ \A s \in Servers : IsPrefix(log[s], log[L])
    /\ \A c \in calls : Carries(c, L)

(* A goroutine of tryToCommit, and one that still sends to t. *)
Tries(c) == c.kind = "commit" /\ c.phase # "late"

Sends(c, j, t) == Tries(c) /\ c.no = j.no /\ c.to = t

(* The peers that tryToCommit has counted. *)
Acked(j, L) ==
    {t \in Servers \ {L} : Len(log[t]) > j.index /\ \A c \in calls : ~Sends(c, j, t)}

JobsCount(L) ==
    /\ \A j \in jobs :
          /\ j.no < count["starts"]
          /\ j.index < Len(log[L])
          /\ j.waiter = "start" => j.Counter = 1
          /\ j.Counter <= 1 + Cardinality(Acked(j, L))
    /\ \A j, k \in jobs : j.no = k.no => j = k

CallsCount ==
    /\ \A c \in calls : Tries(c) =>
          \A j \in jobs : j.no = c.no =>
              /\ j.waiter # "start"
              /\ ~Reading(c) => j.index < Reach(c)
    /\ \A c, d \in calls : Tries(c) /\ Tries(d) /\ c.no = d.no /\ c.to = d.to => c = d

(* The peers whose logs reach beyond i. *)
Holders(i) == {t \in Servers : Len(log[t]) > i}

Commits(L) ==
    /\ \A s \in Servers : commitIndex[s] <= commitIndex[L] /\ commitIndex[s] < Len(log[s])
    /\ Majority(Cardinality(Holders(commitIndex[L])))

(* What a peer has applied is the beginning of L's log. *)
Applies(L) ==
    \A s \in Servers :
        /\ lastApplied[s] <= commitIndex[s]
        /\ Len(logs[s]) = lastApplied[s]
        /\ \A i \in 1 .. Len(logs[s]) : logs[s][i] = log[L][i + 1].Command

Reign(L) ==
    /\ Alone(L)
    /\ count["elections"] = 0 => Idle(L)
    /\ Leads(L) => NextInLog(L)
    /\ Replicates(L)
    /\ JobsCount(L) /\ CallsCount
    /\ Commits(L) /\ Applies(L)
    /\ ~panicked

(* The inductive invariant.  Before the election any peer may be L. *)
ReignInv ==
    FirstReign =>
        IF count["elections"] = 0 THEN \A L \in Servers : Reign(L)
        ELSE \E L \in Servers : Reign(L)

(* What the argument uses of the sizes of sets of peers.  The steps take it *)
(* as a hypothesis; PeersCount proves it.                                   *)
PeerCounts ==
    /\ Cardinality({}) = 0
    /\ \A S \in SUBSET Servers :
          /\ Cardinality(S) \in Nat
          /\ \A T \in SUBSET Servers : S \subseteq T => Cardinality(S) <= Cardinality(T)
          /\ \A t \in Servers : t \notin S => Cardinality(S \cup {t}) = Cardinality(S) + 1

(* Types of what the steps read. *)
LEMMA Types ==
    ASSUME RInv
    PROVE  /\ currentTerm \in [Servers -> Nat]
           /\ state \in [Servers -> {Follower, Candidate, Leader}]
           /\ log \in [Servers -> Seq(Entry)]
           /\ commitIndex \in [Servers -> Nat] /\ lastApplied \in [Servers -> Nat]
           /\ nextIndex \in [Servers -> [Servers -> Nat]]
           /\ logs \in [Servers -> Seq(Nat)]
           /\ spawned \in [Servers -> [Goroutines -> Nat]]
           /\ elections \subseteq Elections /\ jobs \subseteq Jobs /\ calls \subseteq Calls
           /\ panicked \in BOOLEAN /\ count \in [Counted -> Nat]
           /\ \A s \in Servers : /\ Len(log[s]) \in Nat \ {0}
                                 /\ DOMAIN log[s] = 1 .. Len(log[s])
                                 /\ Last(log[s]).Index = Len(log[s]) - 1
<1>1. ASSUME NEW s \in Servers
      PROVE  /\ Len(log[s]) \in Nat \ {0} /\ DOMAIN log[s] = 1 .. Len(log[s])
             /\ Last(log[s]).Index = Len(log[s]) - 1
  <2>1. Len(log[s]) \in Nat \ {0} /\ DOMAIN log[s] = 1 .. Len(log[s])
    BY PeerLog, LastIsEntry
  <2> QED
    BY SMTT(30), <2>1, PeerLog DEF Indexed, Last
<1> QED
  BY <1>1 DEF RInv, TypeOK
-----------------------------------------------------------------------------
(***************************************************************************)
(* What the invariant says                                                 *)
(***************************************************************************)
(* The beginnings of two prefixes of a log are the same. *)
LEMMA SamePrefix ==
    ASSUME NEW p \in Seq(Entry), NEW q \in Seq(Entry), NEW big \in Seq(Entry),
           IsPrefix(p, big), IsPrefix(q, big), NEW n \in Nat, n <= Len(p), n <= Len(q)
    PROVE  SubSeq(p, 1, n) = SubSeq(q, 1, n)
<1>1. Len(p) \in Nat /\ Len(q) \in Nat
  BY SeqLength
<1>2. \A i \in 1 .. n : p[i] = q[i] /\ p[i] \in Entry /\ q[i] \in Entry
  <2> SUFFICES ASSUME NEW i \in 1 .. n PROVE p[i] = q[i] /\ p[i] \in Entry /\ q[i] \in Entry
    OBVIOUS
  <2>1. i \in 1 .. Len(p) /\ i \in 1 .. Len(q)
    BY <1>1
  <2> QED
    BY <2>1, SeqElement DEF IsPrefix
<1>3. \A r : SubSeq(r, 1, n) = [i \in 1 .. n |-> r[1 + i - 1]]
  OBVIOUS
<1>4. \A i \in 1 .. n : 1 + i - 1 = i
  OBVIOUS
<1> QED
  BY SMTT(30), <1>2, <1>3, <1>4

(* In the first reign some peer reigns, before its election too. *)
LEMMA Reigns ==
    ASSUME ReignInv, FirstReign
    PROVE  \E L \in Servers : Reign(L)
  BY RaftAssumption DEF ReignInv

(* What follows of the five invariants from L's reign. *)
LEMMA ReignMeans ==
    ASSUME PeerCounts, RInv, NEW L \in Servers, Reign(L)
    PROVE  /\ NoPanic /\ LogMatching /\ CommittedOnMajority
           /\ AcknowledgedHeld /\ StateMachineSafety
<1>1. NoPanic
  BY DEF Reign, NoPanic
<1>0. \A s \in Servers : /\ log[s] \in Seq(Entry) /\ log[L] \in Seq(Entry)
                         /\ Len(log[s]) \in Nat /\ DOMAIN log[s] = 1 .. Len(log[s])
                         /\ commitIndex[s] \in Nat
                         /\ IsPrefix(log[s], log[L])
                         /\ DOMAIN logs[s] = 1 .. Len(logs[s])
  BY Types, SeqLength DEF Reign, Replicates
<1>2. LogMatching
  <2> SUFFICES ASSUME NEW s \in Servers, NEW t \in Servers,
                      NEW i \in DOMAIN log[s] \cap DOMAIN log[t]
               PROVE  SubSeq(log[s], 1, i) = SubSeq(log[t], 1, i)
    BY DEF LogMatching
  <2>1. i \in Nat /\ i <= Len(log[s]) /\ i <= Len(log[t])
    BY <1>0
  <2> QED
    BY <1>0, <2>1, SamePrefix
<1>3. CommittedOnMajority
  <2> SUFFICES ASSUME NEW s \in Servers, NEW n, n = commitIndex[s] + 1, NEW holders,
                      holders = {t \in Servers : /\ Len(log[t]) >= n
                                                 /\ SubSeq(log[t], 1, n) = SubSeq(log[s], 1, n)}
               PROVE  Len(log[s]) >= n /\ Majority(Cardinality(holders))
    BY DEF CommittedOnMajority
  <2> USE <1>0
  <2>1. /\ commitIndex[s] <= commitIndex[L] /\ commitIndex[s] < Len(log[s])
        /\ Majority(Cardinality(Holders(commitIndex[L])))
    BY DEF Reign, Commits
  <2>2. n \in Nat /\ Len(log[s]) >= n
    BY <2>1
  <2>3. Holders(commitIndex[L]) \subseteq holders
    <3> SUFFICES ASSUME NEW t \in Servers, Len(log[t]) > commitIndex[L] PROVE t \in holders
      BY DEF Holders
    <3>1. Len(log[t]) >= n
      BY <2>1
    <3>2. SubSeq(log[t], 1, n) = SubSeq(log[s], 1, n)
      BY <2>2, <3>1, SamePrefix
    <3> QED
      BY <3>1, <3>2
  <2>4. /\ holders \in SUBSET Servers /\ Holders(commitIndex[L]) \in SUBSET Servers
        /\ Servers \in SUBSET Servers
    BY DEF Holders
  <2>5. /\ Cardinality(Holders(commitIndex[L])) <= Cardinality(holders)
        /\ Cardinality(Holders(commitIndex[L])) \in Nat /\ Cardinality(holders) \in Nat
        /\ Cardinality(Servers) \in Nat
    BY <2>3, <2>4 DEF PeerCounts
  <2>6. Cardinality(Servers) \div 2 \in Int
    BY SMTT(30), <2>5
  <2>7. Cardinality(Holders(commitIndex[L])) > Cardinality(Servers) \div 2
    BY <2>1 DEF Majority
  <2>8. Cardinality(holders) > Cardinality(Servers) \div 2
    BY ONLY <2>5, <2>6, <2>7
  <2> QED
    BY <2>2, <2>8 DEF Majority
<1>4. AcknowledgedHeld
  <2> SUFFICES ASSUME NEW c \in calls, c.phase \in {"replied", "write"}, c.reply.Ok,
                      NEW i \in DOMAIN c.args.Entries, NEW p, p = c.args.PrevLogIndex + 1 + i
               PROVE  p <= Len(log[c.to]) /\ log[c.to][p] = c.args.Entries[i]
    BY SMTT(30) DEF AcknowledgedHeld
  <2>1. /\ c.to \in Servers /\ Carries(c, L) /\ c.args.PrevLogIndex \in Nat
        /\ Len(c.args.Entries) \in Nat /\ DOMAIN c.args.Entries = 1 .. Len(c.args.Entries)
    BY CallFacts, SeqLength DEF Reign, Replicates, Carries
  <2>2. Reach(c) <= Len(log[c.to]) /\ Len(log[c.to]) \in Nat
    BY <1>0, <2>1 DEF Carries
  <2>3. i \in Nat /\ i >= 1 /\ i <= Len(c.args.Entries)
    BY <2>1
  <2>4. c.args.PrevLogIndex + 1 + Len(c.args.Entries) <= Len(log[c.to])
    BY <2>2 DEF Reach
  <2>5. p \in Nat /\ p >= 1 /\ p <= Len(log[c.to])
    <3>1. ASSUME NEW prev \in Nat, NEW k \in Nat, NEW n \in Nat, NEW m \in Nat,
                 k >= 1, k <= n, prev + 1 + n <= m
          PROVE  prev + 1 + k \in Nat /\ prev + 1 + k >= 1 /\ prev + 1 + k <= m
      BY ONLY <3>1
    <3> QED
      BY <2>1, <2>2, <2>3, <2>4, <3>1
  <2>6. log[c.to][p] = log[L][p]
    <3>1. p \in 1 .. Len(log[c.to])
      BY <2>2, <2>5
    <3> QED
      BY <1>0, <2>1, <3>1 DEF IsPrefix
  <2>7. c.args.Entries[i] = log[L][p]
    BY <2>1 DEF Carries
  <2> QED
    BY <2>5, <2>6, <2>7
<1>5. StateMachineSafety
  <2> SUFFICES ASSUME NEW s \in Servers, NEW i \in DOMAIN logs[s], NEW t \in Servers,
                      i \in DOMAIN logs[t]
               PROVE  logs[t][i] = logs[s][i]
    BY DEF StateMachineSafety, checkLogs
  <2>1. /\ i \in 1 .. Len(logs[s]) /\ i \in 1 .. Len(logs[t])
    BY Types, SeqLength
  <2>2. \A u \in Servers : \A j \in 1 .. Len(logs[u]) : logs[u][j] = log[L][j + 1].Command
    BY <1>0 DEF Reign, Applies
  <2> QED
    BY ONLY <2>1, <2>2, s \in Servers, t \in Servers
<1> QED
  BY <1>1, <1>2, <1>3, <1>4, <1>5

(* A new program is idle, so that any peer may be L. *)
LEMMA InitReign == ASSUME PeerCounts, Init PROVE ReignInv
<1> SUFFICES ASSUME NEW L \in Servers PROVE Reign(L)
  BY DEF ReignInv, Init, Counted
<1>0. /\ Len(<<>>) = 0 /\ Len(<<Dummy>>) = 1 /\ <<Dummy>>[1] = Dummy
      /\ \A s \in Servers : log[s] = <<Dummy>> /\ logs[s] = <<>> /\ commitIndex[s] = 0
                            /\ lastApplied[s] = 0 /\ currentTerm[s] = 0 /\ state[s] = Follower
                            /\ spawned[s]["sendHeartBeat"] = 0
      /\ count["elections"] = 0
  BY SeqEmpty DEF Init, Make, Counted, Goroutines
<1> USE <1>0
<1>1. Alone(L) /\ Idle(L)
  BY SMTT(30) DEF Init, Alone, Idle, Follower, Leader
<1> USE <1>1
<1>2. ~Leads(L)
  BY DEF Idle, Leads
<1>3. Replicates(L)
  BY SMTT(30) DEF Init, Replicates, IsPrefix
<1>4. JobsCount(L) /\ CallsCount
  BY DEF Init, JobsCount, CallsCount
<1>5. Commits(L)
  <2>1. Holders(0) = Servers
    BY SMTT(30) DEF Holders
  <2>2. Cardinality(Servers) \in Nat /\ Cardinality(Servers) # 0
    <3>1. PICK s \in Servers : TRUE
      BY RaftAssumption
    <3>2. {} \in SUBSET Servers /\ {s} \in SUBSET Servers /\ Servers \in SUBSET Servers
      OBVIOUS
    <3>3. Cardinality({} \cup {s}) = Cardinality({}) + 1 /\ {} \cup {s} = {s}
      BY <3>2 DEF PeerCounts
    <3>4. Cardinality({s}) <= Cardinality(Servers)
      BY <3>2 DEF PeerCounts
    <3>5. Cardinality({}) \in Nat /\ Cardinality({s}) \in Nat /\ Cardinality(Servers) \in Nat
      BY <3>2 DEF PeerCounts
    <3> QED
      BY ONLY <3>3, <3>4, <3>5
  <2>3. Majority(Cardinality(Servers))
    BY SMTT(30), <2>2 DEF Majority
  <2> QED
    BY SMTT(30), <2>1, <2>3 DEF Commits
<1>6. Applies(L)
  BY SMTT(30) DEF Applies
<1> QED
  BY <1>2, <1>3, <1>4, <1>5, <1>6 DEF Reign, Init

-----------------------------------------------------------------------------
(***************************************************************************)
(* Elections                                                               *)
(***************************************************************************)
(* A step of the elections touches neither logs nor Calls nor tryToCommits. *)
LEMMA DataKept ==
    ASSUME NEW L \in Servers, Reign(L), count'["starts"] = count["starts"],
           UNCHANGED <<log, commitIndex, lastApplied, logs, calls, jobs>>
    PROVE  /\ Replicates(L)' /\ JobsCount(L)' /\ CallsCount' /\ Commits(L)' /\ Applies(L)'
<1>1. Replicates(L)'
  BY DEF Reign, Replicates, Carries, IsPrefix, Reach
<1>2. JobsCount(L)'
  BY DEF Reign, JobsCount, Acked, Sends, Tries
<1>3. CallsCount'
  BY DEF Reign, CallsCount, Reach, Tries, Reading
<1>4. Commits(L)'
  BY DEF Reign, Commits, Holders, Majority
<1>5. Applies(L)'
  BY DEF Reign, Applies
<1> QED
  BY <1>1, <1>2, <1>3, <1>4, <1>5

(* The ticker: only L can find that it is the leader. *)
LEMMA tickerReign ==
    ASSUME RInv, NEW L \in Servers, Reign(L), NEW s \in Servers, ticker(s)
    PROVE  Reign(L)'
<1>0. /\ UNCHANGED <<currentTerm, state, log, commitIndex, lastApplied, nextIndex, logs,
                     elections, jobs, calls, count, panicked>>
      /\ spawned \in [Servers -> [Goroutines -> Nat]]
  BY Types DEF ticker, peer, Runs
<1> USE <1>0
<1>1. /\ Replicates(L)' /\ JobsCount(L)' /\ CallsCount' /\ Commits(L)' /\ Applies(L)'
      /\ ~panicked'
  BY DataKept DEF Reign
<1>2. \/ state[s] = Leader /\ spawned' = [spawned EXCEPT ![s]["sendHeartBeat"] = @ + 1]
      \/ state[s] # Leader /\ spawned' = [spawned EXCEPT ![s]["becomeCandidate"] = @ + 1]
  BY DEF ticker, go
<1>3. \A t \in Servers :
         spawned'[t]["sendHeartBeat"] = 0 \/ state[t] = Leader
         \/ spawned'[t]["sendHeartBeat"] = spawned[t]["sendHeartBeat"]
  BY <1>2 DEF Goroutines
<1>4. Alone(L)'
  <2>1. ASSUME NEW t \in Servers, t # L PROVE spawned'[t]["sendHeartBeat"] = 0
    <3>1. state[t] = Follower /\ spawned[t]["sendHeartBeat"] = 0
      BY <2>1 DEF Reign, Alone
    <3> QED
      BY <1>3, <3>1 DEF Follower, Leader
  <2> QED
    BY <2>1 DEF Reign, Alone
<1> USE <1>3
<1>5. count'["elections"] = 0 => Idle(L)'
  BY DEF Reign, Idle
<1>6. Leads(L)' => NextInLog(L)'
  <2>1. Leads(L)' => Leads(L)
    BY DEF Leads
  <2> QED
    BY <2>1 DEF Reign, NextInLog
<1> QED
  BY <1>1, <1>4, <1>5, <1>6 DEF Reign

(* The first candidate is the one that reigns. *)
LEMMA becomeCandidateReign ==
    ASSUME RInv, NEW L \in Servers, Reign(L), count["elections"] = 0, becomeCandidate(L)
    PROVE  Reign(L)' /\ count'["elections"] = 1
<1>1. /\ count'["elections"] = 1 /\ count'["starts"] = count["starts"]
  BY SMTT(30), Types DEF becomeCandidate, Happens, Counted
<1> USE <1>1
<1>0. /\ UNCHANGED <<log, commitIndex, lastApplied, logs, jobs, calls, panicked>>
      /\ currentTerm \in [Servers -> Nat] /\ state \in [Servers -> {Follower, Candidate, Leader}]
      /\ spawned \in [Servers -> [Goroutines -> Nat]]
  BY Types DEF becomeCandidate, Runs
<1> USE <1>0
<1>2. /\ Replicates(L)' /\ JobsCount(L)' /\ CallsCount' /\ Commits(L)' /\ Applies(L)'
      /\ ~panicked'
  BY DataKept DEF Reign
<1>3. Idle(L) /\ currentTerm[L] = 0
  BY DEF Reign, Alone
<1> USE <1>3
<1>4. /\ currentTerm' = [currentTerm EXCEPT ![L] = currentTerm[L] + 1]
      /\ spawned' = [spawned EXCEPT ![L]["becomeCandidate"] = @ - 1]
      /\ state' = [state EXCEPT ![L] = Candidate]
  BY DEF becomeCandidate, runs
<1>5. \A s \in Servers : spawned'[s]["sendHeartBeat"] = spawned[s]["sendHeartBeat"]
  BY <1>4 DEF Goroutines
<1> USE <1>4, <1>5
<1>6. \A e \in elections' : ElectionOf(e, L, 1)
  BY SMTT(30) DEF becomeCandidate, Idle, NoReply, ElectionOf
<1>7. Alone(L)'
  <2>1. currentTerm'[L] = 1 /\ \A s \in Servers : currentTerm'[s] <= 1
    <3>1. \A s \in Servers : currentTerm[s] <= 0
      BY DEF Reign, Alone
    <3> QED
      BY SMTT(30), <3>1
  <2>2. \A s \in Servers : s # L => state'[s] = Follower /\ spawned'[s]["sendHeartBeat"] = 0
    BY DEF Reign, Alone
  <2>3. calls' = {} /\ jobs' = {}
    BY DEF Idle
  <2> QED
    BY <1>6, <2>1, <2>2, <2>3 DEF Alone
<1>8. ~Leads(L)'
  BY DEF Leads, Idle, Candidate, Leader
<1> QED
  BY <1>2, <1>7, <1>8 DEF Reign

(* An election moves on. *)
LEMMA ElectionReign ==
    ASSUME NEW L \in Servers, Reign(L), NEW e \in elections, NEW f,
           elections' = Replace(elections, e, f),
           ElectionOf(f, L, currentTerm[L]),
           count'["elections"] = count["elections"], count'["starts"] = count["starts"],
           UNCHANGED <<log, commitIndex, lastApplied, logs, calls, jobs, panicked>>,
           currentTerm'[L] = currentTerm[L],
           \A s \in Servers : currentTerm'[s] <= currentTerm[L],
           \A s \in Servers : s # L => state'[s] = Follower /\ spawned'[s]["sendHeartBeat"] = 0,
           Leads(L)' => NextInLog(L)'
    PROVE  Reign(L)'
<1>1. /\ Replicates(L)' /\ JobsCount(L)' /\ CallsCount' /\ Commits(L)' /\ Applies(L)'
      /\ ~panicked'
  BY DataKept DEF Reign
<1>2. Alone(L)'
  <2>1. \A x \in elections' : x \in elections \/ x = f
    BY DEF Replace
  <2> QED
    BY <2>1 DEF Reign, Alone
<1>3. count["elections"] # 0
  BY DEF Reign, Idle
<1> QED
  BY <1>1, <1>2, <1>3 DEF Reign

(* The same, if L has not just won it. *)
LEMMA ElectionGoesOn ==
    ASSUME NEW L \in Servers, Reign(L),
           UNCHANGED <<log, calls, jobs, nextIndex, spawned>>, state'[L] = state[L]
    PROVE  Leads(L)' => NextInLog(L)'
  BY DEF Reign, Leads, NextInLog

(* One ballot changes. *)
LEMMA BallotSet ==
    ASSUME NEW e \in Elections, NEW t \in Servers, NEW b, NEW n \in Nat, NEW L,
           ElectionOf(e, L, n), b.reply.Term <= n, NEW f, f = [e EXCEPT !.ballot[t] = b]
    PROVE  ElectionOf(f, L, n)
<1>1. /\ f.from = e.from /\ f.Term = e.Term
      /\ f.ballot = [e.ballot EXCEPT ![t] = b] /\ e.ballot \in [Servers -> Ballots]
  BY DEF Elections
<1>2. ASSUME NEW u \in Servers PROVE f.ballot[u].reply.Term <= n
  <2>1. CASE u = t
    <3>1. f.ballot[u] = b
      BY ONLY <1>1, <2>1, u \in Servers
    <3> QED
      BY <3>1
  <2>2. CASE u # t
    <3>1. f.ballot[u] = e.ballot[u]
      BY ONLY <1>1, <2>2, u \in Servers
    <3> QED
      BY <3>1 DEF ElectionOf
  <2> QED
    BY <2>1, <2>2
<1> QED
  BY <1>1, <1>2 DEF ElectionOf

(* A vote is asked for: the voter has at most L's term afterwards. *)
LEMMA RequestVoteReign ==
    ASSUME RInv, NEW L \in Servers, Reign(L), NEW e \in elections, NEW t \in Servers,
           RequestVote(e, t)
    PROVE  Reign(L)'
<1> USE Types
<1>0. ElectionOf(e, L, currentTerm[L])
  BY DEF Reign, Alone
<1>1. /\ e.from = L /\ e.Term = currentTerm[L] /\ t # L
  BY <1>0 DEF ElectionOf, RequestVote
<1>2. /\ e.Term \in Nat /\ e.ballot \in [Servers -> Ballots] /\ e \in Elections
  BY ElectionFacts
<1>3. Larger(e.Term, currentTerm[t]) = currentTerm[L]
  <2>1. currentTerm[t] <= currentTerm[L]
    BY DEF Reign, Alone
  <2>2. currentTerm[t] \in Nat /\ currentTerm[L] \in Nat
    OBVIOUS
  <2> QED
    BY ONLY <1>1, <2>1, <2>2 DEF Larger
<1> USE <1>3
<1> DEFINE vote == IF e.Term > currentTerm[t] THEN None ELSE voteFor[t]
           grant == /\ ~(e.Term < currentTerm[t])
                    /\ vote \in {None, e.from} /\ Qualified(log[t], e)
           b == IF e.ballot[t].phase = "late" THEN [phase |-> "counted", reply |-> NoReply]
                ELSE [phase |-> "replied",
                      reply |-> [Term |-> Larger(e.Term, currentTerm[t]), Ok |-> grant]]
           f == [e EXCEPT !.ballot[t] = b]
<1>4. elections' = Replace(elections, e, f)
  BY DEF RequestVote
<1> HIDE DEF grant
<1>5. b.reply.Term <= currentTerm[L] /\ currentTerm[L] \in Nat
  BY SMTT(30) DEF NoReply
<1> HIDE DEF b
<1>6. ElectionOf(f, L, currentTerm[L])
  BY ONLY <1>0, <1>2, <1>5, BallotSet, t \in Servers
<1> HIDE DEF f
<1>7. /\ currentTerm' = [currentTerm EXCEPT ![t] = currentTerm[L]]
      /\ state' = [state EXCEPT ![t] = IF e.Term > currentTerm[t] THEN Follower ELSE @]
      /\ UNCHANGED <<log, commitIndex, lastApplied, nextIndex, logs, spawned, jobs, calls,
                     count, panicked>>
  BY DEF RequestVote, Runs
<1> USE <1>7
<1>8. /\ currentTerm'[L] = currentTerm[L] /\ state'[L] = state[L]
      /\ \A s \in Servers : currentTerm'[s] <= currentTerm[L]
      /\ \A s \in Servers : s # L => state'[s] = Follower /\ spawned'[s]["sendHeartBeat"] = 0
  BY <1>1 DEF Reign, Alone
<1> USE <1>8
<1>9. Leads(L)' => NextInLog(L)'
  BY ElectionGoesOn
<1> QED
  BY <1>4, <1>6, <1>9, ElectionReign

(* An answer has no bigger term than L's. *)
LEMMA RequestVoteReplyReign ==
    ASSUME RInv, NEW L \in Servers, Reign(L), NEW e \in elections, NEW t \in Servers,
           RequestVoteReply(e, t)
    PROVE  Reign(L)'
<1> USE Types
<1>0. ElectionOf(e, L, currentTerm[L])
  BY DEF Reign, Alone
<1>1. /\ e.from = L /\ \A u \in Servers : e.ballot[u].reply.Term <= currentTerm[L]
  BY <1>0 DEF ElectionOf
<1> USE <1>1
<1>2. /\ e.ballot \in [Servers -> Ballots] /\ e \in Elections
      /\ \A u \in Servers : e.ballot[u].reply.Term \in Nat
  BY ElectionFacts
<1> USE <1>2
<1>3. /\ UNCHANGED <<currentTerm, state, log, commitIndex, lastApplied, nextIndex, logs,
                     spawned, jobs, calls, count, panicked>>
  <2>1. ~(e.ballot[t].reply.Term > currentTerm[e.from])
    <3>1. /\ e.ballot[t].reply.Term \in Nat /\ currentTerm[L] \in Nat
          /\ e.ballot[t].reply.Term <= currentTerm[L]
      OBVIOUS
    <3>2. e.from = L
      OBVIOUS
    <3> QED
      BY ONLY <3>1, <3>2
  <2>2. UNCHANGED <<currentTerm, state>>
    BY <2>1 DEF RequestVoteReply, AdoptBigger
  <2> QED
    BY <2>2 DEF RequestVoteReply, Runs
<1> USE <1>3
<1> DEFINE b == [e.ballot[t] EXCEPT !.phase = "counted"]
           f == [e EXCEPT !.ballot[t].phase = "counted"]
<1>4. f = [e EXCEPT !.ballot[t] = b]
  BY DEF Elections
<1>5. b.reply.Term <= currentTerm[L] /\ currentTerm[L] \in Nat
  BY SMTT(30) DEF Ballots
<1> HIDE DEF b, f
<1>8. ElectionOf(f, L, currentTerm[L])
  BY ONLY <1>0, <1>2, <1>4, <1>5, BallotSet, t \in Servers
<1>6. elections' = Replace(elections, e, f)
  BY DEF RequestVoteReply, f
<1>7. Leads(L)' => NextInLog(L)'
  BY ElectionGoesOn
<1> QED
  BY <1>8, <1>6, <1>7, ElectionReign DEF Reign, Alone

(* A Call that failed counts as a refusal in term 0. *)
LEMMA RequestVoteFailsReign ==
    ASSUME RInv, NEW L \in Servers, Reign(L), NEW e \in elections, NEW t \in Servers,
           RequestVoteFails(e, t)
    PROVE  Reign(L)'
<1> USE Types
<1>1. ElectionOf(e, L, currentTerm[L])
  BY DEF Reign, Alone
<1>2. /\ e.ballot \in [Servers -> Ballots] /\ e \in Elections
  BY ElectionFacts
<1>3. /\ UNCHANGED <<currentTerm, state, log, commitIndex, lastApplied, nextIndex, logs,
                     spawned, jobs, calls, panicked>>
      /\ count'["elections"] = count["elections"] /\ count'["starts"] = count["starts"]
  BY DEF RequestVoteFails, peer, Runs, Happens, Counted
<1> USE <1>3
<1> DEFINE b == [phase |-> IF e.ballot[t].phase = "sent" THEN "late" ELSE "counted",
                 reply |-> NoReply]
           f == [e EXCEPT !.ballot[t] = b]
<1>4. elections' = Replace(elections, e, f)
  BY <1>2 DEF RequestVoteFails, Elections
<1>5. b.reply.Term <= currentTerm[L] /\ currentTerm[L] \in Nat
  BY SMTT(30) DEF NoReply
<1> HIDE DEF b
<1>6. ElectionOf(f, L, currentTerm[L])
  BY ONLY <1>1, <1>2, <1>5, BallotSet, t \in Servers
<1> HIDE DEF f
<1>7. Leads(L)' => NextInLog(L)'
  BY ElectionGoesOn
<1> QED
  BY <1>6, <1>4, <1>7, ElectionReign DEF Reign, Alone

(* becomeLeader points nextIndex behind the last entry. *)
LEMMA becomeLeaderReign ==
    ASSUME RInv, NEW L \in Servers, Reign(L), NEW e \in elections, becomeLeader(e)
    PROVE  Reign(L)'
<1> USE Types
<1>0. ElectionOf(e, L, currentTerm[L])
  BY DEF Reign, Alone
<1>1. e.from = L
  BY <1>0 DEF ElectionOf
<1>2. e \in Elections
  BY ElectionFacts
<1>3. /\ state' = [state EXCEPT ![L] = Leader]
      /\ spawned' = [spawned EXCEPT ![L]["sendHeartBeat"] = @ + 1]
      /\ nextIndex' = [nextIndex EXCEPT ![L] = [t \in Servers |-> Last(log[L]).Index + 1]]
      /\ elections' = Replace(elections, e, [e EXCEPT !.status = "won"])
      /\ UNCHANGED <<currentTerm, log, commitIndex, lastApplied, logs, jobs, calls, count,
                     panicked>>
  BY <1>1 DEF becomeLeader, go, Runs
<1> USE <1>3
<1> DEFINE f == [e EXCEPT !.status = "won"]
<1>4. f.from = e.from /\ f.Term = e.Term /\ f.ballot = e.ballot
  BY <1>2 DEF Elections
<1> HIDE DEF f
<1>5. elections' = Replace(elections, e, f)
  BY DEF f
<1>6. NextInLog(L)'
  <2>1. ASSUME NEW n \in Nat \ {0} PROVE n - 1 + 1 \in 1 .. n
    BY ONLY <2>1
  <2>2. ASSUME NEW u \in Servers PROVE nextIndex'[L][u] = Len(log[L]) - 1 + 1
    OBVIOUS
  <2> QED
    BY <2>1, <2>2 DEF NextInLog
<1>7. \A s \in Servers : s # L => state'[s] = Follower /\ spawned'[s]["sendHeartBeat"] = 0
  BY DEF Reign, Alone
<1>8. currentTerm'[L] = currentTerm[L] /\ \A s \in Servers : currentTerm'[s] <= currentTerm[L]
  BY DEF Reign, Alone
<1>9. /\ count'["elections"] = count["elections"] /\ count'["starts"] = count["starts"]
      /\ UNCHANGED <<log, commitIndex, lastApplied, logs, calls, jobs, panicked>>
  OBVIOUS
<1>10. ElectionOf(f, L, currentTerm[L])
  BY <1>0, <1>4 DEF ElectionOf
<1> QED
  BY ONLY <1>5, <1>6, <1>7, <1>8, <1>9, <1>10, ElectionReign, Reign(L), L \in Servers, e \in elections

(* An election is over. *)
LEMMA electionOverReign ==
    ASSUME RInv, NEW L \in Servers, Reign(L), NEW e \in elections, electionOver(e)
    PROVE  Reign(L)'
<1>1. UNCHANGED <<currentTerm, state, log, commitIndex, lastApplied, nextIndex, logs,
                  spawned, jobs, calls, count, panicked>>
  BY DEF electionOver, peer, Runs
<1> USE <1>1
<1>2. elections' = Replace(elections, e, Remains(e))
  BY DEF electionOver
<1>3. ElectionOf(Remains(e), L, currentTerm[L])
  <2>1. ElectionOf(e, L, currentTerm[L]) /\ e \in Elections /\ currentTerm[L] \in Nat
    BY ElectionFacts, Types DEF Reign, Alone
  <2>2. /\ Remains(e).from = e.from /\ Remains(e).Term = e.Term
        /\ \A t \in Servers : Remains(e).ballot[t].reply = NoReply
    BY <2>1, RemainsFacts
  <2>3. NoReply.Term = 0
    BY DEF NoReply
  <2> QED
    BY <2>1, <2>2, <2>3 DEF ElectionOf
<1>4. Leads(L)' => NextInLog(L)'
  BY ElectionGoesOn
<1>5. /\ currentTerm'[L] = currentTerm[L]
      /\ \A s \in Servers : currentTerm'[s] <= currentTerm[L]
      /\ \A s \in Servers : s # L => state'[s] = Follower /\ spawned'[s]["sendHeartBeat"] = 0
  BY DEF Reign, Alone
<1> QED
  BY <1>2, <1>3, <1>4, <1>5, ElectionReign
==============================================================================
