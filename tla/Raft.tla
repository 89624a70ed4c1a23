-------------------------------- MODULE Raft ---------------------------------
(***************************************************************************)
(* The Raft peers of raft1/raft.go: leader election, log replication and   *)
(* application, as the code performs them.  A critical section of rf.mu is *)
(* one step.  What the code does without the lock, or in a goroutine it    *)
(* starts, is a step of its own:                                           *)
(*   - the ticker reads state and starts becomeCandidate or sendHeartBeat, *)
(*     which run later, in whatever state the peer is by then;             *)
(*   - Start starts tryToCommit, which reads currentTerm when it runs;     *)
(*   - a goroutine that sends AppendEntries reads each of the arguments in *)
(*     a step, waits in Call, and uses the reply;                          *)
(*   - nextIndex is read and written back in two steps: nobody holds a     *)
(*     lock that all who change it hold;                                   *)
(*   - tryToCommit compares reply.Term with currentTerm and adopts it in   *)
(*     two steps.                                                          *)
(* labrpc delivers requests and replies late, in any order, or never, but  *)
(* not twice.  A request whose Call has returned false may still be on its *)
(* way: it is late, and nobody waits for its reply.  Indices are those of  *)
(* the Go slices plus one: the dummy entry rf.log[0] is log[s][1].         *)
(***************************************************************************)
EXTENDS Integers, Sequences, FiniteSets

CONSTANTS
    Servers,
    None,           \* voteFor = -1
    MaxElections,   \* bounds on the number of calls of becomeCandidate,
    MaxStarts,      \* successful calls of Start,
    MaxBeats,       \* calls of sendHeartBeat,
    MaxLosses,      \* Calls that return false
    MaxRestarts     \* and crashes

ASSUME RaftAssumption ==
    /\ None \notin Servers
    /\ IsFiniteSet(Servers) /\ Servers # {}
    /\ {MaxElections, MaxStarts, MaxBeats, MaxLosses, MaxRestarts} \subseteq Nat

Follower == "follower"
Candidate == "candidate"
Leader == "leader"

VARIABLES
    currentTerm, voteFor, log,   \* meant to be persistent
    commitIndex, lastApplied, state,
    nextIndex,                   \* rf.leaderTool.nextIndex
    logs,        \* rfsrv.logs: what each peer has sent on applyCh since it was made
    spawned,     \* how many goroutines the ticker or becomeLeader started do not run yet
    elections,   \* executions of becomeCandidate after its critical section
    jobs,        \* executions of tryToCommit
    calls,       \* goroutines that send AppendEntries, with their Call, and late requests
    panicked,    \* an index was out of range: the process has died
    count        \* how often the bounded things have happened

peer == <<currentTerm, voteFor, log, commitIndex, lastApplied, state, nextIndex, logs>>
vars == <<peer, spawned, elections, jobs, calls, panicked, count>>

Entry == [Term : Nat, Index : Nat, Command : Nat]
Dummy == [Term |-> 0, Index |-> 0, Command |-> 0]

AppendEntriesArgs ==
    [Term : Nat, PrevLogIndex : Int, PrevLogTerm : Nat, Entries : Seq(Entry), LeaderCommit : Nat]

(* The reply of either handler; Ok is VoteGranted or Success. *)
Replies == [Term : Nat, Ok : BOOLEAN]
NoReply == [Term |-> 0, Ok |-> FALSE]

Ballots == [phase : {"sent", "replied", "counted", "late"}, reply : Replies]

Elections ==
    [no : Nat, from : Servers, status : {"open", "won", "over"},
     Term : Nat, LastLogIndex : Nat, LastLogTerm : Nat, ballot : [Servers -> Ballots]]

Jobs ==
    [no : Nat, from : Servers, term : Nat, index : Nat, Counter : Nat,
     waiter : {"start", "waiting", "asleep", "done"}]

(* Until the request is sent, phase names the argument to be read next; try *)
(* counts the requests that are given up, next is what nextIndex will be.   *)
Phases ==
    {"LeaderCommit", "PrevLogIndex", "PrevLogTerm", "Entries", "sent", "late",
     "replied", "adopt", "write"}

Calls ==
    [kind : {"heartbeat", "commit"}, no : Nat, try : Nat, from : Servers, to : Servers,
     phase : Phases, args : AppendEntriesArgs, reply : Replies, next : Nat]

Goroutines == {"becomeCandidate", "sendHeartBeat"}

Counted == {"elections", "starts", "beats", "losses", "restarts"}

TypeOK ==
    /\ currentTerm \in [Servers -> Nat]
    /\ voteFor \in [Servers -> Servers \cup {None}]
    /\ log \in [Servers -> Seq(Entry)]
    /\ commitIndex \in [Servers -> Nat]
    /\ lastApplied \in [Servers -> Nat]
    /\ state \in [Servers -> {Follower, Candidate, Leader}]
    /\ nextIndex \in [Servers -> [Servers -> Nat]]
    /\ logs \in [Servers -> Seq(Nat)]
    /\ spawned \in [Servers -> [Goroutines -> Nat]]
    /\ elections \subseteq Elections
    /\ jobs \subseteq Jobs
    /\ calls \subseteq Calls
    /\ panicked \in BOOLEAN
    /\ count \in [Counted -> Nat]
-----------------------------------------------------------------------------
Last(lg) == lg[Len(lg)]
Larger(m, n) == IF m > n THEN m ELSE n
Smaller(m, n) == IF m < n THEN m ELSE n
Majority(n) == n > Cardinality(Servers) \div 2

Happens(what, bound) ==
    /\ count[what] < bound
    /\ count' = [count EXCEPT ![what] = @ + 1]

(* The process is alive and this step does not end it. *)
Runs == ~panicked /\ UNCHANGED panicked

Replace(set, old, new) == (set \ {old}) \cup {new}

(* rf.mu is free: no goroutine of s is between reading nextIndex and writing *)
(* it back with rf.mu held.                                                 *)
Unlocked(s) ==
    \A c \in calls : c.from = s /\ c.kind = "heartbeat" => c.phase # "write"

setNewTermBybiggerTerm(s, term) ==
    /\ currentTerm' = [currentTerm EXCEPT ![s] = term]
    /\ voteFor' = [voteFor EXCEPT ![s] = None]
    /\ state' = [state EXCEPT ![s] = Follower]

AdoptMutant(s, term) ==
    \/ term # currentTerm[s] /\ setNewTermBybiggerTerm(s, term)
    \/ term = currentTerm[s] /\ UNCHANGED <<currentTerm, voteFor, state>>

AdoptBigger(s, term) ==
    \/ term > currentTerm[s] /\ setNewTermBybiggerTerm(s, term)
    \/ term <= currentTerm[s] /\ UNCHANGED <<currentTerm, voteFor, state>>
-----------------------------------------------------------------------------
(***************************************************************************)
(* Ticker and elections                                                    *)
(***************************************************************************)
go(s, what) == spawned' = [spawned EXCEPT ![s][what] = @ + 1]

runs(s, what) ==
    /\ spawned[s][what] > 0
    /\ spawned' = [spawned EXCEPT ![s][what] = @ - 1]

ticker(s) ==
    /\ \/ /\ state[s] = Leader
          /\ spawned[s]["sendHeartBeat"] + count["beats"] < MaxBeats
          /\ go(s, "sendHeartBeat")
       \/ /\ state[s] # Leader
          /\ spawned[s]["becomeCandidate"] + count["elections"] < MaxElections
          /\ go(s, "becomeCandidate")
    /\ Runs
    /\ UNCHANGED <<peer, elections, jobs, calls, count>>

becomeCandidate(s) ==
    /\ Unlocked(s)
    /\ runs(s, "becomeCandidate")
    /\ Happens("elections", MaxElections)
    /\ state' = [state EXCEPT ![s] = Candidate]
    /\ currentTerm' = [currentTerm EXCEPT ![s] = @ + 1]
    /\ voteFor' = [voteFor EXCEPT ![s] = s]
    /\ elections' = elections \cup
          {[no |-> count["elections"], from |-> s, status |-> "open",
            Term |-> currentTerm[s] + 1,
            LastLogIndex |-> Last(log[s]).Index, LastLogTerm |-> Last(log[s]).Term,
            ballot |-> [t \in Servers |-> [phase |-> "sent", reply |-> NoReply]]]}
    /\ Runs
    /\ UNCHANGED <<log, commitIndex, lastApplied, nextIndex, logs, jobs, calls>>

Qualified(lg, e) ==
    \/ Last(lg).Term < e.LastLogTerm
    \/ Last(lg).Term = e.LastLogTerm /\ Last(lg).Index <= e.LastLogIndex

(* The handler runs at t; what it answers is heard unless nobody waits.     *)
RequestVote(e, t) ==
    LET stale == e.Term < currentTerm[t]
        vote == IF e.Term > currentTerm[t] THEN None ELSE voteFor[t]
        grant == ~stale /\ vote \in {None, e.from} /\ Qualified(log[t], e)
        reply == [Term |-> Larger(e.Term, currentTerm[t]), Ok |-> grant]
        answer == IF e.ballot[t].phase = "late" THEN [phase |-> "counted", reply |-> NoReply]
                  ELSE [phase |-> "replied", reply |-> reply]
    IN  /\ t # e.from /\ e.ballot[t].phase \in {"sent", "late"}
        /\ Unlocked(t)
        /\ currentTerm' = [currentTerm EXCEPT ![t] = Larger(e.Term, @)]
        /\ state' = [state EXCEPT ![t] = IF e.Term > currentTerm[t] THEN Follower ELSE @]
        /\ voteFor' = [voteFor EXCEPT ![t] = IF grant THEN e.from ELSE vote]
        /\ elections' = Replace(elections, e, [e EXCEPT !.ballot[t] = answer])
        /\ Runs
        /\ UNCHANGED <<log, commitIndex, lastApplied, nextIndex, logs,
                       spawned, jobs, calls, count>>

(* sendRequestVote returns; a reply that did not arrive counts as a refusal, *)
(* though the request may yet reach the peer.                               *)
RequestVoteReply(e, t) ==
    /\ e.ballot[t].phase = "replied"
    /\ Unlocked(e.from)
    /\ AdoptBigger(e.from, e.ballot[t].reply.Term)
    /\ elections' = Replace(elections, e, [e EXCEPT !.ballot[t].phase = "counted"])
    /\ Runs
    /\ UNCHANGED <<log, commitIndex, lastApplied, nextIndex, logs,
                   spawned, jobs, calls, count>>

RequestVoteFails(e, t) ==
    /\ t # e.from /\ e.ballot[t].phase \in {"sent", "replied"}
    /\ Happens("losses", MaxLosses)
    /\ elections' = Replace(elections, e,
          [e EXCEPT !.ballot[t] =
              [phase |-> IF @.phase = "sent" THEN "late" ELSE "counted", reply |-> NoReply]])
    /\ Runs
    /\ UNCHANGED <<peer, spawned, jobs, calls>>

Received(e) == {t \in Servers \ {e.from} : e.ballot[t].phase \in {"counted", "late"}}
Granted(e) == {t \in Received(e) : e.ballot[t].reply.Ok}
grantedCount(e) == 1 + Cardinality(Granted(e))

(* The candidate counts a majority and becomeLeader runs, in a goroutine of *)
(* its own that does not look at the peer's state and term again.           *)
becomeLeader(e) ==
    LET s == e.from IN
    /\ e.status = "open" /\ Majority(grantedCount(e))
    /\ Unlocked(s)
    /\ elections' = Replace(elections, e, [e EXCEPT !.status = "won"])
    /\ state' = [state EXCEPT ![s] = Leader]
    /\ nextIndex' = [nextIndex EXCEPT ![s] =
                        [t \in Servers |-> Last(log[s]).Index + 1]]
    /\ go(s, "sendHeartBeat")
    /\ Runs
    /\ UNCHANGED <<currentTerm, voteFor, log, commitIndex, lastApplied, logs,
                   jobs, calls, count>>

AllReceivedMutant(e) == Cardinality(Received(e)) = Cardinality(Servers)

AllReceived(e) == 1 + Cardinality(Received(e)) = Cardinality(Servers)

(* What is left of an election nobody waits for: its late requests. *)
Remains(e) ==
    [e EXCEPT !.status = "over",
              !.ballot = [t \in Servers |->
                  [phase |-> IF e.ballot[t].phase \in {"sent", "late"} THEN "late" ELSE "counted",
                   reply |-> NoReply]]]

(* becomeCandidate returns: its wait loop has ended and wg.Wait too.        *)
electionOver(e) ==
    /\ e.status # "over"
    /\ e.status = "won" \/ ~Majority(grantedCount(e))
    /\ AllReceived(e)
    /\ elections' = Replace(elections, e, Remains(e))
    /\ Runs
    /\ UNCHANGED <<peer, spawned, jobs, calls, count>>
-----------------------------------------------------------------------------
(***************************************************************************)
(* Log replication                                                         *)
(***************************************************************************)
NoArgs(term) ==
    [Term |-> term, PrevLogIndex |-> 0, PrevLogTerm |-> 0, Entries |-> <<>>, LeaderCommit |-> 0]

(* One goroutine per other peer, about to build its arguments. *)
NewCalls(kind, no, s, term) ==
    {[kind |-> kind, no |-> no, try |-> 0, from |-> s, to |-> t,
      phase |-> IF kind = "commit" THEN "LeaderCommit" ELSE "PrevLogIndex",
      args |-> NoArgs(term), reply |-> NoReply, next |-> 0] : t \in Servers \ {s}}

sendHeartBeat(s) ==
    /\ runs(s, "sendHeartBeat")
    /\ Happens("beats", MaxBeats)
    /\ calls' = calls \cup NewCalls("heartbeat", count["beats"], s, currentTerm[s])
    /\ Runs
    /\ UNCHANGED <<peer, elections, jobs>>

MayStartMutant(s) == TRUE

MayStart(s) == state[s] = Leader

Start(s) ==
    LET index == Len(log[s]) IN
    /\ MayStart(s) /\ Unlocked(s)
    /\ Happens("starts", MaxStarts)
    /\ log' = [log EXCEPT ![s] = Append(@,
          [Term |-> currentTerm[s], Index |-> index, Command |-> count["starts"] + 1])]
    /\ jobs' = jobs \cup {[no |-> count["starts"], from |-> s, term |-> currentTerm[s],
                           index |-> index, Counter |-> 1, waiter |-> "start"]}
    /\ Runs
    /\ UNCHANGED <<currentTerm, voteFor, commitIndex, lastApplied, state, nextIndex,
                   logs, spawned, elections, calls>>

tryToCommit(j) ==
    /\ j.waiter = "start"
    /\ jobs' = Replace(jobs, j, [j EXCEPT !.waiter = "waiting"])
    /\ calls' = calls \cup NewCalls("commit", j.no, j.from, currentTerm[j.from])
    /\ Runs
    /\ UNCHANGED <<peer, spawned, elections, count>>

(* The arguments are read without rf.mu, in the order of the source: commit *)
(* reads LeaderCommit first, the heartbeat last and no Entries.  An index   *)
(* out of range ends the process.                                           *)
Reads(c, inRange, new) ==
    /\ ~panicked
    /\ \/ inRange /\ calls' = Replace(calls, c, new) /\ UNCHANGED panicked
       \/ ~inRange /\ panicked' = TRUE /\ UNCHANGED calls
    /\ UNCHANGED <<peer, spawned, elections, jobs, count>>

readLeaderCommit(c) ==
    /\ c.phase = "LeaderCommit"
    /\ Reads(c, TRUE, [c EXCEPT !.args.LeaderCommit = commitIndex[c.from],
                                !.phase = IF c.kind = "commit" THEN "PrevLogIndex" ELSE "sent"])

readPrevLogIndex(c) ==
    /\ c.phase = "PrevLogIndex"
    /\ Reads(c, TRUE, [c EXCEPT !.args.PrevLogIndex = nextIndex[c.from][c.to] - 1,
                                !.phase = "PrevLogTerm"])

readPrevLogTerm(c) ==
    LET lg == log[c.from]
        next == nextIndex[c.from][c.to]
    IN  /\ c.phase = "PrevLogTerm"
        /\ Reads(c, next \in 1 .. Len(lg),
                 [c EXCEPT !.args.PrevLogTerm = lg[next].Term,
                           !.phase = IF c.kind = "commit" THEN "Entries" ELSE "LeaderCommit"])

readEntries(c) ==
    LET lg == log[c.from]
        first == c.args.PrevLogIndex + 1
    IN  /\ c.phase = "Entries"
        /\ Reads(c, first \in 0 .. Len(lg),
                 [c EXCEPT !.args.Entries = SubSeq(lg, first + 1, Len(lg)), !.phase = "sent"])

(* The position at which the consistency check succeeds: at most one. *)
PrevPos(lg, a) ==
    LET matches(x) == x.Index = a.PrevLogIndex /\ x.Term = a.PrevLogTerm
    IN  {i \in DOMAIN lg :
            /\ matches(lg[i])
            /\ \A j \in i + 1 .. Len(lg) : ~matches(lg[j]) /\ lg[j].Index >= a.PrevLogIndex}

MergeMutant(lg, pos, es) == IF es = <<>> THEN lg ELSE SubSeq(lg, 1, pos) \o es

AppendMutant(lg, pos, es) == lg \o es

(* The log after the entries es that belong behind position pos: it changes *)
(* from the first entry on that is missing or different.                    *)
Merge(lg, pos, es) ==
    LET differs(i) ==
            \/ pos + i > Len(lg)
            \/ lg[pos + i].Index # es[i].Index
            \/ lg[pos + i].Term # es[i].Term
        first == {i \in DOMAIN es : differs(i) /\ \A k \in 1 .. i - 1 : ~differs(k)}
    IN  IF first = {} THEN lg
        ELSE LET i == CHOOSE k \in first : TRUE
             IN  SubSeq(lg, 1, pos + i - 1) \o SubSeq(es, i, Len(es))

(* The handler runs at t; its result is Success. *)
HandleAppendEntries(t, a, success) ==
    /\ Unlocked(t)
    /\ \/ /\ a.Term < currentTerm[t]
          /\ success = FALSE
          /\ UNCHANGED <<currentTerm, voteFor, state, log, commitIndex>>
       \/ /\ a.Term >= currentTerm[t]
          /\ setNewTermBybiggerTerm(t, a.Term)
          /\ \/ /\ PrevPos(log[t], a) = {}
                /\ success = FALSE
                /\ UNCHANGED <<log, commitIndex>>
             \/ \E pos \in PrevPos(log[t], a) :
                /\ success = TRUE
                /\ log' = [log EXCEPT ![t] = Merge(@, pos, a.Entries)]
                /\ commitIndex' = [commitIndex EXCEPT ![t] =
                      IF @ < a.LeaderCommit
                      THEN Smaller(a.LeaderCommit, Last(log'[t]).Index) ELSE @]
    /\ Runs
    /\ UNCHANGED <<lastApplied, nextIndex, logs, spawned, elections, jobs, count>>

AppendEntries(c) ==
    /\ c.phase = "sent"
    /\ \E success \in BOOLEAN :
          /\ HandleAppendEntries(c.to, c.args, success)
          /\ calls' = Replace(calls, c,
                [c EXCEPT !.phase = "replied",
                          !.reply = [Term |-> Larger(c.args.Term, currentTerm[c.to]),
                                     Ok |-> success]])

lateAppendEntries(c) ==
    /\ c.phase = "late"
    /\ \E success \in BOOLEAN : HandleAppendEntries(c.to, c.args, success)
    /\ calls' = calls \ {c}

(* tryToCommit goes round its loop. *)
Again(c) ==
    [c EXCEPT !.phase = "LeaderCommit", !.args = NoArgs(c.args.Term), !.reply = NoReply,
              !.next = 0]

(* Call returns false: a heartbeat is given up, tryToCommit sends again. *)
AppendEntriesFails(c) ==
    /\ c.phase \in {"sent", "replied"}
    /\ Happens("losses", MaxLosses)
    /\ calls' = (calls \ {c})
          \cup (IF c.phase = "sent" THEN {[c EXCEPT !.phase = "late"]} ELSE {})
          \cup (IF c.kind = "commit" THEN {[Again(c) EXCEPT !.try = @ + 1]} ELSE {})
    /\ Runs
    /\ UNCHANGED <<peer, spawned, elections, jobs>>

IndexOf(c) == (CHOOSE j \in jobs : j.no = c.no).index

(* The new values of nextIndex after a success and after a refusal. *)
AdvancedMutant(c) == Larger(nextIndex[c.from][c.to], IndexOf(c) + 2)

Advanced(c) == Larger(nextIndex[c.from][c.to], IndexOf(c) + 1)

SteppedBackMutant(c) == nextIndex[c.from][c.to] - 1

SteppedBack(c) == Larger(nextIndex[c.from][c.to] - 1, 1)

(* A goroutine of sendHeartBeat takes rf.mu and uses the reply. *)
heartBeatReply(c) ==
    /\ c.kind = "heartbeat" /\ c.phase = "replied"
    /\ Unlocked(c.from)
    /\ \/ /\ c.reply.Ok
          /\ calls' = calls \ {c}
          /\ UNCHANGED <<currentTerm, voteFor, state>>
       \/ /\ ~c.reply.Ok /\ c.reply.Term > currentTerm[c.from]
          /\ setNewTermBybiggerTerm(c.from, c.reply.Term)
          /\ calls' = calls \ {c}
       \/ /\ ~c.reply.Ok /\ c.reply.Term <= currentTerm[c.from]
          /\ calls' = Replace(calls, c, [c EXCEPT !.phase = "write", !.next = SteppedBack(c)])
          /\ UNCHANGED <<currentTerm, voteFor, state>>
    /\ Runs
    /\ UNCHANGED <<log, commitIndex, lastApplied, nextIndex, logs, spawned, elections,
                   jobs, count>>

commitReply(c) ==
    /\ c.kind = "commit" /\ c.phase = "replied"
    /\ \/ /\ c.reply.Ok
          /\ calls' = Replace(calls, c, [c EXCEPT !.phase = "write", !.next = Advanced(c)])
       \/ /\ ~c.reply.Ok /\ c.reply.Term > currentTerm[c.from]
          /\ calls' = Replace(calls, c, [c EXCEPT !.phase = "adopt"])
       \/ /\ ~c.reply.Ok /\ c.reply.Term <= currentTerm[c.from]
          /\ calls' = Replace(calls, c, [c EXCEPT !.phase = "write", !.next = SteppedBack(c)])
    /\ Runs
    /\ UNCHANGED <<peer, spawned, elections, jobs, count>>

(* cond.Broadcast wakes the waiter if it sleeps in cond.Wait. *)
BroadcastMutant(j) == j

Broadcast(j) == [j EXCEPT !.waiter = IF @ = "asleep" THEN "waiting" ELSE @]

(* nextIndex is written; after a success Counter has grown and the waiter   *)
(* is woken, under the mu of this tryToCommit.                              *)
writeNextIndex(c) ==
    /\ c.phase = "write"
    /\ nextIndex' = [nextIndex EXCEPT ![c.from][c.to] = c.next]
    /\ \/ /\ c.kind = "commit" /\ c.reply.Ok
          /\ jobs' = {IF j.no = c.no THEN Broadcast([j EXCEPT !.Counter = @ + 1]) ELSE j :
                        j \in jobs}
          /\ calls' = calls \ {c}
       \/ /\ c.kind = "commit" /\ ~c.reply.Ok
          /\ calls' = Replace(calls, c, Again(c))
          /\ UNCHANGED jobs
       \/ /\ c.kind = "heartbeat"
          /\ calls' = calls \ {c}
          /\ UNCHANGED jobs
    /\ Runs
    /\ UNCHANGED <<currentTerm, voteFor, log, commitIndex, lastApplied, state, logs,
                   spawned, elections, count>>

(* tryToCommit adopts the term it has found to be bigger, without the lock. *)
(* It does not hold mu either: a Broadcast that falls between the waiter's  *)
(* test and its cond.Wait wakes nobody.                                     *)
commitAdopt(c) ==
    /\ c.phase = "adopt"
    /\ setNewTermBybiggerTerm(c.from, c.reply.Term)
    /\ calls' = calls \ {c}
    /\ \/ jobs' = {IF j.no = c.no THEN Broadcast(j) ELSE j : j \in jobs}
       \/ UNCHANGED jobs
    /\ Runs
    /\ UNCHANGED <<log, commitIndex, lastApplied, nextIndex, logs, spawned,
                   elections, count>>

NewCommitMutant(j) ==
    IF Majority(j.Counter) /\ j.term = currentTerm[j.from]
    THEN Len(log[j.from]) - 1 ELSE commitIndex[j.from]

NewCommit(j) ==
    IF Majority(j.Counter) /\ j.term = currentTerm[j.from]
    THEN Larger(commitIndex[j.from], j.index) ELSE commitIndex[j.from]

(* tryToCommit tests, holding mu, and sleeps; cond.Wait releases mu. *)
wait(j) ==
    /\ j.waiter = "waiting"
    /\ ~Majority(j.Counter) /\ state[j.from] = Leader
    /\ jobs' = Replace(jobs, j, [j EXCEPT !.waiter = "asleep"])
    /\ Runs
    /\ UNCHANGED <<peer, spawned, elections, calls, count>>

(* It has found the condition of its wait loop false and takes rf.mu. *)
commit(j) ==
    LET s == j.from IN
    /\ j.waiter = "waiting"
    /\ Majority(j.Counter) \/ state[s] # Leader
    /\ Unlocked(s)
    /\ jobs' = Replace(jobs, j, [j EXCEPT !.waiter = "done"])
    /\ commitIndex' = [commitIndex EXCEPT ![s] = NewCommit(j)]
    /\ Runs
    /\ UNCHANGED <<currentTerm, voteFor, log, lastApplied, state, nextIndex, logs,
                   spawned, elections, calls, count>>

(* The tester's reader of applyCh (raft1/server.go) records what it reads. *)
readApplyCh(s, commands) == logs' = [logs EXCEPT ![s] = @ \o commands]

(* The applier, woken by apply, sends all that is committed, holding rf.mu, *)
(* and ends the process at the first entry that is not there.               *)
applier(s) ==
    LET last == Smaller(commitIndex[s], Len(log[s]) - 1) IN
    /\ ~panicked /\ commitIndex[s] > lastApplied[s]
    /\ Unlocked(s)
    /\ lastApplied' = [lastApplied EXCEPT ![s] =
          Smaller(commitIndex[s], Larger(lastApplied[s] + 1, Len(log[s])))]
    /\ readApplyCh(s, [i \in 1 .. last - lastApplied[s] |->
                          log[s][lastApplied[s] + i + 1].Command])
    /\ panicked' = (commitIndex[s] >= Len(log[s]))
    /\ UNCHANGED <<currentTerm, voteFor, log, commitIndex, state, nextIndex, spawned,
                   elections, jobs, calls, count>>
-----------------------------------------------------------------------------
newRfsrv(s) == logs' = [logs EXCEPT ![s] = <<>>]

(* A peer is killed and Make builds a new one.  persist and readPersist do  *)
(* nothing, so it starts from nothing; its old goroutines are cut off.      *)
(* Requests they have sent may still be executed elsewhere; late requests   *)
(* to the peer go to the old one.                                           *)
Restart(s) ==
    LET lateTo(c) == c.phase = "late" /\ c.to = s
        left == {c \in calls : c.from = s /\ c.phase \in {"sent", "late"}}
        cutOff(e) == [e EXCEPT !.ballot[s] =
            IF @.phase = "late" THEN [phase |-> "counted", reply |-> NoReply] ELSE @]
    IN
    /\ Happens("restarts", MaxRestarts)
    /\ currentTerm' = [currentTerm EXCEPT ![s] = 0]
    /\ voteFor' = [voteFor EXCEPT ![s] = None]
    /\ log' = [log EXCEPT ![s] = <<Dummy>>]
    /\ commitIndex' = [commitIndex EXCEPT ![s] = 0]
    /\ lastApplied' = [lastApplied EXCEPT ![s] = 0]
    /\ state' = [state EXCEPT ![s] = Follower]
    /\ nextIndex' = [nextIndex EXCEPT ![s] = [t \in Servers |-> 0]]
    /\ newRfsrv(s)
    /\ spawned' = [spawned EXCEPT ![s] = [g \in Goroutines |-> 0]]
    /\ elections' = {IF e.from = s THEN Remains(e) ELSE cutOff(e) : e \in elections}
    /\ jobs' = {j \in jobs : j.from # s}
    /\ calls' = {c \in calls : c.from # s /\ ~lateTo(c)}
                   \cup {[c EXCEPT !.phase = "late"] : c \in left}
    /\ Runs

(* What the tests look at: the leaders of a term, and whether every peer    *)
(* that has applied a command at index i has applied the same one as s.     *)
Leaders(term) == {s \in Servers : state[s] = Leader /\ currentTerm[s] = term}

checkLogs(s, i) ==
    \A t \in Servers : i \in DOMAIN logs[t] => logs[t][i] = logs[s][i]

Make ==
    /\ currentTerm = [s \in Servers |-> 0]
    /\ voteFor = [s \in Servers |-> None]
    /\ log = [s \in Servers |-> <<Dummy>>]
    /\ commitIndex = [s \in Servers |-> 0]
    /\ lastApplied = [s \in Servers |-> 0]
    /\ state = [s \in Servers |-> Follower]
    /\ nextIndex = [s \in Servers |-> [t \in Servers |-> 0]]

Init ==
    /\ Make
    /\ logs = [s \in Servers |-> <<>>]
    /\ spawned = [s \in Servers |-> [g \in Goroutines |-> 0]]
    /\ elections = {}
    /\ jobs = {}
    /\ calls = {}
    /\ panicked = FALSE
    /\ count = [n \in Counted |-> 0]

(* What must run in the end, and what may happen.  A late request may also  *)
(* be lost: nothing makes it run.                                           *)
ElectionWork ==
    \E e \in elections :
        \/ becomeLeader(e) \/ electionOver(e)
        \/ \E t \in Servers :
              \/ e.ballot[t].phase = "sent" /\ RequestVote(e, t)
              \/ RequestVoteReply(e, t)

ElectionStep ==
    \/ ElectionWork
    \/ \E s \in Servers : ticker(s) \/ becomeCandidate(s)
    \/ \E e \in elections, t \in Servers :
          \/ e.ballot[t].phase = "late" /\ RequestVote(e, t)
          \/ RequestVoteFails(e, t)

ReplicationWork ==
    \/ \E s \in Servers : applier(s)
    \/ \E c \in calls :
          \/ readLeaderCommit(c) \/ readPrevLogIndex(c) \/ readPrevLogTerm(c)
          \/ readEntries(c) \/ AppendEntries(c)
          \/ heartBeatReply(c) \/ commitReply(c) \/ writeNextIndex(c) \/ commitAdopt(c)
    \/ \E j \in jobs : tryToCommit(j) \/ wait(j) \/ commit(j)

ReplicationStep ==
    \/ ReplicationWork
    \/ \E s \in Servers : sendHeartBeat(s) \/ Start(s)
    \/ \E c \in calls : lateAppendEntries(c) \/ AppendEntriesFails(c)

Next == ElectionStep \/ ReplicationStep \/ \E s \in Servers : Restart(s)

Spec == Init /\ [][Next]_vars

(* Handlers and goroutines run, and labrpc's Call returns in the end. *)
ElectionFairness == WF_vars(ElectionWork)

ReplicationFairness == WF_vars(ReplicationWork)
-----------------------------------------------------------------------------
(***************************************************************************)
(* Properties                                                              *)
(***************************************************************************)

(* The Index stored in an entry is its place in the log, also after entries *)
(* have been overwritten: Start takes len(rf.log) for the next Index, and   *)
(* the applier takes rf.log[lastApplied] for the entry with that Index.     *)
LogIndexed ==
    \A s \in Servers :
        log[s] # <<>> /\ \A i \in DOMAIN log[s] : log[s][i].Index = i - 1

(* A committed entry is on a majority: whatever a peer counts as committed  *)
(* stands, with all that precedes it, in the logs of a majority.            *)
CommittedOnMajority ==
    \A s \in Servers :
        LET n == commitIndex[s] + 1
            holders == {t \in Servers :
                           Len(log[t]) >= n /\ SubSeq(log[t], 1, n) = SubSeq(log[s], 1, n)}
        IN  Len(log[s]) >= n /\ Majority(Cardinality(holders))

(* What a peer has acknowledged it keeps: as long as it stays in the term  *)
(* of an AppendEntries it has accepted, the entries sent with it are in its *)
(* log, though other requests, older and shorter ones too, may have come    *)
(* in between.  tryToCommit counts on it when it counts successes.          *)
AcknowledgedHeld ==
    \A c \in calls :
        c.phase \in {"replied", "write"} /\ c.reply.Ok /\ currentTerm[c.to] = c.args.Term =>
            \A i \in DOMAIN c.args.Entries :
                /\ c.args.PrevLogIndex + 1 + i <= Len(log[c.to])
                /\ log[c.to][c.args.PrevLogIndex + 1 + i] = c.args.Entries[i]

(* Logs that have an entry with the same Index and Term agree up to it.     *)
LogMatching ==
    \A s, t \in Servers :
        \A i \in DOMAIN log[s] \cap DOMAIN log[t] :
            log[s][i].Term = log[t][i].Term => SubSeq(log[s], 1, i) = SubSeq(log[t], 1, i)

(* No goroutine indexes rf.log out of range: when it builds the arguments   *)
(* of AppendEntries from nextIndex, or when the applier reads an entry.     *)
NoPanic == ~panicked

(* The waiter of tryToCommit does not sleep on an entry that a majority has *)
(* appended: the success that completes the majority is not missed between  *)
(* the test of the wait loop and cond.Wait.                                 *)
MajorityWakes == \A j \in jobs : j.waiter = "asleep" => ~Majority(j.Counter)

(* A peer's term falls in two ways only: it is restarted, with nothing read *)
(* back, or tryToCommit adopts, without rf.mu, a term that was bigger when  *)
(* it compared.  All other requests and replies, however late, raise it or  *)
(* leave it.                                                                *)
TermsGrow ==
    [][\A s \in Servers :
          \/ currentTerm'[s] >= currentTerm[s]
          \/ count'["restarts"] > count["restarts"]
          \/ \E c \in calls : c.from = s /\ c.phase = "adopt" /\ c \notin calls']_vars

(* The first reign: no second election has been called and no peer has been *)
(* restarted.  Calls may be lost, late and reordered all the same.          *)
FirstReign == count["elections"] <= 1 /\ count["restarts"] = 0

(* No term has two leaders: checkOneLeader never finds more than one.       *)
ElectionSafety == \A s \in Servers : Cardinality(Leaders(currentTerm[s])) <= 1

(* No two peers apply different commands at the same index: checkLogs never *)
(* returns an error.                                                        *)
StateMachineSafety ==
    \A s \in Servers : \A i \in DOMAIN logs[s] : checkLogs(s, i)

(* becomeCandidate does not block for ever, in its wait loop or in wg.Wait. *)
ElectionsEnd == <>[](\A e \in elections : e.status = "over")

(* A command that Start has taken is applied by its leader, if the leader   *)
(* stays in office: lost Calls are repeated until a majority has the entry, *)
(* and the waiter, asleep or not, and then the applier get to know of it.   *)
StartedAreApplied ==
    <>[](\A j \in jobs :
            state[j.from] = Leader /\ currentTerm[j.from] = j.term
                => lastApplied[j.from] >= j.index)
==============================================================================
