------------------------------- MODULE MCRaft --------------------------------
(* Instances of Raft for TLC.  Peers are interchangeable.  A run that is    *)
(* about a later stage begins there; its initial states are reached from    *)
(* Init.  used says how much of the bounds a stage has already used up.     *)
EXTENDS Raft, TLC

Symmetry == Permutations(Servers)

Nothing == [n \in Counted |-> 0]

Command(n, term, index) == [Term |-> term, Index |-> index, Command |-> n]

Job(n, s, term, index, waiter) ==
    [no |-> n - 1, from |-> s, term |-> term, index |-> index, Counter |-> 1, waiter |-> waiter]

(* The first requests of the job of command n, which s has just read. *)
Requests(n, s, term, phase, reply) ==
    {[kind |-> "commit", no |-> n - 1, try |-> 0, from |-> s, to |-> t, phase |-> phase,
      args |-> [NoArgs(term) EXCEPT !.Entries = Tail(log[s])], reply |-> reply,
      next |-> 0] : t \in Servers \ {s}}

(* When a leader is elected on empty logs its nextIndex is 1. *)
AtOne == [s \in Servers |-> 1]

(* Every leader has a first heartbeat to send, which becomeLeader started.  *)
Leading(leaders, next) ==
    /\ state = [s \in Servers |-> IF s \in leaders THEN Leader ELSE Follower]
    /\ nextIndex = [s \in Servers |->
           IF s \in leaders THEN next ELSE [t \in Servers |-> 0]]
    /\ spawned = [s \in Servers |-> [g \in Goroutines |->
           IF s \in leaders /\ g = "sendHeartBeat" THEN 1 ELSE 0]]
    /\ elections = {}
    /\ panicked = FALSE

NothingApplied ==
    /\ commitIndex = [s \in Servers |-> 0]
    /\ lastApplied = [s \in Servers |-> 0]
    /\ logs = [s \in Servers |-> <<>>]

Fresh(used) ==
    /\ Make /\ Leading({}, AtOne) /\ NothingApplied
    /\ jobs = {} /\ calls = {}
    /\ count = used

(* The first election has just been won by a peer that everybody voted for: *)
(* all Calls of becomeCandidate have returned.                              *)
Elected(s, next) ==
    /\ currentTerm = [t \in Servers |-> 1]
    /\ voteFor = [t \in Servers |-> s]
    /\ Leading({s}, next)

Led(s, used) ==
    /\ Elected(s, AtOne) /\ NothingApplied
    /\ log = [t \in Servers |-> <<Dummy>>]
    /\ jobs = {} /\ calls = {}
    /\ count = used

(* It has taken a command and sent it to the others. *)
Sent(s, used) ==
    /\ Elected(s, AtOne) /\ NothingApplied
    /\ log = [t \in Servers |-> IF t = s THEN <<Dummy, Command(1, 1, 1)>> ELSE <<Dummy>>]
    /\ jobs = {Job(1, s, 1, 1, "asleep")}
    /\ calls = Requests(1, s, 1, "sent", NoReply)
    /\ count = used

(* The leader of term 1 has taken commands by Start and is cut off; another *)
(* peer has won term 2 with the vote of the third, and its Call to the old  *)
(* leader has failed.                                                       *)
TwoLeaders(old, new) ==
    /\ old # new
    /\ currentTerm = [t \in Servers |-> IF t = old THEN 1 ELSE 2]
    /\ voteFor = [t \in Servers |-> IF t = old THEN old ELSE new]
    /\ Leading({old, new}, AtOne) /\ NothingApplied

Uncommitted(old) ==
    log = [t \in Servers |-> IF t = old THEN <<Dummy, Command(1, 1, 1)>> ELSE <<Dummy>>]

(* One command; tryToCommit is yet to run. *)
Deposed(old, new, used) ==
    /\ TwoLeaders(old, new) /\ Uncommitted(old)
    /\ jobs = {Job(1, old, 1, 1, "start")}
    /\ calls = {}
    /\ count = used

(* Then tryToCommit has run and sleeps, and both others have refused its    *)
(* requests: their replies, with term 2, are on the way.                    *)
Refused(old, new, used) ==
    /\ TwoLeaders(old, new) /\ Uncommitted(old)
    /\ jobs = {Job(1, old, 1, 1, "asleep")}
    /\ calls = Requests(1, old, 1, "replied", [Term |-> 2, Ok |-> FALSE])
    /\ count = used

(* Two commands; the new leader has taken one of its own and sent it.       *)
Overtaken(old, new, used) ==
    /\ TwoLeaders(old, new)
    /\ log = [t \in Servers |->
           CASE t = old -> <<Dummy, Command(1, 1, 1), Command(2, 1, 2)>>
             [] t = new -> <<Dummy, Command(3, 2, 1)>>
             [] OTHER -> <<Dummy>>]
    /\ jobs = {Job(1, old, 1, 1, "start"), Job(2, old, 1, 2, "start"),
               Job(3, new, 2, 1, "asleep")}
    /\ calls = Requests(3, new, 2, "sent", NoReply)
    /\ count = used
-----------------------------------------------------------------------------
(* One reign: a second command while the first is on its way; or one        *)
(* command, a heartbeat and a lost Call.  Or elections: two of them and a   *)
(* lost Call.  For liveness the peers are not interchangeable to TLC; the   *)
(* leader is any one of them.                                               *)
ReignInit ==
    LET s == CHOOSE s \in Servers : TRUE
        over == [Nothing EXCEPT !["elections"] = MaxElections]
    IN  \/ Sent(s, [over EXCEPT !["starts"] = 1, !["beats"] = MaxBeats,
                                !["losses"] = MaxLosses])
        \/ Led(s, [over EXCEPT !["starts"] = MaxStarts - 1])
        \/ Fresh([Nothing EXCEPT !["starts"] = MaxStarts, !["beats"] = MaxBeats])

ReplicationSpec ==
    ReignInit /\ [][Next]_vars /\ ReplicationFairness /\ ElectionFairness

(* Two elections, a lost Call and a restart; or a new leader and a deposed  *)
(* one, both with a command to replicate, or one of them with a heartbeat;  *)
(* or a deposed one whose term grows once more while it is told of the new  *)
(* leader's; or one command and a heartbeat, and a peer that is restarted   *)
(* in the middle.                                                           *)
ChangesInit ==
    LET over == [Nothing EXCEPT !["restarts"] = MaxRestarts, !["losses"] = MaxLosses]
        reigns == [over EXCEPT !["elections"] = MaxElections]
        quiet == [over EXCEPT !["beats"] = MaxBeats]
    IN  \/ Fresh([Nothing EXCEPT !["beats"] = MaxBeats, !["starts"] = MaxStarts])
        \/ \E old, new \in Servers :
              \/ Deposed(old, new, [reigns EXCEPT !["starts"] = 1, !["beats"] = MaxBeats])
              \/ Deposed(old, new, [reigns EXCEPT !["starts"] = MaxStarts])
              \/ Refused(old, new, [quiet EXCEPT !["elections"] = MaxElections - 1,
                                                 !["starts"] = MaxStarts])
        \/ \E s \in Servers :
              Led(s, [Nothing EXCEPT !["elections"] = MaxElections,
                                     !["starts"] = MaxStarts - 1])

ChangesSpec == ChangesInit /\ [][Next]_vars

DivergeSpec ==
    /\ \E old, new \in Servers : Deposed(old, new, [Nothing EXCEPT !["starts"] = 1])
    /\ [][Next]_vars

PanicSpec ==
    /\ \E old, new \in Servers : Overtaken(old, new, [Nothing EXCEPT !["starts"] = 3])
    /\ [][Next]_vars
==============================================================================
