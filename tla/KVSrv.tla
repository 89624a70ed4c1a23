-------------------------------- MODULE KVSrv --------------------------------
(***************************************************************************)
(* The versioned key/value server (kvsrv1/server.go) and its Clerk         *)
(* (kvsrv1/client.go), which call each other over labrpc's lossy network.  *)
(*                                                                         *)
(* One Call is: the request reaches the server or is lost; the handler     *)
(* runs, under the server's mutex, as one step; the reply reaches the      *)
(* Clerk or is lost.  When Call returns false the Clerk calls again with   *)
(* the same arguments, without knowing whether the handler ran.            *)
(***************************************************************************)
EXTENDS Naturals

CONSTANTS
    Clerks,      \* clerks; each has at most one operation outstanding
    Keys,
    Values,
    Empty,       \* the zero Value of a key that does not exist
    MaxVersion   \* bound on the versions the application passes to Put

ASSUME KVAssumption == MaxVersion \in Nat

OK == "OK"
ErrNoKey == "ErrNoKey"
ErrVersion == "ErrVersion"
ErrMaybe == "ErrMaybe"

GetOps == [op : {"Get"}, Key : Keys]
PutOps == [op : {"Put"}, Key : Keys, Value : Values, Version : Nat]
NoOp == [op |-> "none"]

Reply(value, version, err) == [Value |-> value, Version |-> version, Err |-> err]

VARIABLES
    exists,     \* keys in the server's Kvmap
    Kvmap,      \* their ValueVersion; the zero ValueVersion for other keys
    op,         \* the operation each clerk is executing, with its arguments
    phase,      \* "idle", "called" (request under way), "served" (reply under way)
    resend,     \* an earlier Call of this operation returned false
    reply,      \* the server's latest reply to this operation
    result,     \* what the clerk's latest operation returned
    performed   \* history: how often the current Put took effect

server == <<exists, Kvmap>>
clerk == <<op, phase, resend, reply, result, performed>>
vars == <<server, clerk>>

Replies == [Value : Values \cup {Empty}, Version : Nat, Err : {OK, ErrNoKey, ErrVersion}]
NoReply == Reply(Empty, 0, "none")

TypeOK ==
    /\ exists \subseteq Keys
    /\ Kvmap \in [Keys -> [Value : Values \cup {Empty}, Version : Nat]]
    /\ op \in [Clerks -> GetOps \cup PutOps \cup {NoOp}]
    /\ phase \in [Clerks -> {"idle", "called", "served"}]
    /\ resend \in [Clerks -> BOOLEAN]
    /\ reply \in [Clerks -> Replies \cup {NoReply}]
    /\ result \in [Clerks -> Replies \cup {NoReply}
                             \cup {Reply(Empty, 0, ErrMaybe)}]
    /\ performed \in [Clerks -> Nat]
-----------------------------------------------------------------------------
(***************************************************************************)
(* The server's handlers                                                   *)
(***************************************************************************)
GetReply(k) ==
    IF k \in exists THEN Reply(Kvmap[k].Value, Kvmap[k].Version, OK)
                    ELSE Reply(Empty, 0, ErrNoKey)

(* Mutant: an existing key is overwritten whatever the version. *)
PutReplyMutant(k, version) ==
    IF k \in exists \/ version = 0 THEN OK ELSE ErrNoKey

PutReply(k, version) ==
    CASE k \notin exists -> IF version # 0 THEN ErrNoKey ELSE OK
      [] k \in exists -> IF version # Kvmap[k].Version THEN ErrVersion ELSE OK

Get(c) ==
    /\ phase[c] = "called" /\ op[c].op = "Get"
    /\ phase' = [phase EXCEPT ![c] = "served"]
    /\ reply' = [reply EXCEPT ![c] = GetReply(op[c].Key)]
    /\ UNCHANGED <<server, op, resend, result, performed>>

Put(c) ==
    LET k == op[c].Key
        err == PutReply(k, op[c].Version)
    IN  /\ phase[c] = "called" /\ op[c].op = "Put"
        /\ phase' = [phase EXCEPT ![c] = "served"]
        /\ reply' = [reply EXCEPT ![c] = Reply(Empty, 0, err)]
        /\ \/ /\ err = OK
              /\ exists' = exists \cup {k}
              /\ Kvmap' = [Kvmap EXCEPT ![k] =
                              [Value |-> op[c].Value, Version |-> op[c].Version + 1]]
              /\ performed' = [performed EXCEPT ![c] = @ + 1]
           \/ err # OK /\ UNCHANGED <<server, performed>>
        /\ UNCHANGED <<op, resend, result>>
-----------------------------------------------------------------------------
(***************************************************************************)
(* The Clerk and the network                                               *)
(***************************************************************************)
(* Clerk.Get or Clerk.Put is called and makes its first Call. *)
Invoke(c, o) ==
    /\ phase[c] = "idle"
    /\ op' = [op EXCEPT ![c] = o]
    /\ phase' = [phase EXCEPT ![c] = "called"]
    /\ resend' = [resend EXCEPT ![c] = FALSE]
    /\ reply' = [reply EXCEPT ![c] = NoReply]
    /\ performed' = [performed EXCEPT ![c] = 0]
    /\ UNCHANGED <<server, result>>

(* Call returns false, before or after the handler ran; the clerk sleeps    *)
(* and calls again.                                                         *)
CallFails(c) ==
    /\ phase[c] \in {"called", "served"}
    /\ phase' = [phase EXCEPT ![c] = "called"]
    /\ resend' = [resend EXCEPT ![c] = TRUE]
    /\ UNCHANGED <<server, op, reply, result, performed>>

(* Mutant: ErrVersion is passed on to the application also after a resend. *)
ResultMutant(c) == reply[c]

(* Mutant: the doubtful answer is returned with an empty Err. *)
ResultTypeMutant(c) ==
    IF op[c].op = "Put" /\ resend[c] /\ reply[c].Err = ErrVersion
    THEN Reply(Empty, 0, "")
    ELSE reply[c]

Result(c) ==
    IF op[c].op = "Put" /\ resend[c] /\ reply[c].Err = ErrVersion
    THEN Reply(Empty, 0, ErrMaybe)
    ELSE reply[c]

(* Call returns true and the operation returns to the application. *)
Return(c) ==
    /\ phase[c] = "served"
    /\ phase' = [phase EXCEPT ![c] = "idle"]
    /\ result' = [result EXCEPT ![c] = Result(c)]
    /\ UNCHANGED <<server, op, resend, reply, performed>>
-----------------------------------------------------------------------------
Init ==
    /\ exists = {}
    /\ Kvmap = [k \in Keys |-> [Value |-> Empty, Version |-> 0]]
    /\ op = [c \in Clerks |-> NoOp]
    /\ phase = [c \in Clerks |-> "idle"]
    /\ resend = [c \in Clerks |-> FALSE]
    /\ reply = [c \in Clerks |-> NoReply]
    /\ result = [c \in Clerks |-> NoReply]
    /\ performed = [c \in Clerks |-> 0]

(* The operations the application may ask for. *)
Ops == GetOps \cup [op : {"Put"}, Key : Keys, Value : Values, Version : 0 .. MaxVersion]

Serve(c) == Get(c) \/ Put(c)

Next ==
    \E c \in Clerks :
        \/ \E o \in Ops : Invoke(c, o)
        \/ Serve(c)
        \/ CallFails(c)
        \/ Return(c)

Spec == Init /\ [][Next]_vars
-----------------------------------------------------------------------------
(***************************************************************************)
(* Properties                                                              *)
(***************************************************************************)

(* At most once, and truthfully: however often a Put is sent, the server    *)
(* performs it at most once; OK means it was performed, ErrVersion and      *)
(* ErrNoKey mean it was not, and only ErrMaybe leaves it open.              *)
PutAnswersAreTrue ==
    \A c \in Clerks :
        /\ performed[c] <= 1
        /\ phase[c] = "idle" /\ op[c].op = "Put" =>
              /\ result[c].Err = OK => performed[c] = 1
              /\ result[c].Err \in {ErrVersion, ErrNoKey} => performed[c] = 0

(* Linearizability: server, network and clerks together implement a store   *)
(* on which every operation takes effect at one instant between its call    *)
(* and its return.                                                          *)
Store == INSTANCE KVStore WITH
    store <- Kvmap,
    pending <- [c \in Clerks |-> IF phase[c] = "idle" THEN NoOp ELSE op[c]],
    effect <- [c \in Clerks |->
                  IF phase[c] = "idle" THEN NoReply
                  ELSE IF performed[c] > 0 THEN Reply(Empty, 0, OK) ELSE reply[c]],
    answer <- result

ImplementsStore == Store!StoreSpec
==============================================================================
