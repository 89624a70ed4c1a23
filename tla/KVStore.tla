------------------------------- MODULE KVStore -------------------------------
(***************************************************************************)
(* The linearizable store that the clerks promise (models1/kv.go): every   *)
(* operation is called, takes effect at one instant, and returns.  A Put   *)
(* with the wrong version has no effect.  Only the effect that is in force *)
(* when the operation returns counts, so one without consequence (a read,  *)
(* a failed Put) may be replaced by a later one.                           *)
(***************************************************************************)
EXTENDS Naturals

CONSTANTS Clerks, Keys, Values, Empty, MaxVersion

OK == "OK"
ErrNoKey == "ErrNoKey"
ErrVersion == "ErrVersion"
ErrMaybe == "ErrMaybe"

Reply(value, version, err) == [Value |-> value, Version |-> version, Err |-> err]
NoReply == Reply(Empty, 0, "none")
NoOp == [op |-> "none"]

VARIABLES
    store,     \* Value and Version of every key; a missing key has Version 0
    pending,   \* the operation each clerk waits for
    effect,    \* the answer fixed by the instant at which it took effect
    answer     \* the answer of the latest operation

svars == <<store, pending, effect, answer>>

StoreInit ==
    /\ store = [k \in Keys |-> [Value |-> Empty, Version |-> 0]]
    /\ pending = [c \in Clerks |-> NoOp]
    /\ effect = [c \in Clerks |-> NoReply]
    /\ answer = [c \in Clerks |-> NoReply]

Call(c) ==
    /\ pending[c] = NoOp
    /\ \E o \in [op : {"Get"}, Key : Keys]
                \cup [op : {"Put"}, Key : Keys, Value : Values, Version : 0 .. MaxVersion] :
          pending' = [pending EXCEPT ![c] = o]
    /\ UNCHANGED <<store, effect, answer>>

Read(c) ==
    /\ pending[c].op = "Get"
    /\ LET e == store[pending[c].Key]
       IN  effect' = [effect EXCEPT ![c] =
               Reply(e.Value, e.Version, IF e.Version = 0 THEN ErrNoKey ELSE OK)]
    /\ UNCHANGED <<store, pending, answer>>

Write(c) ==
    LET o == pending[c] IN
    /\ o.op = "Put" /\ effect[c].Err # OK
    /\ \/ /\ o.Version = store[o.Key].Version
          /\ store' = [store EXCEPT ![o.Key] =
                          [Value |-> o.Value, Version |-> o.Version + 1]]
          /\ effect' = [effect EXCEPT ![c] = Reply(Empty, 0, OK)]
       \/ /\ o.Version # store[o.Key].Version
          /\ effect' = [effect EXCEPT ![c] =
                Reply(Empty, 0, IF store[o.Key].Version = 0 THEN ErrNoKey ELSE ErrVersion)]
          /\ UNCHANGED store
    /\ UNCHANGED <<pending, answer>>

Answers(c) ==
    {effect[c]} \cup (IF pending[c].op = "Put" THEN {Reply(Empty, 0, ErrMaybe)} ELSE {})

Return(c) ==
    /\ effect[c] # NoReply
    /\ answer' \in {[answer EXCEPT ![c] = a] : a \in Answers(c)}
    /\ pending' = [pending EXCEPT ![c] = NoOp]
    /\ effect' = [effect EXCEPT ![c] = NoReply]
    /\ UNCHANGED store

StoreNext == \E c \in Clerks : Call(c) \/ Read(c) \/ Write(c) \/ Return(c)

StoreSpec == StoreInit /\ [][StoreNext]_svars
==============================================================================
