------------------------------- MODULE KVModel -------------------------------
(***************************************************************************)
(* How the tests judge a history of operations.  models1/kv.go says what   *)
(* one key may do, and checkPorcupine (kvtest1/porcupine.go) asks whether   *)
(* the recorded operations, each with the interval from its call to its    *)
(* return, have an order that agrees with the intervals and with the model. *)
(*                                                                         *)
(* The search is kept up to date while operations are made.  A candidate   *)
(* is an order of the operations that have returned, and of some that are  *)
(* pending: st is the state it leads to, met the states in which it puts   *)
(* the pending ones.  The history has an order iff a candidate is left.    *)
(***************************************************************************)
EXTENDS Naturals, FiniteSetsExt, Functions

CONSTANT Empty   \* the zero Value

KvInit == [st |-> [Value |-> Empty, Version |-> 0], met |-> <<>>]

(* KvModel.Step: the outputs it accepts, and the state it returns. *)
Accepts(st, inp, out) ==
    \/ inp.op = "Get" /\ out.Value = st.Value
    \/ /\ inp.op = "Put"
       /\ out.Err \in {IF st.Version = inp.Version THEN "OK" ELSE "ErrVersion", "ErrMaybe"}

StepMutant(st, inp) ==
    IF inp.op = "Put" THEN [Value |-> inp.Value, Version |-> st.Version + 1] ELSE st

Step(st, inp) ==
    IF inp.op = "Put" /\ st.Version = inp.Version
    THEN [Value |-> inp.Value, Version |-> st.Version + 1] ELSE st

(* The operation of c, with input inp, comes next in the order. *)
Insert(x, c, inp) ==
    [st |-> Step(x.st, inp),
     met |-> [d \in DOMAIN x.met \cup {c} |-> IF d = c THEN x.st ELSE x.met[d]]]

(* Some of the pending operations come next, in any order. *)
Extend(xs, pending, input) ==
    FoldSet(LAMBDA n, ys :
                ys \cup UNION {{Insert(y, c, input[c]) : c \in pending \ DOMAIN y.met} : y \in ys},
            xs, 1 .. Cardinality(pending))

(* The operation of c returns out: an order in which it does not come yet   *)
(* puts it behind some of those that are pending.                           *)
Returned(xs, c, pending, input, out) ==
    LET open == {x \in xs : c \notin DOMAIN x.met}
        ys == (xs \ open)
              \cup {Insert(y, c, input[c]) : y \in Extend(open, pending \ {c}, input)}
    IN  {[y EXCEPT !.met = Restrict(@, DOMAIN @ \ {c})] :
            y \in {z \in ys : Accepts(z.met[c], input[c], out)}}
==============================================================================
