-------------------------------- MODULE RPC ----------------------------------
(***************************************************************************)
(* What ClientEnd.Call promises its caller: it returns true only if the    *)
(* server has executed the request.  The server executes a request at most *)
(* once, at any time after the Call began, also after the caller was told  *)
(* that no reply came.  What it has executed stays executed.               *)
(***************************************************************************)
CONSTANT CallIds

VARIABLES
    state,      \* idle, pending, or what Call returned
    executed    \* the Calls whose effect the server has

rpcVars == <<state, executed>>

RPCInit ==
    /\ state = [c \in CallIds |-> "idle"]
    /\ executed = {}

Goes(c, from, to) ==
    /\ state[c] = from
    /\ state' = [state EXCEPT ![c] = to]
    /\ UNCHANGED executed

Begin(c) == Goes(c, "idle", "pending")

Succeed(c) == c \in executed /\ Goes(c, "pending", "true")

Fail(c) == Goes(c, "pending", "false")

Execute(c) ==
    /\ state[c] \in {"pending", "false"} /\ c \notin executed
    /\ executed' = executed \cup {c}
    /\ UNCHANGED state

RPCNext == \E c \in CallIds : Begin(c) \/ Succeed(c) \/ Fail(c) \/ Execute(c)

RPCSpec == RPCInit /\ [][RPCNext]_rpcVars
==============================================================================
