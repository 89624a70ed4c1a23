------------------------------- MODULE LabRPC --------------------------------
(***************************************************************************)
(* The simulated network of labrpc/labrpc.go: what happens to a Call.      *)
(* A critical section of Network.mu is one step; between two of them a     *)
(* Call is where its phase says:                                           *)
(*   sent        on the way to processReq                                  *)
(*   accepted    the server is known, the handler not yet started          *)
(*   waiting     processReq waits for the handler, and polls the server    *)
(*   got         the handler's reply is there, the server not yet checked  *)
(*   failing     replyMsg{false, nil} is under way                         *)
(*   delivering  the reply is under way                                    *)
(*   returned    Call has returned ok                                      *)
(* The handler runs in a goroutine of its own that processReq may abandon. *)
(* Delays, long reordering included, are the time a step may take.         *)
(***************************************************************************)
EXTENDS Integers

CONSTANTS
    Servers,    \* server names
    Clerk,      \* a client
    CallIds     \* the Calls that are made

ASSUME NetAssumption == Clerk \notin Servers

VARIABLES
    enabled,    \* the ends that are enabled
    servers,    \* the Server registered under a name, 0 for none
    reliable,
    done,       \* the network has been cleaned up
    call        \* the Calls

net == <<enabled, servers, reliable, done>>

(* A client end: whose it is, the server it is connected to, and, since a  *)
(* server gets fresh ends when it is started, which of its incarnations has *)
(* it.                                                                      *)
Ends == [from : Servers \cup {Clerk}, to : Servers, gen : Nat]

Phases ==
    {"idle", "sent", "accepted", "waiting", "got", "failing", "delivering", "returned"}

(* server and reliable are what processReq has read when it accepted. *)
CallRecords ==
    [phase : Phases, end : Ends, server : Nat, reliable : BOOLEAN,
     handler : {"none", "running", "finished"}, ok : BOOLEAN]

NetTypeOK ==
    /\ enabled \subseteq Ends
    /\ servers \in [Servers -> Nat]
    /\ reliable \in BOOLEAN
    /\ done \in BOOLEAN
    /\ call \in [CallIds -> CallRecords]

Move(c, phase) == call' = [call EXCEPT ![c].phase = phase]

(* Once the network is cleaned up, a request may find nobody to take it. *)
Call(c, e) ==
    /\ call[c].phase = "idle"
    /\ \E phase \in {"sent"} \cup (IF done THEN {"failing"} ELSE {}) :
          call' = [call EXCEPT ![c].phase = phase, ![c].end = e]

processReq(c) ==
    LET e == call[c].end
        server == servers[e.to]
    IN  /\ call[c].phase = "sent"
        /\ \/ /\ e \in enabled /\ server # 0
              /\ call' = [call EXCEPT ![c].phase = "accepted",
                                      ![c].server = server, ![c].reliable = reliable]
           \/ /\ e \notin enabled \/ server = 0
              /\ Move(c, "failing")
        /\ UNCHANGED net

dropRequest(c) ==
    /\ call[c].phase = "accepted" /\ ~call[c].reliable
    /\ Move(c, "failing")
    /\ UNCHANGED net

dispatch(c) ==
    /\ call[c].phase = "accepted"
    /\ call' = [call EXCEPT ![c].phase = "waiting", ![c].handler = "running"]
    /\ UNCHANGED net

(* The handler of the service returns, whether or not anyone waits for it. *)
handle(c) ==
    /\ call[c].handler = "running"
    /\ call' = [call EXCEPT ![c].handler = "finished"]
    /\ UNCHANGED net

DeadMutant(c) == call[c].end \notin enabled \/ servers[call[c].end.to] = 0

isServerDead(c) ==
    call[c].end \notin enabled \/ servers[call[c].end.to] # call[c].server

receive(c) ==
    /\ call[c].phase = "waiting" /\ call[c].handler = "finished"
    /\ Move(c, "got")
    /\ UNCHANGED net

poll(c) ==
    /\ call[c].phase = "waiting" /\ isServerDead(c)
    /\ Move(c, "failing")
    /\ UNCHANGED net

RecheckMutant(c) ==
    /\ call[c].phase = "got"
    /\ Move(c, "delivering")
    /\ UNCHANGED net

(* The check after the wait, and the dropping of replies. *)
recheck(c) ==
    /\ call[c].phase = "got"
    /\ \/ isServerDead(c) /\ Move(c, "failing")
       \/ ~isServerDead(c) /\ Move(c, "delivering")
       \/ ~isServerDead(c) /\ ~call[c].reliable /\ Move(c, "failing")
    /\ UNCHANGED net

return(c) ==
    /\ call[c].phase \in {"failing", "delivering"}
    /\ call' = [call EXCEPT ![c].phase = "returned", ![c].ok = call[c].phase = "delivering"]
    /\ UNCHANGED net

(* All steps of processReq and of Call that the network takes by itself. *)
Transport(c) ==
    \/ processReq(c) \/ dispatch(c) \/ dropRequest(c)
    \/ receive(c) \/ poll(c) \/ recheck(c) \/ return(c)
==============================================================================
