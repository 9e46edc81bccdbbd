--------------------------------- MODULE NodeCall ---------------------------------
(***************************************************************************)
(* A call of the control plane to a node, end to end: the client's attempts*)
(* with their timeouts, the network, the signed request at the agent, the  *)
(* adapter behind it, the answer, and what the outcome does to the row of  *)
(* the access.  Behind both stands the agent's loop, which brings the node *)
(* to the rows again.                                                      *)
(*                                                                         *)
(* A client that has given an attempt up does not know what became of it:  *)
(* the request may be lost, under way, running or done, and is delivered or*)
(* finished while the next attempt or the next operation runs.             *)
(*                                                                         *)
(* Abstractions.  One access; a command of the adapter is one step, its    *)
(* pieces are in NodeRuntime; a pass of the loop is two, the rest of it is *)
(* in ReconcileLoop.  Operation ids are unique, so no request conflicts.   *)
(***************************************************************************)
EXTENDS Naturals, FiniteSets

CONSTANTS
    Applies, Revokes,  \* operations: the creation, and revocations one after the other
    Adapters,          \* what RUNTIME_ADAPTER and the protocol may select
    MaxRetries,        \* NODE_AGENT_RETRIES
    MaxFaults          \* bound: losses, timeouts, failures, restarts

Ops == Applies \cup Revokes

ASSUME OpsAreApart   == Applies \cap Revokes = {}
ASSUME AdaptersKnown == Adapters \subseteq {"wireguard", "xray", "mock", "shell", "unavailable"}
ASSUME BoundsAreNat  == MaxRetries \in Nat /\ MaxFaults \in Nat

VARIABLES
    adapter,
    call,     \* what the control plane knows of each operation
    net,      \* requests under way
    serving,  \* requests the agent is at
    answers,  \* answers under way
    table,    \* operation ids the agent has seen
    on,       \* the peer or client is there
    knows,    \* the agent knows whose it is
    row,      \* device_accesses.status
    want,     \* what the pass of the loop under way has fetched
    ran,      \* history: commands of each operation that took effect
    failed,   \* history: operations one of whose commands failed
    restarts, \* history: restarts of the agent
    faults    \* history: faults so far

node    == <<table, on, knows, ran, failed>>
control == <<call, row>>
vars == <<adapter, node, control, net, serving, answers, want, restarts, faults>>

Attempts == MaxRetries + 1
Call     == [pc: {"new", "sent", "backoff", "ok", "error"}, n: 0..Attempts]
Request  == [op: Ops, n: 1..Attempts]
Served   == [req: Request, pc: {"arrived", "running"}, gone: BOOLEAN]
Response == [req: Request, status: {200, 401, 500, 501, 503}]

Retriable(status) == status >= 500

(* Every variable has its type. *)
TypeOK ==
    /\ adapter \in Adapters
    /\ call \in [Ops -> Call]
    /\ net \subseteq Request /\ serving \subseteq Served /\ answers \subseteq Response
    /\ table \subseteq Ops /\ on \in BOOLEAN /\ knows \in BOOLEAN
    /\ row \in {"pending", "active", "error", "revoked"}
    /\ want \in {"none", "on", "off"}
    /\ ran \in [Ops -> Nat] /\ failed \subseteq Ops
    /\ restarts \in 0..MaxFaults /\ faults \in 0..MaxFaults

Init ==
    /\ adapter \in Adapters
    /\ call = [o \in Ops |-> [pc |-> "new", n |-> 0]]
    /\ net = {} /\ serving = {} /\ answers = {}
    /\ table = {} /\ on = FALSE /\ knows = FALSE
    /\ row = "pending" /\ want = "none"
    /\ ran = [o \in Ops |-> 0] /\ failed = {}
    /\ restarts = 0 /\ faults = 0

Fault == faults < MaxFaults /\ faults' = faults + 1
--------------------------------------------------------------------------------
(***************************************************************************)
(* The client.                                                             *)
(***************************************************************************)
Ended(o) == call[o].pc \in {"ok", "error"}

(* A revocation is started for an active access, one at a time.            *)
MayStart(o) ==
    \/ o \in Applies /\ row = "pending"
    \/ o \in Revokes /\ row = "active" /\ \A r \in Revokes : call[r].pc = "new" \/ Ended(r)

Send(o) ==
    /\ \/ call[o].pc = "new" /\ MayStart(o)
       \/ call[o].pc = "backoff"
    /\ call' = [call EXCEPT ![o] = [pc |-> "sent", n |-> @.n + 1]]
    /\ net' = net \cup {[op |-> o, n |-> call[o].n + 1]}
    /\ UNCHANGED <<adapter, node, row, serving, answers, want, restarts, faults>>

(* What the use cases make of the outcome: an access whose creation failed  *)
(* is in error, one whose revocation failed stays what it is. *)
Outcome(o, ok) ==
    IF o \in Applies THEN (IF ok THEN "active" ELSE "error")
    ELSE IF ok THEN "revoked" ELSE row

EndCall(o, ok) ==
    /\ call' = [call EXCEPT ![o].pc = IF ok THEN "ok" ELSE "error"]
    /\ row' = Outcome(o, ok)

TryAgain(o) ==
    IF call[o].n < Attempts
    THEN call' = [call EXCEPT ![o].pc = "backoff"] /\ UNCHANGED row
    ELSE EndCall(o, FALSE)

Receive(o) ==
    /\ call[o].pc = "sent"
    /\ \E a \in answers :
           /\ a.req = [op |-> o, n |-> call[o].n]
           /\ answers' = answers \ {a}
           /\ IF Retriable(a.status) THEN TryAgain(o) ELSE EndCall(o, a.status = 200)
    /\ UNCHANGED <<adapter, node, net, serving, want, restarts, faults>>

(* The attempt times out or its connection breaks.  The agent may learn of  *)
(* it, and what is under way may arrive all the same. *)
AttemptFails(o) ==
    LET req == [op |-> o, n |-> call[o].n]
        mine == {s \in serving : s.req = req}
        due  == mine # {} \/ \E a \in answers : a.req = req
    IN  /\ call[o].pc = "sent"
        /\ IF due THEN Fault ELSE UNCHANGED faults
        /\ TryAgain(o)
        /\ net' \in {net, net \ {req}}
        /\ serving' \in {serving, (serving \ mine) \cup {[s EXCEPT !.gone = TRUE] : s \in mine}}
        /\ answers' = {a \in answers : a.req # req}
        /\ UNCHANGED <<adapter, node, want, restarts>>

(* The handler of the update is over and with it the context of the call.   *)
Abandoned(o) ==
    /\ call[o].pc = "backoff" /\ Fault
    /\ EndCall(o, FALSE)
    /\ UNCHANGED <<adapter, node, net, serving, answers, want, restarts>>
--------------------------------------------------------------------------------
(***************************************************************************)
(* The agent.                                                              *)
(***************************************************************************)
Awaited(req) == call[req.op] = [pc |-> "sent", n |-> req.n]

Deliver(req) ==
    /\ req \in net
    /\ net' = net \ {req}
    /\ \E gone \in IF Awaited(req) THEN {FALSE} ELSE BOOLEAN :
           serving' = serving \cup {[req |-> req, pc |-> "arrived", gone |-> gone]}
    /\ UNCHANGED <<adapter, node, control, answers, want, restarts, faults>>

(* A request that was on its way for longer than the allowed skew.          *)
Refuse(req) ==
    /\ req \in net /\ Fault
    /\ net' = net \ {req}
    /\ answers' = answers \cup {[req |-> req, status |-> 401]}
    /\ UNCHANGED <<adapter, node, control, serving, want, restarts>>

Respond(s, status) ==
    /\ serving' = serving \ {s}
    /\ answers' = IF s.gone THEN answers ELSE answers \cup {[req |-> s.req, status |-> status]}

(* The adapters that do nothing. *)
Decline(s) ==
    /\ s.pc = "arrived" /\ adapter \in {"shell", "unavailable"}
    /\ Respond(s, IF adapter = "shell" THEN 501 ELSE 503)
    /\ UNCHANGED <<adapter, node, control, net, want, restarts, faults>>

(* Mutant: no look at the table. *)
SeenNever(s) == FALSE

Seen(s) == adapter \in {"wireguard", "mock"} /\ s.req.op \in table

Repeat(s) ==
    /\ s.pc = "arrived" /\ Seen(s)
    /\ Respond(s, 200)
    /\ UNCHANGED <<adapter, node, control, net, want, restarts, faults>>

(* Clients of Xray are not in the table: the command of a repeated request  *)
(* runs again, and finds nothing to do. *)
Begin(s) ==
    /\ s.pc = "arrived" /\ adapter \in {"wireguard", "xray"} /\ ~Seen(s)
    /\ table' = IF adapter = "xray" THEN table ELSE table \cup {s.req.op}
    /\ serving' = (serving \ {s}) \cup {[s EXCEPT !.pc = "running"]}
    /\ UNCHANGED <<adapter, control, on, knows, ran, failed, net, answers, want, restarts, faults>>

TakesEffect(s) ==
    /\ on' = (s.req.op \in Applies)
    /\ ran' = [ran EXCEPT ![s.req.op] = @ + 1]

(* The command ends well, before it learns that the client is gone.         *)
Run(s) ==
    /\ s.pc = "running"
    /\ TakesEffect(s)
    /\ knows' = (s.req.op \in Applies)
    /\ Respond(s, 200)
    /\ UNCHANGED <<adapter, table, failed, control, net, want, restarts, faults>>

(* The mock does it all under one lock.                                     *)
Mock(s) ==
    /\ s.pc = "arrived" /\ adapter = "mock" /\ ~Seen(s)
    /\ table' = table \cup {s.req.op}
    /\ TakesEffect(s)
    /\ Respond(s, 200)
    /\ UNCHANGED <<adapter, knows, failed, control, net, want, restarts, faults>>

(* Or it fails, or is killed with the context, perhaps after it took effect.*)
RunFails(s) ==
    /\ s.pc = "running"
    /\ IF s.gone THEN UNCHANGED faults ELSE Fault
    /\ TakesEffect(s) \/ UNCHANGED <<on, ran>>
    /\ failed' = failed \cup {s.req.op}
    /\ Respond(s, 500)
    /\ UNCHANGED <<adapter, table, knows, control, net, want, restarts>>

(* What the clients wait for then breaks off with the connection.           *)
RestartAgent ==
    /\ Fault
    /\ restarts' = restarts + 1
    /\ table' = {} /\ knows' = FALSE /\ serving' = {} /\ want' = "none"
    /\ on' = (on /\ adapter # "mock")
    /\ UNCHANGED <<adapter, control, ran, failed, net, answers>>
--------------------------------------------------------------------------------
(***************************************************************************)
(* The loop of the agent.                                                  *)
(***************************************************************************)
FetchDesired ==
    /\ want = "none" /\ adapter \in {"wireguard", "xray"}
    /\ want' = IF row = "active" THEN "on" ELSE "off"
    /\ UNCHANGED <<adapter, node, control, net, serving, answers, restarts, faults>>

(* Mutant: what is too much is left alone. *)
ReconcileMissing ==
    /\ want # "none"
    /\ on' = (on \/ want = "on")
    /\ knows' = IF want = "on" THEN on => knows ELSE knows
    /\ want' = "none"
    /\ UNCHANGED <<adapter, table, ran, failed, control, net, serving, answers, restarts, faults>>

(* A client of Xray is only revoked if the agent knows whose it is.         *)
Reconcile ==
    /\ want # "none"
    /\ LET stays == on /\ want = "off" /\ adapter = "xray" /\ ~knows
       IN  on' = (want = "on" \/ stays)
    /\ knows' = (IF on = (want = "on") THEN knows ELSE want = "on")
    /\ want' = "none"
    /\ UNCHANGED <<adapter, table, ran, failed, control, net, serving, answers, restarts, faults>>
--------------------------------------------------------------------------------
Client(o) == Send(o) \/ Receive(o) \/ AttemptFails(o)

Handler == \E s \in serving : Decline(s) \/ Repeat(s) \/ Begin(s) \/ Mock(s) \/ Run(s) \/ RunFails(s)

Loop == FetchDesired \/ Reconcile

Next ==
    \/ \E o \in Ops : Client(o) \/ Abandoned(o)
    \/ Handler \/ Loop \/ RestartAgent
    \/ \E req \in net : Deliver(req) \/ Refuse(req)

Spec == Init /\ [][Next]_vars

(* The client has timeouts, the handlers and the loop of the agent run, the *)
(* loop from one interval to the next. *)
Fairness == (\A o \in Ops : WF_vars(Client(o))) /\ WF_vars(Handler) /\ WF_vars(Loop)
FairSpec == Spec /\ Fairness
--------------------------------------------------------------------------------
(***************************************************************************)
(* Properties.                                                             *)
(***************************************************************************)

(* What the control plane takes for done was done: a call that succeeded    *)
(* had its command take effect on the node, except that a repeated attempt  *)
(* for a WireGuard peer may be answered from the table while, or although,  *)
(* the command of the first one runs, failed or broke off. *)
SuccessIsApplied ==
    \A o \in Ops : call[o].pc = "ok" =>
        ran[o] > 0 \/ (adapter = "wireguard" /\ call[o].n > 1)

(* However often a request for a WireGuard peer is repeated and however     *)
(* late its copies come, its command runs once per life of the agent.       *)
OnceUnlessForgotten ==
    adapter \in {"wireguard", "mock"} => \A o \in Ops : ran[o] <= 1 + restarts

(* Every call ends. *)
CallEnds == \A o \in Ops : call[o].pc = "sent" ~> Ended(o)

(* Rows and node agree in the end, whatever attempts were lost, repeated,   *)
(* finished late or answered too well; all that may be left over is a client*)
(* of Xray that the agent does not know, from before a restart or from a    *)
(* command that failed after the file was written. *)
Converges ==
    adapter \in {"wireguard", "xray"} =>
        <>[](\/ on = (row = "active")
             \/ adapter = "xray" /\ on /\ ~knows)

(* Retries, late copies and lost answers make the control plane believe    *)
(* nothing that was not done, and nothing is done twice.                   *)
AnswersAreTrue ==
    TypeOK /\ SuccessIsApplied /\ OnceUnlessForgotten

(* Every call ends, and what it left half done is made good.               *)
CallsSettle ==
    CallEnds /\ Converges

================================================================================
