------------------------------- MODULE NodeFleet -------------------------------
(***************************************************************************)
(* Who sets the status of a node.  The row of a node in vpn_nodes has four *)
(* writers that know nothing of each other: the agent's register and       *)
(* heartbeat requests, the health poll of the control plane, an admin, and *)
(* ensureSingleNode at every start of the control plane.                   *)
(*                                                                         *)
(* The poll lists all rows once, checks the nodes in parallel, compares    *)
(* each result with the status it listed and writes later; the agent tests *)
(* its runtime and posts the result later.  Requests that outlive the      *)
(* agent's timeout stay on the wire and may arrive in any order.           *)
(*                                                                         *)
(* Abstractions.  Name, region, urls, capacity and supported protocols of  *)
(* a node are left out, and so is last_seen_at.  The agent's apply pass is *)
(* in ReconcileLoop.                                                       *)
(***************************************************************************)
EXTENDS Naturals

CONSTANTS
    Nodes,      \* ids of nodes with an agent
    Own,        \* cfg.NodeID, the node the control plane is set up with
    MaxFaults,  \* bound: crashes, runtime failures, timeouts, lost requests, restarts
    MaxAdmin    \* bound: status changes by an admin

OwnIsNode      == Own \in Nodes
BoundsAreNat   == MaxFaults \in Nat /\ MaxAdmin \in Nat

VARIABLES
    status,     \* vpn_nodes.status, "none" while there is no row
    agent,      \* per node: the agent's control loop
    runtimeOK,  \* per node: its containers answer
    wire,       \* per node: posted requests not yet handled
    poll,       \* per node: the poll's goroutine for it
    faults,     \* history: faults so far
    edits,      \* history: admin changes so far
    blamed      \* history: nodes that met a fault, an admin or a start as another node

vars == <<status, agent, runtimeOK, wire, poll, faults, edits, blamed>>

Statuses == {"none", "active", "down", "draining"}
Requests == {"register", "active", "unhealthy"}
AgentPcs == {"off", "boot", "bootWait", "pass", "passWait", "check", "beatWait", "fetch"}

Loop   == [pc: AgentPcs, registered: BOOLEAN, sent: Requests]
Booted == [pc |-> "boot", registered |-> FALSE, sent |-> "register"]
Poller == [pc: {"idle", "check", "write"}, listed: Statuses, target: Statuses]
NoPoll == [pc |-> "idle", listed |-> "none", target |-> "none"]

TypeOK ==
    /\ status \in [Nodes -> Statuses]
    /\ agent \in [Nodes -> Loop]
    /\ runtimeOK \in [Nodes -> BOOLEAN]
    /\ wire \in [Nodes -> SUBSET Requests]
    /\ poll \in [Nodes -> Poller]
    /\ faults \in 0..MaxFaults
    /\ edits \in 0..MaxAdmin
    /\ blamed \in SUBSET Nodes

Init ==
    /\ status = [n \in Nodes |-> IF n = Own THEN "active" ELSE "none"]
    /\ agent = [n \in Nodes |-> Booted]
    /\ runtimeOK = [n \in Nodes |-> TRUE]
    /\ wire = [n \in Nodes |-> {}]
    /\ poll = [n \in Nodes |-> NoPoll]
    /\ faults = 0
    /\ edits = 0
    /\ blamed = {}

Up(n)    == agent[n].pc # "off"
Known(n) == status[n] # "none"

Goto(n, pc) == agent' = [agent EXCEPT ![n].pc = pc]

Fault(n) ==
    /\ faults < MaxFaults
    /\ faults' = faults + 1
    /\ blamed' = blamed \cup {n}

WriteRow(n, s) == status' = [status EXCEPT ![n] = s]

ghost == <<faults, edits, blamed>>
--------------------------------------------------------------------------------
(***************************************************************************)
(* The agent: register once and, in every pass, when the last desired      *)
(* state could not be fetched; test the runtime; post a heartbeat; fetch.  *)
(***************************************************************************)
Post(n, r, pc) ==
    /\ wire' = [wire EXCEPT ![n] = @ \cup {r}]
    /\ agent' = [agent EXCEPT ![n].pc = pc, ![n].sent = r]

PostRegister(n) ==
    /\ \/ agent[n].pc = "boot" /\ Post(n, "register", "bootWait")
       \/ agent[n].pc = "pass" /\ ~agent[n].registered /\ Post(n, "register", "passWait")
    /\ UNCHANGED <<status, runtimeOK, poll, ghost>>

BeginPass(n) ==
    /\ agent[n].pc = "pass" /\ agent[n].registered
    /\ Goto(n, "check")
    /\ UNCHANGED <<status, runtimeOK, wire, poll, ghost>>

(* docker, the container and its interface answer. *)
Health(n) == runtimeOK[n]

PostHeartbeat(n) ==
    /\ agent[n].pc = "check"
    /\ Post(n, IF Health(n) THEN "active" ELSE "unhealthy", "beatWait")
    /\ UNCHANGED <<status, runtimeOK, poll, ghost>>

Waiting(n) == agent[n].pc \in {"bootWait", "passWait", "beatWait"}

NextPc(n) == CASE agent[n].pc = "bootWait" -> "pass"
               [] agent[n].pc = "passWait" -> "check"
               [] agent[n].pc = "beatWait" -> "fetch"

(* The answer to the request the agent is waiting for, if it still waits.  *)
Answer(n, r) ==
    IF Waiting(n) /\ agent[n].sent = r
    THEN agent' = [agent EXCEPT ![n].pc = NextPc(n),
                                ![n].registered = @ \/ r = "register"]
    ELSE UNCHANGED agent

TimeOut(n) ==
    /\ Waiting(n)
    /\ Goto(n, NextPc(n))
    /\ Fault(n)
    /\ UNCHANGED <<status, runtimeOK, wire, poll, edits>>

Fetch(n) ==
    /\ agent[n].pc = "fetch"
    /\ Goto(n, "pass")
    /\ UNCHANGED <<status, runtimeOK, wire, poll, ghost>>

FetchFails(n) ==
    /\ agent[n].pc = "fetch"
    /\ agent' = [agent EXCEPT ![n].pc = "pass", ![n].registered = FALSE]
    /\ Fault(n)
    /\ UNCHANGED <<status, runtimeOK, wire, poll, edits>>
--------------------------------------------------------------------------------
(***************************************************************************)
(* The control plane: requests of the agents.  A heartbeat of a node       *)
(* without a row updates nothing and is answered all the same.             *)
(***************************************************************************)

StatusOf(r) == IF r = "unhealthy" THEN "down" ELSE "active"

Handle(n, r) ==
    /\ r \in wire[n]
    /\ wire' = [wire EXCEPT ![n] = @ \ {r}]
    /\ IF r = "register" \/ Known(n) THEN WriteRow(n, StatusOf(r)) ELSE UNCHANGED status
    /\ Answer(n, r)
    /\ UNCHANGED <<runtimeOK, poll, ghost>>

Lose(n, r) ==
    /\ r \in wire[n]
    /\ wire' = [wire EXCEPT ![n] = @ \ {r}]
    /\ IF Waiting(n) /\ agent[n].sent = r THEN Goto(n, NextPc(n)) ELSE UNCHANGED agent
    /\ Fault(n)
    /\ UNCHANGED <<status, runtimeOK, poll, edits>>
--------------------------------------------------------------------------------
(***************************************************************************)
(* The health poll.  The agent answers /health with 200 whatever its       *)
(* runtime says, so a check tells only whether the agent is up.            *)
(***************************************************************************)
PollList ==
    /\ \A n \in Nodes : poll[n].pc = "idle"
    /\ poll' = [n \in Nodes |-> IF Known(n) THEN [NoPoll EXCEPT !.pc = "check", !.listed = status[n]]
                                ELSE NoPoll]
    /\ UNCHANGED <<status, agent, runtimeOK, wire, ghost>>

Checked(n, target) ==
    poll' = [poll EXCEPT ![n].pc = IF poll[n].listed = target THEN "idle" ELSE "write",
                         ![n].target = target]

(* Mutant: a node that was active is not looked at again. *)
CheckNodeOnce(n) ==
    /\ poll[n].pc = "check"
    /\ Checked(n, IF Up(n) \/ poll[n].listed = "active" THEN "active" ELSE "down")
    /\ UNCHANGED <<status, agent, runtimeOK, wire, ghost>>

(* Mutant: the goroutines share the last node of the loop. *)
CheckNodeShared(n) ==
    /\ poll[n].pc = "check"
    /\ Checked(n, IF \A m \in Nodes : Up(m) THEN "active" ELSE "down")
    /\ UNCHANGED <<status, agent, runtimeOK, wire, ghost>>

CheckNode(n) ==
    /\ poll[n].pc = "check"
    /\ Checked(n, IF Up(n) THEN "active" ELSE "down")
    /\ UNCHANGED <<status, agent, runtimeOK, wire, ghost>>

CheckFails(n) ==
    /\ poll[n].pc = "check"
    /\ Checked(n, "down")
    /\ Fault(n)
    /\ UNCHANGED <<status, agent, runtimeOK, wire, edits>>

PollWrite(n) ==
    /\ poll[n].pc = "write"
    /\ WriteRow(n, poll[n].target)
    /\ poll' = [poll EXCEPT ![n] = NoPoll]
    /\ UNCHANGED <<agent, runtimeOK, wire, ghost>>
--------------------------------------------------------------------------------
(***************************************************************************)
(* An admin, restarts of the control plane, and the machines.              *)
(***************************************************************************)
SetNodeLifecycle(n, s) ==
    /\ Known(n)
    /\ edits < MaxAdmin
    /\ edits' = edits + 1
    /\ WriteRow(n, s)
    /\ blamed' = blamed \cup {n}
    /\ UNCHANGED <<agent, runtimeOK, wire, poll, faults>>

AdminDisable(n) == SetNodeLifecycle(n, "draining")
AdminEnable(n)  == SetNodeLifecycle(n, "active")

(* A start of the control plane. *)
EnsureSingleNode ==
    /\ faults < MaxFaults
    /\ faults' = faults + 1
    /\ blamed' = blamed \cup (Nodes \ {Own})
    /\ status' = [n \in Nodes |-> IF n = Own THEN "active"
                                  ELSE IF Known(n) THEN "down" ELSE "none"]
    /\ poll' = [n \in Nodes |-> NoPoll]
    /\ UNCHANGED <<agent, runtimeOK, wire, edits>>

Crash(n) ==
    /\ Up(n)
    /\ agent' = [agent EXCEPT ![n] = [Booted EXCEPT !.pc = "off"]]
    /\ Fault(n)
    /\ UNCHANGED <<status, runtimeOK, wire, poll, edits>>

Boot(n) ==
    /\ ~Up(n)
    /\ agent' = [agent EXCEPT ![n] = Booted]
    /\ UNCHANGED <<status, runtimeOK, wire, poll, ghost>>

RuntimeFails(n) ==
    /\ runtimeOK[n]
    /\ runtimeOK' = [runtimeOK EXCEPT ![n] = FALSE]
    /\ Fault(n)
    /\ UNCHANGED <<status, agent, wire, poll, edits>>

RuntimeRecovers(n) ==
    /\ ~runtimeOK[n]
    /\ runtimeOK' = [runtimeOK EXCEPT ![n] = TRUE]
    /\ UNCHANGED <<status, agent, wire, poll, ghost>>
--------------------------------------------------------------------------------
AgentStep(n)  == PostRegister(n) \/ BeginPass(n) \/ PostHeartbeat(n) \/ Fetch(n)
HandleStep(n) == \E r \in Requests : Handle(n, r)
PollStep(n)   == CheckNode(n) \/ PollWrite(n)

FaultStep(n) ==
    \/ TimeOut(n) \/ FetchFails(n) \/ CheckFails(n)
    \/ \E r \in Requests : Lose(n, r)
    \/ Crash(n) \/ Boot(n) \/ RuntimeFails(n) \/ RuntimeRecovers(n)

Next ==
    \/ \E n \in Nodes : AgentStep(n) \/ HandleStep(n) \/ PollStep(n) \/ FaultStep(n)
                        \/ AdminDisable(n) \/ AdminEnable(n)
    \/ PollList
    \/ EnsureSingleNode

Spec == Init /\ [][Next]_vars

(* The agent's loop and the poll are driven by tickers, and a request that *)
(* is on the wire is handled unless it is lost, a counted fault.           *)
Fairness ==
    /\ WF_vars(PollList)
    /\ \A n \in Nodes : /\ WF_vars(AgentStep(n))
                        /\ \A r \in Requests : WF_vars(Handle(n, r))
                        /\ WF_vars(PollStep(n))

FairSpec == Spec /\ Fairness
--------------------------------------------------------------------------------
(***************************************************************************)
(* Properties.                                                             *)
(***************************************************************************)

(* A node is down only after something happened to that very node: a       *)
(* fault, an admin's change, or a start of the control plane as another    *)
(* node.  The parallel checks, late heartbeats and the poll's old list     *)
(* never take down a node that is well.                                    *)
DownIsBlamed == \A n \in Nodes : status[n] = "down" => n \in blamed

(* Whatever the heartbeats still on the wire, the poll's old list, an      *)
(* admin and restarts do, a node whose agent is gone for good ends up down *)
(* and stays down: it is not chosen again.                                 *)
DeadGoesDown == \A n \in Nodes : <>[](~Up(n) /\ Known(n)) => <>[](status[n] = "down")

(* A node whose agent and runtime stay well ends up active and stays so.   *)
HealthyRecovers == \A n \in Nodes : <>[](Up(n) /\ runtimeOK[n]) => <>[](status[n] = "active")

(* A node is not taken down by what happens to others.                     *)
DownIsExplained ==
    TypeOK /\ DownIsBlamed

(* In the end the status of a node is that of its agent, for good or bad.  *)
StatusFollowsAgent ==
    DeadGoesDown /\ HealthyRecovers

================================================================================
