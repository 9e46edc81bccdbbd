---------------------------- MODULE NodeOperations ----------------------------
(***************************************************************************)
(* The operations a control plane runs on its nodes, and the load of a     *)
(* node: a create flow picks a node by the loads it listed, writes two     *)
(* accesses and runs one create-peer operation for each; a revoke flow runs*)
(* one revoke-peer operation.  Each operation is a row that is queued, run *)
(* and settled around a call to the agent, and ends by reading the load of *)
(* the node and writing it back changed by one.  Apply reports of the      *)
(* agents come in at any time.                                             *)
(*                                                                         *)
(* Abstractions.  Users, keys, addresses, configs and payloads are left    *)
(* out (AccessControl, ConfigTokens); the status of the nodes is NodeFleet *)
(* and here always active.  What the agent does is NodeRuntime.            *)
(***************************************************************************)
EXTENDS Integers, FiniteSets

CONSTANTS
    Nodes,       \* active nodes
    Single,      \* cfg.NodeID, or NoNode: the assigner then looks for the least load
    NoNode,
    Capacity,    \* vpn_nodes.user_capacity
    Devices,     \* rows of devices that may be created
    Ops,         \* rows of node_operations that may be created
    ReconcileId, \* an operation id made up by the agent's reconcile loop
    Procs,       \* goroutines
    MaxFaults,   \* bound: failing statements and calls, restarts
    MaxReports   \* bound: apply reports

ASSUME SingleIsNode   == Single \in Nodes \cup {NoNode} /\ NoNode \notin Nodes
ASSUME ForeignId      == ReconcileId \notin Ops
ASSUME FiniteDevices  == IsFiniteSet(Devices)
ASSUME BoundsAreNat   == Capacity \in Nat /\ MaxFaults \in Nat /\ MaxReports \in Nat

VARIABLES
    load,     \* vpn_nodes.current_load
    home,     \* devices.vpn_node_id
    access,   \* device_accesses.status, per device and protocol
    op,       \* node_operations
    report,   \* the status of an access's newest row in node_apply_reports
    flow,     \* what each goroutine is doing
    faults,   \* history: faults so far
    reports,  \* history: reports so far
    failed,   \* history: accesses the agent reported a failure for
    muddled   \* history: a fault, two flows counting at once on a node, or an
              \* access revoked twice

vars == <<load, home, access, op, report, flow, faults, reports, failed, muddled>>

Protocols == {"wireguard", "xray"}
Accesses  == Devices \X Protocols

(* The statuses and types that some code writes, and "none" for no row. *)
OpStatuses == {"none", "queued", "running", "succeeded", "failed", "applied"}
OpTypes    == {"none", "create", "revoke"}

OpRow   == [st: OpStatuses, kind: OpTypes, acc: Accesses \cup {<<>>}]
NoOp    == [st |-> "none", kind |-> "none", acc |-> <<>>]
Pcs     == {"idle", "insert", "queue", "run", "call", "settle", "mark", "readLoad", "writeLoad"}
Flow    == [pc: Pcs, kind: {"none", "create", "revoke"}, acc: Accesses \cup {<<>>},
            node: Nodes \cup {NoNode}, op: Ops \cup {ReconcileId}, read: Int]
NoFlow  == [pc |-> "idle", kind |-> "none", acc |-> <<>>, node |-> NoNode,
            op |-> ReconcileId, read |-> 0]

TypeOK ==
    /\ load \in [Nodes -> Nat]
    /\ home \in [Devices -> Nodes \cup {NoNode}]
    /\ access \in [Devices -> [Protocols -> {"none", "pending", "active", "error", "revoked"}]]
    /\ op \in [Ops -> OpRow]
    /\ report \in [Accesses -> {"none", "success", "failed"}]
    /\ flow \in [Procs -> Flow]
    /\ faults \in 0..MaxFaults
    /\ reports \in 0..MaxReports
    /\ failed \in SUBSET Accesses
    /\ muddled \in BOOLEAN

Init ==
    /\ load = [n \in Nodes |-> 0]
    /\ home = [d \in Devices |-> NoNode]
    /\ access = [d \in Devices |-> [pr \in Protocols |-> "none"]]
    /\ op = [o \in Ops |-> NoOp]
    /\ report = [a \in Accesses |-> "none"]
    /\ flow = [p \in Procs |-> NoFlow]
    /\ faults = 0
    /\ reports = 0
    /\ failed = {}
    /\ muddled = FALSE

At(p, pc)     == flow[p].pc = pc
Becomes(p, f) == flow' = [flow EXCEPT ![p] = f]
Goto(p, pc)   == Becomes(p, [flow[p] EXCEPT !.pc = pc])
SetOp(o, s)   == op' = [op EXCEPT ![o].st = s]
SetAccess(a, s) == access' = [access EXCEPT ![a[1]][a[2]] = s]

told  == <<report, reports, failed>>
ghost == <<faults, muddled>>

(* A create goes on with Xray after WireGuard, whatever came of it. *)
Continue(f) ==
    IF f.kind = "create" /\ f.acc[2] = "wireguard"
    THEN [f EXCEPT !.pc = "queue", !.acc = <<f.acc[1], "xray">>]
    ELSE NoFlow
--------------------------------------------------------------------------------
(***************************************************************************)
(* Create: assign a node by the loads of the moment, insert the rows.      *)
(***************************************************************************)
HasRoom(n) == Capacity = 0 \/ load[n] < Capacity

Assigned ==
    LET eligible == {n \in Nodes : HasRoom(n)}
    IN IF Single # NoNode THEN eligible \cap {Single}
       ELSE {n \in eligible : \A m \in eligible : load[n] <= load[m]}

Assign(p) ==
    /\ At(p, "idle")
    /\ \E d \in {e \in Devices : home[e] = NoNode} : \E n \in Assigned :
        /\ home' = [home EXCEPT ![d] = n]
        /\ Becomes(p, [NoFlow EXCEPT !.pc = "insert", !.kind = "create",
                                     !.acc = <<d, "wireguard">>, !.node = n])
    /\ UNCHANGED <<load, access, op, told, ghost>>

Insert(p) ==
    /\ At(p, "insert")
    /\ access' = [access EXCEPT ![flow[p].acc[1]] = [pr \in Protocols |-> "pending"]]
    /\ Goto(p, "queue")
    /\ UNCHANGED <<load, home, op, told, ghost>>

(* Revoke: an access that is listed as active. *)
Pick(p) ==
    /\ At(p, "idle")
    /\ \E a \in Accesses :
        /\ access[a[1]][a[2]] = "active"
        /\ Becomes(p, [NoFlow EXCEPT !.pc = "queue", !.kind = "revoke", !.acc = a,
                                     !.node = home[a[1]]])
        /\ muddled' = (muddled \/ \E q \in Procs : flow[q].kind = "revoke" /\ flow[q].acc = a)
    /\ UNCHANGED <<load, home, access, op, told, faults>>
--------------------------------------------------------------------------------
(***************************************************************************)
(* One operation.                                                          *)
(***************************************************************************)
Queue(p) ==
    /\ At(p, "queue")
    /\ \E o \in Ops :
        /\ op[o].st = "none"
        /\ op' = [op EXCEPT ![o] = [st |-> "queued", kind |-> flow[p].kind, acc |-> flow[p].acc]]
        /\ Becomes(p, [flow[p] EXCEPT !.pc = "run", !.op = o])
    /\ UNCHANGED <<load, home, access, told, ghost>>

MarkRunning(p) ==
    /\ At(p, "run")
    /\ SetOp(flow[p].op, "running")
    /\ Goto(p, "call")
    /\ UNCHANGED <<load, home, access, told, ghost>>

Call(p) ==
    /\ At(p, "call")
    /\ Goto(p, "settle")
    /\ UNCHANGED <<load, home, access, op, told, ghost>>

CallFails(p) ==
    /\ At(p, "call")
    /\ faults < MaxFaults
    /\ SetOp(flow[p].op, "failed")
    /\ SetAccess(flow[p].acc, "error")
    /\ Becomes(p, Continue(flow[p]))
    /\ faults' = faults + 1
    /\ muddled' = TRUE
    /\ UNCHANGED <<load, home, told>>

MarkSuccess(p) ==
    /\ At(p, "settle")
    /\ SetOp(flow[p].op, "succeeded")
    /\ Goto(p, "mark")
    /\ UNCHANGED <<load, home, access, told, ghost>>

(* Has changed the status of its access and not yet the load. *)
Counting(p) == flow[p].pc \in {"readLoad", "writeLoad"}

MarkAccess(p) ==
    /\ At(p, "mark")
    /\ SetAccess(flow[p].acc, IF flow[p].kind = "create" THEN "active" ELSE "revoked")
    /\ Goto(p, "readLoad")
    /\ muddled' = (muddled \/ \E q \in Procs \ {p} : flow[q].node = flow[p].node /\ Counting(q))
    /\ UNCHANGED <<load, home, op, told, faults>>

ReadLoad(p) ==
    /\ At(p, "readLoad")
    /\ Becomes(p, [flow[p] EXCEPT !.pc = "writeLoad", !.read = load[flow[p].node]])
    /\ UNCHANGED <<load, home, access, op, told, ghost>>

UpdateLoad(n, v) == load' = [load EXCEPT ![n] = v]

Delta(f) == IF f.kind = "create" THEN 1 ELSE -1

(* Mutant: a revoke leaves the load alone. *)
WriteLoadUp(p) ==
    /\ At(p, "writeLoad")
    /\ UpdateLoad(flow[p].node,
           IF flow[p].kind = "create" THEN flow[p].read + 1 ELSE flow[p].read)
    /\ Becomes(p, Continue(flow[p]))
    /\ UNCHANGED <<home, access, op, told, ghost>>

WriteLoad(p) ==
    /\ At(p, "writeLoad")
    /\ LET new == flow[p].read + Delta(flow[p])
       IN  UpdateLoad(flow[p].node, IF new < 0 THEN 0 ELSE new)
    /\ Becomes(p, Continue(flow[p]))
    /\ UNCHANGED <<home, access, op, told, ghost>>
--------------------------------------------------------------------------------
(***************************************************************************)
(* Failures: a statement fails (an insert may have written one access), or *)
(* everything that runs is gone.                                           *)
(***************************************************************************)
InsertFails(p) ==
    /\ At(p, "insert")
    /\ faults < MaxFaults
    /\ \/ SetAccess(flow[p].acc, "pending")
       \/ UNCHANGED access
    /\ Becomes(p, NoFlow)
    /\ faults' = faults + 1
    /\ muddled' = TRUE
    /\ UNCHANGED <<load, home, op, told>>

(* Only queueing ends the flow; the executor's own errors are logged and   *)
(* the create goes on.                                                     *)
StatementFails(p) ==
    /\ flow[p].pc \in Pcs \ {"idle", "insert", "call"}
    /\ faults < MaxFaults
    /\ Becomes(p, IF At(p, "queue") THEN NoFlow ELSE Continue(flow[p]))
    /\ faults' = faults + 1
    /\ muddled' = TRUE
    /\ UNCHANGED <<load, home, access, op, told>>

Restart ==
    /\ faults < MaxFaults
    /\ flow' = [p \in Procs |-> NoFlow]
    /\ faults' = faults + 1
    /\ muddled' = TRUE
    /\ UNCHANGED <<load, home, access, op, told>>
--------------------------------------------------------------------------------
(***************************************************************************)
(* Apply reports.  The loop reports what it desired: an access that is     *)
(* active.  An entry says ok, error, or - when there was nothing to do -   *)
(* nothing, and everything but ok is stored as failed.                     *)
(***************************************************************************)
Stored(entry) == IF entry = "ok" THEN "success" ELSE "failed"

(* The update of node_operations by the id in the report. *)
Settled(id, entry) ==
    [o \in Ops |-> IF o = id THEN [op[o] EXCEPT !.st = IF entry = "ok" THEN "applied" ELSE "failed"]
                   ELSE op[o]]

Report(a, entry) ==
    /\ reports < MaxReports
    /\ access[a[1]][a[2]] = "active"
    /\ report' = [report EXCEPT ![a] = Stored(entry)]
    /\ op' = IF entry = "none" THEN op ELSE Settled(ReconcileId, entry)
    /\ failed' = IF entry = "error" THEN failed \cup {a} ELSE failed
    /\ reports' = reports + 1
    /\ UNCHANGED <<load, home, access, flow, ghost>>
--------------------------------------------------------------------------------
Step(p) ==
    \/ Insert(p) \/ Queue(p) \/ MarkRunning(p) \/ Call(p) \/ MarkSuccess(p)
    \/ MarkAccess(p) \/ ReadLoad(p) \/ WriteLoad(p)

Fail(p) == InsertFails(p) \/ CallFails(p) \/ StatementFails(p)

Next ==
    \/ \E p \in Procs : Assign(p) \/ Pick(p) \/ Step(p) \/ Fail(p)
    \/ Restart
    \/ \E a \in Accesses, entry \in {"ok", "error", "none"} : Report(a, entry)

Spec == Init /\ [][Next]_vars

(* A goroutine that runs goes on. *)
FairSpec == Spec /\ \A p \in Procs : WF_vars(Step(p))
--------------------------------------------------------------------------------
(***************************************************************************)
(* Properties.                                                             *)
(***************************************************************************)
ActiveOn(n) == {a \in Accesses : home[a[1]] = n /\ access[a[1]][a[2]] = "active"}

Owing(n, kind) == {p \in Procs : flow[p].node = n /\ flow[p].kind = kind /\ Counting(p)}

(* The load of a node is what its active accesses say, but for the flows   *)
(* about to write it, as long as nothing failed, no two flows were counting*)
(* on the node at once and no access was revoked twice.                    *)
LoadCounts ==
    muddled \/ \A n \in Nodes :
        load[n] + Cardinality(Owing(n, "create"))
            = Cardinality(ActiveOn(n)) + Cardinality(Owing(n, "revoke"))

(* An access is active only through a create operation that was run and    *)
(* succeeded, whatever failed or was reported meanwhile: rows of the two   *)
(* tables are never paired wrongly.                                        *)
ActiveHasOperation ==
    \A a \in Accesses : access[a[1]][a[2]] = "active" =>
        \E o \in Ops : op[o].acc = a /\ op[o].kind = "create" /\ op[o].st = "succeeded"

(* An access in error has a failed operation to explain it. *)
ErrorHasFailure ==
    \A a \in Accesses : access[a[1]][a[2]] = "error" =>
        \E o \in Ops : op[o].acc = a /\ op[o].st = "failed"

(* Loads, operations and accesses tell one story, whatever fails between   *)
(* the statements.                                                         *)
RowsAgree ==
    TypeOK /\ LoadCounts /\ ActiveHasOperation /\ ErrorHasFailure

================================================================================
