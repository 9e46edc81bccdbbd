----------------------------- MODULE AccessControl -----------------------------
(***************************************************************************)
(* The device accesses of the control plane: the Telegram flows that create*)
(* a device with its WireGuard and Xray accesses, delete a device and      *)
(* revoke a user, and the billing transactions that suspend and resume a   *)
(* user's accesses.                                                        *)
(*                                                                         *)
(* Every update of a webhook is a goroutine of its own.  Updates of one    *)
(* sender do not overlap (tryLockUser); updates of different senders and   *)
(* billing do, between any two database statements of a flow.              *)
(*                                                                         *)
(* Abstractions.  Node, address, keys, payloads, the rows of               *)
(* node_operations, configs, tokens and the audit log are left out: the    *)
(* node is an answer, success or failure, to the two remote calls.         *)
(***************************************************************************)
EXTENDS Naturals, FiniteSets

CONSTANTS
    Users,      \* bot users
    Admins,     \* senders who are admins and act on any user
    Devices,    \* rows of devices that may be created
    Procs,      \* goroutines serving updates
    Nobody,     \* not a sender nor a device
    MaxFaults,  \* bound: failing statements or calls, timeouts, restarts
    MaxTxs      \* bound: billing transactions

ASSUME NobodyIsNew      == Nobody \notin Users \cup Admins \cup Devices
ASSUME BoundsAreNat     == MaxFaults \in Nat /\ MaxTxs \in Nat

VARIABLES
    userStatus,  \* users.status
    device,      \* devices.status
    owner,       \* devices.user_id
    access,      \* device_accesses.status, per device and protocol
    processing,  \* senders with an update being handled (processingUsers)
    flow,        \* what each goroutine is doing
    faults,      \* history: faults so far
    txs          \* history: billing transactions so far

vars == <<userStatus, device, owner, access, processing, flow, faults, txs>>
db   == <<userStatus, device, owner, access>>

Senders   == Users \cup Admins
Protocols == {"wireguard", "xray"}

Statuses == {"none", "pending", "active", "suspended_nonpayment", "revoked", "error"}

CreatePcs == {"checkUser", "checkDevice", "insertDevice", "insertAccess",
              "apply", "activate"}
DeletePcs == {"list", "revoke", "mark"}

(* all: revoke every active access (a user's delete) or just the first one *)
(* listed (an admin's revoke).  clean: history, neither a fault nor billing*)
(* came in between.                                                        *)
Flow == [pc: {"idle"} \cup CreatePcs \cup DeletePcs,
         sender: Senders \cup {Nobody}, user: Users \cup {Nobody},
         dev: Devices \cup {Nobody}, proto: Protocols,
         todo: SUBSET Protocols, all: BOOLEAN, clean: BOOLEAN]

NoFlow == [pc |-> "idle", sender |-> Nobody, user |-> Nobody, dev |-> Nobody,
           proto |-> "wireguard", todo |-> {}, all |-> FALSE, clean |-> FALSE]

Init ==
    /\ userStatus = [u \in Users |-> "active"]
    /\ device = [d \in Devices |-> "none"]
    /\ owner = [d \in Devices |-> Nobody]
    /\ access = [d \in Devices |-> [pr \in Protocols |-> "none"]]
    /\ processing = {}
    /\ flow = [p \in Procs |-> NoFlow]
    /\ faults = 0
    /\ txs = 0

At(p, pc)     == flow[p].pc = pc
Spare         == {d \in Devices : device[d] = "none"}
ActiveOf(u)   == {d \in Devices : device[d] = "active" /\ owner[d] = u}
ActiveAccesses(d) == {pr \in Protocols : access[d][pr] = "active"}

(* The rows of a device come newest first: Xray is created last. *)
FirstOf(S) == IF "xray" \in S THEN {"xray"} ELSE S

SetAccess(d, pr, s) == access' = [access EXCEPT ![d][pr] = s]

Becomes(p, f) == flow' = [flow EXCEPT ![p] = f]

Soil(F) == [p \in Procs |-> [F[p] EXCEPT !.clean = FALSE]]
--------------------------------------------------------------------------------
(***************************************************************************)
(* Updates: one at a time per sender.                                      *)
(***************************************************************************)

(* Mutant: the sender is not checked. *)
BeginUnlocked(p, s, f) ==
    /\ At(p, "idle")
    /\ processing' = processing \cup {s}
    /\ Becomes(p, f)

Begin(p, s, f) ==
    /\ At(p, "idle")
    /\ s \notin processing
    /\ processing' = processing \cup {s}
    /\ Becomes(p, f)

(* Mutant: an update of an administrator ends without the unlock. *)
EndLocked(p) ==
    /\ processing' = processing \ ({flow[p].sender} \ Admins)
    /\ Becomes(p, NoFlow)

End(p) ==
    /\ processing' = processing \ {flow[p].sender}
    /\ Becomes(p, NoFlow)

Goto(p, pc) ==
    /\ Becomes(p, [flow[p] EXCEPT !.pc = pc])
    /\ UNCHANGED processing

(* A fault is counted and makes every flow of the moment unclean. *)
Fault == faults < MaxFaults /\ faults' = faults + 1

FailTo(p, f) ==
    /\ flow' = Soil([flow EXCEPT ![p] = f])
    /\ UNCHANGED processing

(* A flow is cut off: the update ran into webhookUpdateTimeout, or a       *)
(* statement failed and the flow returns its error.                        *)
GiveUp(p) ==
    /\ Fault
    /\ ~At(p, "idle")
    /\ processing' = processing \ {flow[p].sender}
    /\ flow' = Soil([flow EXCEPT ![p] = NoFlow])
    /\ UNCHANGED <<db, txs>>

(* The control plane restarts. *)
Restart ==
    /\ Fault
    /\ processing' = {}
    /\ flow' = [p \in Procs |-> NoFlow]
    /\ UNCHANGED <<db, txs>>
--------------------------------------------------------------------------------
(***************************************************************************)
(* handleGetConfig, CreateDeviceForUser and ExecuteCreatePeerOperation.    *)
(***************************************************************************)

AskDevice(p, u) ==
    /\ Begin(p, u, [NoFlow EXCEPT !.pc = "checkUser", !.sender = u, !.user = u])
    /\ UNCHANGED <<db, faults, txs>>

CheckUser(p) ==
    /\ At(p, "checkUser")
    /\ IF userStatus[flow[p].user] = "active" THEN Goto(p, "checkDevice") ELSE End(p)
    /\ UNCHANGED <<db, faults, txs>>

CheckDevice(p) ==
    /\ At(p, "checkDevice")
    /\ IF ActiveOf(flow[p].user) = {} THEN Goto(p, "insertDevice") ELSE End(p)
    /\ UNCHANGED <<db, faults, txs>>

InsertDevice(p) ==
    /\ At(p, "insertDevice")
    /\ \E d \in Spare :
          /\ device' = [device EXCEPT ![d] = "active"]
          /\ owner' = [owner EXCEPT ![d] = flow[p].user]
          /\ Becomes(p, [flow[p] EXCEPT !.pc = "insertAccess", !.dev = d])
    /\ UNCHANGED <<userStatus, access, processing, faults, txs>>

(* No node or address is left (here: the rows of the instance are used up).*)
NoCapacity(p) ==
    /\ At(p, "insertDevice")
    /\ Spare = {}
    /\ End(p)
    /\ UNCHANGED <<db, faults, txs>>

(* The WireGuard row, then the Xray row; then the operations are executed  *)
(* in the same order.                                                      *)
InsertAccess(p) ==
    /\ At(p, "insertAccess")
    /\ SetAccess(flow[p].dev, flow[p].proto, "pending")
    /\ Becomes(p, IF flow[p].proto = "wireguard"
                  THEN [flow[p] EXCEPT !.proto = "xray"]
                  ELSE [flow[p] EXCEPT !.proto = "wireguard", !.pc = "apply"])
    /\ UNCHANGED <<userStatus, device, owner, processing, faults, txs>>

(* The node confirms the peer. *)
ApplyPeer(p) ==
    /\ At(p, "apply")
    /\ Goto(p, "activate")
    /\ UNCHANGED <<db, faults, txs>>

NextProtocol(p) ==
    IF flow[p].proto = "wireguard"
    THEN /\ Becomes(p, [flow[p] EXCEPT !.pc = "apply", !.proto = "xray"])
         /\ UNCHANGED processing
    ELSE End(p)

Activate(p) ==
    /\ At(p, "activate")
    /\ SetAccess(flow[p].dev, flow[p].proto, "active")
    /\ NextProtocol(p)
    /\ UNCHANGED <<userStatus, device, owner, faults, txs>>

(* The node does not confirm, or a statement of the executor fails: the    *)
(* access is marked as failed, as far as the database answers, and the flow*)
(* goes on with the other protocol all the same.                           *)
CreatePeerFails(p) ==
    /\ Fault
    /\ \/ /\ At(p, "apply")
          /\ \/ SetAccess(flow[p].dev, flow[p].proto, "error")
             \/ UNCHANGED access
       \/ At(p, "activate") /\ UNCHANGED access
    /\ IF flow[p].proto = "wireguard"
       THEN FailTo(p, [flow[p] EXCEPT !.pc = "apply", !.proto = "xray"])
       ELSE /\ processing' = processing \ {flow[p].sender}
            /\ flow' = Soil([flow EXCEPT ![p] = NoFlow])
    /\ UNCHANGED <<userStatus, device, owner, txs>>
--------------------------------------------------------------------------------
(***************************************************************************)
(* deleteDeviceByID and handleDeleteDevice, adminRevokeUser,               *)
(* RevokeDeviceAccess and ExecuteRevokePeerOperation.                      *)
(***************************************************************************)

DeleteFlow(s, u, d, all) ==
    [NoFlow EXCEPT !.pc = "list", !.sender = s, !.user = u, !.dev = d,
                   !.all = all, !.clean = TRUE]

AskDelete(p, u, d) ==
    /\ owner[d] = u
    /\ Begin(p, u, DeleteFlow(u, u, d, TRUE))
    /\ UNCHANGED <<db, faults, txs>>

AskRevokeUser(p, a, u, d) ==
    /\ d \in ActiveOf(u)
    /\ Begin(p, a, DeleteFlow(a, u, d, FALSE))
    /\ UNCHANGED <<db, faults, txs>>

(* Mutant: only the first access is revoked, as by an admin. *)
ToRevokeFirst(p) == FirstOf(ActiveAccesses(flow[p].dev))

ToRevoke(p) ==
    LET actives == ActiveAccesses(flow[p].dev)
    IN  IF flow[p].all THEN actives ELSE FirstOf(actives)

(* Only accesses that are active at this moment are listed. *)
ListAccesses(p) ==
    /\ At(p, "list")
    /\ Becomes(p, [flow[p] EXCEPT !.pc = "revoke", !.todo = ToRevoke(p)])
    /\ UNCHANGED <<db, processing, faults, txs>>

Current(p) == CHOOSE pr \in FirstOf(flow[p].todo) : TRUE

(* The node confirms that the peer is gone. *)
RevokePeer(p) ==
    /\ At(p, "revoke")
    /\ flow[p].todo # {}
    /\ Goto(p, "mark")
    /\ UNCHANGED <<db, faults, txs>>

MarkRevoked(p) ==
    /\ At(p, "mark")
    /\ SetAccess(flow[p].dev, Current(p), "revoked")
    /\ Becomes(p, [flow[p] EXCEPT !.pc = "revoke", !.todo = @ \ {Current(p)}])
    /\ UNCHANGED <<userStatus, device, owner, processing, faults, txs>>

(* A failure of any kind is ignored by the caller, which goes on with the  *)
(* next access; a node that does not confirm makes the access an error.    *)
RevokeFails(p) ==
    /\ Fault
    /\ flow[p].todo # {}
    /\ \/ /\ At(p, "revoke")
          /\ \/ SetAccess(flow[p].dev, Current(p), "error")
             \/ UNCHANGED access
       \/ At(p, "mark") /\ UNCHANGED access
    /\ FailTo(p, [flow[p] EXCEPT !.pc = "revoke", !.todo = @ \ {Current(p)}])
    /\ UNCHANGED <<userStatus, device, owner, txs>>

(* The accesses cannot be listed: the device is deleted nonetheless. *)
ListFails(p) ==
    /\ Fault
    /\ At(p, "list")
    /\ FailTo(p, [flow[p] EXCEPT !.pc = "revoke"])
    /\ UNCHANGED <<db, txs>>

(* Mutant: the status of accesses is used for the device. *)
DeleteDeviceRevoked(p) ==
    /\ At(p, "revoke")
    /\ flow[p].todo = {}
    /\ device' = [device EXCEPT ![flow[p].dev] = "revoked"]
    /\ End(p)
    /\ UNCHANGED <<userStatus, owner, access, faults, txs>>

DeleteDevice(p) ==
    /\ At(p, "revoke")
    /\ flow[p].todo = {}
    /\ device' = [device EXCEPT ![flow[p].dev] = "deleted"]
    /\ End(p)
    /\ UNCHANGED <<userStatus, owner, access, faults, txs>>
--------------------------------------------------------------------------------
(***************************************************************************)
(* Billing: one transaction with the row of the user locked.               *)
(***************************************************************************)

(* Mutant: the statement does not filter by status. *)
SwapAllAccesses(u, from, to) ==
    access' = [d \in Devices |-> [pr \in Protocols |->
                  IF owner[d] = u /\ access[d][pr] # "none"
                  THEN to ELSE access[d][pr]]]

SwapAccesses(u, from, to) ==
    access' = [d \in Devices |-> [pr \in Protocols |->
                  IF owner[d] = u /\ access[d][pr] = from
                  THEN to ELSE access[d][pr]]]

Bill(u, status) ==
    /\ txs < MaxTxs
    /\ txs' = txs + 1
    /\ userStatus' = [userStatus EXCEPT ![u] = status]
    /\ flow' = Soil(flow)
    /\ UNCHANGED <<device, owner, processing, faults>>

(* The balance is not positive after the daily charge or an adjustment. *)
Suspend(u) ==
    /\ Bill(u, "blocked_for_nonpayment")
    /\ SwapAccesses(u, "active", "suspended_nonpayment")

(* Mutant: the accesses are not resumed. *)
ResumeUserOnly(u) ==
    /\ Bill(u, "active")
    /\ UNCHANGED access

(* It is positive after a payment, a bonus or an adjustment. *)
Resume(u) ==
    /\ Bill(u, "active")
    /\ SwapAccesses(u, "suspended_nonpayment", "active")
--------------------------------------------------------------------------------
FlowStep(p) ==
    \/ CheckUser(p) \/ CheckDevice(p) \/ InsertDevice(p) \/ NoCapacity(p)
    \/ InsertAccess(p) \/ ApplyPeer(p) \/ Activate(p)
    \/ ListAccesses(p) \/ RevokePeer(p) \/ MarkRevoked(p) \/ DeleteDevice(p)

FlowFails(p) == CreatePeerFails(p) \/ RevokeFails(p) \/ ListFails(p) \/ GiveUp(p)

Ask(p) ==
    \/ \E u \in Users : AskDevice(p, u)
    \/ \E u \in Users, d \in Devices : AskDelete(p, u, d)
    \/ \E a \in Admins, u \in Users, d \in Devices : AskRevokeUser(p, a, u, d)

Next ==
    \/ \E p \in Procs : Ask(p) \/ FlowStep(p) \/ FlowFails(p)
    \/ \E u \in Users : Suspend(u) \/ Resume(u)
    \/ Restart

Spec == Init /\ [][Next]_vars

(* A flow that has begun goes on: statements and calls have timeouts. *)
FairSpec == Spec /\ \A p \in Procs : WF_vars(FlowStep(p))
--------------------------------------------------------------------------------
(***************************************************************************)
(* Properties.                                                             *)
(***************************************************************************)

(* Every variable has its type. *)
TypeOK ==
    /\ userStatus \in [Users -> {"active", "blocked_for_nonpayment"}]
    /\ device \in [Devices -> {"none", "active", "deleted"}]
    /\ owner \in [Devices -> Users \cup {Nobody}]
    /\ access \in [Devices -> [Protocols -> Statuses]]
    /\ processing \subseteq Senders
    /\ flow \in [Procs -> Flow]
    /\ faults \in 0..MaxFaults
    /\ txs \in 0..MaxTxs

(* A user has at most one active device (ErrUserAlreadyHasActiveDevice):   *)
(* no table constraint says so, the check and the insert are apart, and    *)
(* only the lock on the sender keeps two of them from overlapping.         *)
OneActiveDevice ==
    \A d, e \in Devices :
        device[d] = "active" /\ device[e] = "active" /\ owner[d] = owner[e] => d = e

(* Only a blocked user has suspended accesses: a payment leaves none       *)
(* behind, whichever flows were creating or revoking them meanwhile.       *)
SuspendedOwnerBlocked ==
    \A d \in Devices, pr \in Protocols :
        access[d][pr] = "suspended_nonpayment"
            => userStatus[owner[d]] = "blocked_for_nonpayment"

(* A user's delete during which nothing failed and no billing took place   *)
(* leaves no access of the device active, whatever the user and the admins *)
(* did before or meanwhile.                                                *)
CleanDelete ==
    \A p \in Procs :
        At(p, "revoke") /\ flow[p].all /\ flow[p].clean
            => ActiveAccesses(flow[p].dev) \subseteq flow[p].todo

(* A sender's lock does not stay taken. *)
LockReleased == \A s \in Senders : []<>(s \notin processing)

(* Each access follows the abstract lifecycle: in particular it is active  *)
(* at most once before it is revoked or failed, and never after.           *)
Life == INSTANCE AccessLifecycle
FollowsLifecycle == Life!LifeSpec

(* messages.md: "Устройство удалено": a deleted device does not come back. *)
(* A suspended access is not listed by the delete, and the next payment    *)
(* makes it active again.                                                  *)
DeletedStaysOff ==
    [][\A d \in Devices, pr \in Protocols :
          device[d] = "deleted" /\ access[d][pr] # "active"
            => access'[d][pr] # "active"]_access
================================================================================
