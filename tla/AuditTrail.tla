------------------------------- MODULE AuditTrail -------------------------------
(***************************************************************************)
(* The rows of audit_logs and what they tell of.  An activation writes its *)
(* row in the transaction of the grant, a new device before its config, a  *)
(* revocation after everything else, and administrators' deeds are written *)
(* down last, by a call whose error nobody looks at.                       *)
(*                                                                         *)
(* Abstractions.  One user with one device.  A row is what it adds to the  *)
(* sum of its kind: the grants that were revoked, the codes of a batch.    *)
(* The device is made and confirmed in one step; AccessControl and         *)
(* NodeOperations have the steps.  Messages of the bot write nothing and   *)
(* only take time.  Rows about pages an administrator looked at are left   *)
(* out.                                                                    *)
(***************************************************************************)
EXTENDS Integers, FiniteSets

CONSTANTS
    Procs,      \* updates and requests that are handled side by side
    Protocols,  \* the accesses of the device
    Batch,      \* codes of a batch
    NoAccess,
    MaxJobs,    \* bound: updates and requests
    MaxFaults   \* bound: failing statements, deadlines that end, restarts

BatchIsMore  == Batch \in Nat \ {0, 1}
NoneIsNew    == NoAccess \notin Protocols
BoundsAreNat == {MaxJobs, MaxFaults} \subseteq Nat
FiniteProcs  == IsFiniteSet(Procs)

VARIABLES
    held,     \* active grants of the user
    device, access, config,
    flow,     \* what is being handled
    deed,     \* per kind: what was done
    trail,    \* per kind: what the rows of audit_logs add up to
    closed,   \* accesses with a row revoke_device_access
    opened,   \* the device has a row create_device_for_user
    stray,    \* codes made in the name of an administrator nobody knows
    jobs, faults

vars == <<held, device, access, config, flow, deed, trail, closed, opened, stray, jobs, faults>>

Kinds == {"activate", "revoke", "code", "batch", "balance"}
Pcs == {"idle", "grant", "logGrant", "create", "logDevice", "config", "grants", "list",
        "peer", "clear", "logAccess", "device", "logRevoke", "code", "logCode", "logBatch",
        "logApi", "balance", "logBalance"}
Jobs == {"activate", "create", "delete", "revoke", "single", "batch", "api", "balance"}
Actors == {"none", "known", "unknown"}
Flow == [job: Jobs \cup {"none"}, pc: Pcs, n: Nat, acc: Protocols \cup {NoAccess},
         todo: SUBSET Protocols, actor: Actors, late: BOOLEAN]
Idle == [job |-> "none", pc |-> "idle", n |-> 0, acc |-> NoAccess, todo |-> {},
         actor |-> "none", late |-> FALSE]

TypeOK ==
    /\ held \in 0..MaxJobs
    /\ device \in {"none", "active", "revoked"}
    /\ access \in [Protocols -> {"none", "active", "error", "revoked"}]
    /\ config \in BOOLEAN
    /\ flow \in [Procs -> Flow]
    /\ \A p \in Procs : flow[p].job \in {"single", "batch", "api"} => flow[p].n <= Batch
    /\ {deed, trail} \subseteq [Kinds -> Nat]
    /\ closed \subseteq Protocols /\ opened \in BOOLEAN
    /\ stray \in 0..MaxJobs
    /\ jobs \in 0..MaxJobs /\ faults \in 0..MaxFaults

Init ==
    /\ held = 0
    /\ device = "none" /\ access = [a \in Protocols |-> "none"] /\ config = FALSE
    /\ flow = [p \in Procs |-> Idle]
    /\ deed = [k \in Kinds |-> 0] /\ trail = deed
    /\ closed = {} /\ opened = FALSE /\ stray = 0
    /\ jobs = 0 /\ faults = 0

rows    == <<device, access, config>>
traces  == <<trail, closed, opened, stray>>
bounds  == <<jobs, faults>>

Becomes(p, f) == flow' = [flow EXCEPT ![p] = f]
Goto(p, pc)   == Becomes(p, [flow[p] EXCEPT !.pc = pc])
(* A step that is made, in time. *)
At(p, pc)     == flow[p].pc = pc /\ ~flow[p].late
Did(k, n)     == deed' = [deed EXCEPT ![k] = @ + n]

(* AuditLogRepository.Create, for rows that only count. *)
Create(k, n)  == trail' = [trail EXCEPT ![k] = @ + n]

Start(j) ==
    CASE j = "activate" -> "grant"
      [] j = "create"   -> "create"
      [] j = "delete"   -> "list"
      [] j = "revoke"   -> "grants"
      [] j \in {"single", "batch", "api"} -> "code"
      [] j = "balance"  -> "balance"

(* Only a request of the API names its actor, in a header nobody checks. *)
Begin(p, j, actor) ==
    /\ flow[p] = Idle /\ jobs < MaxJobs
    /\ actor = "none" \/ j = "api"
    /\ Becomes(p, [Idle EXCEPT !.job = j, !.pc = Start(j), !.actor = actor])
    /\ jobs' = jobs + 1
    /\ UNCHANGED <<held, rows, deed, traces, faults>>
--------------------------------------------------------------------------------
(***************************************************************************)
(* An activation: grant and row become visible together.                   *)
(***************************************************************************)
CreateGrant(p) ==
    /\ At(p, "grant")
    /\ Goto(p, "logGrant")
    /\ UNCHANGED <<held, rows, deed, traces, bounds>>

Commit(p) ==
    /\ At(p, "logGrant")
    /\ held' = held + 1 /\ Did("activate", 1)
    /\ Create("activate", 1)
    /\ Becomes(p, Idle)
    /\ UNCHANGED <<rows, closed, opened, stray, bounds>>
--------------------------------------------------------------------------------
(***************************************************************************)
(* A device: rows and peers, then its trace, then its config.              *)
(***************************************************************************)
CreateDevice(p) ==
    /\ At(p, "create")
    /\ IF device = "none" /\ held > 0
       THEN /\ device' = "active"
            /\ \E S \in SUBSET Protocols :
                   access' = [a \in Protocols |-> IF a \in S THEN "active" ELSE "error"]
            /\ Goto(p, "logDevice")
       ELSE Becomes(p, Idle) /\ UNCHANGED <<device, access>>
    /\ UNCHANGED <<held, config, deed, traces, bounds>>

LogDevice(p) ==
    /\ At(p, "logDevice")
    /\ opened' = TRUE
    /\ Goto(p, "config")
    /\ UNCHANGED <<held, rows, deed, trail, closed, stray, bounds>>

IssueConfig(p) ==
    /\ At(p, "config")
    /\ config' = TRUE
    /\ Becomes(p, Idle)
    /\ UNCHANGED <<held, device, access, deed, traces, bounds>>
--------------------------------------------------------------------------------
(***************************************************************************)
(* The user deletes the device, or an administrator revokes the user:      *)
(* grants first, then one of the accesses, then the device.                *)
(***************************************************************************)
RevokeGrants(p) ==
    /\ At(p, "grants")
    /\ held' = 0 /\ Did("revoke", held)
    /\ Becomes(p, [flow[p] EXCEPT !.pc = "list", !.n = held])
    /\ UNCHANGED <<rows, traces, bounds>>

(* Where Execute returns to, with or without an error. *)
After(f) ==
    IF f.todo = {}
    THEN [f EXCEPT !.pc = "device", !.acc = NoAccess]
    ELSE LET a == CHOOSE a \in f.todo : TRUE
         IN  [f EXCEPT !.pc = "peer", !.acc = a, !.todo = @ \ {a}]

AfterDevice(f) == IF f.job = "revoke" THEN [f EXCEPT !.pc = "logRevoke"] ELSE Idle

(* The user's delete finds the device it is for, an administrator's revoke *)
(* only an active one. *)
DeviceMissing(f) == device = "none" \/ (device = "revoked" /\ f.job = "revoke")

GetActiveByDeviceID(p) ==
    LET active == {a \in Protocols : access[a] = "active"}
    IN  /\ At(p, "list")
        /\ IF DeviceMissing(flow[p])
           THEN Becomes(p, AfterDevice(flow[p]))
           ELSE \E S \in IF flow[p].job = "delete" \/ active = {} THEN {active}
                         ELSE {{a} : a \in active} :
                    Becomes(p, After([flow[p] EXCEPT !.todo = S]))
        /\ UNCHANGED <<held, rows, deed, traces, bounds>>

RevokePeer(p) ==
    /\ At(p, "peer")
    /\ access' = [access EXCEPT ![flow[p].acc] = "revoked"]
    /\ Goto(p, "clear")
    /\ UNCHANGED <<held, device, config, deed, traces, bounds>>

(* The config is the one of WireGuard; which access it is does not matter. *)
ClearConfig(p) ==
    /\ At(p, "clear")
    /\ config' \in {config, FALSE}
    /\ Goto(p, "logAccess")
    /\ UNCHANGED <<held, device, access, deed, traces, bounds>>

LogAccess(p) ==
    /\ At(p, "logAccess")
    /\ closed' = closed \cup {flow[p].acc}
    /\ Becomes(p, After(flow[p]))
    /\ UNCHANGED <<held, rows, deed, trail, opened, stray, bounds>>

RevokeDevice(p) ==
    /\ At(p, "device")
    /\ device' = "revoked"
    /\ Becomes(p, AfterDevice(flow[p]))
    /\ UNCHANGED <<held, access, config, deed, traces, bounds>>

LogRevoke(p) ==
    /\ At(p, "logRevoke")
    /\ Create("revoke", flow[p].n)
    /\ Becomes(p, Idle)
    /\ UNCHANGED <<held, rows, deed, closed, opened, stray, bounds>>
--------------------------------------------------------------------------------
(***************************************************************************)
(* Codes, one, many or by the API, and a balance.                          *)
(***************************************************************************)
Complete(f) == f.job = "batch" /\ f.n = Batch

CreateCode(p) ==
    LET f == [flow[p] EXCEPT !.n = @ + 1]
    IN  /\ At(p, "code")
        /\ deed' = [deed EXCEPT !["code"] = @ + 1, !["batch"] = @ + IF Complete(f) THEN Batch ELSE 0]
        /\ Becomes(p, [f EXCEPT !.pc = IF f.job = "api" THEN "logApi" ELSE "logCode"])
        /\ UNCHANGED <<held, rows, traces, bounds>>

AfterCode(f) ==
    CASE Complete(f)                     -> [f EXCEPT !.pc = "logBatch"]
      [] f.job = "batch" /\ f.n < Batch  -> [f EXCEPT !.pc = "code"]
      [] OTHER                           -> Idle

LogCode(p) ==
    /\ At(p, "logCode")
    /\ Create("code", 1)
    /\ Becomes(p, AfterCode(flow[p]))
    /\ UNCHANGED <<held, rows, deed, closed, opened, stray, bounds>>

LogBatch(p) ==
    /\ At(p, "logBatch")
    /\ Create("batch", Batch)
    /\ Becomes(p, Idle)
    /\ UNCHANGED <<held, rows, deed, closed, opened, stray, bounds>>

(* audit_logs.actor_user_id is NULL or refers to a user. *)
Accepts(actor) == actor # "unknown"

auditAdminAction(p) ==
    /\ At(p, "logApi")
    /\ IF Accepts(flow[p].actor) THEN Create("code", 1) ELSE UNCHANGED trail
    /\ stray' = stray + IF flow[p].actor = "unknown" THEN 1 ELSE 0
    /\ Becomes(p, Idle)
    /\ UNCHANGED <<held, rows, deed, closed, opened, bounds>>

AdjustBalance(p) ==
    /\ At(p, "balance")
    /\ Did("balance", 1)
    /\ Goto(p, "logBalance")
    /\ UNCHANGED <<held, rows, traces, bounds>>

LogBalance(p) ==
    /\ At(p, "logBalance")
    /\ Create("balance", 1)
    /\ Becomes(p, Idle)
    /\ UNCHANGED <<held, rows, deed, closed, opened, stray, bounds>>
--------------------------------------------------------------------------------
(***************************************************************************)
(* Failures: a statement, the deadline of an update, the process.          *)
(***************************************************************************)
(* Where a flow may go on when its statement fails: most errors after the  *)
(* first deed are dropped. *)
OnError(f) ==
    CASE f.pc = "list"                           -> {AfterDevice(f)} \cup IF DeviceMissing(f) THEN {} ELSE {After(f)}
      [] f.pc \in {"peer", "clear", "logAccess"} -> {After(f)}
      [] f.pc = "device"                         -> {AfterDevice(f)}
      [] f.pc = "logCode"                        -> {AfterCode(f)}
      [] OTHER                                   -> {Idle}

(* Mutant: a peer that was not removed is taken for one that was. *)
GoesOnPeer(f) == IF f.pc = "peer" THEN {[f EXCEPT !.pc = "clear"]} ELSE OnError(f)

GoesOn(f) == OnError(f)

RolledBack(p) == UNCHANGED <<held, deed>>

(* A peer that could not be removed leaves the access in error, unless the *)
(* statement that says so fails too; a device may be there without more.   *)
StatementFails(p) ==
    /\ flow[p] # Idle
    /\ IF flow[p].late THEN UNCHANGED faults ELSE faults < MaxFaults /\ faults' = faults + 1
    /\ \E f \in GoesOn(flow[p]) : Becomes(p, f)
    /\ IF flow[p].pc = "peer"
       THEN access' \in {access, [access EXCEPT ![flow[p].acc] = "error"]}
       ELSE UNCHANGED access
    /\ device' \in {device} \cup IF flow[p].pc = "create" /\ device = "none" /\ held > 0
                                THEN {"active"} ELSE {}
    /\ RolledBack(p)
    /\ UNCHANGED <<config, traces, jobs>>

(* From its deadline on every statement of an update fails. *)
Deadline(p) ==
    /\ flow[p] # Idle /\ ~flow[p].late
    /\ faults < MaxFaults /\ faults' = faults + 1
    /\ Becomes(p, [flow[p] EXCEPT !.late = TRUE])
    /\ UNCHANGED <<held, rows, deed, traces, jobs>>

Restart ==
    /\ faults < MaxFaults /\ faults' = faults + 1
    /\ flow' = [p \in Procs |-> Idle]
    /\ UNCHANGED <<held, rows, deed, traces, jobs>>
--------------------------------------------------------------------------------
Step(p) ==
    \/ CreateGrant(p) \/ Commit(p)
    \/ CreateDevice(p) \/ LogDevice(p) \/ IssueConfig(p)
    \/ RevokeGrants(p) \/ GetActiveByDeviceID(p) \/ RevokePeer(p) \/ ClearConfig(p)
    \/ LogAccess(p) \/ RevokeDevice(p) \/ LogRevoke(p)
    \/ CreateCode(p) \/ LogCode(p) \/ LogBatch(p) \/ auditAdminAction(p)
    \/ AdjustBalance(p) \/ LogBalance(p)

Next ==
    \/ \E p \in Procs : Step(p) \/ StatementFails(p) \/ Deadline(p)
    \/ \E p \in Procs, j \in Jobs, actor \in Actors : Begin(p, j, actor)
    \/ Restart

Spec == Init /\ [][Next]_vars
--------------------------------------------------------------------------------
(***************************************************************************)
(* Properties                                                              *)
(***************************************************************************)
(* What the rows tell has happened: no sum of rows is more than what was   *)
(* done, also when two revocations count the grants of one user, and an    *)
(* access with a row of its revocation never works again, whatever failed. *)
TrailIsTrue ==
    /\ \A k \in Kinds : trail[k] <= deed[k]
    /\ \A a \in closed : access[a] # "active"
    /\ opened => device # "none"

(* What a flow has done and not yet written down. *)
Owed(f, k) ==
    CASE k = "revoke"  -> f.n * IF f.job = "revoke" THEN 1 ELSE 0
      [] k = "code"    -> IF f.pc \in {"logCode", "logApi"} THEN 1 ELSE 0
      [] k = "batch"   -> IF Complete(f) THEN Batch ELSE 0
      [] k = "balance" -> IF f.pc = "logBalance" THEN 1 ELSE 0
      [] OTHER         -> 0

Untold(k) == UNION {{p} \X (1..Owed(flow[p], k)) : p \in Procs}
Stray(k)  == IF k = "code" THEN stray ELSE 0

(* Without a failure everything is written down in the end, except codes   *)
(* made in the name of an administrator the database does not know: the    *)
(* reference fails and nobody looks at the error. *)
NothingUntold ==
    faults = 0 => \A k \in Kinds :
        deed[k] = trail[k] + Cardinality(Untold(k)) + Stray(k)

(* Failures or not, there are as many rows as activations: the one that    *)
(* cannot be written down does not happen.                                 *)
ActivationsAreTold == trail["activate"] = deed["activate"]

(* No config is given out for a device whose making was not written down.  *)
ConfigIsTold == config => opened

(* Rows and deeds correspond, in both directions, as far as faults allow.  *)
TrailFollowsDeeds ==
    TypeOK /\ TrailIsTrue /\ NothingUntold /\ ActivationsAreTold /\ ConfigIsTold

================================================================================
