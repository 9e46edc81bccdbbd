-------------------------------- MODULE Traffic --------------------------------
(***************************************************************************)
(* The traffic collector: one worker polls the counters of a node, stores a*)
(* snapshot per counter and adds what it grew by since the device's last   *)
(* snapshot to three tables.  Counters live in the containers of the node  *)
(* and start again from zero when a container or a peer is made anew.      *)
(*                                                                         *)
(* A pass works on one fetched list of counters while the devices go on    *)
(* transferring, and each statement is a transaction of its own.           *)
(*                                                                         *)
(* Abstractions.  Received and sent bytes are one counter; the tables are  *)
(* kept as sums over their dates and months; one node.  The Xray clients   *)
(* are listed with counters that are always zero, and resolved while the   *)
(* agent remembers their access.                                           *)
(***************************************************************************)
EXTENDS Integers, FiniteSets, FiniteSetsExt

CONSTANTS
    Devices,    \* devices with an active WireGuard access
    NoDevice,
    Users,
    Owner,      \* devices.user_id
    Xray,       \* devices whose Xray client is listed and resolved too
    MaxBytes,   \* bound: bytes each device transfers
    MaxResets,  \* bound: counters starting again
    MaxFaults   \* bound: failing requests and statements, restarts

OwnerIsUser    == Owner \in [Devices -> Users] /\ NoDevice \notin Devices
XrayAreDevices == Xray \subseteq Devices
BoundsAreNat   == MaxBytes \in Nat /\ MaxResets \in Nat /\ MaxFaults \in Nat

VARIABLES
    real,      \* history: bytes each device really transferred
    counter,   \* the counter of the node for it
    last,      \* totals of the device's newest snapshots, captured at one time
    fresh,     \* totals of the snapshots of the pass under way
    daily,     \* traffic_usage_daily
    byProto,   \* traffic_usage_daily_protocol
    monthly,   \* traffic_usage_monthly
    todo,      \* counters of the fetched list still to be handled
    job,       \* the counter at hand
    resets,    \* history: resets so far
    faults,    \* history: faults so far
    lossy      \* history: a counter started again or an addition was cut off

vars == <<real, counter, last, fresh, daily, byProto, monthly, todo, job, resets, faults, lossy>>

None  == -1
Entry == [dev: Devices, proto: {"wireguard", "xray"}, total: Nat]
Job   == [pc: {"idle", "resolve", "snapshot", "daily", "proto", "monthly"},
          dev: Devices \cup {NoDevice}, total: Nat, prev: Nat \cup {None}]
NoJob == [pc |-> "idle", dev |-> NoDevice, total |-> 0, prev |-> None]

TypeOK ==
    /\ real \in [Devices -> 0..MaxBytes]
    /\ counter \in [Devices -> 0..MaxBytes]
    /\ last \in [Devices -> SUBSET (0..MaxBytes)]
    /\ fresh \in [Devices -> SUBSET (0..MaxBytes)]
    /\ daily \in [Devices -> Nat]
    /\ byProto \in [Devices -> Nat]
    /\ monthly \in [Devices -> Nat]
    /\ todo \subseteq Entry
    /\ job \in Job
    /\ resets \in 0..MaxResets
    /\ faults \in 0..MaxFaults
    /\ lossy \in BOOLEAN

Init ==
    /\ real = [d \in Devices |-> 0]
    /\ counter = [d \in Devices |-> 0]
    /\ last = [d \in Devices |-> {}]
    /\ fresh = [d \in Devices |-> {}]
    /\ daily = [d \in Devices |-> 0]
    /\ byProto = [d \in Devices |-> 0]
    /\ monthly = [d \in Devices |-> 0]
    /\ todo = {}
    /\ job = NoJob
    /\ resets = 0
    /\ faults = 0
    /\ lossy = FALSE

node   == <<real, counter, resets>>
--------------------------------------------------------------------------------
(***************************************************************************)
(* The node.                                                               *)
(***************************************************************************)
Transfer(d) ==
    /\ real[d] < MaxBytes
    /\ real' = [real EXCEPT ![d] = @ + 1]
    /\ counter' = [counter EXCEPT ![d] = @ + 1]
    /\ UNCHANGED <<last, fresh, daily, byProto, monthly, todo, job, resets, faults, lossy>>

Reset(S) ==
    /\ resets < MaxResets
    /\ resets' = resets + 1
    /\ counter' = [d \in Devices |-> IF d \in S THEN 0 ELSE counter[d]]
    /\ lossy' = TRUE
    /\ UNCHANGED <<real, last, fresh, daily, byProto, monthly, todo, job, faults>>

(* What the agent lists. *)
Counters ==
    {[dev |-> d, proto |-> "wireguard", total |-> counter[d]] : d \in Devices}
        \cup {[dev |-> d, proto |-> "xray", total |-> 0] : d \in Xray}
--------------------------------------------------------------------------------
(***************************************************************************)
(* A pass.                                                                 *)
(***************************************************************************)
Collect ==
    /\ job.pc = "idle"
    /\ todo' = Counters
    /\ job' = [NoJob EXCEPT !.pc = "resolve"]
    /\ UNCHANGED <<node, last, fresh, daily, byProto, monthly, faults, lossy>>

(* GetLastSnapshotByDeviceID: of the snapshots captured at the newest time *)
(* before this pass the database returns any one.                          *)
Previous(d) == IF last[d] = {} THEN {None} ELSE last[d]

(* The agent lists the WireGuard peers first. *)
Heads == {e \in todo : e.proto = "xray" => \A g \in todo : g.proto = "xray"}

Resolve ==
    /\ job.pc = "resolve"
    /\ \E e \in Heads : \E prev \in Previous(e.dev) :
        /\ todo' = todo \ {e}
        /\ job' = [pc |-> "snapshot", dev |-> e.dev, total |-> e.total, prev |-> prev]
    /\ UNCHANGED <<node, last, fresh, daily, byProto, monthly, faults, lossy>>

CreateSnapshot ==
    /\ job.pc = "snapshot"
    /\ fresh' = [fresh EXCEPT ![job.dev] = @ \cup {job.total}]
    /\ job' = [job EXCEPT !.pc = "daily"]
    /\ UNCHANGED <<node, last, daily, byProto, monthly, todo, faults, lossy>>

(* Mutant: the absolute difference. *)
DeltaAbs(j) ==
    IF j.prev = None THEN j.total
    ELSE IF j.total >= j.prev THEN j.total - j.prev ELSE j.prev - j.total

Delta(j) == IF j.prev # None /\ j.total >= j.prev THEN j.total - j.prev ELSE j.total

AddDaily ==
    /\ job.pc = "daily"
    /\ daily' = [daily EXCEPT ![job.dev] = @ + Delta(job)]
    /\ job' = [job EXCEPT !.pc = "proto"]
    /\ UNCHANGED <<node, last, fresh, byProto, monthly, todo, faults, lossy>>

AddProtocol ==
    /\ job.pc = "proto"
    /\ byProto' = [byProto EXCEPT ![job.dev] = @ + Delta(job)]
    /\ job' = [job EXCEPT !.pc = "monthly"]
    /\ UNCHANGED <<node, last, fresh, daily, monthly, todo, faults, lossy>>

AddMonthly ==
    /\ job.pc = "monthly"
    /\ monthly' = [monthly EXCEPT ![job.dev] = @ + Delta(job)]
    /\ job' = [NoJob EXCEPT !.pc = "resolve"]
    /\ UNCHANGED <<node, last, fresh, daily, byProto, todo, faults, lossy>>

(* The snapshots of a pass that is over are the newest ones. *)
Newest == [d \in Devices |-> IF fresh[d] = {} THEN last[d] ELSE fresh[d]]

EndPass ==
    /\ job.pc = "resolve" /\ todo = {}
    /\ last' = Newest
    /\ fresh' = [d \in Devices |-> {}]
    /\ job' = NoJob
    /\ UNCHANGED <<node, daily, byProto, monthly, todo, faults, lossy>>
--------------------------------------------------------------------------------
(***************************************************************************)
(* Failures.  A counter that is not resolved, a snapshot that cannot be    *)
(* read or stored, and an addition that fails each skip the rest of that   *)
(* counter; a failed fetch skips the pass; a restart ends it.              *)
(***************************************************************************)
Fault == faults < MaxFaults /\ faults' = faults + 1

Adding == job.pc \in {"daily", "proto", "monthly"}

Skip ==
    /\ job.pc = "resolve"
    /\ \E e \in Heads : todo' = todo \ {e}
    /\ Fault
    /\ UNCHANGED <<node, last, fresh, daily, byProto, monthly, job, lossy>>

FetchFails ==
    /\ job.pc = "idle"
    /\ Fault
    /\ UNCHANGED <<node, last, fresh, daily, byProto, monthly, todo, job, lossy>>

StatementFails ==
    /\ job.pc = "snapshot" \/ Adding
    /\ job' = [NoJob EXCEPT !.pc = "resolve"]
    /\ lossy' = (lossy \/ Adding)
    /\ Fault
    /\ UNCHANGED <<node, last, fresh, daily, byProto, monthly, todo>>

Restart ==
    /\ job.pc # "idle"
    /\ last' = Newest
    /\ fresh' = [d \in Devices |-> {}]
    /\ todo' = {}
    /\ job' = NoJob
    /\ lossy' = (lossy \/ Adding)
    /\ Fault
    /\ UNCHANGED <<node, daily, byProto, monthly>>
--------------------------------------------------------------------------------
Pass == Collect \/ Resolve \/ CreateSnapshot \/ AddDaily \/ AddProtocol \/ AddMonthly \/ EndPass

Next ==
    \/ \E d \in Devices : Transfer(d)
    \/ \E S \in SUBSET Devices \ {{}} : Reset(S)
    \/ Pass
    \/ Skip \/ FetchFails \/ StatementFails \/ Restart

Spec == Init /\ [][Next]_vars

(* The worker is driven by a ticker. *)
Fairness == WF_vars(Pass)
FairSpec == Spec /\ Fairness
--------------------------------------------------------------------------------
(***************************************************************************)
(* What the pages show: the total of a user from the daily table, the      *)
(* breakdown by protocol and the months from the other two.                *)
(***************************************************************************)
SumFor(u, usage) == MapThenSumSet(LAMBDA d : usage[d], {d \in Devices : Owner[d] = u})

UserTotal(u) == SumFor(u, daily)
Breakdown(u) == SumFor(u, byProto)
Months(u)    == SumFor(u, monthly)
--------------------------------------------------------------------------------
(***************************************************************************)
(* Properties.                                                             *)
(***************************************************************************)

(* Whatever resets, failures and restarts come in between, no table ever   *)
(* shows more traffic than a device really had.                            *)
NeverOvercounts ==
    \A d \in Devices : daily[d] <= real[d] /\ byProto[d] <= real[d] /\ monthly[d] <= real[d]

(* The three statements run in order and a failure skips those that are    *)
(* left, so the tables, and with them the pages, differ in one direction.  *)
TablesInOrder == \A d \in Devices : monthly[d] <= byProto[d] /\ byProto[d] <= daily[d]

(* As long as nothing was lost, between two passes the three pages agree   *)
(* and show exactly what the newest snapshots say, whatever was skipped.   *)
ExactWhenNothingLost ==
    (~lossy /\ job.pc = "idle") =>
        /\ \A d \in Devices : last[d] # {} => last[d] = {daily[d]}
        /\ \A u \in Users : UserTotal(u) = Breakdown(u) /\ Breakdown(u) = Months(u)

(* A node that did not answer, a counter that was not resolved, a snapshot *)
(* that was not stored and a restart between two counters lose nothing: the*)
(* next pass counts it, and in the end all traffic is accounted for.       *)
CountedInTheEnd ==
    [](~lossy) => \A d \in Devices : <>[](daily[d] = real[d] /\ monthly[d] = real[d])

(* No traffic is counted twice, and what was counted is in all tables      *)
(* unless a statement failed.                                              *)
TrafficIsCounted ==
    TypeOK /\ NeverOvercounts /\ TablesInOrder /\ ExactWhenNothingLost

================================================================================
