-------------------------------- MODULE Notices --------------------------------
(***************************************************************************)
(* An admin switches a node off in the bot.  The handler writes the status,*)
(* lists the active accesses of the node, reads the device and the user of *)
(* each, sends every user a notice and the admin a summary, one call after *)
(* the other and all before the deadline of the update.  Devices are made, *)
(* deleted, suspended and resumed meanwhile.                               *)
(*                                                                         *)
(* Abstractions.  One node, whose status nobody else writes (NodeFleet).   *)
(* Only calls to Telegram take time.  A suspension or a payment is that of *)
(* Billing, a device that is made or deleted that of AccessControl.        *)
(***************************************************************************)
EXTENDS Naturals, FiniteSets, FiniteSetsExt

CONSTANTS
    Users,
    Devices,
    Owner,      \* the user of each device
    Deadline,   \* webhookUpdateTimeout, 55 s
    SendMax,    \* the timeout of a call to Telegram, 5 s
    MaxCommands,\* bound: times the button is pressed
    MaxChanges, \* bound: devices made and deleted, suspensions and payments
    MaxFaults   \* bound: failing statements and calls

OwnersAreUsers == Owner \in [Devices -> Users]
TimesAreNat    == Deadline \in Nat /\ SendMax \in Nat \ {0}
BoundsAreNat   == {MaxCommands, MaxChanges, MaxFaults} \subseteq Nat

VARIABLES
    status,     \* vpn_nodes.status
    access,     \* device_accesses.status of each device and protocol
    making,     \* devices for which the node was picked and no access inserted yet
    job,        \* the handler
    notices,    \* history: notices of this command that reached each user
    excused,    \* history: users that were out of sight when the accesses were listed
    commands, changes, faults  \* history

vars == <<status, access, making, job, notices, excused, commands, changes, faults>>

Protocols == {"wireguard", "xray"}
Accesses  == Devices \X Protocols
Pcs       == {"idle", "list", "look", "send", "answer"}
Job       == [pc: Pcs, todo: SUBSET Accesses, found: SUBSET Users, left: SUBSET Users,
              spent: Nat, fault: BOOLEAN, slow: BOOLEAN]
Idle      == [pc |-> "idle", todo |-> {}, found |-> {}, left |-> {},
              spent |-> 0, fault |-> FALSE, slow |-> FALSE]

TypeOK ==
    /\ status \in {"active", "draining"}
    /\ access \in [Accesses -> {"none", "pending", "active", "suspended", "error", "revoked"}]
    /\ making \subseteq Devices
    /\ job \in Job
    /\ notices \in [Users -> Nat]
    /\ excused \subseteq Users
    /\ commands \in 0..MaxCommands /\ changes \in 0..MaxChanges /\ faults \in 0..MaxFaults

Init ==
    /\ status = "active"
    /\ \E has \in [Devices -> {"none", "active", "suspended"}] :
           /\ \A d, e \in Devices : has[d] # "none" /\ has[e] # "none" /\ Owner[d] = Owner[e] => d = e
           /\ access = [a \in Accesses |-> has[a[1]]]
    /\ making = {} /\ job = Idle
    /\ notices = [u \in Users |-> 0] /\ excused = {}
    /\ commands = 0 /\ changes = 0 /\ faults = 0

history == <<notices, excused, commands>>

Having(st)   == {Owner[a[1]] : a \in {b \in Accesses : access[b] \in st}}
Fault        == faults < MaxFaults /\ faults' = faults + 1
Change       == changes < MaxChanges /\ changes' = changes + 1
--------------------------------------------------------------------------------
(***************************************************************************)
(* What others do.                                                         *)
(***************************************************************************)
Others(new) ==
    /\ access' = new
    /\ UNCHANGED <<status, job, history, faults>>

(* Mutant: a node is picked whatever its status. *)
PickableAlways == TRUE

Pickable == status = "active"

(* A create flow picks the node while it is active, ... *)
PickNode(d) ==
    /\ Pickable /\ Change
    /\ d \notin making /\ \A a \in Accesses : Owner[a[1]] = Owner[d] => access[a] \in {"none", "revoked"}
    /\ \A e \in making : Owner[e] # Owner[d]
    /\ making' = making \cup {d}
    /\ Others(access)

(* ... inserts the accesses, ... *)
InsertAccesses(d) ==
    /\ d \in making
    /\ making' = making \ {d}
    /\ Others([a \in Accesses |-> IF a[1] = d THEN "pending" ELSE access[a]])
    /\ UNCHANGED changes

(* ... and the peer of each is confirmed or fails. *)
Confirm(a) ==
    /\ access[a] = "pending"
    /\ \E st \in {"active", "error"} : Others([access EXCEPT ![a] = st])
    /\ UNCHANGED <<making, changes>>

Delete(d) ==
    /\ Change
    /\ \E a \in Accesses : a[1] = d /\ access[a] = "active"
    /\ Others([a \in Accesses |-> IF a[1] = d /\ access[a] = "active" THEN "revoked" ELSE access[a]])
    /\ UNCHANGED making

Suspend(u) ==
    /\ Change /\ u \in Having({"active"})
    /\ Others([a \in Accesses |-> IF Owner[a[1]] = u /\ access[a] = "active" THEN "suspended" ELSE access[a]])
    /\ UNCHANGED making

Resume(u) ==
    /\ Change /\ u \in Having({"suspended"})
    /\ Others([a \in Accesses |-> IF Owner[a[1]] = u /\ access[a] = "suspended" THEN "active" ELSE access[a]])
    /\ UNCHANGED making
--------------------------------------------------------------------------------
(***************************************************************************)
(* The command.                                                            *)
(***************************************************************************)
Rest == <<access, making, changes>>

(* A command begins; the traces of the last one are forgotten. *)
Begin(st, j) ==
    /\ status' = st /\ job' = j
    /\ commands < MaxCommands /\ commands' = commands + 1
    /\ notices' = [u \in Users |-> 0] /\ excused' = {}
    /\ UNCHANGED Rest

adminSetNodeLifecycle ==
    /\ job.pc = "idle"
    /\ \/ Begin("draining", [Idle EXCEPT !.pc = "list"]) /\ UNCHANGED faults
       \/ Begin(status, [Idle EXCEPT !.fault = TRUE]) /\ Fault

(* Enabling the node again tells nobody. *)
Enable ==
    /\ job.pc = "idle" /\ status = "draining"
    /\ Begin("active", Idle)
    /\ UNCHANGED faults

ListActiveByNodeID ==
    /\ job.pc = "list"
    /\ \/ /\ job' = [job EXCEPT !.pc = "look", !.todo = {a \in Accesses : access[a] = "active"}]
          /\ UNCHANGED faults
       \/ job' = [job EXCEPT !.pc = "answer", !.fault = TRUE] /\ Fault
    /\ excused' = Having({"pending", "suspended"}) \cup {Owner[d] : d \in making}
    /\ UNCHANGED <<status, Rest, notices, commands>>

(* The device and the user of an access; one that is not found is skipped. *)
Look ==
    /\ job.pc = "look" /\ job.todo # {}
    /\ \E a \in job.todo :
           \/ /\ job' = [job EXCEPT !.todo = @ \ {a}, !.found = @ \cup {Owner[a[1]]}]
              /\ UNCHANGED faults
           \/ job' = [job EXCEPT !.todo = @ \ {a}, !.fault = TRUE] /\ Fault
    /\ UNCHANGED <<status, Rest, history>>

Looked ==
    /\ job.pc = "look" /\ job.todo = {}
    /\ job' = [job EXCEPT !.pc = "send", !.left = job.found]
    /\ UNCHANGED <<status, Rest, history, faults>>

(* A call ends at its own timeout and at the deadline at the latest. *)
Durations  == 0..Min({SendMax, Deadline - job.spent})
InTime     == job.spent < Deadline
TimesOut(t) == t = SendMax \/ job.spent + t >= Deadline

Left(u, ok) == job.left \ {u}

(* SendMessage, whose error is dropped.  The message may have gone out      *)
(* although the call failed; a call after the deadline sends nothing. *)
Send(u) ==
    /\ job.pc = "send" /\ u \in job.left
    /\ \E t \in Durations, out \in BOOLEAN, ok \in BOOLEAN :
           /\ ok => out
           /\ out => InTime
           /\ IF TimesOut(t) THEN ~ok /\ UNCHANGED faults
              ELSE IF ok THEN UNCHANGED faults ELSE Fault
           /\ notices' = [notices EXCEPT ![u] = IF out THEN @ + 1 ELSE @]
           /\ job' = [job EXCEPT !.left = Left(u, ok), !.spent = @ + t,
                                 !.fault = @ \/ ~(ok \/ TimesOut(t)), !.slow = @ \/ TimesOut(t)]
    /\ UNCHANGED <<status, Rest, excused, commands>>

Sent ==
    /\ job.pc = "send" /\ job.left = {}
    /\ job' = [job EXCEPT !.pc = "answer"]
    /\ UNCHANGED <<status, Rest, history, faults>>

(* The summary is a call like the others. *)
Answer ==
    /\ job.pc = "answer"
    /\ job' = [job EXCEPT !.pc = "idle"]
    /\ UNCHANGED faults \/ (InTime /\ Fault)
    /\ UNCHANGED <<status, Rest, history>>
--------------------------------------------------------------------------------
Step == ListActiveByNodeID \/ Look \/ Looked \/ (\E u \in Users : Send(u)) \/ Sent \/ Answer

Next ==
    \/ \E d \in Devices : PickNode(d) \/ InsertAccesses(d) \/ Delete(d)
    \/ \E a \in Accesses : Confirm(a)
    \/ \E u \in Users : Suspend(u) \/ Resume(u)
    \/ adminSetNodeLifecycle \/ Enable \/ Step

(* The goroutine of the update runs until it ends. *)
Spec     == Init /\ [][Next]_vars
Fairness == WF_vars(Step)
FairSpec == Spec /\ Fairness
--------------------------------------------------------------------------------
(***************************************************************************)
(* Properties.                                                             *)
(***************************************************************************)
Told(u) == notices[u] > 0
Over    == job.pc = "idle" /\ status = "draining" /\ commands > 0

(* A user gets one notice of a command, however many accesses and whatever *)
(* becomes of the calls. *)
NoticeOnce == \A u \in Users : notices[u] <= 1

(* After a command in which nothing failed or was slow, a user who is on   *)
(* the node and was not told had no active access when they were listed:   *)
(* it was suspended, or still being made.  Nobody comes to the node later. *)
UntoldWereOutOfSight ==
    Over /\ ~job.fault /\ ~job.slow =>
        \A u \in Having({"active"}) : Told(u) \/ u \in excused

(* Every command comes to an end. *)
CommandEnds == job.pc # "idle" ~> job.pc = "idle"

(* Everybody whose access was in sight is told of the node, once.          *)
NoticesReach ==
    TypeOK /\ NoticeOnce /\ UntoldWereOutOfSight

================================================================================
