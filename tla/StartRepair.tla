------------------------------- MODULE StartRepair -------------------------------
(***************************************************************************)
(* The start of the control plane: ensureSingleNode makes the node named   *)
(* NODE_ID the only active one and brings the accesses of other nodes to   *)
(* it, four statements of which each may be the last, before anything is   *)
(* served.  Then the service runs, until it stops or crashes and starts    *)
(* again, perhaps with another NODE_ID.                                    *)
(*                                                                         *)
(* Abstractions.  A device with a protocol is one access; the table may    *)
(* hold several rows of it, on different nodes, from the time when nodes   *)
(* were many.  While the service runs, what it does to a row is one step   *)
(* (the steps are in AccessControl, Billing and NodeFleet).                *)
(***************************************************************************)
EXTENDS Integers, FiniteSets

CONSTANTS
    Nodes, Rows, Accesses,
    AccessOf,    \* the device and protocol of a row, [Rows -> Accesses]
    None,        \* NODE_ID is not set
    MaxStarts,   \* bound: starts
    MaxFaults,   \* bound: failing statements
    MaxChanges   \* bound: changes of rows while the service runs

RowsAreOfAccesses == AccessOf \in [Rows -> Accesses]
NoneIsNoNode      == None \notin Nodes
BoundsAreNat      == {MaxStarts, MaxFaults, MaxChanges} \subseteq Nat

VARIABLES
    pc,        \* "off", a statement of ensureSingleNode, or "up"
    nodeID,    \* NODE_ID of this start
    active,    \* nodes with status 'active'
    row,       \* device_accesses
    repaired,  \* history: the last start got through its four statements
    paused,    \* history: rows suspended for nonpayment at that time
    starts, faults, changes

vars == <<pc, nodeID, active, row, repaired, paused, starts, faults, changes>>

Live == {"pending", "active", "error"}

Row == [node: Nodes, st: {"none", "revoked", "suspended_nonpayment"} \cup Live]

Exists(r) == row[r].st # "none"

(* uq_device_accesses_device_node_protocol *)
Unique(t) ==
    \A r, q \in Rows :
        /\ r # q /\ AccessOf[r] = AccessOf[q] /\ t[r].st # "none" /\ t[q].st # "none"
        => t[r].node # t[q].node

TypeOK ==
    /\ pc \in {"off", "insert", "deactivate", "relink", "revoke", "up"}
    /\ nodeID \in Nodes \cup {None}
    /\ active \subseteq Nodes
    /\ row \in [Rows -> Row] /\ Unique(row)
    /\ repaired \in BOOLEAN /\ paused \subseteq Rows
    /\ starts \in 0..MaxStarts /\ faults \in 0..MaxFaults /\ changes \in 0..MaxChanges

Init ==
    /\ pc = "off" /\ nodeID = None
    /\ active \in SUBSET Nodes
    /\ row \in {t \in [Rows -> Row] : Unique(t)}
    /\ repaired = FALSE /\ paused = {}
    /\ starts = 0 /\ faults = 0 /\ changes = 0

Fault    == faults < MaxFaults /\ faults' = faults + 1
counters == <<starts, changes>>
--------------------------------------------------------------------------------
(***************************************************************************)
(* ensureSingleNode.  A statement that fails ends it, and the service runs *)
(* all the same.                                                           *)
(***************************************************************************)
(* Without NODE_ID, or without an endpoint and a key to write, nothing is   *)
(* repaired. *)
Start(n) ==
    /\ pc = "off" /\ starts < MaxStarts /\ starts' = starts + 1
    /\ nodeID' = n
    /\ \E complete \in BOOLEAN : pc' = IF n # None /\ complete THEN "insert" ELSE "up"
    /\ repaired' = FALSE
    /\ UNCHANGED <<active, row, paused, faults, changes>>

GivesUp ==
    /\ pc \in {"insert", "deactivate", "relink", "revoke"}
    /\ pc' = "up"
    /\ Fault
    /\ UNCHANGED <<nodeID, active, row, repaired, paused, counters>>

InsertNode ==
    /\ pc = "insert" /\ pc' = "deactivate"
    /\ active' = active \cup {nodeID}
    /\ UNCHANGED <<nodeID, row, repaired, paused, faults, counters>>

DeactivateOthers ==
    /\ pc = "deactivate" /\ pc' = "relink"
    /\ active' = active \cap {nodeID}
    /\ UNCHANGED <<nodeID, row, repaired, paused, faults, counters>>

Stale(r)      == row[r].node # nodeID /\ row[r].st \in Live
HasTwin(r)    == \E q \in Rows : Exists(q) /\ AccessOf[q] = AccessOf[r] /\ row[q].node = nodeID

Relocatable   == {r \in Rows : Stale(r) /\ ~HasTwin(r)}
Relinked      == [r \in Rows |-> IF r \in Relocatable THEN [row[r] EXCEPT !.node = nodeID] ELSE row[r]]

(* Two stale rows of one access cannot both go to the node: the statement   *)
(* breaks the constraint and is undone as a whole. *)
Relink ==
    /\ pc = "relink" /\ Unique(Relinked) /\ pc' = "revoke"
    /\ row' = Relinked
    /\ UNCHANGED <<nodeID, active, repaired, paused, faults, counters>>

RelinkConflicts ==
    /\ pc = "relink" /\ ~Unique(Relinked) /\ pc' = "up"
    /\ UNCHANGED <<nodeID, active, row, repaired, paused, faults, counters>>

Paused == {r \in Rows : row[r].st = "suspended_nonpayment"}

(* Mutant: rows in error are left out. *)
RevokeSomeStale ==
    /\ pc = "revoke" /\ pc' = "up"
    /\ row' = [r \in Rows |-> IF Stale(r) /\ row[r].st # "error"
                              THEN [row[r] EXCEPT !.st = "revoked"] ELSE row[r]]
    /\ repaired' = TRUE /\ paused' = Paused
    /\ UNCHANGED <<nodeID, active, faults, counters>>

RevokeStale ==
    /\ pc = "revoke" /\ pc' = "up"
    /\ row' = [r \in Rows |-> IF Stale(r) THEN [row[r] EXCEPT !.st = "revoked"] ELSE row[r]]
    /\ repaired' = TRUE /\ paused' = Paused
    /\ UNCHANGED <<nodeID, active, faults, counters>>
--------------------------------------------------------------------------------
(***************************************************************************)
(* The service runs.                                                       *)
(***************************************************************************)
Running ==
    /\ pc = "up" /\ changes < MaxChanges /\ changes' = changes + 1
    /\ UNCHANGED <<pc, nodeID, repaired, paused, starts, faults>>

(* The assigner takes NODE_ID or nobody; without one any active node. *)
Assignable == IF nodeID = None THEN active ELSE active \cap {nodeID}

(* The access of a new device. *)
CreateAccess(r, n) ==
    /\ Running
    /\ n \in Assignable
    /\ \A q \in Rows : AccessOf[q] = AccessOf[r] => ~Exists(q)
    /\ row' = [row EXCEPT ![r] = [node |-> n, st |-> "pending"]]
    /\ UNCHANGED active

(* Peer made or not, suspension, payment, revocation. *)
Moves == {<<"pending", "active">>, <<"pending", "error">>, <<"active", "suspended_nonpayment">>,
          <<"suspended_nonpayment", "active">>, <<"active", "revoked">>}

ChangeStatus(r) ==
    /\ Running
    /\ \E m \in Moves : row[r].st = m[1] /\ row' = [row EXCEPT ![r].st = m[2]]
    /\ UNCHANGED active

(* A heartbeat or the health poll; another node that lives comes back. *)
NodeStatus(n) ==
    /\ Running
    /\ active' = IF n \in active THEN active \ {n} ELSE active \cup {n}
    /\ UNCHANGED row

(* The signal, or a crash at any moment. *)
ShutDown ==
    /\ pc # "off" /\ pc' = "off"
    /\ UNCHANGED <<nodeID, active, row, repaired, paused, faults, counters>>

Next ==
    \/ \E n \in Nodes \cup {None} : Start(n)
    \/ InsertNode \/ DeactivateOthers \/ Relink \/ RelinkConflicts \/ RevokeStale \/ GivesUp
    \/ \E r \in Rows : ChangeStatus(r) \/ \E n \in Nodes : CreateAccess(r, n)
    \/ \E n \in Nodes : NodeStatus(n)
    \/ ShutDown

Spec == Init /\ [][Next]_vars
--------------------------------------------------------------------------------
(***************************************************************************)
(* Properties.                                                             *)
(***************************************************************************)
(* After a start that got through, an access is alive on another node only  *)
(* if it was suspended for nonpayment during the start, which neither       *)
(* statement looks at, and was paid for since. *)
StrayWasPaused ==
    pc = "up" /\ repaired =>
        \A r \in Rows : row[r].st \in Live /\ row[r].node # nodeID => r \in paused

(* The repair takes no user's access away for being on the wrong node: it   *)
(* revokes a row only if the node of the service has a row of the same      *)
(* access already. *)
RevokedHasTwin ==
    [][ \A r \in Rows :
            pc = "revoke" /\ row[r].st \in Live /\ row'[r].st = "revoked" => HasTwin(r) ]_vars

(* The repair leaves no access behind, and takes none away.                *)
RepairKeepsAccess ==
    [](TypeOK /\ StrayWasPaused) /\ RevokedHasTwin

================================================================================
