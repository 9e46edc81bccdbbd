----------------------------- MODULE PeerConsistency -----------------------------
(***************************************************************************)
(* The peer consistency worker of the control plane: every two minutes it  *)
(* compares, node by node, the active WireGuard rows with the peers the    *)
(* agent lists, and logs how many are missing on either side.              *)
(*                                                                         *)
(* A pass reads the rows, then asks the agent, then looks peers it does not*)
(* recognise up in the database again; creations, revocations and billing  *)
(* go on between these steps.                                              *)
(*                                                                         *)
(* Abstractions.  One node is compared; a row may belong to another one.   *)
(* The counts of the log are kept as the sets they are the sizes of.  The  *)
(* worker has a Reconciler only in its tests, main passes none.            *)
(***************************************************************************)
EXTENDS Naturals, FiniteSets

CONSTANTS
    Devices,    \* owners of a key and of the rows made for it
    MaxChanges, \* bound: changes of rows and peers
    MaxFaults   \* bound: failing queries and requests, awg show included

BoundsAreNat  == MaxChanges \in Nat /\ MaxFaults \in Nat

VARIABLES
    here,      \* the devices whose rows name this node
    wg,        \* devices whose WireGuard row is active
    twin,      \* devices whose Xray row is active
    peers,     \* WireGuard peers of the interface
    clients,   \* Xray clients the agent remembers
    ids,       \* peers whose access the agent remembers
    job,       \* the pass under way
    report,    \* what the last pass logged
    touched,   \* history: devices changed since the pass began
    changes,   \* history: changes so far
    faults     \* history: faults so far

vars == <<here, wg, twin, peers, clients, ids, job, report, touched, changes, faults>>

Counter == [dev: Devices, id: BOOLEAN]   \* a listed peer, with or without its access

Job == [pc: {"idle", "fetch", "compare"}, db: SUBSET Devices, todo: SUBSET Counter,
        seen: SUBSET Devices, stale: SUBSET Devices, unknown: SUBSET Devices, listed: BOOLEAN]

NoJob == [pc |-> "idle", db |-> {}, todo |-> {}, seen |-> {},
          stale |-> {}, unknown |-> {}, listed |-> FALSE]

Report == [stale: SUBSET Devices, unknown: SUBSET Devices, missing: SUBSET Devices]

(* Every variable has its type. *)
TypeOK ==
    /\ here \subseteq Devices /\ wg \subseteq Devices /\ twin \subseteq Devices
    /\ peers \subseteq Devices /\ clients \subseteq Devices /\ ids \subseteq Devices
    /\ job \in Job /\ (job.pc = "idle" => job = NoJob)
    /\ report \in Report
    /\ touched \subseteq Devices
    /\ changes \in 0..MaxChanges /\ faults \in 0..MaxFaults

Init ==
    /\ here \in SUBSET Devices
    /\ wg = {} /\ twin = {} /\ peers = {} /\ clients = {} /\ ids = {}
    /\ job = NoJob
    /\ report = [stale |-> {}, unknown |-> {}, missing |-> {}]
    /\ touched = {}
    /\ changes = 0 /\ faults = 0

worker == <<job, report>>
--------------------------------------------------------------------------------
(***************************************************************************)
(* What goes on meanwhile.  D are the devices a step is about.             *)
(***************************************************************************)
Change(D) ==
    /\ changes < MaxChanges
    /\ changes' = changes + 1
    /\ touched' = touched \cup D
    /\ UNCHANGED <<here, worker, faults>>

(* The agent sets a peer up and remembers its access.  It stays where it is *)
(* when the rows were moved to another node at a start. *)
PeerUp(d) ==
    /\ Change({d})
    /\ peers' = peers \cup {d} /\ ids' = ids \cup {d}
    /\ \E c \in {clients, clients \cup {d}} : clients' = c
    /\ UNCHANGED <<wg, twin>>

PeerDown(d) ==
    /\ Change({d})
    /\ peers' = peers \ {d} /\ ids' = ids \ {d} /\ clients' = clients \ {d}
    /\ UNCHANGED <<wg, twin>>

(* One of the two rows of the device becomes active, or stops being it.     *)
RowChanges(d) ==
    /\ Change({d})
    /\ \/ /\ \E w \in {wg \cup {d}, wg \ {d}} : wg' = w /\ wg # w
          /\ UNCHANGED twin
       \/ /\ \E t \in {twin \cup {d}, twin \ {d}} : twin' = t /\ twin # t
          /\ UNCHANGED wg
    /\ UNCHANGED <<peers, clients, ids>>

AgentRestarts ==
    /\ ids # {} \/ clients # {}
    /\ Change({})
    /\ ids' = {} /\ clients' = {}
    /\ UNCHANGED <<wg, twin, peers>>

ContainerRestarts ==
    /\ peers # {}
    /\ Change(peers)
    /\ peers' = {}
    /\ UNCHANGED <<wg, twin, clients, ids>>
--------------------------------------------------------------------------------
(***************************************************************************)
(* The pass.                                                               *)
(***************************************************************************)
environment == <<here, wg, twin, peers, clients, ids, changes>>

Fault == faults < MaxFaults /\ faults' = faults + 1

(* Of the active rows the worker drops those of the other protocol.         *)
ListActive == wg \cap here

ListRows ==
    /\ job.pc = "idle"
    /\ job' = [NoJob EXCEPT !.pc = "fetch", !.db = ListActive]
    /\ touched' = {}
    /\ UNCHANGED <<environment, report, faults>>

Fetched(todo, listed) ==
    /\ job.pc = "fetch"
    /\ job' = [job EXCEPT !.pc = "compare", !.todo = todo, !.listed = listed]
    /\ UNCHANGED <<environment, report, touched>>

(* Mutant: a list without a peer is taken for no answer. *)
FetchSome ==
    /\ peers # {}
    /\ Fetched({[dev |-> d, id |-> d \in ids] : d \in peers}, TRUE)
    /\ UNCHANGED faults

Fetch ==
    /\ Fetched({[dev |-> d, id |-> d \in ids] : d \in peers}, TRUE)
    /\ UNCHANGED faults

(* Without its interface the agent answers with the Xray clients it         *)
(* remembers, if there are any, and the worker skips those. *)
FetchWithoutWG == clients # {} /\ Fault /\ Fetched({}, FALSE)

(* A query or the request fails, and the node is left out. *)
Skip ==
    /\ job.pc \in {"idle", "fetch"} /\ Fault
    /\ job' = NoJob
    /\ UNCHANGED <<environment, report, touched>>

(* The address of a row as the database writes it, and the one of a peer as *)
(* the agent cuts it out of the dump. *)
AssignedIP(d) == <<d, "/32">>
AllowedIP(d)  == <<d, "">>

(* The newest active access with the key is the one of Xray, which is made  *)
(* after the one of WireGuard: no row of the list is then seen. *)
ByKeySees(c) == (wg \ twin) \cap {c.dev}

ByIP(c)  == {d \in job.db : AssignedIP(d) = AllowedIP(c.dev)}
ByKey(c) == here \cap (wg \cup twin) \cap {c.dev}

IsStale(c) == c.id /\ c.dev \notin job.db /\ c.dev \notin here

Recognised(c) == IF c.id THEN c.dev \in job.db ELSE ByIP(c) # {} \/ ByKey(c) # {}

(* Mutant: a row is ticked off by its access alone. *)
TicksKnown(c) == IF c.id THEN job.db \cap {c.dev} ELSE {}

Ticks(c) ==
    CASE c.id                  -> job.db \cap {c.dev}
      [] ~c.id /\ ByIP(c) # {} -> ByIP(c)
      [] OTHER                 -> ByKeySees(c)

Compare ==
    /\ job.pc = "compare"
    /\ \E c \in job.todo :
           job' = [job EXCEPT !.todo    = @ \ {c},
                              !.seen    = @ \cup Ticks(c),
                              !.stale   = IF IsStale(c) THEN @ \cup {c.dev} ELSE @,
                              !.unknown = IF Recognised(c) \/ IsStale(c) THEN @ ELSE @ \cup {c.dev}]
    /\ UNCHANGED <<environment, report, touched, faults>>

(* The look-up of an access the agent named fails: it counts as unknown.    *)
CompareFails ==
    /\ job.pc = "compare" /\ Fault
    /\ \E c \in job.todo :
           /\ ~(c.id /\ c.dev \in job.db)
           /\ job' = [job EXCEPT !.todo = @ \ {c}, !.unknown = @ \cup {c.dev}]
           /\ touched' = touched \cup {c.dev}
    /\ UNCHANGED <<environment, report>>

Log ==
    /\ job.pc = "compare" /\ job.todo = {}
    /\ report' = [stale |-> job.stale, unknown |-> job.unknown, missing |-> job.db \ job.seen]
    /\ job' = NoJob
    /\ UNCHANGED <<environment, touched, faults>>
--------------------------------------------------------------------------------
Pass == ListRows \/ Fetch \/ Compare \/ Log

Next ==
    \/ \E d \in Devices : PeerUp(d) \/ PeerDown(d) \/ RowChanges(d)
    \/ AgentRestarts \/ ContainerRestarts
    \/ Pass \/ FetchWithoutWG \/ Skip \/ CompareFails

Spec == Init /\ [][Next]_vars

(* The worker is a loop on a ticker. *)
Fairness == WF_vars(Pass)
FairSpec == Spec /\ Fairness
--------------------------------------------------------------------------------
(***************************************************************************)
(* Properties.  Each is about the devices nothing happened to during the   *)
(* pass, whatever happened to the others.                                  *)
(***************************************************************************)
Logs == job.pc = "compare" /\ job'.pc = "idle"
Quiet == Devices \ touched
Active == wg \cap here

(* What the pass logs is so: a row counted as missing has no peer, unless   *)
(* its device has an active Xray row as well, and a peer counted as unknown *)
(* or stale has no active row on this node. *)
NoFalseAlarm ==
    [][Logs /\ job.listed => \A d \in Quiet :
           /\ d \in report'.missing => d \in Active /\ (d \in peers => d \in twin)
           /\ d \in report'.unknown => d \in peers \ Active
           /\ d \in report'.stale   => d \in peers \ here]_vars

(* And it logs what is so: an active row without its peer is counted, and   *)
(* so is a peer of a device that has no active row at all. *)
NothingOverlooked ==
    [][Logs => \A d \in Quiet :
           /\ d \in Active \ peers => d \in report'.missing
           /\ job.listed /\ d \in peers \ (wg \cup twin)
                  => d \in report'.unknown \cup report'.stale]_vars

(* A peer that is lost for good is logged as missing sooner or later.       *)
LossNoticed ==
    \A d \in Devices :
        <>[](d \in Active \ peers) => <>(d \in report.missing)

(* What a pass tells is so, and what is so it tells.                       *)
PassIsTrue ==
    []TypeOK /\ NoFalseAlarm /\ NothingOverlooked

================================================================================
