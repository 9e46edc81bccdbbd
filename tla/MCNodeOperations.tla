----------------------------- MODULE MCNodeOperations ------------------------------
(* What the control plane writes down about its nodes and their requests:      *)
(* NodeOperations, and beside it NodeFleet, StartRepair, OpLog, Guard,         *)
(* Throughput and the pass of PeerConsistency, which share no state with it.   *)
(* One of them moves in a behaviour, the others stay as they began.            *)
EXTENDS NodeOperations, TLC

CONSTANTS
    Scenes,  \* the components that may move, one in a behaviour
    o1, o2, o3,
    Own, MaxAdmin,  \* those of NodeFleet
    GateRequests, Copies, Limit, Window, MaxSkew, MarkTTL, Ahead, MaxStall,
    MaxTime,  \* those of Guard
    RepairRows, RepairAccesses, RepairAccessOf, MaxStarts, MaxChanges,  \* those of StartRepair
    LogRequests, LogDay, LogRetention, LogTime,  \* those of OpLog
    Interval, Day, Retention, Link, Horizon,  \* those of Throughput
    PeerChanges  \* that of PeerConsistency

VARIABLES
    scene,  \* the component that moves
    fleetStatus, fleetAgent, fleetRuntimeOK, fleetWire, fleetPoll,
    fleetFaults, fleetEdits, fleetBlamed,
    repairPc, repairNodeID, repairActive, repairRow, repairRepaired, repairPaused,
    repairStarts, repairFaults, repairChanges,
    logNow, logReq, logPlain, logGz, logFaults, logLate,
    guardNow, guardBucket, guardStamp, guardCopy, guardMark, guardTaken,
    guardRefused, guardHandled,
    samplesNow, samplesSent, samplesCounted, samplesSamples, samplesJob,
    samplesRunning, samplesDue, samplesNextTick, samplesLate, samplesOverwritten,
    samplesStops, samplesFaults,
    peersHere, peersWg, peersTwin, peersPeers, peersClients, peersIds, peersJob,
    peersReport, peersTouched, peersChanges, peersFaults

fleetVars == <<fleetStatus, fleetAgent, fleetRuntimeOK, fleetWire,
               fleetPoll, fleetFaults, fleetEdits, fleetBlamed>>
repairVars == <<repairPc, repairNodeID, repairActive, repairRow, repairRepaired,
                repairPaused, repairStarts, repairFaults, repairChanges>>
logVars == <<logNow, logReq, logPlain, logGz, logFaults, logLate>>
guardVars == <<guardNow, guardBucket, guardStamp, guardCopy, guardMark, guardTaken,
               guardRefused, guardHandled>>
samplesVars == <<samplesNow, samplesSent, samplesCounted, samplesSamples,
                 samplesJob, samplesRunning, samplesDue, samplesNextTick,
                 samplesLate, samplesOverwritten, samplesStops, samplesFaults>>
peersVars == <<peersHere, peersWg, peersTwin, peersPeers, peersClients, peersIds,
               peersJob, peersReport, peersTouched, peersChanges, peersFaults>>
allVars == <<scene, vars, fleetVars, repairVars, logVars, guardVars, samplesVars,
             peersVars>>

(* Three rows: two of one access and one of another. *)
MCAccessOf == ("r1" :> "wg") @@ ("r2" :> "wg") @@ ("r3" :> "xray")

(* Which row an operation takes does not matter. *)
MCSymmetry == Permutations({o1, o2, o3})

Fleet == INSTANCE NodeFleet WITH
    status <- fleetStatus, agent <- fleetAgent,
    runtimeOK <- fleetRuntimeOK, wire <- fleetWire, poll <- fleetPoll,
    faults <- fleetFaults, edits <- fleetEdits, blamed <- fleetBlamed

Repair == INSTANCE StartRepair WITH
    Rows <- RepairRows, Accesses <- RepairAccesses, AccessOf <- RepairAccessOf,
    None <- NoNode,
    pc <- repairPc, nodeID <- repairNodeID, active <- repairActive,
    row <- repairRow, repaired <- repairRepaired, paused <- repairPaused,
    starts <- repairStarts, faults <- repairFaults, changes <- repairChanges

Log == INSTANCE OpLog WITH
    Requests <- LogRequests, Day <- LogDay, Retention <- LogRetention, MaxTime <- LogTime,
    now <- logNow, req <- logReq, plain <- logPlain, gz <- logGz,
    faults <- logFaults, late <- logLate

Limiter == INSTANCE Guard WITH
    Requests <- {"g1"}, Copies <- {"k1", "k2", "k3", "k4"}, None <- NoNode,
    Limit <- 1, Window <- 2, MaxSkew <- 9, MarkTTL <- 9, Ahead <- 0, MaxStall <- 0,
    MaxTime <- 5,
    now <- guardNow, bucket <- guardBucket, stamp <- guardStamp, copy <- guardCopy,
    mark <- guardMark, taken <- guardTaken, refused <- guardRefused,
    handled <- guardHandled

Replay == INSTANCE Guard WITH
    Requests <- {"g1"}, Copies <- {"k1", "k2", "k3"}, None <- NoNode, Limit <- 3,
    Window <- 1, MaxSkew <- 2, MarkTTL <- 2, MaxTime <- 6, Ahead <- 0, MaxStall <- 0,
    now <- guardNow, bucket <- guardBucket, stamp <- guardStamp, copy <- guardCopy,
    mark <- guardMark, taken <- guardTaken, refused <- guardRefused,
    handled <- guardHandled

Gate == INSTANCE Guard WITH
    Requests <- GateRequests, None <- NoNode,
    now <- guardNow, bucket <- guardBucket, stamp <- guardStamp, copy <- guardCopy,
    mark <- guardMark, taken <- guardTaken, refused <- guardRefused,
    handled <- guardHandled

Samples == INSTANCE Throughput WITH
    now <- samplesNow, sent <- samplesSent, counted <- samplesCounted,
    samples <- samplesSamples, job <- samplesJob, running <- samplesRunning,
    due <- samplesDue, nextTick <- samplesNextTick, late <- samplesLate,
    overwritten <- samplesOverwritten, stops <- samplesStops,
    faults <- samplesFaults

Peers == INSTANCE PeerConsistency WITH
    MaxChanges <- PeerChanges,
    here <- peersHere, wg <- peersWg, twin <- peersTwin, peers <- peersPeers,
    clients <- peersClients, ids <- peersIds, job <- peersJob,
    report <- peersReport, touched <- peersTouched, changes <- peersChanges,
    faults <- peersFaults

ASSUME PartsAssume ==
    /\ Fleet!OwnIsNode
    /\ Fleet!BoundsAreNat
    /\ Repair!RowsAreOfAccesses
    /\ Repair!NoneIsNoNode
    /\ Repair!BoundsAreNat
    /\ Log!TimesArePositive
    /\ Log!BoundsAreNat
    /\ Limiter!NumbersAreNat
    /\ Limiter!LimitPositive
    /\ Limiter!MarkCoversSkew
    /\ Limiter!NoneIsOutside
    /\ Replay!NumbersAreNat
    /\ Replay!LimitPositive
    /\ Replay!MarkCoversSkew
    /\ Replay!NoneIsOutside
    /\ Gate!NumbersAreNat
    /\ Gate!LimitPositive
    /\ Gate!MarkCoversSkew
    /\ Gate!NoneIsOutside
    /\ Samples!StepIsPositive
    /\ Samples!KeptForADay
    /\ Samples!BoundsAreNat
    /\ Peers!BoundsAreNat

AllInit ==
    /\ scene \in Scenes
    /\ Init
    /\ Fleet!Init
    /\ Repair!Init
    /\ scene = "repair" \/ (repairActive = {} /\ \A r \in RepairRows : repairRow[r] = [node |-> Own, st |-> "none"])
    /\ Log!Init
    /\ IF scene = "replay" THEN Replay!Init ELSE IF scene = "gate" THEN Gate!Init ELSE Limiter!Init
    /\ Samples!Init
    /\ scene = "samples" \/ (samplesNow = 0)
    /\ Peers!Init
    /\ scene = "peers" \/ peersHere = {}

AllNext ==
    \/ /\ scene = "operations"
       /\ Next
       /\ UNCHANGED <<scene, fleetVars, repairVars, logVars, guardVars, samplesVars, peersVars>>
    \/ /\ scene = "fleet" /\ Fleet!Next
       /\ UNCHANGED <<scene, vars, repairVars, logVars, guardVars, samplesVars, peersVars>>
    \/ /\ scene = "repair" /\ Repair!Next
       /\ UNCHANGED <<scene, vars, fleetVars, logVars, guardVars, samplesVars, peersVars>>
    \/ /\ scene = "log" /\ Log!Next
       /\ UNCHANGED <<scene, vars, fleetVars, repairVars, guardVars, samplesVars, peersVars>>
    \/ /\ scene = "limiter" /\ Limiter!Next
       /\ UNCHANGED <<scene, vars, fleetVars, repairVars, logVars, samplesVars, peersVars>>
    \/ /\ scene = "replay" /\ Replay!Next
       /\ UNCHANGED <<scene, vars, fleetVars, repairVars, logVars, samplesVars, peersVars>>
    \/ /\ scene = "gate" /\ Gate!Next
       /\ UNCHANGED <<scene, vars, fleetVars, repairVars, logVars, samplesVars, peersVars>>
    \/ /\ scene = "samples" /\ Samples!Next
       /\ UNCHANGED <<scene, vars, fleetVars, repairVars, logVars, guardVars, peersVars>>
    \/ /\ scene = "peers" /\ Peers!Next
       /\ UNCHANGED <<scene, vars, fleetVars, repairVars, logVars, guardVars, samplesVars>>

AllSpec == AllInit /\ [][AllNext]_allVars

------------------------------------------------------------------------------------
(* A node is not taken down by what happens to others.                         *)
DownIsExplained == Fleet!DownIsExplained

(* The repair leaves no access behind, and takes none away.                    *)
RepairKeepsAccess == Repair!RepairKeepsAccess

(* Records of the operations log are there until their time, and there once.   *)
LogKeepsRecords == Log!LogKeepsRecords

(* The limiter lets in no more than twice its limit in a window and refuses    *)
(* only the busy; a request is handled once, and again only with a clock that  *)
(* is ahead or a late mark, and after the mark has ended.                      *)
RequestsAreGuarded ==
    /\ scene = "limiter" => Limiter!RequestsAreGuarded
    /\ scene = "replay" => Replay!RequestsAreGuarded
    /\ scene = "gate" => Gate!RequestsAreGuarded

(* Samples hold every byte once at most, and are there for the pages that add  *)
(* them up.                                                                    *)
SamplesAddUp == Samples!SamplesAddUp

(* What a pass of the consistency worker tells is so, and what is so it tells. *)
PassIsTrue == Peers!PassIsTrue

====================================================================================
