------------------------------ MODULE MCReconcileLoop ------------------------------
(* What brings a node to what the control plane wants and what looks whether   *)
(* it is there: ReconcileLoop, and beside it the pass of PeerConsistency,      *)
(* which shares no state with it. One of them moves in a behaviour, the other  *)
(* stays as it began.                                                          *)
EXTENDS ReconcileLoop, TLC

CONSTANTS
    Scenes \* the components that may move, one in a behaviour

VARIABLES
    scene,  \* the component that moves
    peersHere, peersWg, peersTwin, peersPeers, peersClients, peersIds, peersJob,
    peersReport, peersTouched, peersChanges, peersFaults

peersVars == <<peersHere, peersWg, peersTwin, peersPeers, peersClients, peersIds,
               peersJob, peersReport, peersTouched, peersChanges, peersFaults>>
allVars == <<scene, lvars, peersVars>>

Peers == INSTANCE PeerConsistency WITH
    Devices <- {"d1", "d2"}, MaxChanges <- 3, MaxFaults <- 1,
    here <- peersHere, wg <- peersWg, twin <- peersTwin, peers <- peersPeers,
    clients <- peersClients, ids <- peersIds, job <- peersJob,
    report <- peersReport, touched <- peersTouched, changes <- peersChanges,
    faults <- peersFaults

ASSUME PartsAssume ==
    /\ Peers!BoundsAreNat

AllInit ==
    /\ scene \in Scenes
    /\ LoopInit
    /\ Peers!Init
    /\ scene = "peers" \/ (peersHere = {})

AllNext ==
    \/ scene = "loop" /\ LoopNext /\ UNCHANGED <<scene, peersVars>>
    \/ scene = "peers" /\ Peers!Next /\ UNCHANGED <<scene, lvars>>

AllSpec == AllInit /\ [][AllNext]_allVars

(* The fairness of the component that moves. *)
SceneFairness ==
    \/ scene = "loop" /\ Fairness
    \/ scene = "peers" /\ Peers!Fairness

FairAllSpec == AllSpec /\ SceneFairness

------------------------------------------------------------------------------------
(* Nothing stays wrong unseen: the loop brings the runtime to what is desired, *)
(* and a peer that is lost for good the consistency worker tells of. That what *)
(* it tells is so is checked in MCNodeOperations.                              *)
NothingStaysWrong == RuntimeConverges /\ Peers!LossNoticed

====================================================================================
