-------------------------------- MODULE MCNodeCall ---------------------------------
(* How the control plane reaches its nodes: NodeCall, and beside it the fleet  *)
(* of NodeFleet and the addresses of IPAllocator, which share no state with    *)
(* it. One of them moves in a behaviour, the others stay as they began.        *)
EXTENDS NodeCall, TLC

CONSTANTS
    Scenes, \* the components that may move, one in a behaviour
    Calls, Capacity, Usable, MaxAsked, MaxForgets  \* those of IPAllocator

VARIABLES
    scene,  \* the component that moves
    fleetStatus, fleetAgent, fleetRuntimeOK, fleetWire, fleetPoll,
    fleetFaults, fleetEdits, fleetBlamed,
    ipCounter, ipUsed, ipCall, ipGiven, ipAsked, ipForgets, ipFaults, ipSteady

fleetVars == <<fleetStatus, fleetAgent, fleetRuntimeOK, fleetWire,
               fleetPoll, fleetFaults, fleetEdits, fleetBlamed>>
ipVars == <<ipCounter, ipUsed, ipCall, ipGiven, ipAsked, ipForgets, ipFaults,
            ipSteady>>
allVars == <<scene, vars, fleetVars, ipVars>>

Fleet == INSTANCE NodeFleet WITH
    Nodes <- {"n1"}, Own <- "n1", MaxFaults <- 2, MaxAdmin <- 1,
    status <- fleetStatus, agent <- fleetAgent,
    runtimeOK <- fleetRuntimeOK, wire <- fleetWire, poll <- fleetPoll,
    faults <- fleetFaults, edits <- fleetEdits, blamed <- fleetBlamed

Ip == INSTANCE IPAllocator WITH
    counter <- ipCounter, used <- ipUsed, call <- ipCall, given <- ipGiven,
    asked <- ipAsked, forgets <- ipForgets, faults <- ipFaults, steady <- ipSteady

ASSUME PartsAssume ==
    /\ Fleet!OwnIsNode
    /\ Fleet!BoundsAreNat
    /\ Ip!CapacityIsPositive
    /\ Ip!UsableAreHosts
    /\ Ip!BoundsAreNat

AllInit ==
    /\ scene \in Scenes
    /\ Init
    /\ scene = "call" \/ adapter = "mock"
    /\ Fleet!Init
    /\ Ip!Init

AllNext ==
    \/ scene = "call" /\ Next /\ UNCHANGED <<scene, fleetVars, ipVars>>
    \/ scene = "fleet" /\ Fleet!Next /\ UNCHANGED <<scene, vars, ipVars>>
    \/ scene = "addresses" /\ Ip!Next /\ UNCHANGED <<scene, vars, fleetVars>>

AllSpec == AllInit /\ [][AllNext]_allVars

(* The fairness of the component that moves. *)
SceneFairness ==
    \/ scene = "call" /\ Fairness
    \/ scene = "fleet" /\ Fleet!Fairness
    \/ scene = "addresses" /\ Ip!Fairness

FairAllSpec == AllSpec /\ SceneFairness

------------------------------------------------------------------------------------
(* Addresses are handed out once, and refused only when there is none.         *)
AddressesHold == Ip!AddressesHold

(* In the end the status of a node is that of its agent, for good or bad.      *)
StatusFollowsAgent == scene = "fleet" => []Fleet!TypeOK /\ Fleet!StatusFollowsAgent

(* Every allocation ends, also when others take the free addresses and hosts   *)
(* have none.                                                                  *)
AllocationsEnd == Ip!CallsEnd

(* What is beside the calls to a node settles as well: its status, and the     *)
(* allocations of addresses.                                                   *)
OthersSettle == StatusFollowsAgent /\ AllocationsEnd

====================================================================================
