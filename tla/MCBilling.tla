--------------------------------- MODULE MCBilling ---------------------------------
(* What the workers of the control plane count: Billing, and beside it         *)
(* Traffic, which shares no state with it. One of them moves in a behaviour,   *)
(* the other stays as it began.                                                *)
EXTENDS Billing, TLC

CONSTANTS
    Scenes,  \* the components that may move, one in a behaviour
    Devices, NoDevice, Payers, Owner, MaxBytes, MaxResets,  \* those of Traffic
    XrayToo  \* devices of Traffic whose Xray client is listed too

VARIABLES
    scene,  \* the component that moves
    trafficReal, trafficCounter, trafficLast, trafficFresh, trafficDaily,
    trafficByProto, trafficMonthly, trafficTodo, trafficJob, trafficResets,
    trafficFaults, trafficLossy

trafficVars == <<trafficReal, trafficCounter, trafficLast, trafficFresh,
                 trafficDaily, trafficByProto, trafficMonthly, trafficTodo,
                 trafficJob, trafficResets, trafficFaults, trafficLossy>>
allVars == <<scene, vars, trafficVars>>

(* One user has all the devices. *)
MCOwner == [d \in Devices |-> CHOOSE u \in Payers : TRUE]

Traffic == INSTANCE Traffic WITH
    Users <- Payers, Xray <- XrayToo,
    real <- trafficReal, counter <- trafficCounter, last <- trafficLast,
    fresh <- trafficFresh, daily <- trafficDaily, byProto <- trafficByProto,
    monthly <- trafficMonthly, todo <- trafficTodo, job <- trafficJob,
    resets <- trafficResets, faults <- trafficFaults, lossy <- trafficLossy

ASSUME PartsAssume ==
    /\ Traffic!OwnerIsUser
    /\ Traffic!XrayAreDevices
    /\ Traffic!BoundsAreNat

AllInit ==
    /\ scene \in Scenes
    /\ Init
    /\ Traffic!Init

AllNext ==
    \/ scene = "billing" /\ Next /\ UNCHANGED <<scene, trafficVars>>
    \/ scene = "traffic" /\ Traffic!Next /\ UNCHANGED <<scene, vars>>

AllSpec == AllInit /\ [][AllNext]_allVars

(* The fairness of the component that moves. *)
SceneFairness ==
    \/ scene = "billing" /\ Fairness
    \/ scene = "traffic" /\ Traffic!Fairness

FairAllSpec == AllSpec /\ SceneFairness

------------------------------------------------------------------------------------
(* No traffic is counted twice, and what was counted is in all tables unless a *)
(* statement failed.                                                           *)
TrafficIsCounted == Traffic!TrafficIsCounted

(* No table shows more traffic than a device really had.                       *)
NeverOvercounts == Traffic!NeverOvercounts

(* The workers catch up: whoever keeps a device is in the end charged for the  *)
(* day, and all traffic is accounted for unless a counter started again.       *)
WorkersCatchUp ==
    /\ scene = "billing" => ChargedInTheEnd
    /\ scene = "traffic" => Traffic!CountedInTheEnd

====================================================================================
