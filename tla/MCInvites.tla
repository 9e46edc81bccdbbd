--------------------------------- MODULE MCInvites ---------------------------------
(* What administrators and users ask of the bot: Invites, and beside it the    *)
(* making of codes (InviteCodes), the notices about a node that is switched    *)
(* off (Notices) and the connections to the database (Pool), which share no    *)
(* state with it. One of them moves in a behaviour, the others stay as they    *)
(* began.                                                                      *)
EXTENDS Invites, TLC

CONSTANTS
    Scenes,  \* the components that may move, one in a behaviour
    i1, u1, UsesOfEach, \* how often each code may be used
    Numbers, Admins, Api, Tries, Sizes, Fits, Shown,    \* those of InviteCodes
    Devices, Owner, SendDeadline, SendMax,  \* those of Notices
    MaxCommands, MaxChanges

VARIABLES
    scene,  \* the component that moves
    makingRow, makingJob, makingCommand, makingTold, makingCounted,
    makingExcused, makingFaults,
    noticesStatus, noticesAccess, noticesMaking, noticesJob, noticesNotices,
    noticesExcused, noticesCommands, noticesChanges, noticesFaults,
    poolPc, poolHeld, poolLeft, poolMain, poolCut

makingVars == <<makingRow, makingJob, makingCommand, makingTold, makingCounted,
                makingExcused, makingFaults>>
noticesVars == <<noticesStatus, noticesAccess, noticesMaking, noticesJob,
                 noticesNotices, noticesExcused, noticesCommands, noticesChanges,
                 noticesFaults>>
poolVars == <<poolPc, poolHeld, poolLeft, poolMain, poolCut>>
allVars == <<scene, vars, makingVars, noticesVars, poolVars>>

MCUses == [c \in Codes |-> UsesOfEach]

(* Two users and one code, without debts; one user and two codes, on one day. *)
FewGrants ==
    /\ \A c \in Codes \ {i1} : status'[c] = "none"
    /\ \A u \in Users : balance'[u] >= 0 /\ Cardinality(grants'[u]) <= 1

OneUser ==
    /\ now' = 0
    /\ \A h \in Handlers : flow'[h].user \in {u1, None}
    /\ \A u \in Users \ {u1} : balance'[u] = 0

(* The first user has one device, the others share the rest. *)
MCOwner == [d \in Devices |-> IF d = "d1" THEN u1 ELSE CHOOSE u \in Users : u # u1]

Making == INSTANCE InviteCodes WITH
    Codes <- Numbers,
    row <- makingRow, job <- makingJob, command <- makingCommand,
    told <- makingTold, counted <- makingCounted,
    excused <- makingExcused, faults <- makingFaults

Notices == INSTANCE Notices WITH
    Deadline <- SendDeadline,
    status <- noticesStatus, access <- noticesAccess, making <- noticesMaking,
    job <- noticesJob, notices <- noticesNotices,
    excused <- noticesExcused,
    commands <- noticesCommands, changes <- noticesChanges, faults <- noticesFaults

Pool == INSTANCE Pool WITH
    Charge <- "charge", Rows <- 1, Statements <- 2, Pages <- {"p1", "p2"},
    Updates <- {"u1"}, Size <- 2,
    pc <- poolPc, held <- poolHeld, left <- poolLeft, main <- poolMain,
    cut <- poolCut

Roomy == INSTANCE Pool WITH
    Charge <- "charge", Rows <- 2, Statements <- 2, Pages <- {"p1"},
    Updates <- {"u1"}, Size <- 3,
    pc <- poolPc, held <- poolHeld, left <- poolLeft, main <- poolMain,
    cut <- poolCut

ASSUME PartsAssume ==
    /\ IsFiniteSet(Numbers)
    /\ Making!ActorsDiffer
    /\ Making!SizesAreNat
    /\ Making!ShownFits
    /\ Making!BoundsAreNat
    /\ Notices!OwnersAreUsers
    /\ Notices!TimesAreNat
    /\ Notices!BoundsAreNat
    /\ Pool!SizesArePos
    /\ Pool!UsersDiffer
    /\ Roomy!SizesArePos
    /\ Roomy!UsersDiffer

AllInit ==
    /\ scene \in Scenes
    /\ Init
    /\ Making!Init
    /\ Notices!Init
    /\ scene = "notices" \/ (\A a \in DOMAIN noticesAccess : noticesAccess[a] = "none")
    /\ Pool!Init

AllNext ==
    \/ /\ scene = "invites_code"
       /\ Next /\ FewGrants
       /\ UNCHANGED <<scene, makingVars, noticesVars, poolVars>>
    \/ /\ scene = "invites_user"
       /\ Next /\ OneUser
       /\ UNCHANGED <<scene, makingVars, noticesVars, poolVars>>
    \/ /\ scene = "making" /\ Making!Next
       /\ UNCHANGED <<scene, vars, noticesVars, poolVars>>
    \/ /\ scene = "notices" /\ Notices!Next
       /\ UNCHANGED <<scene, vars, makingVars, poolVars>>
    \/ /\ scene = "pool" /\ Pool!Next
       /\ UNCHANGED <<scene, vars, makingVars, noticesVars>>
    \/ /\ scene = "pool_roomy" /\ Roomy!Next
       /\ UNCHANGED <<scene, vars, makingVars, noticesVars>>

AllSpec == AllInit /\ [][AllNext]_allVars

(* The fairness of the component that moves. *)
SceneFairness ==
    \/ scene = "invites_code"
    \/ scene = "invites_user"
    \/ scene = "making" /\ Making!Fairness
    \/ scene = "notices" /\ Notices!Fairness
    \/ scene = "pool" /\ Pool!Fairness
    \/ scene = "pool_roomy" /\ Roomy!Fairness

FairAllSpec == AllSpec /\ SceneFairness

------------------------------------------------------------------------------------
(* Every code that was made is told to the one who asked for it, and to nobody *)
(* else.                                                                       *)
CodesAreTold == Making!CodesAreTold

(* Everybody whose access was in sight is told of the node, once.              *)
NoticesReach == Notices!NoticesReach

(* Whatever is begun ends, whoever waits for whom: commands, updates, the page *)
(* of the nodes while fewer lists are open than there are connections, and the *)
(* control plane itself, with no statement in the middle.                      *)
EverythingEnds ==
    /\ scene = "making" => Making!CommandsEnd
    /\ scene = "notices" => Notices!CommandEnds
    /\ scene = "pool" => [](Pool!TypeOK /\ Pool!NoStatementIsCut) /\ Pool!UpdateEnds /\ Pool!StopEnds
    /\ scene = "pool_roomy" => []Roomy!NoStatementIsCut /\ Roomy!PageEnds

====================================================================================
