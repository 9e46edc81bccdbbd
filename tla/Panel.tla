--------------------------------- MODULE Panel ---------------------------------
(***************************************************************************)
(* What the bot shows of a user's devices and what the buttons on it do.   *)
(* A card stays in the chat: its buttons may be pressed after the device   *)
(* was deleted and another one made.  Every page is put together from      *)
(* several reads while billing and admins change the rows; the user's own  *)
(* updates are kept apart by the lock of the sender.                       *)
(*                                                                         *)
(* Abstractions.  One user.  Creation, billing, the admin's revocation and *)
(* the revocation of one access are single steps here; their statements    *)
(* are in AccessControl.  Configs are those of ConfigTokens.               *)
(***************************************************************************)
EXTENDS Naturals, FiniteSets

CONSTANTS
    Devices, NoDevice,
    MaxChanges, \* bound: what billing and admins do
    MaxFaults   \* bound: failing reads and writes

NoDeviceIsNone == NoDevice \notin Devices
BoundsAreNat   == MaxChanges \in Nat /\ MaxFaults \in Nat

VARIABLES
    dev,      \* devices.status
    acc,      \* device_accesses.status
    grant,    \* the user's latest access_grants.status
    job,      \* the update of the user at hand
    said,     \* history: the last answer
    outlived, \* history: devices deleted before their accesses were revoked
    changes,  \* history
    faults    \* history

vars == <<dev, acc, grant, job, said, outlived, changes, faults>>

Protocols == {"wireguard", "xray"}
Buttons   == {"card", "wg", "xray", "delete"}
Job  == [pc: {"idle", "device", "accesses", "link", "linkAccess", "linkDevice", "revoke",
              "close", "list", "listAccesses"},
         what: Buttons \cup {"access"}, on: Devices \cup {NoDevice}, of: Devices \cup {NoDevice},
         active: BOOLEAN, rest: SUBSET Protocols]
Said == [what: {"nothing", "card", "config", "link", "deleted", "access"},
         on: Devices \cup {NoDevice}, of: Devices \cup {NoDevice},
         billed: BOOLEAN, shown: SUBSET Protocols]

(* Every variable has its type. *)
TypeOK ==
    /\ dev \in [Devices -> {"none", "active", "deleted"}]
    /\ acc \in [Devices -> [Protocols -> {"none", "active", "suspended", "revoked"}]]
    /\ grant \in {"none", "active", "revoked"}
    /\ job \in Job /\ said \in Said
    /\ outlived \subseteq Devices
    /\ changes \in 0..MaxChanges /\ faults \in 0..MaxFaults

Idle   == [pc |-> "idle", what |-> "card", on |-> NoDevice, of |-> NoDevice,
           active |-> FALSE, rest |-> {}]
Silent == [what |-> "nothing", on |-> NoDevice, of |-> NoDevice, billed |-> FALSE, shown |-> {}]

Init ==
    /\ dev = [d \in Devices |-> "none"]
    /\ acc = [d \in Devices |-> [p \in Protocols |-> "none"]]
    /\ grant = "none"
    /\ job = Idle /\ said = Silent
    /\ outlived = {} /\ changes = 0 /\ faults = 0

rows == <<dev, acc, grant, outlived>>

Fault   == faults < MaxFaults /\ faults' = faults + 1
Actives(d) == {p \in Protocols : acc[d][p] = "active"}
MyDevice   == {d \in Devices : dev[d] = "active"}
--------------------------------------------------------------------------------
(***************************************************************************)
(* What changes the rows.                                                  *)
(***************************************************************************)
Change == changes < MaxChanges /\ changes' = changes + 1

Suspend ==
    /\ Change
    /\ \E d \in Devices : Actives(d) # {}
    /\ acc' = [d \in Devices |-> [p \in Protocols |->
                  IF acc[d][p] = "active" THEN "suspended" ELSE acc[d][p]]]
    /\ UNCHANGED <<dev, grant, job, said, outlived, faults>>

(* The accesses of deleted devices are resumed with the others.            *)
Resume ==
    /\ Change
    /\ \E d \in Devices : "suspended" \in {acc[d][p] : p \in Protocols}
    /\ acc' = [d \in Devices |-> [p \in Protocols |->
                  IF acc[d][p] = "suspended" THEN "active" ELSE acc[d][p]]]
    /\ UNCHANGED <<dev, grant, job, said, outlived, faults>>

MarkDeleted(d) ==
    /\ dev' = [dev EXCEPT ![d] = "deleted"]
    /\ outlived' = IF \E p \in Protocols : acc'[d][p] \in {"active", "suspended"}
                   THEN outlived \cup {d} ELSE outlived

(* The admin's revocation takes the first of the active accesses.          *)
AdminRevoke ==
    /\ Change
    /\ grant' = IF grant = "active" THEN "revoked" ELSE grant
    /\ \/ MyDevice = {} /\ UNCHANGED <<dev, acc, outlived>>
       \/ \E d \in MyDevice :
             /\ \/ Actives(d) = {} /\ UNCHANGED acc
                \/ \E p \in Actives(d) : acc' = [acc EXCEPT ![d][p] = "revoked"]
             /\ MarkDeleted(d)
    /\ UNCHANGED <<job, said, faults>>

(* Updates of the user, while no other one is at hand: an invite, a device.*)
Activate ==
    /\ job.pc = "idle" /\ grant # "active"
    /\ grant' = "active"
    /\ UNCHANGED <<dev, acc, job, said, outlived, changes, faults>>

CreateDevice ==
    /\ job.pc = "idle" /\ grant = "active" /\ MyDevice = {}
    /\ \E d \in Devices, ps \in SUBSET Protocols :
           /\ dev[d] = "none"
           /\ IF ps = Protocols THEN UNCHANGED faults ELSE Fault
           /\ dev' = [dev EXCEPT ![d] = "active"]
           /\ acc' = [acc EXCEPT ![d] = [p \in Protocols |-> IF p \in ps THEN "active" ELSE "none"]]
    /\ UNCHANGED <<grant, job, said, outlived, changes>>
--------------------------------------------------------------------------------
(***************************************************************************)
(* The buttons of a card.                                                  *)
(***************************************************************************)
Press(b, d) ==
    /\ job.pc = "idle" /\ dev[d] # "none"
    /\ job' = [Idle EXCEPT !.pc = "device", !.what = b, !.on = d]
    /\ UNCHANGED <<rows, said, changes, faults>>

Say(s) == said' = s /\ job' = Idle

(* A read that fails is answered like a device or an access that is not     *)
(* there. *)
NotFound ==
    /\ job.pc \in {"device", "link", "linkAccess", "linkDevice", "list"}
       \/ (job.pc = "accesses" /\ job.what \in {"wg", "xray"})
    /\ Fault /\ Say(Silent)
    /\ UNCHANGED <<rows, changes>>

GetDevice ==
    /\ job.pc = "device"
    /\ job' = [job EXCEPT !.pc = "accesses", !.active = (dev[job.on] = "active")]
    /\ UNCHANGED <<rows, said, changes, faults>>

(* Mutant: devices without an active access do not take part. *)
CardOfServed(ps) ==
    [Silent EXCEPT !.what = "card", !.on = job.on, !.billed = (job.active /\ ps # {}), !.shown = ps]

Card(ps) ==
    [Silent EXCEPT !.what = "card", !.on = job.on, !.billed = job.active, !.shown = ps]

WithAccesses(ps) ==
    CASE job.what = "card"   -> Say(Card(ps))
      [] job.what = "delete" -> job' = [job EXCEPT !.pc = "revoke", !.rest = ps] /\ UNCHANGED said
      [] job.what = "wg"     -> Say(IF "wireguard" \in ps
                                    THEN [Silent EXCEPT !.what = "config", !.on = job.on, !.of = job.on]
                                    ELSE Silent)
      [] job.what = "xray"   -> IF "xray" \in ps
                                THEN job' = [job EXCEPT !.pc = "link"] /\ UNCHANGED said
                                ELSE Say(Silent)

GetAccesses ==
    /\ job.pc = "accesses"
    /\ WithAccesses(Actives(job.on))
    /\ UNCHANGED <<rows, changes, faults>>

(* The card and the deletion go on without the accesses they could not read.*)
GetAccessesFails ==
    /\ job.pc = "accesses" /\ job.what \in {"card", "delete"} /\ Fault
    /\ WithAccesses({})
    /\ UNCHANGED <<rows, changes>>

(* The link is that of the user's active device, whatever was pressed.     *)
GetActiveByUserID ==
    /\ job.pc \in {"link", "linkDevice"}
    /\ \/ MyDevice = {} /\ Say(Silent)
       \/ \E d \in MyDevice :
             IF job.pc = "link"
             THEN job' = [job EXCEPT !.pc = "linkAccess", !.of = d] /\ UNCHANGED said
             ELSE Say([Silent EXCEPT !.what = "link", !.on = job.on, !.of = job.of])
    /\ UNCHANGED <<rows, changes, faults>>

LinkAccess ==
    /\ job.pc = "linkAccess"
    /\ IF "xray" \in Actives(job.of)
       THEN job' = [job EXCEPT !.pc = "linkDevice"] /\ UNCHANGED said
       ELSE Say(Silent)
    /\ UNCHANGED <<rows, changes, faults>>

RevokeAccess ==
    /\ job.pc = "revoke" /\ job.rest # {}
    /\ \E p \in job.rest :
           /\ job' = [job EXCEPT !.rest = @ \ {p}]
           /\ \/ acc' = [acc EXCEPT ![job.on][p] = "revoked"] /\ UNCHANGED faults
              \/ Fault /\ UNCHANGED acc
    /\ UNCHANGED <<dev, grant, outlived, said, changes>>

RevokeDevice ==
    /\ job.pc = "revoke" /\ job.rest = {}
    /\ \/ UNCHANGED acc /\ MarkDeleted(job.on) /\ UNCHANGED faults
       \/ Fault /\ UNCHANGED <<dev, acc, outlived>>
    /\ Say([Silent EXCEPT !.what = "deleted", !.on = job.on])
    /\ UNCHANGED <<grant, changes>>
--------------------------------------------------------------------------------
(***************************************************************************)
(* "Мой доступ".                                                           *)
(***************************************************************************)
AskAccess ==
    /\ job.pc = "idle"
    /\ IF grant = "none" THEN Say(Silent)
       ELSE job' = [Idle EXCEPT !.pc = "list", !.what = "access"] /\ UNCHANGED said
    /\ UNCHANGED <<rows, changes, faults>>

(* With no protocol to show, both are shown. *)
Overview(ps) ==
    [Silent EXCEPT !.what = "access", !.shown = IF ps = {} THEN Protocols ELSE ps]

ListDevices ==
    /\ job.pc = "list"
    /\ \/ MyDevice = {} /\ Say(Overview({}))
       \/ \E d \in MyDevice :
             job' = [job EXCEPT !.pc = "listAccesses", !.of = d] /\ UNCHANGED said
    /\ UNCHANGED <<rows, changes, faults>>

ListAccesses ==
    /\ job.pc = "listAccesses"
    /\ \/ Say(Overview(Actives(job.of))) /\ UNCHANGED faults
       \/ Fault /\ Say(Overview({}))
    /\ UNCHANGED <<rows, changes>>
--------------------------------------------------------------------------------
Next ==
    \/ Suspend \/ Resume \/ AdminRevoke \/ Activate \/ CreateDevice
    \/ \E b \in Buttons, d \in Devices : Press(b, d)
    \/ NotFound \/ GetDevice \/ GetAccesses \/ GetAccessesFails
    \/ GetActiveByUserID \/ LinkAccess \/ RevokeAccess \/ RevokeDevice
    \/ AskAccess \/ ListDevices \/ ListAccesses

Spec == Init /\ [][Next]_vars
--------------------------------------------------------------------------------
(***************************************************************************)
(* Properties.                                                             *)
(***************************************************************************)

(* What the daily charge counts: an active device with an access that is   *)
(* active or suspended. *)
Billable(d) ==
    dev[d] = "active" /\ \E p \in Protocols : acc[d][p] \in {"active", "suspended"}

(* A card that says that a device takes no part in billing stays true: it  *)
(* is never charged for again, whatever happens after the card was sent.   *)
NoMeansNoCharge == (said.what = "card" /\ ~said.billed) => ~Billable(said.on)

(* A button sends what belongs to another device than the one it is for    *)
(* only if that device was deleted and an access of it left as it was.     *)
OthersOnlyIfOutlived ==
    (said.what \in {"config", "link"} /\ said.of # said.on) => said.on \in outlived

(* What a card says, and what its buttons send, is right when it arrives   *)
(* although it was read before.                                            *)
CardsStayTrue ==
    TypeOK /\ NoMeansNoCharge /\ OthersOnlyIfOutlived

================================================================================
