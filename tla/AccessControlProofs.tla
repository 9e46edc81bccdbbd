-------------------------- MODULE AccessControlProofs --------------------------
(***************************************************************************)
(* Proofs about AccessControl, for any number of users, admins, devices and*)
(* goroutines and any bounds on faults and billing transactions.           *)
(***************************************************************************)
EXTENDS AccessControl, TLAPS

Filling    == {"insertAccess", "apply", "activate"}
WithDevice == Filling \cup DeletePcs

(* The lock: a busy goroutine's sender is being processed, by it alone.    *)
LockInv ==
    /\ \A p \in Procs : ~At(p, "idle") => flow[p].sender \in processing
                                          /\ flow[p].sender # Nobody
    /\ \A p, q \in Procs : ~At(p, "idle") /\ ~At(q, "idle")
                              /\ flow[p].sender = flow[q].sender => p = q

(* Devices that do not exist have no owner and no accesses. *)
RowOk(d) ==
    /\ device[d] = "none" => owner[d] = Nobody
                             /\ \A pr \in Protocols : access[d][pr] = "none"
    /\ device[d] # "none" => owner[d] \in Users
RowInv == \A d \in Devices : RowOk(d)

(* What a flow works on: a user's own update creates, and deletes all.     *)
FlowOk(p) ==
    /\ flow[p].pc \in CreatePcs => flow[p].user \in Users /\ flow[p].sender = flow[p].user
    /\ flow[p].pc \in WithDevice =>
          /\ flow[p].dev \in Devices
          /\ device[flow[p].dev] # "none"
          /\ owner[flow[p].dev] = flow[p].user
    /\ flow[p].pc \in DeletePcs /\ flow[p].all => flow[p].sender = flow[p].user
    /\ At(p, "mark") => flow[p].todo # {}

(* The check before the insert still holds. *)
CheckOk(p) == At(p, "insertDevice") => ActiveOf(flow[p].user) = {}

(* A creating flow finds its accesses as it left them. *)
CreateOk(p) ==
    /\ flow[p].pc \in {"checkUser", "checkDevice", "insertDevice"} =>
          flow[p].proto = "wireguard"
    /\ At(p, "insertAccess") =>
          /\ access[flow[p].dev][flow[p].proto] = "none"
          /\ flow[p].proto = "wireguard" => access[flow[p].dev]["xray"] = "none"
          /\ flow[p].proto = "xray" => access[flow[p].dev]["wireguard"] = "pending"
    /\ flow[p].pc \in {"apply", "activate"} =>
          /\ access[flow[p].dev][flow[p].proto] = "pending"
          /\ flow[p].proto = "wireguard" => access[flow[p].dev]["xray"] = "pending"

(* What is to be revoked was active once. *)
Settled == {"active", "suspended_nonpayment", "revoked", "error"}
TodoOk(p) ==
    flow[p].pc \in DeletePcs =>
        \A pr \in flow[p].todo : access[flow[p].dev][pr] \in Settled

(* CleanDelete also between the calls of a delete. *)
CleanOk(p) ==
    flow[p].pc \in {"revoke", "mark"} /\ flow[p].all /\ flow[p].clean
        => ActiveAccesses(flow[p].dev) \subseteq flow[p].todo

Ok(p) == FlowOk(p) /\ CheckOk(p) /\ CreateOk(p) /\ TodoOk(p) /\ CleanOk(p)
FlowInv == \A p \in Procs : Ok(p)

IInv == /\ TypeOK
        /\ LockInv
        /\ RowInv
        /\ FlowInv
        /\ OneActiveDevice
        /\ SuspendedOwnerBlocked
--------------------------------------------------------------------------------
(***************************************************************************)
(* What a step does to the flows.                                          *)
(***************************************************************************)

(* A flow that is not the one moving may only become unclean. *)
Kept(q) ==
    /\ flow'[q].pc = flow[q].pc
    /\ flow'[q].sender = flow[q].sender
    /\ flow'[q].user = flow[q].user
    /\ flow'[q].dev = flow[q].dev
    /\ flow'[q].proto = flow[q].proto
    /\ flow'[q].todo = flow[q].todo
    /\ flow'[q].all = flow[q].all
    /\ flow'[q].clean => flow[q].clean

Puts(p, f) ==
    /\ f \in Flow
    /\ flow' \in [Procs -> Flow]
    /\ flow'[p] = f
    /\ \A q \in Procs \ {p} : Kept(q)

LEMMA BecomesPuts ==
    ASSUME flow \in [Procs -> Flow], NEW p \in Procs, NEW f \in Flow, Becomes(p, f)
    PROVE  Puts(p, f)
  <1>1. flow' \in [Procs -> Flow] /\ flow'[p] = f
    BY DEF Becomes
  <1>2. \A q \in Procs \ {p} : flow'[q] = flow[q]
    BY DEF Becomes
  <1> QED BY <1>1, <1>2 DEF Puts, Kept

(* Soil leaves everything but clean. *)
LEMMA SoilShape ==
    ASSUME NEW F \in [Procs -> Flow], NEW p \in Procs
    PROVE  /\ Soil(F) \in [Procs -> Flow]
           /\ Soil(F)[p] = [F[p] EXCEPT !.clean = FALSE]
           /\ Soil(F)[p].pc = F[p].pc
           /\ Soil(F)[p].sender = F[p].sender
           /\ Soil(F)[p].user = F[p].user
           /\ Soil(F)[p].dev = F[p].dev
           /\ Soil(F)[p].proto = F[p].proto
           /\ Soil(F)[p].todo = F[p].todo
           /\ Soil(F)[p].all = F[p].all
           /\ Soil(F)[p].clean = FALSE
  <1>1. \A q \in Procs : [F[q] EXCEPT !.clean = FALSE] \in Flow
    BY DEF Flow
  <1>2. Soil(F) \in [Procs -> Flow]
    BY <1>1 DEF Soil
  <1>3. Soil(F)[p] = [F[p] EXCEPT !.clean = FALSE]
    BY DEF Soil
  <1>4. F[p] \in Flow
    OBVIOUS
  <1> QED BY <1>2, <1>3, <1>4 DEF Flow

LEMMA SoilPuts ==
    ASSUME NEW F \in [Procs -> Flow], NEW p \in Procs, flow' = Soil(F),
           \A q \in Procs \ {p} : F[q] = flow[q]
    PROVE  Puts(p, [F[p] EXCEPT !.clean = FALSE])
  <1>1. flow' \in [Procs -> Flow] /\ flow'[p] = [F[p] EXCEPT !.clean = FALSE]
    BY SoilShape
  <1>2. [F[p] EXCEPT !.clean = FALSE] \in Flow
    BY ZenonT(30), <1>1
  <1>3. ASSUME NEW q \in Procs \ {p} PROVE Kept(q)
    <2>1. F[q] = flow[q] /\ q \in Procs
      OBVIOUS
    <2>2. /\ Soil(F)[q].pc = F[q].pc
          /\ Soil(F)[q].sender = F[q].sender
          /\ Soil(F)[q].user = F[q].user
          /\ Soil(F)[q].dev = F[q].dev
          /\ Soil(F)[q].proto = F[q].proto
          /\ Soil(F)[q].todo = F[q].todo
          /\ Soil(F)[q].all = F[q].all
          /\ Soil(F)[q].clean = FALSE
      BY <2>1, SoilShape
    <2> HIDE DEF Soil
    <2> QED BY <2>1, <2>2, Zenon DEF Kept
  <1> QED BY <1>1, <1>2, <1>3 DEF Puts

LEMMA FailPuts ==
    ASSUME flow \in [Procs -> Flow], NEW p \in Procs, NEW f \in Flow,
           flow' = Soil([flow EXCEPT ![p] = f])
    PROVE  Puts(p, [f EXCEPT !.clean = FALSE])
  <1>1. PICK F : F = [flow EXCEPT ![p] = f]
    OBVIOUS
  <1>2. /\ F \in [Procs -> Flow]
        /\ F[p] = f
        /\ \A q \in Procs \ {p} : F[q] = flow[q]
    BY <1>1
  <1>3. flow' = Soil(F)
    BY <1>1
  <1> QED BY <1>2, <1>3, SoilPuts

LEMMA SoilKeeps ==
    ASSUME flow \in [Procs -> Flow], flow' = Soil(flow)
    PROVE  /\ flow' \in [Procs -> Flow]
           /\ \A q \in Procs : Kept(q) /\ ~flow'[q].clean
  <1>1. flow' \in [Procs -> Flow]
    <2>1. \A q \in Procs : [flow[q] EXCEPT !.clean = FALSE] \in Flow
      BY DEF Flow
    <2> QED BY <2>1 DEF Soil
  <1>2. ASSUME NEW q \in Procs PROVE Kept(q) /\ ~flow'[q].clean
    BY SoilShape DEF Kept
  <1> QED BY <1>1, <1>2
--------------------------------------------------------------------------------
(***************************************************************************)
(* Steps by what they do to flows, locks and database.                     *)
(***************************************************************************)

LEMMA GotoPuts ==
    ASSUME TypeOK, NEW p \in Procs, NEW pc \in {"idle"} \cup CreatePcs \cup DeletePcs,
           Goto(p, pc)
    PROVE  Puts(p, [flow[p] EXCEPT !.pc = pc]) /\ processing' = processing
  <1>1. [flow[p] EXCEPT !.pc = pc] \in Flow
    BY DEF TypeOK, Flow
  <1> QED BY <1>1, BecomesPuts DEF TypeOK, Goto

LEMMA NoFlowType == NoFlow \in Flow
  BY DEF NoFlow, Flow, Protocols

LEMMA EndPuts ==
    ASSUME TypeOK, NEW p \in Procs, End(p)
    PROVE  Puts(p, NoFlow) /\ processing' = processing \ {flow[p].sender}
  BY NoFlowType, BecomesPuts DEF TypeOK, End

LEMMA BeginPuts ==
    ASSUME TypeOK, NEW p \in Procs, NEW s, NEW f \in Flow, Begin(p, s, f)
    PROVE  /\ Puts(p, f)
           /\ At(p, "idle")
           /\ s \notin processing
           /\ processing' = processing \cup {s}
  BY BecomesPuts DEF TypeOK, Begin

LEMMA LockBegins ==
    ASSUME LockInv, NEW p \in Procs, NEW f, Puts(p, f), At(p, "idle"),
           f.sender \notin processing, f.sender # Nobody,
           processing' = processing \cup {f.sender}
    PROVE  LockInv'
  BY DEF LockInv, Puts, Kept, At

LEMMA LockMoves ==
    ASSUME LockInv, NEW p \in Procs, NEW f, Puts(p, f), ~At(p, "idle"),
           f.sender = flow[p].sender, processing' = processing
    PROVE  LockInv'
  BY DEF LockInv, Puts, Kept, At

LEMMA LockEnds ==
    ASSUME LockInv, NEW p \in Procs, NEW f, Puts(p, f), ~At(p, "idle"),
           f.pc = "idle", processing' = processing \ {flow[p].sender}
    PROVE  LockInv'
  BY DEF LockInv, Puts, Kept, At

LEMMA IdleOk ==
    ASSUME NEW p \in Procs, flow'[p].pc = "idle"
    PROVE  Ok(p)'
  BY DEF Ok, FlowOk, CheckOk, CreateOk, TodoOk, CleanOk, At, CreatePcs, DeletePcs,
         Filling, WithDevice

(* A flow that is not moving, when what it relies on stays as it is. *)
LEMMA Bystander ==
    ASSUME NEW q \in Procs, flow[q] \in Flow, Ok(q), Kept(q),
           \A d \in Devices : device[d] # "none" => device'[d] # "none" /\ owner'[d] = owner[d],
           At(q, "insertDevice") => ActiveOf(flow[q].user)' \subseteq ActiveOf(flow[q].user),
           flow[q].pc \in Filling =>
              \A pr \in Protocols :
                 access[flow[q].dev][pr] \in {"none", "pending"}
                    => access'[flow[q].dev][pr] = access[flow[q].dev][pr],
           flow[q].pc \in DeletePcs =>
              \A pr \in flow[q].todo :
                 access[flow[q].dev][pr] \in Settled => access'[flow[q].dev][pr] \in Settled,
           flow[q].pc \in DeletePcs /\ flow[q].all /\ flow'[q].clean =>
              \A pr \in Protocols : access'[flow[q].dev][pr] = "active"
                                      => access[flow[q].dev][pr] = "active"
    PROVE  Ok(q)'
  <1> USE DEF Filling
  <1>1. FlowOk(q)'
    BY DEF Ok, FlowOk, Kept, At, DeletePcs, WithDevice
  <1>2. CheckOk(q)'
    BY DEF Ok, CheckOk, Kept, At, ActiveOf
  <1>3. CreateOk(q)'
    <2>1. flow[q].proto \in Protocols /\ "xray" \in Protocols /\ "wireguard" \in Protocols
      BY DEF Flow, Protocols
    <2> QED BY <2>1 DEF Ok, CreateOk, Kept, At
  <1>4. TodoOk(q)'
    BY DEF Ok, TodoOk, Kept, DeletePcs
  <1>5. CleanOk(q)'
    BY DEF Ok, CleanOk, Kept, At, DeletePcs, ActiveAccesses
  <1> QED BY <1>1, <1>2, <1>3, <1>4, <1>5 DEF Ok

LEMMA BystanderOfFlow ==
    ASSUME NEW q \in Procs, flow[q] \in Flow, Ok(q), Kept(q), UNCHANGED db
    PROVE  Ok(q)'
  <1>1. ActiveOf(flow[q].user)' \subseteq ActiveOf(flow[q].user)
    BY DEF db, ActiveOf, Kept
  <1> QED BY <1>1, Bystander DEF db

LEMMA DbKept ==
    ASSUME RowInv, OneActiveDevice, SuspendedOwnerBlocked, UNCHANGED db
    PROVE  RowInv' /\ OneActiveDevice' /\ SuspendedOwnerBlocked'
  BY DEF db, RowInv, RowOk, OneActiveDevice, SuspendedOwnerBlocked

(* A step of one flow that writes nothing to the database. *)
LEMMA FlowOnly ==
    ASSUME IInv, NEW p \in Procs, NEW f, Puts(p, f), UNCHANGED db, Ok(p)', LockInv',
           processing' \subseteq Senders, faults' \in 0..MaxFaults, txs' \in 0..MaxTxs
    PROVE  IInv'
  <1>1. TypeOK'
    BY DEF IInv, TypeOK, Puts, db
  <1>2. FlowInv'
    <2> SUFFICES ASSUME NEW q \in Procs PROVE Ok(q)'
      BY DEF FlowInv
    <2>1. CASE q = p
      BY <2>1
    <2>2. CASE q # p
      <3>1. Kept(q) /\ Ok(q) /\ flow[q] \in Flow
        BY <2>2 DEF Puts, IInv, FlowInv, TypeOK
      <3> QED BY <3>1, BystanderOfFlow
    <2> QED BY <2>1, <2>2
  <1>3. RowInv' /\ OneActiveDevice' /\ SuspendedOwnerBlocked'
    BY DbKept DEF IInv
  <1> QED BY <1>1, <1>2, <1>3 DEF IInv
--------------------------------------------------------------------------------
(***************************************************************************)
(* Steps that touch no row.                                                *)
(***************************************************************************)

LEMMA BeginOk ==
    ASSUME IInv, NEW p \in Procs, NEW s \in Senders, NEW f \in Flow,
           Begin(p, s, f), f.sender = s, Ok(p)', UNCHANGED <<db, faults, txs>>
    PROVE  IInv'
  <1>1. /\ Puts(p, f) /\ At(p, "idle")
        /\ f.sender \notin processing
        /\ processing' = processing \cup {f.sender}
    BY BeginPuts DEF IInv
  <1>2. LockInv'
    BY <1>1, LockBegins, NobodyIsNew DEF IInv, Senders
  <1>3. /\ processing' \subseteq Senders
        /\ faults' \in 0..MaxFaults
        /\ txs' \in 0..MaxTxs
    BY <1>1 DEF IInv, TypeOK
  <1> QED BY <1>1, <1>2, <1>3, FlowOnly

LEMMA MoveOk ==
    ASSUME IInv, NEW p \in Procs, NEW f, Puts(p, f), ~At(p, "idle"),
           f.sender = flow[p].sender, processing' = processing, Ok(p)',
           UNCHANGED <<db, txs>>, faults' \in 0..MaxFaults
    PROVE  IInv'
  <1>1. LockInv'
    BY LockMoves DEF IInv
  <1>2. processing' \subseteq Senders /\ txs' \in 0..MaxTxs
    BY DEF IInv, TypeOK
  <1> QED BY <1>1, <1>2, FlowOnly

LEMMA EndOk ==
    ASSUME IInv, NEW p \in Procs, NEW f, Puts(p, f), ~At(p, "idle"), f.pc = "idle",
           processing' = processing \ {flow[p].sender},
           UNCHANGED <<db, txs>>, faults' \in 0..MaxFaults
    PROVE  IInv'
  <1>1. LockInv'
    BY LockEnds DEF IInv
  <1>2. Ok(p)'
    BY IdleOk DEF Puts
  <1>3. processing' \subseteq Senders /\ txs' \in 0..MaxTxs
    BY DEF IInv, TypeOK
  <1> QED BY <1>1, <1>2, <1>3, FlowOnly

LEMMA FaultType == ASSUME TypeOK, Fault PROVE faults' \in 0..MaxFaults
  BY BoundsAreNat DEF TypeOK, Fault

LEMMA AskDeviceStep ==
    ASSUME IInv, NEW p \in Procs, NEW u \in Users, AskDevice(p, u)
    PROVE  IInv'
  <1> DEFINE f == [NoFlow EXCEPT !.pc = "checkUser", !.sender = u, !.user = u]
  <1>1. NoFlow \in Flow
    BY NoFlowType
  <1>2. f \in Flow
    BY <1>1 DEF Flow, Senders, CreatePcs
  <1>3. f.pc = "checkUser" /\ f.sender = u /\ f.user = u
    BY <1>1 DEF Flow
  <1>4. f.proto = "wireguard"
    BY DEF NoFlow
  <1>5. Begin(p, u, f) /\ UNCHANGED <<db, faults, txs>>
    BY DEF AskDevice
  <1> HIDE DEF f
  <1>6. flow'[p] = f
    BY <1>2, <1>5, BeginPuts DEF IInv, Puts
  <1>7. Ok(p)'
    BY <1>3, <1>4, <1>6 DEF Ok, FlowOk, CheckOk, CreateOk, TodoOk, CleanOk, At, DeletePcs,
                            Filling, WithDevice
  <1> QED BY <1>2, <1>3, <1>5, <1>7, BeginOk DEF Senders

LEMMA DeleteFlowShape ==
    ASSUME NEW s \in Senders, NEW u \in Users, NEW d \in Devices, NEW all \in BOOLEAN
    PROVE  /\ DeleteFlow(s, u, d, all) \in Flow
           /\ DeleteFlow(s, u, d, all).pc = "list"
           /\ DeleteFlow(s, u, d, all).sender = s
           /\ DeleteFlow(s, u, d, all).user = u
           /\ DeleteFlow(s, u, d, all).dev = d
           /\ DeleteFlow(s, u, d, all).todo = {}
           /\ DeleteFlow(s, u, d, all).all = all
  <1> DEFINE f == DeleteFlow(s, u, d, all)
  <1>1. NoFlow \in Flow
    BY NoFlowType
  <1>2. NoFlow.todo = {}
    BY DEF NoFlow
  <1>3. f \in Flow
    BY <1>1 DEF DeleteFlow, Flow, DeletePcs
  <1>4. f.pc = "list" /\ f.sender = s /\ f.user = u /\ f.dev = d /\ f.all = all
    BY <1>1 DEF DeleteFlow, Flow
  <1>5. f.todo = {}
    BY <1>1, <1>2 DEF DeleteFlow, Flow
  <1> QED BY <1>3, <1>4, <1>5

LEMMA DeleteBegins ==
    ASSUME IInv, NEW p \in Procs, NEW s \in Senders, NEW u \in Users,
           NEW d \in Devices, NEW all \in BOOLEAN, owner[d] = u, all => s = u,
           Begin(p, s, DeleteFlow(s, u, d, all)), UNCHANGED <<db, faults, txs>>
    PROVE  IInv'
  <1> DEFINE f == DeleteFlow(s, u, d, all)
  <1>1. /\ f \in Flow
        /\ f.pc = "list"
        /\ f.sender = s
        /\ f.user = u
        /\ f.dev = d
        /\ f.todo = {}
        /\ f.all = all
    BY DeleteFlowShape
  <1>2. Begin(p, s, f)
    OBVIOUS
  <1> HIDE DEF f
  <1>3. flow'[p] = f
    BY <1>1, <1>2, BeginPuts DEF IInv, Puts
  <1>4. device[d] # "none"
    BY NobodyIsNew DEF IInv, RowInv, RowOk
  <1>5. Ok(p)'
    BY <1>1, <1>3, <1>4 DEF Ok, FlowOk, CheckOk, CreateOk, TodoOk, CleanOk, At,
                            CreatePcs, DeletePcs, Filling, WithDevice, db
  <1> QED BY <1>1, <1>2, <1>5, BeginOk

LEMMA AskDeleteStep ==
    ASSUME IInv, NEW p \in Procs, NEW u \in Users, NEW d \in Devices, AskDelete(p, u, d)
    PROVE  IInv'
  BY DeleteBegins DEF AskDelete, Senders

LEMMA AskRevokeUserStep ==
    ASSUME IInv, NEW p \in Procs, NEW a \in Admins, NEW u \in Users, NEW d \in Devices,
           AskRevokeUser(p, a, u, d)
    PROVE  IInv'
  BY DeleteBegins DEF AskRevokeUser, Senders, ActiveOf

LEMMA CheckUserStep ==
    ASSUME IInv, NEW p \in Procs, CheckUser(p)
    PROVE  IInv'
  <1>1. At(p, "checkUser") /\ ~At(p, "idle")
    BY DEF CheckUser, At
  <1>2. CASE Goto(p, "checkDevice")
    <2> DEFINE f == [flow[p] EXCEPT !.pc = "checkDevice"]
    <2>1. Puts(p, f) /\ processing' = processing
      BY <1>2, GotoPuts DEF IInv, CreatePcs
    <2>2. f.pc = "checkDevice" /\ f.sender = flow[p].sender /\ f.user = flow[p].user
          /\ f.proto = flow[p].proto
      BY DEF IInv, TypeOK, Flow
    <2> HIDE DEF f
    <2>3. Ok(p)'
      BY <1>1, <2>1, <2>2 DEF IInv, FlowInv, Ok, FlowOk, CheckOk, CreateOk, TodoOk,
            CleanOk, At, CreatePcs, DeletePcs, Filling, WithDevice, Puts
    <2> QED BY <1>1, <2>1, <2>2, <2>3, MoveOk DEF CheckUser, IInv, TypeOK
  <1>3. CASE End(p)
    <2>1. Puts(p, NoFlow) /\ processing' = processing \ {flow[p].sender}
      BY <1>3, EndPuts DEF IInv
    <2> QED BY <1>1, <2>1, EndOk DEF CheckUser, IInv, TypeOK, NoFlow
  <1> QED BY <1>2, <1>3 DEF CheckUser

LEMMA CheckDeviceStep ==
    ASSUME IInv, NEW p \in Procs, CheckDevice(p)
    PROVE  IInv'
  <1>1. At(p, "checkDevice") /\ ~At(p, "idle")
    BY DEF CheckDevice, At
  <1>2. CASE ActiveOf(flow[p].user) = {} /\ Goto(p, "insertDevice")
    <2> DEFINE f == [flow[p] EXCEPT !.pc = "insertDevice"]
    <2>1. Puts(p, f) /\ processing' = processing
      BY <1>2, GotoPuts DEF IInv, CreatePcs
    <2>2. f.pc = "insertDevice" /\ f.sender = flow[p].sender /\ f.user = flow[p].user
          /\ f.proto = flow[p].proto
      BY DEF IInv, TypeOK, Flow
    <2> HIDE DEF f
    <2>3. Ok(p)'
      BY <1>1, <2>1, <2>2, <1>2 DEF IInv, FlowInv, Ok, FlowOk, CheckOk, CreateOk, TodoOk,
            CleanOk, At, CreatePcs, DeletePcs, Filling, WithDevice, Puts, CheckDevice, db, ActiveOf
    <2> QED BY <1>1, <2>1, <2>2, <2>3, MoveOk DEF CheckDevice, IInv, TypeOK
  <1>3. CASE End(p)
    <2>1. Puts(p, NoFlow) /\ processing' = processing \ {flow[p].sender}
      BY <1>3, EndPuts DEF IInv
    <2> QED BY <1>1, <2>1, EndOk DEF CheckDevice, IInv, TypeOK, NoFlow
  <1> QED BY <1>2, <1>3 DEF CheckDevice

LEMMA NoCapacityStep ==
    ASSUME IInv, NEW p \in Procs, NoCapacity(p)
    PROVE  IInv'
  <1>1. Puts(p, NoFlow) /\ processing' = processing \ {flow[p].sender} /\ ~At(p, "idle")
    BY EndPuts DEF NoCapacity, IInv, At
  <1> QED BY <1>1, EndOk DEF NoCapacity, IInv, TypeOK, NoFlow

LEMMA ApplyPeerStep ==
    ASSUME IInv, NEW p \in Procs, ApplyPeer(p)
    PROVE  IInv'
  <1> DEFINE f == [flow[p] EXCEPT !.pc = "activate"]
  <1>1. Puts(p, f) /\ processing' = processing /\ At(p, "apply") /\ ~At(p, "idle")
    BY GotoPuts DEF ApplyPeer, IInv, At, CreatePcs
  <1>2. /\ f.pc = "activate"
        /\ f.sender = flow[p].sender
        /\ f.user = flow[p].user
        /\ f.dev = flow[p].dev
        /\ f.proto = flow[p].proto
    BY DEF IInv, TypeOK, Flow
  <1> HIDE DEF f
  <1>3. Ok(p)'
    BY <1>1, <1>2 DEF IInv, FlowInv, Ok, FlowOk, CheckOk, CreateOk, TodoOk,
          CleanOk, At, CreatePcs, DeletePcs, Filling, WithDevice, Puts, ApplyPeer, db
  <1> QED BY <1>1, <1>2, <1>3, MoveOk DEF ApplyPeer, IInv, TypeOK

LEMMA GiveUpStep ==
    ASSUME IInv, NEW p \in Procs, GiveUp(p)
    PROVE  IInv'
  <1> DEFINE f == [NoFlow EXCEPT !.clean = FALSE]
  <1>1. Puts(p, f)
    BY FailPuts, NoFlowType DEF GiveUp, IInv, TypeOK
  <1>2. f.pc = "idle"
    BY DEF NoFlow
  <1> HIDE DEF f
  <1> QED BY <1>1, <1>2, EndOk, FaultType DEF GiveUp, IInv, At

LEMMA RestartStep ==
    ASSUME IInv, Restart
    PROVE  IInv'
  <1>1. /\ flow' \in [Procs -> Flow]
        /\ \A p \in Procs : flow'[p] = NoFlow
        /\ \A p \in Procs : flow'[p].pc = "idle"
    BY NoFlowType DEF Restart, NoFlow
  <1>2. TypeOK'
    BY <1>1, FaultType DEF IInv, TypeOK, Restart, db
  <1>3. LockInv'
    BY <1>1 DEF LockInv, At
  <1>4. FlowInv'
    BY <1>1, IdleOk DEF FlowInv
  <1>5. RowInv' /\ OneActiveDevice' /\ SuspendedOwnerBlocked'
    BY DbKept DEF IInv, Restart
  <1> QED BY <1>2, <1>3, <1>4, <1>5 DEF IInv

LEMMA ListAccessesStep ==
    ASSUME IInv, NEW p \in Procs, ListAccesses(p)
    PROVE  IInv'
  <1> DEFINE f == [flow[p] EXCEPT !.pc = "revoke", !.todo = ToRevoke(p)]
  <1>1. At(p, "list") /\ ~At(p, "idle") /\ flow[p] \in Flow
    BY DEF ListAccesses, At, IInv, TypeOK
  <1>2. /\ ToRevoke(p) \subseteq ActiveAccesses(flow[p].dev)
        /\ flow[p].all => ToRevoke(p) = ActiveAccesses(flow[p].dev)
        /\ ToRevoke(p) \subseteq Protocols
    BY DEF ToRevoke, FirstOf, ActiveAccesses
  <1>3. /\ f \in Flow
        /\ f.pc = "revoke"
        /\ f.todo = ToRevoke(p)
        /\ f.sender = flow[p].sender
        /\ f.user = flow[p].user
        /\ f.dev = flow[p].dev
        /\ f.all = flow[p].all
    BY <1>1, <1>2 DEF Flow, DeletePcs
  <1>4. Becomes(p, f) /\ UNCHANGED <<db, processing, faults, txs>>
    BY DEF ListAccesses
  <1> HIDE DEF f
  <1>5. Puts(p, f)
    BY <1>3, <1>4, BecomesPuts DEF IInv, TypeOK
  <1>6. Ok(p)
    BY DEF IInv, FlowInv
  <1>7. FlowOk(p)' /\ CheckOk(p)' /\ CreateOk(p)'
    BY <1>1, <1>3, <1>4, <1>5, <1>6 DEF Ok, FlowOk, CheckOk, CreateOk, At, CreatePcs,
       DeletePcs, Filling, WithDevice, Puts, db
  <1>8. TodoOk(p)'
    BY <1>2, <1>3, <1>4, <1>5 DEF TodoOk, Puts, db, ActiveAccesses, Settled
  <1>9. CleanOk(p)'
    BY <1>2, <1>3, <1>4, <1>5 DEF CleanOk, Puts, db, ActiveAccesses
  <1> QED BY <1>1, <1>3, <1>4, <1>5, <1>7, <1>8, <1>9, MoveOk DEF Ok, IInv, TypeOK

LEMMA RevokePeerStep ==
    ASSUME IInv, NEW p \in Procs, RevokePeer(p)
    PROVE  IInv'
  <1> DEFINE f == [flow[p] EXCEPT !.pc = "mark"]
  <1>1. Puts(p, f) /\ processing' = processing /\ At(p, "revoke") /\ ~At(p, "idle")
    BY GotoPuts DEF RevokePeer, IInv, At, DeletePcs
  <1>2. /\ f.pc = "mark"
        /\ f.sender = flow[p].sender
        /\ f.user = flow[p].user
        /\ f.dev = flow[p].dev
        /\ f.todo = flow[p].todo
        /\ f.all = flow[p].all
        /\ f.clean = flow[p].clean
    BY DEF IInv, TypeOK, Flow
  <1>3. flow[p].todo # {} /\ UNCHANGED <<db, faults, txs>>
    BY DEF RevokePeer
  <1> HIDE DEF f
  <1>4. Ok(p)
    BY DEF IInv, FlowInv
  <1>5. FlowOk(p)' /\ CheckOk(p)' /\ CreateOk(p)'
    BY <1>1, <1>2, <1>3, <1>4 DEF Ok, FlowOk, CheckOk, CreateOk, At, CreatePcs,
       DeletePcs, Filling, WithDevice, Puts, db
  <1>6. TodoOk(p)' /\ CleanOk(p)'
    BY <1>1, <1>2, <1>3, <1>4 DEF Ok, TodoOk, CleanOk, Puts, db, ActiveAccesses, At, DeletePcs
  <1> QED BY <1>1, <1>2, <1>3, <1>5, <1>6, MoveOk DEF Ok, IInv, TypeOK

LEMMA ListFailsStep ==
    ASSUME IInv, NEW p \in Procs, ListFails(p)
    PROVE  IInv'
  <1> DEFINE g == [flow[p] EXCEPT !.pc = "revoke"]
  <1> DEFINE f == [g EXCEPT !.clean = FALSE]
  <1>1. At(p, "list") /\ ~At(p, "idle") /\ flow[p] \in Flow
    BY DEF ListFails, At, IInv, TypeOK
  <1>2. /\ g \in Flow
        /\ g.pc = "revoke"
        /\ g.sender = flow[p].sender
        /\ g.user = flow[p].user
        /\ g.dev = flow[p].dev
        /\ g.todo = flow[p].todo
        /\ g.all = flow[p].all
    BY <1>1 DEF Flow, DeletePcs
  <1>3. FailTo(p, g)
    BY DEF ListFails
  <1> HIDE DEF g
  <1>4. Puts(p, f)
    BY <1>2, <1>3, FailPuts DEF FailTo, IInv, TypeOK
  <1>5. /\ f.pc = "revoke"
        /\ f.sender = flow[p].sender
        /\ f.user = flow[p].user
        /\ f.dev = flow[p].dev
        /\ f.todo = flow[p].todo
        /\ f.all = flow[p].all
        /\ ~f.clean
    BY <1>2 DEF Flow
  <1> HIDE DEF f
  <1>6. UNCHANGED db /\ processing' = processing /\ txs' = txs
    BY <1>3 DEF ListFails, FailTo
  <1>7. Ok(p)
    BY DEF IInv, FlowInv
  <1>8. FlowOk(p)' /\ CheckOk(p)' /\ CreateOk(p)'
    BY <1>1, <1>4, <1>5, <1>6, <1>7 DEF Ok, FlowOk, CheckOk, CreateOk, At, CreatePcs,
       DeletePcs, Filling, WithDevice, Puts, db
  <1>9. TodoOk(p)' /\ CleanOk(p)'
    BY <1>1, <1>4, <1>5, <1>6, <1>7 DEF Ok, TodoOk, CleanOk, Puts, db, At, DeletePcs
  <1> QED BY <1>1, <1>4, <1>5, <1>6, <1>8, <1>9, MoveOk, FaultType DEF Ok, IInv, ListFails
--------------------------------------------------------------------------------
(***************************************************************************)
(* Steps that write one access.                                            *)
(***************************************************************************)

(* Flow q would be disturbed by a write to a row of its device. *)
Minds(q, d) == /\ flow[q].dev = d
               /\ flow[q].pc \in Filling \/ (flow[q].pc \in DeletePcs /\ flow[q].all)

(* The lock on senders makes the creator of a device the only flow that    *)
(* minds its rows: who deletes all is the owner too.                       *)
LEMMA Alone ==
    ASSUME IInv, NEW p \in Procs, flow[p].pc \in Filling
    PROVE  \A q \in Procs \ {p} : ~Minds(q, flow[p].dev)
  <1> SUFFICES ASSUME NEW q \in Procs, Minds(q, flow[p].dev)
               PROVE  q = p
    OBVIOUS
  <1>1. flow[q].pc \in WithDevice /\ flow[p].pc \in WithDevice
    BY DEF Minds, WithDevice
  <1>2. FlowOk(p) /\ FlowOk(q)
    BY DEF IInv, FlowInv, Ok
  <1>3. flow[q].user = flow[p].user
    BY <1>1, <1>2 DEF FlowOk, Minds
  <1>4. flow[q].sender = flow[q].user /\ flow[p].sender = flow[p].user
    BY <1>2 DEF FlowOk, Minds, Filling, CreatePcs
  <1>5. ~At(p, "idle") /\ ~At(q, "idle")
    BY <1>1 DEF At, WithDevice, Filling, DeletePcs
  <1> QED BY <1>3, <1>4, <1>5 DEF IInv, LockInv

LEMMA WriteAccess ==
    ASSUME IInv, NEW p \in Procs, NEW f, Puts(p, f), Ok(p)', LockInv',
           NEW d \in Devices, NEW pr \in Protocols,
           NEW s \in Statuses \ {"none", "suspended_nonpayment"},
           device[d] # "none", SetAccess(d, pr, s),
           access[d][pr] \in Settled => s \in Settled,
           access[d][pr] \in {"none", "pending"} \/ s = "active"
              => \A q \in Procs \ {p} : ~Minds(q, d),
           UNCHANGED <<userStatus, device, owner, txs>>,
           processing' \subseteq Senders, faults' \in 0..MaxFaults
    PROVE  IInv'
  <1>1. /\ access' \in [Devices -> [Protocols -> Statuses]]
        /\ access'[d][pr] = s
        /\ \A e \in Devices, r \in Protocols :
              ~(e = d /\ r = pr) => access'[e][r] = access[e][r]
    BY DEF SetAccess, IInv, TypeOK
  <1>2. TypeOK'
    BY <1>1 DEF IInv, TypeOK, Puts
  <1>3. RowInv'
    BY <1>1 DEF IInv, RowInv, RowOk
  <1>4. OneActiveDevice'
    BY DEF IInv, OneActiveDevice
  <1>5. SuspendedOwnerBlocked'
    BY <1>1 DEF IInv, SuspendedOwnerBlocked
  <1>6. FlowInv'
    <2> SUFFICES ASSUME NEW q \in Procs PROVE Ok(q)'
      BY DEF FlowInv
    <2>1. CASE q = p
      BY <2>1
    <2>2. CASE q # p
      <3>1. Kept(q) /\ Ok(q) /\ flow[q] \in Flow
        BY <2>2 DEF Puts, IInv, FlowInv, TypeOK
      <3>2. \A e \in Devices : device[e] # "none" => device'[e] # "none" /\ owner'[e] = owner[e]
        OBVIOUS
      <3>3. ActiveOf(flow[q].user)' \subseteq ActiveOf(flow[q].user)
        BY <3>1 DEF ActiveOf, Kept
      <3>4. flow[q].pc \in WithDevice => flow[q].dev \in Devices
        BY <3>1 DEF Ok, FlowOk
      <3>5. flow[q].pc \in Filling =>
              \A r \in Protocols :
                 access[flow[q].dev][r] \in {"none", "pending"}
                    => access'[flow[q].dev][r] = access[flow[q].dev][r]
        BY <1>1, <2>2, <3>4 DEF Minds, WithDevice
      <3>6. flow[q].pc \in DeletePcs =>
              \A r \in flow[q].todo :
                 access[flow[q].dev][r] \in Settled => access'[flow[q].dev][r] \in Settled
        BY <1>1, <3>1, <3>4 DEF WithDevice, Flow
      <3>7. flow[q].pc \in DeletePcs /\ flow[q].all /\ flow'[q].clean =>
              \A r \in Protocols : access'[flow[q].dev][r] = "active"
                                      => access[flow[q].dev][r] = "active"
        BY <1>1, <2>2, <3>4 DEF Minds, WithDevice
      <3> QED BY <3>1, <3>2, <3>3, <3>5, <3>6, <3>7, Bystander
    <2> QED BY <2>1, <2>2
  <1> QED BY <1>2, <1>3, <1>4, <1>5, <1>6 DEF IInv

(* What InsertAccess leaves in the flow. *)
LEMMA InsertAccessStep ==
    ASSUME IInv, NEW p \in Procs, InsertAccess(p)
    PROVE  IInv'
  <1> DEFINE f == IF flow[p].proto = "wireguard"
                  THEN [flow[p] EXCEPT !.proto = "xray"]
                  ELSE [flow[p] EXCEPT !.proto = "wireguard", !.pc = "apply"]
             d == flow[p].dev
             pr == flow[p].proto
  <1>1. At(p, "insertAccess") /\ ~At(p, "idle") /\ flow[p].pc \in Filling /\ flow[p] \in Flow
    BY DEF InsertAccess, At, Filling, IInv, TypeOK
  <1>2. /\ f \in Flow
        /\ f.sender = flow[p].sender /\ f.user = flow[p].user /\ f.dev = flow[p].dev
        /\ pr = "wireguard" => f.pc = "insertAccess" /\ f.proto = "xray"
        /\ pr # "wireguard" => f.pc = "apply" /\ f.proto = "wireguard"
    BY <1>1 DEF Flow, Protocols, CreatePcs, At
  <1>3. Becomes(p, f) /\ SetAccess(d, pr, "pending")
        /\ UNCHANGED <<userStatus, device, owner, processing, faults, txs>>
    BY DEF InsertAccess
  <1> HIDE DEF f
  <1>4. Puts(p, f) /\ flow'[p] = f
    BY <1>2, <1>3, BecomesPuts DEF IInv, TypeOK, Puts
  <1>5. Ok(p)
    BY DEF IInv, FlowInv
  <1>6. d \in Devices /\ device[d] # "none" /\ owner[d] = flow[p].user /\ pr \in Protocols
    BY <1>1, <1>5 DEF Ok, FlowOk, WithDevice, Flow
  <1>7. access[d][pr] = "none"
        /\ (pr = "wireguard" => access[d]["xray"] = "none")
        /\ (pr = "xray" => access[d]["wireguard"] = "pending")
    BY <1>1, <1>5 DEF Ok, CreateOk
  <1>8. access'[d][pr] = "pending" /\ \A r \in Protocols \ {pr} : access'[d][r] = access[d][r]
    BY <1>3, <1>6 DEF SetAccess, IInv, TypeOK
  <1>9. FlowOk(p)'
    BY <1>1, <1>2, <1>3, <1>4, <1>5, <1>6 DEF Ok, FlowOk, At, CreatePcs, DeletePcs, Filling,
       WithDevice
  <1>10. CreateOk(p)'
    BY <1>1, <1>2, <1>4, <1>6, <1>7, <1>8 DEF CreateOk, At, Protocols
  <1>11. CheckOk(p)' /\ TodoOk(p)' /\ CleanOk(p)'
    BY <1>2, <1>4 DEF CheckOk, TodoOk, CleanOk, At, DeletePcs
  <1>12. Ok(p)'
    BY <1>9, <1>10, <1>11 DEF Ok
  <1>13. LockInv'
    BY <1>1, <1>2, <1>3, <1>4, LockMoves DEF IInv
  <1>14. \A q \in Procs \ {p} : ~Minds(q, d)
    BY <1>1, Alone
  <1>15. processing' \subseteq Senders /\ faults' \in 0..MaxFaults
    BY <1>3 DEF IInv, TypeOK
  <1>16. "pending" \in Statuses \ {"none", "suspended_nonpayment"} /\ access[d][pr] \notin Settled
    BY <1>7 DEF Statuses, Settled
  <1> QED
    <2> HIDE DEF d, pr
    <2> QED BY <1>3, <1>4, <1>6, <1>12, <1>13, <1>14, <1>15, <1>16, WriteAccess

(* A creating flow settles the access it has on the node, and goes on with *)
(* the other one or ends.                                                  *)
LEMMA NextProtocolOk ==
    ASSUME IInv, NEW p \in Procs, flow[p].pc \in {"apply", "activate"}, NEW f, Puts(p, f),
           \/ /\ f.pc = "idle"
              /\ processing' = processing \ {flow[p].sender}
           \/ /\ f.pc = "apply" /\ f.proto = "xray" /\ flow[p].proto = "wireguard"
              /\ f.sender = flow[p].sender /\ f.user = flow[p].user /\ f.dev = flow[p].dev
              /\ processing' = processing,
           UNCHANGED <<userStatus, device, owner, txs>>, faults' \in 0..MaxFaults,
           NEW s \in {"active", "error"},
           UNCHANGED access \/ SetAccess(flow[p].dev, flow[p].proto, s)
    PROVE  IInv'
  <1> DEFINE d == flow[p].dev
             pr == flow[p].proto
  <1>1. ~At(p, "idle") /\ flow[p].pc \in Filling /\ flow[p] \in Flow /\ flow'[p] = f
    BY DEF At, Filling, IInv, TypeOK, Puts
  <1>2. Ok(p)
    BY DEF IInv, FlowInv
  <1>3. d \in Devices /\ device[d] # "none" /\ owner[d] = flow[p].user /\ pr \in Protocols
        /\ flow[p].user \in Users /\ flow[p].sender = flow[p].user
    BY <1>1, <1>2 DEF Ok, FlowOk, WithDevice, Filling, Flow, CreatePcs
  <1>4. access[d][pr] = "pending" /\ (pr = "wireguard" => access[d]["xray"] = "pending")
    BY <1>2 DEF Ok, CreateOk
  <1>5. \A r \in Protocols \ {pr} : access'[d][r] = access[d][r]
    BY <1>3 DEF SetAccess, IInv, TypeOK
  <1>6. Ok(p)'
    <2>1. CASE f.pc = "idle"
      BY <1>1, <2>1, IdleOk
    <2>2. CASE f.pc # "idle"
      <3>1. f.pc = "apply" /\ f.proto = "xray" /\ pr = "wireguard"
            /\ f.sender = flow[p].sender /\ f.user = flow[p].user /\ f.dev = d
        BY <2>2
      <3>2. FlowOk(p)'
        BY <1>1, <1>3, <3>1 DEF FlowOk, At, CreatePcs, DeletePcs, WithDevice
      <3>3. CreateOk(p)'
        BY <1>1, <1>4, <1>5, <3>1 DEF CreateOk, At, Protocols
      <3>4. CheckOk(p)' /\ TodoOk(p)' /\ CleanOk(p)'
        BY <1>1, <3>1 DEF CheckOk, TodoOk, CleanOk, At, DeletePcs
      <3> QED BY <3>2, <3>3, <3>4 DEF Ok
    <2> QED BY <2>1, <2>2
  <1>7. LockInv'
    BY <1>1, LockMoves, LockEnds DEF IInv
  <1>8. processing' \subseteq Senders /\ txs' \in 0..MaxTxs
    BY DEF IInv, TypeOK
  <1>9. CASE UNCHANGED access
    BY <1>6, <1>7, <1>8, <1>9, FlowOnly DEF db
  <1>10. CASE SetAccess(d, pr, s)
    <2>1. \A q \in Procs \ {p} : ~Minds(q, d)
      BY <1>1, Alone
    <2>2. s \in Statuses \ {"none", "suspended_nonpayment"} /\ access[d][pr] \notin Settled
      BY <1>4 DEF Statuses, Settled
    <2> HIDE DEF d, pr
    <2> QED BY <1>3, <1>6, <1>7, <1>8, <1>10, <2>1, <2>2, WriteAccess
  <1> QED BY <1>9, <1>10

LEMMA ActivateStep ==
    ASSUME IInv, NEW p \in Procs, Activate(p)
    PROVE  IInv'
  <1>1. /\ flow[p].pc \in {"apply", "activate"}
        /\ flow[p] \in Flow
        /\ SetAccess(flow[p].dev, flow[p].proto, "active")
        /\ UNCHANGED <<userStatus, device, owner, txs>>
        /\ faults' \in 0..MaxFaults
    BY DEF Activate, At, IInv, TypeOK
  <1>2. CASE flow[p].proto = "wireguard"
    <2> DEFINE f == [flow[p] EXCEPT !.pc = "apply", !.proto = "xray"]
    <2>1. /\ f \in Flow /\ f.pc = "apply" /\ f.proto = "xray"
          /\ f.sender = flow[p].sender /\ f.user = flow[p].user /\ f.dev = flow[p].dev
      BY <1>1 DEF Flow, Protocols, CreatePcs
    <2>2. Becomes(p, f) /\ processing' = processing
      BY <1>2 DEF Activate, NextProtocol
    <2> HIDE DEF f
    <2>3. Puts(p, f)
      BY <2>1, <2>2, BecomesPuts DEF IInv, TypeOK
    <2> QED BY <1>1, <1>2, <2>1, <2>2, <2>3, NextProtocolOk
  <1>3. CASE flow[p].proto # "wireguard"
    <2>1. End(p)
      BY <1>3 DEF Activate, NextProtocol
    <2>2. Puts(p, NoFlow) /\ processing' = processing \ {flow[p].sender}
          /\ NoFlow.pc = "idle"
      BY <2>1, EndPuts DEF IInv, NoFlow
    <2> HIDE DEF NoFlow
    <2> QED BY <1>1, <2>2, NextProtocolOk
  <1> QED BY <1>2, <1>3

LEMMA CreatePeerFailsStep ==
    ASSUME IInv, NEW p \in Procs, CreatePeerFails(p)
    PROVE  IInv'
  <1>1. /\ flow[p].pc \in {"apply", "activate"}
        /\ flow[p] \in Flow
        /\ UNCHANGED access \/ SetAccess(flow[p].dev, flow[p].proto, "error")
        /\ UNCHANGED <<userStatus, device, owner, txs>>
        /\ faults' \in 0..MaxFaults
    BY FaultType DEF CreatePeerFails, At, IInv, TypeOK
  <1>2. CASE flow[p].proto = "wireguard"
    <2> DEFINE g == [flow[p] EXCEPT !.pc = "apply", !.proto = "xray"]
    <2>1. /\ g \in Flow /\ g.pc = "apply" /\ g.proto = "xray"
          /\ g.sender = flow[p].sender /\ g.user = flow[p].user /\ g.dev = flow[p].dev
      BY <1>1 DEF Flow, Protocols, CreatePcs
    <2>2. FailTo(p, g)
      BY <1>2 DEF CreatePeerFails
    <2> HIDE DEF g
    <2> DEFINE f == [g EXCEPT !.clean = FALSE]
    <2>3. Puts(p, f) /\ processing' = processing
      BY <2>1, <2>2, FailPuts DEF FailTo, IInv, TypeOK
    <2>4. /\ f.pc = "apply" /\ f.proto = "xray"
          /\ f.sender = flow[p].sender /\ f.user = flow[p].user /\ f.dev = flow[p].dev
      BY <2>1 DEF Flow
    <2> HIDE DEF f
    <2> QED BY <1>1, <1>2, <2>3, <2>4, NextProtocolOk
  <1>3. CASE flow[p].proto # "wireguard"
    <2> DEFINE f == [NoFlow EXCEPT !.clean = FALSE]
    <2>1. Puts(p, f) /\ processing' = processing \ {flow[p].sender}
      BY <1>3, FailPuts, NoFlowType DEF CreatePeerFails, IInv, TypeOK
    <2>2. f.pc = "idle"
      BY DEF NoFlow
    <2> HIDE DEF f
    <2> QED BY <1>1, <2>1, <2>2, NextProtocolOk
  <1> QED BY <1>2, <1>3

LEMMA CurrentInTodo ==
    ASSUME NEW p \in Procs, flow[p] \in Flow, flow[p].todo # {}
    PROVE  Current(p) \in flow[p].todo /\ Current(p) \in Protocols
  <1>1. FirstOf(flow[p].todo) # {} /\ FirstOf(flow[p].todo) \subseteq flow[p].todo
    BY DEF FirstOf
  <1>2. Current(p) \in FirstOf(flow[p].todo)
    BY <1>1 DEF Current
  <1> QED BY <1>1, <1>2 DEF Flow

(* A delete is done with one access, whatever came of it. *)
LEMMA DoneWithOk ==
    ASSUME IInv, NEW p \in Procs, flow[p].pc \in {"revoke", "mark"}, flow[p].todo # {},
           NEW f, Puts(p, f), f.pc = "revoke", f.todo = flow[p].todo \ {Current(p)},
           f.sender = flow[p].sender, f.user = flow[p].user, f.dev = flow[p].dev,
           f.all = flow[p].all, NEW s \in {"revoked", "error"},
           \/ SetAccess(flow[p].dev, Current(p), s) /\ (f.clean => flow[p].clean)
           \/ UNCHANGED access /\ ~f.clean,
           UNCHANGED <<userStatus, device, owner, txs, processing>>, faults' \in 0..MaxFaults
    PROVE  IInv'
  <1> DEFINE d == flow[p].dev
             pr == Current(p)
  <1>1. ~At(p, "idle") /\ flow[p].pc \in DeletePcs /\ flow[p] \in Flow /\ flow'[p] = f
    BY DEF At, DeletePcs, IInv, TypeOK, Puts
  <1>2. Ok(p)
    BY DEF IInv, FlowInv
  <1>3. d \in Devices /\ device[d] # "none" /\ owner[d] = flow[p].user
    BY <1>1, <1>2 DEF Ok, FlowOk, WithDevice
  <1>4. pr \in flow[p].todo /\ pr \in Protocols /\ flow[p].todo \subseteq Protocols
    BY <1>1, CurrentInTodo DEF Flow
  <1>5. access[d][pr] \in Settled
    BY <1>1, <1>2, <1>4 DEF Ok, TodoOk
  <1> HIDE DEF pr
  <1>6. \A r \in Protocols \ {pr} : access'[d][r] = access[d][r]
    BY <1>3 DEF SetAccess, IInv, TypeOK, pr
  <1>7. SetAccess(d, pr, s) => access'[d][pr] = s
    BY <1>3, <1>4 DEF SetAccess, IInv, TypeOK
  <1>8. FlowOk(p)'
    BY <1>1, <1>2, <1>3 DEF Ok, FlowOk, At, CreatePcs, DeletePcs, WithDevice, Filling
  <1>9. CheckOk(p)' /\ CreateOk(p)'
    BY <1>1 DEF CheckOk, CreateOk, At
  <1>10. TodoOk(p)'
    <2>1. f.todo = flow[p].todo \ {pr}
      BY DEF pr
    <2> QED BY <1>1, <1>2, <1>4, <1>6, <2>1 DEF Ok, TodoOk
  <1>11. CleanOk(p)'
    <2>1. f.todo = flow[p].todo \ {pr}
      BY DEF pr
    <2>2. CASE ~f.clean
      BY <1>1, <2>2 DEF CleanOk
    <2>3. CASE f.clean
      <3>1. SetAccess(d, pr, s) /\ flow[p].clean
        BY <2>3 DEF pr
      <3>2. flow[p].all => \A r \in Protocols : access[d][r] = "active" => r \in flow[p].todo
        BY <1>2, <3>1 DEF Ok, CleanOk, ActiveAccesses
      <3>3. f.all => \A r \in Protocols : access'[d][r] = "active" => r \in f.todo
        BY <1>6, <1>7, <2>1, <3>1, <3>2
      <3> QED BY <1>1, <3>3 DEF CleanOk, ActiveAccesses
    <2> QED BY <2>2, <2>3
  <1>12. Ok(p)'
    BY <1>8, <1>9, <1>10, <1>11 DEF Ok
  <1>13. LockInv'
    BY <1>1, LockMoves DEF IInv
  <1>14. processing' \subseteq Senders /\ txs' \in 0..MaxTxs
    BY DEF IInv, TypeOK
  <1>15. CASE UNCHANGED access
    BY <1>12, <1>13, <1>14, <1>15, FlowOnly DEF db
  <1>16. CASE SetAccess(d, pr, s)
    <2>1. /\ s \in Statuses \ {"none", "suspended_nonpayment"}
          /\ access[d][pr] \in Settled => s \in Settled
          /\ ~(access[d][pr] \in {"none", "pending"} \/ s = "active")
      BY <1>5 DEF Statuses, Settled
    <2> HIDE DEF d
    <2> QED BY <1>3, <1>4, <1>12, <1>13, <1>14, <1>16, <2>1, WriteAccess
  <1> QED BY <1>15, <1>16 DEF pr

LEMMA MarkRevokedStep ==
    ASSUME IInv, NEW p \in Procs, MarkRevoked(p)
    PROVE  IInv'
  <1> DEFINE t == flow[p].todo \ {Current(p)}
             f == [flow[p] EXCEPT !.pc = "revoke", !.todo = t]
  <1>1. At(p, "mark") /\ flow[p].pc \in {"revoke", "mark"} /\ flow[p] \in Flow
    BY DEF MarkRevoked, At, IInv, TypeOK
  <1>2. flow[p].todo # {}
    BY <1>1 DEF IInv, FlowInv, Ok, FlowOk
  <1>3. t \subseteq Protocols
    BY <1>1 DEF Flow
  <1>4. Becomes(p, f) /\ SetAccess(flow[p].dev, Current(p), "revoked")
        /\ UNCHANGED <<userStatus, device, owner, processing, faults, txs>>
    BY DEF MarkRevoked
  <1> HIDE DEF t
  <1>5. /\ f \in Flow /\ f.pc = "revoke" /\ f.todo = t
        /\ f.sender = flow[p].sender /\ f.user = flow[p].user /\ f.dev = flow[p].dev
        /\ f.all = flow[p].all /\ f.clean = flow[p].clean
    BY <1>1, <1>3 DEF Flow, DeletePcs
  <1> HIDE DEF f
  <1>6. Puts(p, f)
    BY <1>4, <1>5, BecomesPuts DEF IInv, TypeOK
  <1>7. f.todo = flow[p].todo \ {Current(p)} /\ faults' \in 0..MaxFaults
    BY <1>4, <1>5 DEF t, IInv, TypeOK
  <1> QED BY <1>1, <1>2, <1>4, <1>5, <1>6, <1>7, DoneWithOk

LEMMA RevokeFailsStep ==
    ASSUME IInv, NEW p \in Procs, RevokeFails(p)
    PROVE  IInv'
  <1> DEFINE t == flow[p].todo \ {Current(p)}
             g == [flow[p] EXCEPT !.pc = "revoke", !.todo = t]
             f == [g EXCEPT !.clean = FALSE]
  <1>1. flow[p].pc \in {"revoke", "mark"} /\ flow[p] \in Flow /\ flow[p].todo # {}
    BY DEF RevokeFails, At, IInv, TypeOK
  <1>2. t \subseteq Protocols
    BY <1>1 DEF Flow
  <1>3. FailTo(p, g)
        /\ (SetAccess(flow[p].dev, Current(p), "error") \/ UNCHANGED access)
        /\ UNCHANGED <<userStatus, device, owner, txs>>
    BY DEF RevokeFails
  <1> HIDE DEF t
  <1>4. /\ g \in Flow /\ g.pc = "revoke" /\ g.todo = t
        /\ g.sender = flow[p].sender /\ g.user = flow[p].user /\ g.dev = flow[p].dev
        /\ g.all = flow[p].all
    BY <1>1, <1>2 DEF Flow, DeletePcs
  <1> HIDE DEF g
  <1>5. Puts(p, f) /\ processing' = processing
    BY <1>3, <1>4, FailPuts DEF FailTo, IInv, TypeOK
  <1>6. /\ f.pc = "revoke" /\ f.todo = t
        /\ f.sender = flow[p].sender /\ f.user = flow[p].user /\ f.dev = flow[p].dev
        /\ f.all = flow[p].all /\ ~f.clean
    BY <1>4 DEF Flow
  <1> HIDE DEF f
  <1>7. f.todo = flow[p].todo \ {Current(p)} /\ faults' \in 0..MaxFaults
    BY <1>6, FaultType DEF t, IInv, RevokeFails
  <1> QED BY <1>1, <1>3, <1>5, <1>6, <1>7, DoneWithOk
--------------------------------------------------------------------------------
(***************************************************************************)
(* Steps that write a device or the rows of a user.                        *)
(***************************************************************************)

LEMMA InsertDeviceStep ==
    ASSUME IInv, NEW p \in Procs, InsertDevice(p)
    PROVE  IInv'
  <1>1. PICK d \in Spare :
           /\ device' = [device EXCEPT ![d] = "active"]
           /\ owner' = [owner EXCEPT ![d] = flow[p].user]
           /\ Becomes(p, [flow[p] EXCEPT !.pc = "insertAccess", !.dev = d])
    BY DEF InsertDevice
  <1>2. /\ At(p, "insertDevice") /\ ~At(p, "idle") /\ flow[p] \in Flow /\ Ok(p)
        /\ UNCHANGED <<userStatus, access, processing, faults, txs>>
    BY DEF InsertDevice, At, IInv, TypeOK, FlowInv
  <1>3. d \in Devices /\ device[d] = "none"
    BY DEF Spare
  <1> DEFINE f == [flow[p] EXCEPT !.pc = "insertAccess", !.dev = d]
  <1>4. /\ f \in Flow /\ f.pc = "insertAccess" /\ f.dev = d
        /\ f.sender = flow[p].sender /\ f.user = flow[p].user /\ f.proto = flow[p].proto
    BY <1>2, <1>3 DEF Flow, CreatePcs
  <1>5. Becomes(p, f)
    BY <1>1
  <1> HIDE DEF f
  <1>6. Puts(p, f) /\ flow'[p] = f
    BY <1>4, <1>5, BecomesPuts DEF IInv, TypeOK, Puts
  <1>7. flow[p].user \in Users /\ flow[p].sender = flow[p].user
        /\ flow[p].proto = "wireguard" /\ ActiveOf(flow[p].user) = {}
    BY <1>2 DEF Ok, FlowOk, CheckOk, CreateOk, At, CreatePcs
  <1>8. /\ device' \in [Devices -> {"none", "active", "deleted"}]
        /\ owner' \in [Devices -> Users \cup {Nobody}]
        /\ device'[d] = "active" /\ owner'[d] = flow[p].user
        /\ \A e \in Devices \ {d} : device'[e] = device[e] /\ owner'[e] = owner[e]
    BY <1>1, <1>3, <1>7 DEF IInv, TypeOK
  <1>9. \A pr \in Protocols : access[d][pr] = "none"
    BY <1>3 DEF IInv, RowInv, RowOk
  <1>10. TypeOK'
    BY <1>2, <1>6, <1>8 DEF IInv, TypeOK, Puts
  <1>11. LockInv'
    BY <1>2, <1>4, <1>6, LockMoves DEF IInv
  <1>12. RowInv'
    BY <1>2, <1>7, <1>8 DEF IInv, RowInv, RowOk
  <1>13. OneActiveDevice'
    BY <1>7, <1>8 DEF IInv, OneActiveDevice, ActiveOf
  <1>14. SuspendedOwnerBlocked'
    BY <1>2, <1>8, <1>9 DEF IInv, SuspendedOwnerBlocked
  <1>15. Ok(p)'
    <2>1. FlowOk(p)'
      BY <1>3, <1>4, <1>6, <1>7, <1>8 DEF FlowOk, At, CreatePcs, DeletePcs, WithDevice, Filling
    <2>2. CreateOk(p)'
      BY <1>2, <1>4, <1>6, <1>7, <1>9 DEF CreateOk, At, Protocols
    <2>3. CheckOk(p)' /\ TodoOk(p)' /\ CleanOk(p)'
      BY <1>4, <1>6 DEF CheckOk, TodoOk, CleanOk, At, DeletePcs
    <2> QED BY <2>1, <2>2, <2>3 DEF Ok
  <1>16. ASSUME NEW q \in Procs, q # p PROVE Ok(q)'
    <2>1. Kept(q) /\ Ok(q) /\ flow[q] \in Flow
      BY <1>6, <1>16 DEF Puts, IInv, FlowInv, TypeOK
    <2>2. \A e \in Devices : device[e] # "none" => device'[e] # "none" /\ owner'[e] = owner[e]
      BY <1>3, <1>8
    <2>3. At(q, "insertDevice") => ActiveOf(flow[q].user)' \subseteq ActiveOf(flow[q].user)
      <3>1. ASSUME At(q, "insertDevice") PROVE flow[q].user # flow[p].user
        <4>1. flow[q].sender = flow[q].user /\ ~At(q, "idle")
          BY <2>1, <3>1 DEF Ok, FlowOk, At, CreatePcs
        <4> QED BY <1>2, <1>7, <1>16, <4>1 DEF IInv, LockInv
      <3> QED BY <1>3, <1>8, <2>1, <3>1 DEF ActiveOf, Kept
    <2> QED BY <1>2, <2>1, <2>2, <2>3, Bystander
  <1>17. FlowInv'
    BY <1>15, <1>16 DEF FlowInv
  <1> QED BY <1>10, <1>11, <1>12, <1>13, <1>14, <1>17 DEF IInv

LEMMA DeleteDeviceStep ==
    ASSUME IInv, NEW p \in Procs, DeleteDevice(p)
    PROVE  IInv'
  <1> DEFINE d == flow[p].dev
  <1>1. /\ ~At(p, "idle") /\ flow[p].pc \in DeletePcs /\ Ok(p)
        /\ device' = [device EXCEPT ![d] = "deleted"]
        /\ UNCHANGED <<userStatus, owner, access, faults, txs>>
    BY DEF DeleteDevice, At, DeletePcs, IInv, FlowInv
  <1>2. /\ Puts(p, NoFlow) /\ flow'[p] = NoFlow /\ NoFlow.pc = "idle"
        /\ processing' = processing \ {flow[p].sender}
    BY EndPuts DEF DeleteDevice, IInv, NoFlow, Puts
  <1>3. d \in Devices /\ device[d] # "none"
    BY <1>1 DEF Ok, FlowOk, WithDevice
  <1> HIDE DEF NoFlow, d
  <1>4. /\ device' \in [Devices -> {"none", "active", "deleted"}]
        /\ device'[d] = "deleted"
        /\ \A e \in Devices \ {d} : device'[e] = device[e]
    BY <1>1, <1>3 DEF IInv, TypeOK
  <1>5. TypeOK'
    BY <1>1, <1>2, <1>4 DEF IInv, TypeOK, Puts
  <1>6. LockInv'
    BY <1>1, <1>2, LockEnds DEF IInv
  <1>7. RowInv'
    BY <1>1, <1>3, <1>4 DEF IInv, RowInv, RowOk
  <1>8. OneActiveDevice' /\ SuspendedOwnerBlocked'
    BY <1>1, <1>3, <1>4 DEF IInv, OneActiveDevice, SuspendedOwnerBlocked
  <1>9. ASSUME NEW q \in Procs PROVE Ok(q)'
    <2>1. CASE q = p
      BY <1>2, <2>1, IdleOk
    <2>2. CASE q # p
      <3>1. Kept(q) /\ Ok(q) /\ flow[q] \in Flow
        BY <1>2, <2>2 DEF Puts, IInv, FlowInv, TypeOK
      <3>2. \A e \in Devices : device[e] # "none" => device'[e] # "none" /\ owner'[e] = owner[e]
        BY <1>1, <1>3, <1>4
      <3>3. ActiveOf(flow[q].user)' \subseteq ActiveOf(flow[q].user)
        BY <1>1, <1>3, <1>4, <3>1 DEF ActiveOf, Kept
      <3> QED BY <1>1, <3>1, <3>2, <3>3, Bystander
    <2> QED BY <2>1, <2>2
  <1>10. FlowInv'
    BY <1>9 DEF FlowInv
  <1> QED BY <1>5, <1>6, <1>7, <1>8, <1>10 DEF IInv

(* Billing makes every flow unclean and swaps one status for the other. *)
LEMMA BillStep ==
    ASSUME IInv, NEW u \in Users, NEW status \in {"active", "blocked_for_nonpayment"},
           NEW from \in Settled, NEW to \in Settled, to \in Statuses,
           Bill(u, status), SwapAccesses(u, from, to), SuspendedOwnerBlocked'
    PROVE  IInv'
  <1>1. /\ flow' \in [Procs -> Flow]
        /\ \A q \in Procs : Kept(q) /\ ~flow'[q].clean
    BY SoilKeeps DEF Bill, IInv, TypeOK
  <1>2. /\ access' \in [Devices -> [Protocols -> Statuses]]
        /\ \A d \in Devices, pr \in Protocols :
              /\ access'[d][pr] = access[d][pr] \/ (access[d][pr] = from /\ access'[d][pr] = to)
    BY DEF SwapAccesses, IInv, TypeOK
  <1>3. /\ \A d \in Devices, pr \in Protocols :
              /\ access[d][pr] \in {"none", "pending"} => access'[d][pr] = access[d][pr]
              /\ access[d][pr] \in Settled => access'[d][pr] \in Settled
    BY <1>2 DEF Settled
  <1>4. UNCHANGED <<device, owner, processing, faults>>
    BY DEF Bill
  <1>5. TypeOK'
    <2>1. userStatus' \in [Users -> {"active", "blocked_for_nonpayment"}]
          /\ txs' \in 0..MaxTxs
      BY BoundsAreNat DEF Bill, IInv, TypeOK
    <2> QED BY <1>1, <1>2, <1>4, <2>1 DEF IInv, TypeOK
  <1>6. LockInv'
    BY <1>1, <1>4 DEF IInv, LockInv, Kept, At
  <1>7. RowInv'
    BY <1>3, <1>4 DEF IInv, RowInv, RowOk
  <1>8. OneActiveDevice'
    BY <1>4 DEF IInv, OneActiveDevice
  <1>9. ASSUME NEW q \in Procs PROVE Ok(q)'
    <2>1. Ok(q) /\ Kept(q) /\ ~flow'[q].clean /\ flow[q] \in Flow
      BY <1>1 DEF IInv, FlowInv, TypeOK
    <2>2. flow[q].pc \in WithDevice => flow[q].dev \in Devices
      BY <2>1 DEF Ok, FlowOk
    <2>3. \A e \in Devices : device[e] # "none" => device'[e] # "none" /\ owner'[e] = owner[e]
      BY <1>4
    <2>4. ActiveOf(flow[q].user)' \subseteq ActiveOf(flow[q].user)
      BY <1>4, <2>1 DEF ActiveOf, Kept
    <2>5. flow[q].pc \in Filling =>
            \A r \in Protocols :
               access[flow[q].dev][r] \in {"none", "pending"}
                  => access'[flow[q].dev][r] = access[flow[q].dev][r]
      BY <1>3, <2>2 DEF WithDevice
    <2>6. flow[q].pc \in DeletePcs =>
            \A r \in flow[q].todo :
               access[flow[q].dev][r] \in Settled => access'[flow[q].dev][r] \in Settled
      BY <1>3, <2>1, <2>2 DEF WithDevice, Flow
    <2> QED BY <2>1, <2>3, <2>4, <2>5, <2>6, Bystander
  <1>10. FlowInv'
    BY <1>9 DEF FlowInv
  <1> QED BY <1>5, <1>6, <1>7, <1>8, <1>10 DEF IInv

LEMMA SuspendStep ==
    ASSUME IInv, NEW u \in Users, Suspend(u)
    PROVE  IInv'
  <1>1. Bill(u, "blocked_for_nonpayment") /\ SwapAccesses(u, "active", "suspended_nonpayment")
    BY DEF Suspend
  <1>2. /\ userStatus' = [userStatus EXCEPT ![u] = "blocked_for_nonpayment"]
        /\ owner' = owner
    BY <1>1 DEF Bill
  <1>3. ASSUME NEW d \in Devices, NEW pr \in Protocols,
               access'[d][pr] = "suspended_nonpayment"
        PROVE  userStatus'[owner[d]] = "blocked_for_nonpayment"
    <2>1. CASE owner[d] = u
      BY <1>2, <2>1 DEF IInv, TypeOK
    <2>2. CASE owner[d] # u
      <3>1. access'[d][pr] = access[d][pr]
        BY <1>1, <2>2 DEF SwapAccesses
      <3>2. device[d] # "none"
        BY <1>3, <3>1 DEF IInv, RowInv, RowOk
      <3>3. owner[d] \in Users
        BY <3>2 DEF IInv, RowInv, RowOk
      <3> QED BY <1>2, <1>3, <2>2, <3>1, <3>3 DEF IInv, TypeOK, SuspendedOwnerBlocked
    <2> QED BY <2>1, <2>2
  <1>4. SuspendedOwnerBlocked'
    BY <1>2, <1>3 DEF SuspendedOwnerBlocked
  <1> QED BY <1>1, <1>4, BillStep DEF Settled, Statuses

LEMMA ResumeStep ==
    ASSUME IInv, NEW u \in Users, Resume(u)
    PROVE  IInv'
  <1>1. Bill(u, "active") /\ SwapAccesses(u, "suspended_nonpayment", "active")
    BY DEF Resume
  <1>2. /\ userStatus' = [userStatus EXCEPT ![u] = "active"]
        /\ owner' = owner
    BY <1>1 DEF Bill
  <1>3. ASSUME NEW d \in Devices, NEW pr \in Protocols,
               access'[d][pr] = "suspended_nonpayment"
        PROVE  userStatus'[owner[d]] = "blocked_for_nonpayment"
    <2>1. owner[d] # u /\ access'[d][pr] = access[d][pr]
      BY <1>1, <1>3 DEF SwapAccesses
    <2>2. device[d] # "none"
      BY <1>3, <2>1 DEF IInv, RowInv, RowOk
    <2>3. owner[d] \in Users
      BY <2>2 DEF IInv, RowInv, RowOk
    <2> QED BY <1>2, <1>3, <2>1, <2>3 DEF IInv, TypeOK, SuspendedOwnerBlocked
  <1>4. SuspendedOwnerBlocked'
    BY <1>2, <1>3 DEF SuspendedOwnerBlocked
  <1> QED BY <1>1, <1>4, BillStep DEF Settled, Statuses
--------------------------------------------------------------------------------
(***************************************************************************)
(* The invariant and what follows from it.                                 *)
(***************************************************************************)

LEMMA InitOk == Init => IInv
  <1> SUFFICES ASSUME Init PROVE IInv
    OBVIOUS
  <1>1. TypeOK
    BY NoFlowType, BoundsAreNat DEF Init, TypeOK, Statuses
  <1>2. \A p \in Procs : At(p, "idle") /\ flow[p].pc = "idle"
    BY DEF Init, At, NoFlow
  <1>3. LockInv
    BY <1>2 DEF LockInv
  <1>4. RowInv
    BY DEF Init, RowInv, RowOk
  <1>5. FlowInv
    BY <1>2 DEF FlowInv, Ok, FlowOk, CheckOk, CreateOk, TodoOk, CleanOk, At,
                CreatePcs, DeletePcs, Filling, WithDevice
  <1>6. OneActiveDevice /\ SuspendedOwnerBlocked
    BY DEF Init, OneActiveDevice, SuspendedOwnerBlocked
  <1> QED BY <1>1, <1>3, <1>4, <1>5, <1>6 DEF IInv

LEMMA NextOk == IInv /\ [Next]_vars => IInv'
  <1> SUFFICES ASSUME IInv, [Next]_vars PROVE IInv'
    OBVIOUS
  <1>1. ASSUME NEW p \in Procs, Ask(p) PROVE IInv'
    BY <1>1, AskDeviceStep, AskDeleteStep, AskRevokeUserStep DEF Ask
  <1>2. ASSUME NEW p \in Procs, FlowStep(p) PROVE IInv'
    BY <1>2, CheckUserStep, CheckDeviceStep, InsertDeviceStep, NoCapacityStep,
       InsertAccessStep, ApplyPeerStep, ActivateStep, ListAccessesStep, RevokePeerStep,
       MarkRevokedStep, DeleteDeviceStep DEF FlowStep
  <1>3. ASSUME NEW p \in Procs, FlowFails(p) PROVE IInv'
    BY <1>3, CreatePeerFailsStep, RevokeFailsStep, ListFailsStep, GiveUpStep DEF FlowFails
  <1>4. ASSUME NEW u \in Users, Suspend(u) \/ Resume(u) PROVE IInv'
    BY <1>4, SuspendStep, ResumeStep
  <1>5. CASE Restart
    BY <1>5, RestartStep
  <1>6. CASE UNCHANGED vars
    <2>1. FlowInv'
      BY <1>6 DEF IInv, FlowInv, Ok, FlowOk, CheckOk, CreateOk, TodoOk, CleanOk, At,
                  ActiveOf, ActiveAccesses, vars
    <2>2. TypeOK' /\ LockInv' /\ RowInv' /\ OneActiveDevice' /\ SuspendedOwnerBlocked'
      BY <1>6 DEF IInv, TypeOK, LockInv, RowInv, RowOk, OneActiveDevice,
                  SuspendedOwnerBlocked, At, vars
    <2> QED BY <2>1, <2>2 DEF IInv
  <1> QED BY <1>1, <1>2, <1>3, <1>4, <1>5, <1>6 DEF Next

(* IInv is an invariant of the control plane. *)
THEOREM Inductive == Spec => []IInv
  BY InitOk, NextOk, PTL DEF Spec

(* Every variable has its type. *)
THEOREM TypeCorrect == Spec => []TypeOK
  <1>1. IInv => TypeOK
    BY DEF IInv
  <1> QED BY Inductive, <1>1, PTL

(* However the updates of different senders, billing, failures and restarts*)
(* interleave, the lock on senders (tryLockUser) is enough for the check of*)
(* CreateDeviceForUser to hold when the device is inserted.                *)
THEOREM OneDevicePerUser == Spec => []OneActiveDevice
  <1>1. IInv => OneActiveDevice
    BY DEF IInv
  <1> QED BY Inductive, <1>1, PTL

(* No flow in progress when a payment comes leaves a suspended access with *)
(* an active user.                                                         *)
THEOREM NoneLeftSuspended == Spec => []SuspendedOwnerBlocked
  <1>1. IInv => SuspendedOwnerBlocked
    BY DEF IInv
  <1> QED BY Inductive, <1>1, PTL

(* A user's delete that nothing disturbed leaves no active access behind.  *)
THEOREM DeleteComplete == Spec => []CleanDelete
  <1>1. IInv => CleanDelete
    BY DEF IInv, FlowInv, Ok, CleanOk, CleanDelete, At
  <1> QED BY Inductive, <1>1, PTL
--------------------------------------------------------------------------------
(***************************************************************************)
(* AccessControl implements AccessLifecycle.                               *)
(***************************************************************************)

LEMMA Moves ==
    ASSUME NEW d \in Devices, NEW pr \in Protocols, NEW s \in Statuses,
           SetAccess(d, pr, s), <<access[d][pr], s>> \in Life!Edges
    PROVE  Life!LifeNext
  BY DEF SetAccess, Life!LifeNext, Life!Move, Life!Statuses, Statuses

LEMMA CreateMoves ==
    ASSUME IInv, NEW p \in Procs,
           InsertAccess(p) \/ Activate(p) \/ CreatePeerFails(p)
    PROVE  [Life!LifeNext]_access
  <1> DEFINE d == flow[p].dev
             pr == flow[p].proto
  <1>1. flow[p] \in Flow /\ FlowOk(p) /\ CreateOk(p) /\ flow[p].pc \in Filling
    BY DEF IInv, TypeOK, FlowInv, Ok, InsertAccess, Activate, CreatePeerFails, At, Filling
  <1>2. d \in Devices /\ pr \in Protocols
    BY <1>1 DEF FlowOk, WithDevice, Flow
  <1>3. CASE InsertAccess(p)
    <2>1. access[d][pr] = "none" /\ SetAccess(d, pr, "pending")
      BY <1>1, <1>3 DEF InsertAccess, CreateOk
    <2> HIDE DEF d, pr
    <2>2. "pending" \in Statuses /\ <<access[d][pr], "pending">> \in Life!Edges
      BY <2>1 DEF Statuses, Life!Edges
    <2> QED BY <1>2, <2>1, <2>2, Moves
  <1>4. ASSUME NEW s \in {"active", "error"}, SetAccess(d, pr, s),
               flow[p].pc \in {"apply", "activate"}
        PROVE  Life!LifeNext
    <2>1. access[d][pr] = "pending"
      BY <1>1, <1>4 DEF CreateOk
    <2> HIDE DEF d, pr
    <2>2. s \in Statuses /\ <<access[d][pr], s>> \in Life!Edges
      BY <2>1 DEF Statuses, Life!Edges
    <2> QED BY <1>2, <1>4, <2>2, Moves
  <1>5. CASE Activate(p)
    BY <1>4, <1>5 DEF Activate, At
  <1>6. CASE CreatePeerFails(p)
    BY <1>4, <1>6 DEF CreatePeerFails, At
  <1> QED BY <1>3, <1>5, <1>6

LEMMA RevokeMoves ==
    ASSUME IInv, NEW p \in Procs, MarkRevoked(p) \/ RevokeFails(p)
    PROVE  [Life!LifeNext]_access
  <1> DEFINE d == flow[p].dev
             pr == Current(p)
  <1>1. flow[p] \in Flow /\ FlowOk(p) /\ TodoOk(p) /\ flow[p].pc \in DeletePcs
    BY DEF IInv, TypeOK, FlowInv, Ok, MarkRevoked, RevokeFails, At, DeletePcs
  <1>2. flow[p].todo # {}
    BY <1>1 DEF FlowOk, MarkRevoked, RevokeFails
  <1>3. d \in Devices /\ pr \in Protocols /\ access[d][pr] \in Settled
    BY <1>1, <1>2, CurrentInTodo DEF FlowOk, WithDevice, TodoOk
  <1>4. \/ SetAccess(d, pr, "revoked")
        \/ SetAccess(d, pr, "error")
        \/ UNCHANGED access
    BY DEF MarkRevoked, RevokeFails
  <1> HIDE DEF d, pr
  <1>5. ASSUME NEW s \in {"revoked", "error"}, SetAccess(d, pr, s)
        PROVE  Life!LifeNext
    <2>1. s \in Statuses /\ <<access[d][pr], s>> \in Life!Edges
      BY <1>3 DEF Statuses, Settled, Life!Edges
    <2> QED BY <1>3, <1>5, <2>1, Moves
  <1> QED BY <1>4, <1>5

LEMMA BillSwaps ==
    ASSUME NEW u \in Users, Suspend(u) \/ Resume(u)
    PROVE  Life!LifeNext
  <1> DEFINE D == {d \in Devices : owner[d] = u}
  <1>1. D \in SUBSET Devices
    OBVIOUS
  <1>2. CASE SwapAccesses(u, "active", "suspended_nonpayment")
    <2>1. Life!Swap(D, "active", "suspended_nonpayment")
      BY <1>2 DEF SwapAccesses, Life!Swap
    <2> QED BY <1>1, <2>1 DEF Life!LifeNext
  <1>3. CASE SwapAccesses(u, "suspended_nonpayment", "active")
    <2>1. Life!Swap(D, "suspended_nonpayment", "active")
      BY <1>3 DEF SwapAccesses, Life!Swap
    <2> QED BY <1>1, <2>1 DEF Life!LifeNext
  <1> QED BY <1>2, <1>3 DEF Suspend, Resume

LEMMA LifeStep == IInv /\ [Next]_vars => [Life!LifeNext]_access
  <1> SUFFICES ASSUME IInv, [Next]_vars PROVE [Life!LifeNext]_access
    OBVIOUS
  <1>1. ASSUME NEW p \in Procs, Ask(p) PROVE UNCHANGED access
    BY <1>1 DEF Ask, AskDevice, AskDelete, AskRevokeUser, db
  <1>2. ASSUME NEW p \in Procs, FlowStep(p) PROVE [Life!LifeNext]_access
    BY <1>2, CreateMoves, RevokeMoves
       DEF FlowStep, CheckUser, CheckDevice, InsertDevice, NoCapacity, ApplyPeer,
           ListAccesses, RevokePeer, DeleteDevice, db
  <1>3. ASSUME NEW p \in Procs, FlowFails(p) PROVE [Life!LifeNext]_access
    BY <1>3, CreateMoves, RevokeMoves DEF FlowFails, ListFails, GiveUp, db
  <1>4. ASSUME NEW u \in Users, Suspend(u) \/ Resume(u) PROVE Life!LifeNext
    BY <1>4, BillSwaps
  <1>5. CASE Restart \/ UNCHANGED vars
    BY <1>5 DEF Restart, db, vars
  <1> QED BY <1>1, <1>2, <1>3, <1>4, <1>5 DEF Next

(* Whatever overlaps or fails, an access is activated at most once before  *)
(* it is revoked or failed, never after, and only billing moves it between *)
(* active and suspended: every step is one of AccessLifecycle's.           *)
THEOREM LifecycleImplemented == Spec => FollowsLifecycle
  <1>1. Init => Life!LifeInit
    BY DEF Init, Life!LifeInit
  <1> QED BY <1>1, Inductive, LifeStep, PTL DEF Spec, FollowsLifecycle, Life!LifeSpec
================================================================================
