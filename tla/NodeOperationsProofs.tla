------------------------- MODULE NodeOperationsProofs --------------------------
(***************************************************************************)
(* That loads, operations and accesses tell one story, for any nodes,      *)
(* devices, operations and goroutines, any faults and any reports.         *)
(* The load is read and written back in two steps, after the access it is  *)
(* counted for: the inductive invariant says of every goroutine what it has*)
(* done so far and what the rows look like that it is going to write, and  *)
(* that no other goroutine writes them.                                    *)
(*                                                                         *)
(* Then, for what MCNodeOperations puts beside NodeOperations: NodeFleet,  *)
(* Guard, StartRepair, OpLog, Throughput and PeerConsistency.              *)
(***************************************************************************)
EXTENDS MCNodeOperations, Sequences, FiniteSetTheorems, WellFoundedInduction, TLAPS

Before  == {"queue", "run", "call", "settle", "mark"}
Holding == {"run", "call", "settle", "mark"}

(* A device without a node has no accesses. *)
Unassigned == \A d \in Devices : home[d] = NoNode => \A pr \in Protocols : access[d][pr] = "none"

(* A goroutine that does something does it to an access and on its node.   *)
AtWork ==
    \A p \in Procs : flow[p].pc # "idle" =>
        /\ flow[p].kind \in {"create", "revoke"} /\ flow[p].acc \in Accesses
        /\ flow[p].node \in Nodes /\ home[flow[p].acc[1]] = flow[p].node

Busy(p, kind) == flow[p].pc # "idle" /\ flow[p].kind = kind

(* A device is created by one goroutine, which finds its accesses as it    *)
(* left them. *)
CreatorsApart ==
    \A p, q \in Procs :
        Busy(p, "create") /\ Busy(q, "create") /\ flow[p].acc[1] = flow[q].acc[1] => p = q

CreateOn(f, table) ==
    f.pc # "idle" /\ f.kind = "create" =>
        /\ f.pc = "insert" =>
              f.acc[2] = "wireguard" /\ \A pr \in Protocols : table[f.acc[1]][pr] = "none"
        /\ f.pc \in Before => table[f.acc[1]][f.acc[2]] = "pending"
        /\ f.pc # "insert" /\ f.acc[2] = "wireguard" => table[f.acc[1]]["xray"] = "pending"

CreateGoesOn == \A p \in Procs : CreateOn(flow[p], access)

(* What is being revoked was active, and is until it is marked unless it is*)
(* revoked twice or something failed.                                      *)
RevokeOn(f, table, m) ==
    f.pc # "idle" /\ f.kind = "revoke" =>
        /\ f.pc # "insert" /\ table[f.acc[1]][f.acc[2]] \in {"active", "revoked", "error"}
        /\ ~m /\ f.pc \in Before => table[f.acc[1]][f.acc[2]] = "active"

RevokeGoesOn == \A p \in Procs : RevokeOn(flow[p], access, muddled)

RevokersApart ==
    ~muddled => \A p, q \in Procs :
        Busy(p, "revoke") /\ Busy(q, "revoke") /\ flow[p].acc = flow[q].acc => p = q

(* A goroutine's operation is its own and is at the goroutine's stage.     *)
OpStage(pc) == CASE pc = "run" -> "queued" [] pc = "mark" -> "succeeded" [] OTHER -> "running"

OpsHeld ==
    /\ \A p \in Procs : flow[p].pc \in Holding =>
          /\ flow[p].op \in Ops
          /\ op[flow[p].op] = [st |-> OpStage(flow[p].pc), kind |-> flow[p].kind, acc |-> flow[p].acc]
    /\ \A p, q \in Procs :
          flow[p].pc \in Holding /\ flow[q].pc \in Holding /\ flow[p].op = flow[q].op => p = q

CountsOn(p, n) == Counting(p) /\ flow[p].node = n

(* One goroutine counts on a node at a time, and what it read is so.       *)
CountedAlone ==
    ~muddled =>
        /\ \A n \in Nodes : \A p, q \in Procs : CountsOn(p, n) /\ CountsOn(q, n) => p = q
        /\ \A p \in Procs : flow[p].pc = "writeLoad" => flow[p].read = load[flow[p].node]

(* The load is right, but for what that goroutine is about to write.       *)
Accounts ==
    ~muddled => \A n \in Nodes :
        /\ (\A p \in Procs : ~CountsOn(p, n)) => Cardinality(ActiveOn(n)) = load[n]
        /\ \A p \in Procs : CountsOn(p, n) => Cardinality(ActiveOn(n)) = load[n] + Delta(flow[p])

IInv == /\ TypeOK /\ Unassigned /\ AtWork /\ CreatorsApart /\ CreateGoesOn
        /\ RevokeGoesOn /\ RevokersApart /\ OpsHeld /\ CountedAlone /\ Accounts
        /\ ActiveHasOperation /\ ErrorHasFailure

--------------------------------------------------------------------------------
(***************************************************************************)
(* Facts about the rows.                                                   *)
(***************************************************************************)
AccessTable == [Devices -> [Protocols -> {"none", "pending", "active", "error", "revoked"}]]

LEMMA NoFlowFields ==
    /\ NoFlow \in Flow /\ NoFlow.pc = "idle" /\ NoFlow.kind = "none" /\ NoFlow.node = NoNode
    /\ NoFlow.op = ReconcileId
BY DEF NoFlow, Flow, Pcs

LEMMA AccessFields ==
    ASSUME NEW a \in Accesses
    PROVE  a[1] \in Devices /\ a[2] \in Protocols /\ a = <<a[1], a[2]>>
BY DEF Accesses

LEMMA CellSet ==
    ASSUME TypeOK, NEW a \in Accesses, NEW s \in {"none", "pending", "active", "error", "revoked"},
           SetAccess(a, s)
    PROVE  /\ access' \in AccessTable /\ access'[a[1]][a[2]] = s
           /\ \A b \in Accesses \ {a} : access'[b[1]][b[2]] = access[b[1]][b[2]]
<1>1. a[1] \in Devices /\ a[2] \in Protocols /\ a = <<a[1], a[2]>>
  BY AccessFields
<1> DEFINE row == [access[a[1]] EXCEPT ![a[2]] = s]
<1>2. access \in AccessTable /\ access' = [access EXCEPT ![a[1]] = row]
  BY DEF TypeOK, SetAccess, AccessTable
<1>3. /\ row \in [Protocols -> {"none", "pending", "active", "error", "revoked"}]
      /\ row[a[2]] = s /\ \A pr \in Protocols \ {a[2]} : row[pr] = access[a[1]][pr]
  BY <1>1, <1>2 DEF AccessTable
<1> HIDE DEF row
<1>4. /\ access' \in AccessTable /\ access'[a[1]] = row
      /\ \A d \in Devices \ {a[1]} : access'[d] = access[d]
  BY <1>1, <1>2, <1>3 DEF AccessTable
<1>5. ASSUME NEW b \in Accesses \ {a} PROVE access'[b[1]][b[2]] = access[b[1]][b[2]]
  <2>1. b[1] \in Devices /\ b[2] \in Protocols /\ b = <<b[1], b[2]>>
    BY AccessFields
  <2>2. CASE b[1] # a[1]
    BY <2>1, <2>2, <1>4
  <2>3. CASE b[1] = a[1]
    BY <2>1, <2>3, <1>1, <1>3, <1>4
  <2> QED BY <2>2, <2>3
<1> QED BY <1>1, <1>3, <1>4, <1>5

(* A goroutine moves to f. *)
LEMMA FlowAt ==
    ASSUME TypeOK, NEW p \in Procs, NEW f \in Flow, Becomes(p, f)
    PROVE  /\ flow' \in [Procs -> Flow] /\ flow'[p] = f
           /\ \A q \in Procs \ {p} : flow'[q] = flow[q]
BY DEF TypeOK, Becomes

LEMMA ActiveIsFinite == \A n \in Nodes : IsFiniteSet(ActiveOn(n)) /\ Cardinality(ActiveOn(n)) \in Nat
<1> SUFFICES ASSUME NEW n \in Nodes PROVE IsFiniteSet(ActiveOn(n))
  BY FS_CardinalityType
<1>1. IsFiniteSet({"wireguard"}) /\ IsFiniteSet({"xray"})
  BY FS_Singleton
<1>2. Protocols = {"wireguard"} \cup {"xray"}
  BY DEF Protocols
<1>3. IsFiniteSet(Protocols)
  BY <1>1, <1>2, FS_Union
<1>4. IsFiniteSet(Accesses)
  BY <1>3, FiniteDevices, FS_Product DEF Accesses
<1> QED BY <1>4, FS_Subset DEF ActiveOn
--------------------------------------------------------------------------------
(***************************************************************************)
(* What a step of one goroutine has to keep.                               *)
(***************************************************************************)
(* The accesses p may write: those of the device it creates, as it left    *)
(* them, or the one it revokes. *)
OwnCells(p, table) ==
    \A a \in Accesses : table[a[1]][a[2]] # access[a[1]][a[2]] =>
        /\ flow[p].pc # "idle" /\ a[1] = flow[p].acc[1]
        /\ flow[p].kind = "create" => access[a[1]][a[2]] \in {"none", "pending"}
        /\ flow[p].kind = "revoke" => a = flow[p].acc /\ table[a[1]][a[2]] \in {"revoked", "error"}

(* The operation p may write: a new one or its own. *)
OwnOp(p, o) == op[o].st = "none" \/ (flow[p].pc \in Holding /\ o = flow[p].op)

OwnRows(p, table) ==
    \A o \in Ops : table[o] # op[o] => OwnOp(p, o) /\ op[o].st \in {"none", "queued", "running"}

(* What p goes on with is what it was doing. *)
SameWork(p, f) ==
    f.pc # "idle" =>
        /\ flow[p].pc # "idle" /\ f.kind = flow[p].kind /\ f.node = flow[p].node
        /\ f.acc \in Accesses /\ f.acc[1] = flow[p].acc[1]
        /\ f.kind = "revoke" => f.acc = flow[p].acc

HoldsOp(p, f, table) ==
    f.pc \in Holding =>
        /\ f.op \in Ops /\ OwnOp(p, f.op)
        /\ table[f.op] = [st |-> OpStage(f.pc), kind |-> f.kind, acc |-> f.acc]

LEMMA OthersKeep ==
    ASSUME IInv, NEW p \in Procs, access' \in AccessTable, OwnCells(p, access'),
           muddled' \in BOOLEAN, muddled => muddled',
           NEW q \in Procs \ {p}
    PROVE  CreateOn(flow[q], access') /\ RevokeOn(flow[q], access', muddled')
<1>1. flow[q].pc # "idle" => flow[q].acc \in Accesses
  BY DEF IInv, AtWork
<1>2. /\ flow[p].pc # "idle" => flow[p].kind \in {"create", "revoke"} /\ flow[p].acc \in Accesses
      /\ flow[p].pc # "idle" /\ flow[p].kind = "revoke" =>
            access[flow[p].acc[1]][flow[p].acc[2]] \in {"active", "revoked", "error"}
  BY DEF IInv, AtWork, RevokeGoesOn, RevokeOn
<1>3. CASE Busy(q, "create")
  <2>1. ASSUME NEW pr \in Protocols, access[flow[q].acc[1]][pr] \in {"none", "pending"}
        PROVE  access'[flow[q].acc[1]][pr] = access[flow[q].acc[1]][pr]
    <3> DEFINE a == <<flow[q].acc[1], pr>>
    <3>1. a \in Accesses /\ a[1] = flow[q].acc[1] /\ a[2] = pr
      BY <1>1, <1>3, AccessFields DEF Busy, Accesses
    <3> HIDE DEF a
    <3> SUFFICES ASSUME access'[a[1]][a[2]] # access[a[1]][a[2]] PROVE FALSE
      BY <3>1
    <3>2. flow[p].pc # "idle" /\ a[1] = flow[p].acc[1]
      BY <3>1 DEF OwnCells
    <3>3. CASE flow[p].kind = "create"
      BY <1>3, <3>1, <3>2, <3>3 DEF IInv, CreatorsApart, Busy
    <3>4. CASE flow[p].kind = "revoke"
      <4>1. a = flow[p].acc
        BY <3>1, <3>4 DEF OwnCells
      <4> QED BY <4>1, <1>2, <2>1, <3>1, <3>2, <3>4
    <3> QED BY <1>2, <3>2, <3>3, <3>4
  <2>2. CreateOn(flow[q], access) /\ flow[q].acc[2] \in Protocols
    BY <1>1, <1>3, AccessFields DEF IInv, CreateGoesOn, Busy
  <2>3. CreateOn(flow[q], access')
    BY <2>1, <2>2 DEF CreateOn, Protocols
  <2> QED BY <2>3, <1>3 DEF RevokeOn, Busy
<1>4. CASE Busy(q, "revoke")
  <2> DEFINE a == flow[q].acc
  <2>1. a \in Accesses /\ access[a[1]][a[2]] \in {"active", "revoked", "error"}
    BY <1>1, <1>4 DEF IInv, RevokeGoesOn, RevokeOn, Busy
  <2>2. /\ flow[q].pc # "insert"
        /\ ~muddled /\ flow[q].pc \in Before => access[a[1]][a[2]] = "active"
    BY <1>4 DEF IInv, RevokeGoesOn, RevokeOn, Busy
  <2>3. access'[a[1]][a[2]] # access[a[1]][a[2]] =>
            /\ flow[p].pc # "idle" /\ flow[p].kind = "revoke" /\ a = flow[p].acc
            /\ access'[a[1]][a[2]] \in {"revoked", "error"}
    BY <1>2, <2>1 DEF OwnCells
  <2>4. ~muddled => ~(flow[p].pc # "idle" /\ flow[p].kind = "revoke" /\ a = flow[p].acc)
    BY <1>4 DEF IInv, RevokersApart, Busy
  <2>5. RevokeOn(flow[q], access', muddled')
    BY <2>1, <2>2, <2>3, <2>4 DEF RevokeOn
  <2> QED BY <2>5, <1>4 DEF CreateOn, Busy
<1> QED BY <1>3, <1>4 DEF CreateOn, RevokeOn, Busy

LEMMA ProcMoves ==
    ASSUME IInv, NEW p \in Procs, NEW f \in Flow, Becomes(p, f), UNCHANGED <<home, told>>,
           load' \in [Nodes -> Nat], access' \in AccessTable, op' \in [Ops -> OpRow],
           faults' \in 0..MaxFaults, muddled' \in BOOLEAN, muddled => muddled',
           SameWork(p, f), OwnCells(p, access'), OwnRows(p, op'), HoldsOp(p, f, op'),
           CreateOn(f, access'), RevokeOn(f, access', muddled'),
           \A a \in Accesses : access'[a[1]][a[2]] # access[a[1]][a[2]] =>
               /\ access'[a[1]][a[2]] = "active" =>
                     \E o \in Ops : op'[o].acc = a /\ op'[o].kind = "create" /\ op'[o].st = "succeeded"
               /\ access'[a[1]][a[2]] = "error" => \E o \in Ops : op'[o].acc = a /\ op'[o].st = "failed",
           CountedAlone', Accounts'
    PROVE  IInv'
<1>0. TypeOK
  BY DEF IInv
<1>1. /\ flow' \in [Procs -> Flow] /\ flow'[p] = f
      /\ \A q \in Procs \ {p} : flow'[q] = flow[q]
  BY <1>0, FlowAt
<1>2. TypeOK'
  BY <1>0, <1>1 DEF TypeOK, told, AccessTable
<1>3. Unassigned'
  <2> SUFFICES ASSUME NEW d \in Devices, home[d] = NoNode, NEW pr \in Protocols
               PROVE  access'[d][pr] = "none"
    BY DEF Unassigned
  <2> DEFINE a == <<d, pr>>
  <2>1. a \in Accesses /\ a[1] = d /\ a[2] = pr /\ access[d][pr] = "none"
    BY DEF Accesses, IInv, Unassigned
  <2>2. flow[p].pc # "idle" => home[flow[p].acc[1]] # NoNode
    BY SingleIsNode DEF IInv, AtWork
  <2> QED BY <2>1, <2>2 DEF OwnCells
<1>4. AtWork'
  BY <1>1 DEF IInv, AtWork, SameWork
<1>5. CreatorsApart'
  <2>1. ASSUME NEW q \in Procs \ {p}, flow[q].pc # "idle", flow[q].kind = "create",
               f.pc # "idle", f.kind = "create", flow[q].acc[1] = f.acc[1]
        PROVE  FALSE
    BY <2>1 DEF IInv, CreatorsApart, Busy, SameWork
  <2> QED BY <1>1, <2>1 DEF IInv, CreatorsApart, Busy
<1>6. CreateGoesOn' /\ RevokeGoesOn'
  <2>1. ASSUME NEW q \in Procs \ {p}
        PROVE  CreateOn(flow'[q], access') /\ RevokeOn(flow'[q], access', muddled')
    BY <1>1, OthersKeep
  <2> QED BY <1>1, <2>1 DEF CreateGoesOn, RevokeGoesOn
<1>7. RevokersApart'
  <2> SUFFICES ASSUME ~muddled' PROVE RevokersApart'
    BY DEF RevokersApart
  <2>1. ASSUME NEW q \in Procs \ {p}, flow[q].pc # "idle", flow[q].kind = "revoke",
               f.pc # "idle", f.kind = "revoke", flow[q].acc = f.acc
        PROVE  FALSE
    BY <2>1 DEF IInv, RevokersApart, Busy, SameWork
  <2> QED BY <1>1, <2>1 DEF IInv, RevokersApart, Busy
<1>8. OpsHeld'
  <2>1. ASSUME NEW q \in Procs \ {p}, flow[q].pc \in Holding
        PROVE  /\ flow[q].op \in Ops /\ ~OwnOp(p, flow[q].op)
               /\ op'[flow[q].op] = [st |-> OpStage(flow[q].pc), kind |-> flow[q].kind, acc |-> flow[q].acc]
    <3>1. /\ flow[q].op \in Ops
          /\ op[flow[q].op] = [st |-> OpStage(flow[q].pc), kind |-> flow[q].kind, acc |-> flow[q].acc]
      BY <2>1 DEF IInv, OpsHeld
    <3>2. op[flow[q].op].st # "none"
      BY <3>1 DEF OpStage
    <3>3. ~OwnOp(p, flow[q].op)
      BY <2>1, <3>2 DEF OwnOp, IInv, OpsHeld
    <3> QED BY <3>1, <3>3 DEF OwnRows
  <2>2. ASSUME NEW q \in Procs, flow'[q].pc \in Holding
        PROVE  /\ flow'[q].op \in Ops
               /\ op'[flow'[q].op] = [st |-> OpStage(flow'[q].pc), kind |-> flow'[q].kind, acc |-> flow'[q].acc]
    BY <1>1, <2>1, <2>2 DEF HoldsOp
  <2>3. ASSUME NEW q \in Procs, NEW r \in Procs, flow'[q].pc \in Holding, flow'[r].pc \in Holding,
               flow'[q].op = flow'[r].op
        PROVE  q = r
    <3>1. ASSUME NEW x \in Procs \ {p}, flow'[x].pc \in Holding, f.pc \in Holding
          PROVE  flow'[x].op # f.op
      <4>1. flow[x].pc \in Holding /\ flow'[x].op = flow[x].op
        BY <1>1, <3>1
      <4>2. ~OwnOp(p, flow[x].op)
        BY <2>1, <4>1
      <4>3. OwnOp(p, f.op)
        BY <3>1 DEF HoldsOp
      <4> QED BY <4>1, <4>2, <4>3
    <3>2. CASE (q = p /\ r # p) \/ (r = p /\ q # p)
      BY <1>1, <2>3, <3>1, <3>2
    <3>3. CASE q # p /\ r # p
      <4>1. flow[q].pc \in Holding /\ flow[r].pc \in Holding /\ flow[q].op = flow[r].op
        BY <1>1, <2>3, <3>3
      <4> QED BY <4>1 DEF IInv, OpsHeld
    <3> QED BY <3>1, <3>2, <3>3
  <2> QED BY <2>2, <2>3 DEF OpsHeld
<1>9. ActiveHasOperation' /\ ErrorHasFailure'
  <2>1. ASSUME NEW o \in Ops, op[o].st \in {"succeeded", "failed"} PROVE op'[o] = op[o]
    BY <2>1 DEF OwnRows
  <2>2. ASSUME NEW a \in Accesses, access'[a[1]][a[2]] = "active"
        PROVE  \E o \in Ops : op'[o].acc = a /\ op'[o].kind = "create" /\ op'[o].st = "succeeded"
    BY <2>1, <2>2 DEF IInv, ActiveHasOperation
  <2>3. ASSUME NEW a \in Accesses, access'[a[1]][a[2]] = "error"
        PROVE  \E o \in Ops : op'[o].acc = a /\ op'[o].st = "failed"
    BY <2>1, <2>3 DEF IInv, ErrorHasFailure
  <2> QED BY <2>2, <2>3 DEF ActiveHasOperation, ErrorHasFailure
<1> QED BY <1>2, <1>3, <1>4, <1>5, <1>6, <1>7, <1>8, <1>9 DEF IInv

(* A step that neither begins nor ends counting. *)
LEMMA CountsKept ==
    ASSUME IInv, NEW p \in Procs, NEW f \in Flow, Becomes(p, f), UNCHANGED load,
           muddled => muddled', \A n \in Nodes : ActiveOn(n)' = ActiveOn(n),
           f.pc \in {"readLoad", "writeLoad"} <=> Counting(p),
           Counting(p) => f.node = flow[p].node /\ f.kind = flow[p].kind,
           f.pc = "writeLoad" => f.read = load[f.node]
    PROVE  CountedAlone' /\ Accounts'
<1> SUFFICES ASSUME ~muddled' PROVE CountedAlone' /\ Accounts'
  BY DEF CountedAlone, Accounts
<1>0. ~muddled
  OBVIOUS
<1>1. /\ flow'[p] = f /\ \A q \in Procs \ {p} : flow'[q] = flow[q]
  BY FlowAt DEF IInv
<1>2. \A q \in Procs : \A n \in Nodes : CountsOn(q, n)' <=> CountsOn(q, n)
  BY <1>1 DEF CountsOn, Counting
<1>3. CountedAlone'
  BY <1>0, <1>1, <1>2 DEF IInv, CountedAlone
<1>4. \A q \in Procs : \A n \in Nodes : CountsOn(q, n) => flow'[q].kind = flow[q].kind
  BY <1>1 DEF CountsOn
<1>5. Accounts'
  BY <1>0, <1>2, <1>4 DEF IInv, Accounts, Delta
<1> QED BY <1>3, <1>5

LEMMA CountsAsBefore ==
    ASSUME IInv, NEW p \in Procs, NEW f \in Flow, Becomes(p, f), UNCHANGED <<home, load, muddled>>,
           \A a \in Accesses : access'[a[1]][a[2]] = "active" <=> access[a[1]][a[2]] = "active",
           f.pc \in {"readLoad", "writeLoad"} <=> Counting(p),
           Counting(p) => f.node = flow[p].node /\ f.kind = flow[p].kind,
           f.pc = "writeLoad" => f.read = load[f.node]
    PROVE  CountedAlone' /\ Accounts'
<1>1. \A n \in Nodes : ActiveOn(n)' = ActiveOn(n)
  BY DEF ActiveOn
<1> QED BY <1>1, CountsKept

LEMMA NotCounted == muddled' => CountedAlone' /\ Accounts'
BY DEF CountedAlone, Accounts

(* What is so of a goroutine that does something. *)
LEMMA Working ==
    ASSUME IInv, NEW p \in Procs
    PROVE  /\ TypeOK /\ flow[p] \in Flow /\ flow[p].pc \in Pcs
           /\ load \in [Nodes -> Nat] /\ access \in AccessTable /\ op \in [Ops -> OpRow]
           /\ faults \in 0..MaxFaults /\ muddled \in BOOLEAN
           /\ CreateOn(flow[p], access) /\ RevokeOn(flow[p], access, muddled)
           /\ HoldsOp(p, flow[p], op)
           /\ flow[p].pc # "idle" =>
                 /\ flow[p].kind \in {"create", "revoke"} /\ flow[p].acc \in Accesses
                 /\ flow[p].node \in Nodes /\ home[flow[p].acc[1]] = flow[p].node
<1>1. muddled \in BOOLEAN
  BY Zenon DEF IInv, TypeOK
<1>2. HoldsOp(p, flow[p], op)
  BY DEF IInv, OpsHeld, HoldsOp, OwnOp
<1>3. flow[p] \in Flow /\ flow[p].pc \in Pcs
  BY DEF IInv, TypeOK, Flow
<1> QED BY <1>1, <1>2, <1>3 DEF IInv, TypeOK, AccessTable, AtWork, CreateGoesOn, RevokeGoesOn

(* The next stage of a flow. *)
LEMMA StageFields ==
    ASSUME NEW f \in Flow, NEW pc \in Pcs
    PROVE  /\ [f EXCEPT !.pc = pc] \in Flow /\ [f EXCEPT !.pc = pc].pc = pc
           /\ [f EXCEPT !.pc = pc].kind = f.kind /\ [f EXCEPT !.pc = pc].acc = f.acc
           /\ [f EXCEPT !.pc = pc].node = f.node /\ [f EXCEPT !.pc = pc].op = f.op
           /\ [f EXCEPT !.pc = pc].read = f.read
BY DEF Flow

(* What a create goes on with. *)
LEMMA ContinueFields ==
    ASSUME NEW f \in Flow, f.acc \in Accesses
    PROVE  /\ Continue(f) \in Flow /\ Continue(f).pc \in {"queue", "idle"}
           /\ Continue(f).pc = "queue" =>
                 /\ f.kind = "create" /\ Continue(f).kind = "create" /\ f.acc[2] = "wireguard"
                 /\ Continue(f).acc \in Accesses /\ Continue(f).acc[1] = f.acc[1]
                 /\ Continue(f).acc[2] = "xray" /\ Continue(f).node = f.node
<1>1. CASE f.kind = "create" /\ f.acc[2] = "wireguard"
  <2> DEFINE a == <<f.acc[1], "xray">>
  <2>1. a \in Accesses /\ a[1] = f.acc[1] /\ a[2] = "xray"
    BY AccessFields DEF Accesses, Protocols
  <2>2. Continue(f) = [f EXCEPT !.pc = "queue", !.acc = a]
    BY <1>1 DEF Continue
  <2> HIDE DEF a
  <2> QED BY <1>1, <2>1, <2>2 DEF Flow, Pcs
<1>2. CASE ~(f.kind = "create" /\ f.acc[2] = "wireguard")
  BY <1>2, NoFlowFields DEF Continue
<1> QED BY <1>1, <1>2

LEMMA OpSet ==
    ASSUME op \in [Ops -> OpRow], NEW o \in Ops, NEW s \in OpStatuses, SetOp(o, s)
    PROVE  /\ op' \in [Ops -> OpRow]
           /\ op'[o] = [st |-> s, kind |-> op[o].kind, acc |-> op[o].acc]
           /\ \A x \in Ops \ {o} : op'[x] = op[x]
<1> DEFINE row == [op[o] EXCEPT !.st = s]
<1>1. row \in OpRow /\ row = [st |-> s, kind |-> op[o].kind, acc |-> op[o].acc]
  BY DEF OpRow
<1>2. op' = [op EXCEPT ![o] = row]
  BY DEF SetOp
<1> HIDE DEF row
<1> QED BY <1>1, <1>2

(* Its operation belongs to p. *)
LEMMA OwnRow ==
    ASSUME IInv, NEW p \in Procs, flow[p].pc \in Holding
    PROVE  /\ flow[p].op \in Ops /\ OwnOp(p, flow[p].op)
           /\ op[flow[p].op].st = OpStage(flow[p].pc)
           /\ op[flow[p].op].kind = flow[p].kind /\ op[flow[p].op].acc = flow[p].acc
<1>1. /\ flow[p].op \in Ops
      /\ op[flow[p].op] = [st |-> OpStage(flow[p].pc), kind |-> flow[p].kind, acc |-> flow[p].acc]
  BY DEF IInv, OpsHeld
<1> QED BY <1>1 DEF OwnOp

(* A step that writes no access and at most its operation. *)
LEMMA OpMoves ==
    ASSUME IInv, NEW p \in Procs, NEW f \in Flow, Becomes(p, f),
           UNCHANGED <<home, load, access, told, ghost>>,
           op' \in [Ops -> OpRow], OwnRows(p, op'), HoldsOp(p, f, op'),
           flow[p].pc \in Before, f.pc \in Before,
           f.kind = flow[p].kind /\ f.acc = flow[p].acc /\ f.node = flow[p].node
    PROVE  IInv'
<1>1. /\ access' = access /\ load' = load /\ faults' = faults /\ muddled' = muddled
      /\ UNCHANGED <<home, told>>
  BY DEF ghost
<1>2. SameWork(p, f) /\ OwnCells(p, access') /\ f.pc # "idle" /\ f.pc # "insert"
  BY <1>1, Working DEF SameWork, OwnCells, Before
<1>3. CreateOn(f, access') /\ RevokeOn(f, access', muddled')
  BY SMTT(30), <1>1, <1>2, Working DEF CreateOn, RevokeOn, Before
<1>4. CountedAlone' /\ Accounts'
  BY <1>1, CountsAsBefore DEF Counting, Before
<1> QED BY <1>1, <1>2, <1>3, <1>4, Working, ProcMoves
--------------------------------------------------------------------------------
(***************************************************************************)
(* The steps.                                                              *)
(***************************************************************************)
LEMMA Inserted ==
    ASSUME IInv, NEW p \in Procs, Insert(p)
    PROVE  IInv'
<1>0. flow[p] \in Flow /\ "queue" \in Pcs
  BY Working DEF Pcs
<1> DEFINE f == [flow[p] EXCEPT !.pc = "queue"]
<1> DEFINE d == flow[p].acc[1]
<1>1. /\ flow[p].pc = "insert" /\ Becomes(p, f)
      /\ access' = [access EXCEPT ![d] = [pr \in Protocols |-> "pending"]]
      /\ UNCHANGED <<load, home, op, told, faults, muddled>>
  BY DEF Insert, At, Goto, ghost
<1>2. /\ f \in Flow /\ f.pc = "queue" /\ f.kind = flow[p].kind /\ f.acc = flow[p].acc
      /\ f.node = flow[p].node
  BY <1>0, StageFields
<1>3. /\ flow[p].kind = "create" /\ flow[p].acc \in Accesses /\ d \in Devices
      /\ flow[p].acc[2] = "wireguard" /\ \A pr \in Protocols : access[d][pr] = "none"
  BY <1>1, Working, AccessFields DEF CreateOn, RevokeOn
<1>4. /\ access' \in AccessTable
      /\ access'[d] = [pr \in Protocols |-> "pending"]
      /\ \A e \in Devices \ {d} : access'[e] = access[e]
  BY <1>1, <1>3, Working DEF AccessTable
<1>5. "wireguard" \in Protocols /\ "xray" \in Protocols
  BY DEF Protocols
<1>6. ASSUME NEW a \in Accesses
      PROVE  /\ a[1] # d => access'[a[1]][a[2]] = access[a[1]][a[2]]
             /\ a[1] = d => access'[a[1]][a[2]] = "pending" /\ access[a[1]][a[2]] = "none"
  BY <1>3, <1>4, AccessFields
<1>7. SameWork(p, f) /\ OwnCells(p, access')
  BY <1>1, <1>2, <1>3, <1>6 DEF SameWork, OwnCells
<1>8. CreateOn(f, access') /\ RevokeOn(f, access', muddled')
  BY <1>2, <1>3, <1>4, <1>5 DEF CreateOn, RevokeOn
<1>9. OwnRows(p, op') /\ HoldsOp(p, f, op')
  BY <1>1, <1>2 DEF OwnRows, HoldsOp, Holding
<1> HIDE DEF f, d
<1>10. CountedAlone' /\ Accounts'
  BY <1>1, <1>2, <1>6, CountsAsBefore DEF Counting
<1> QED BY <1>1, <1>2, <1>4, <1>6, <1>7, <1>8, <1>9, <1>10, Working, ProcMoves

LEMMA Queued ==
    ASSUME IInv, NEW p \in Procs, Queue(p)
    PROVE  IInv'
<1>1. PICK o \in Ops :
          /\ op[o].st = "none" /\ flow[p].pc = "queue"
          /\ op' = [op EXCEPT ![o] = [st |-> "queued", kind |-> flow[p].kind, acc |-> flow[p].acc]]
          /\ Becomes(p, [flow[p] EXCEPT !.pc = "run", !.op = o])
          /\ UNCHANGED <<load, home, access, told, ghost>>
  BY DEF Queue, At
<1> DEFINE f == [flow[p] EXCEPT !.pc = "run", !.op = o]
<1> DEFINE row == [st |-> "queued", kind |-> flow[p].kind, acc |-> flow[p].acc]
<1>2. /\ f \in Flow /\ f.pc = "run" /\ f.op = o /\ f.kind = flow[p].kind /\ f.acc = flow[p].acc
      /\ f.node = flow[p].node
  BY Working DEF Flow, Pcs
<1>3. row \in OpRow
  BY <1>1, Working DEF OpRow, OpStatuses, OpTypes
<1>4. op' \in [Ops -> OpRow] /\ op'[o] = row /\ \A x \in Ops \ {o} : op'[x] = op[x]
  BY <1>1, <1>3, Working
<1>5. OwnRows(p, op') /\ HoldsOp(p, f, op')
  BY <1>1, <1>2, <1>4 DEF OwnRows, HoldsOp, OwnOp, OpStage
<1> HIDE DEF f, row
<1>6. Becomes(p, f)
  BY <1>1 DEF f
<1> QED BY <1>1, <1>2, <1>4, <1>5, <1>6, OpMoves DEF Before

(* MarkRunning and MarkSuccess write the operation, the call nothing. *)
LEMMA Executed ==
    ASSUME IInv, NEW p \in Procs, MarkRunning(p) \/ Call(p) \/ MarkSuccess(p)
    PROVE  IInv'
<1>0. flow[p] \in Flow /\ {"call", "mark", "settle"} \subseteq Pcs
  BY Working DEF Pcs
<1>1. CASE MarkRunning(p) \/ MarkSuccess(p)
  <2>1. PICK pc \in {"call", "mark"}, s \in {"running", "succeeded"} :
            /\ flow[p].pc \in {"run", "settle"} /\ OpStage(pc) = s
            /\ SetOp(flow[p].op, s) /\ Goto(p, pc)
            /\ UNCHANGED <<load, home, access, told, ghost>>
    <3>1. OpStage("call") = "running" /\ OpStage("mark") = "succeeded"
      BY DEF OpStage
    <3>2. CASE MarkRunning(p)
      BY <3>1, <3>2 DEF MarkRunning, At
    <3>3. CASE MarkSuccess(p)
      BY <3>1, <3>3 DEF MarkSuccess, At
    <3> QED BY <1>1, <3>2, <3>3
  <2> DEFINE f == [flow[p] EXCEPT !.pc = pc]
  <2> DEFINE o == flow[p].op
  <2>2. /\ f \in Flow /\ f.pc = pc /\ f.op = o /\ f.kind = flow[p].kind /\ f.acc = flow[p].acc
        /\ f.node = flow[p].node
    BY <1>0, StageFields
  <2>3. /\ o \in Ops /\ OwnOp(p, o) /\ op[o].st \in {"queued", "running"}
        /\ op[o].kind = flow[p].kind /\ op[o].acc = flow[p].acc
    BY <2>1, OwnRow DEF Holding, OpStage
  <2> HIDE DEF f, o
  <2>4. /\ op' \in [Ops -> OpRow] /\ \A x \in Ops \ {o} : op'[x] = op[x]
        /\ op'[o] = [st |-> s, kind |-> flow[p].kind, acc |-> flow[p].acc]
    BY <2>1, <2>3, Working, OpSet DEF o, OpStatuses
  <2>5. OwnRows(p, op') /\ HoldsOp(p, f, op')
    BY <2>1, <2>2, <2>3, <2>4 DEF OwnRows, HoldsOp
  <2>6. Becomes(p, f)
    BY <2>1 DEF Goto, f
  <2> QED BY <2>1, <2>2, <2>4, <2>5, <2>6, OpMoves DEF Before
<1>2. CASE Call(p)
  <2> DEFINE f == [flow[p] EXCEPT !.pc = "settle"]
  <2>1. /\ f \in Flow /\ f.pc = "settle" /\ f.op = flow[p].op /\ f.kind = flow[p].kind
        /\ f.acc = flow[p].acc /\ f.node = flow[p].node
    BY <1>0, StageFields
  <2>2. /\ flow[p].pc = "call" /\ Becomes(p, f) /\ op' = op
        /\ UNCHANGED <<load, home, access, told, ghost>>
    BY <1>2 DEF Call, At, Goto
  <2> HIDE DEF f
  <2>3. OwnRows(p, op') /\ HoldsOp(p, f, op')
    BY <2>1, <2>2, Working DEF OwnRows, HoldsOp, Holding, OpStage
  <2> QED BY <2>1, <2>2, <2>3, Working, OpMoves DEF Before
<1> QED BY <1>1, <1>2

(* Going on after an operation, whatever became of its access. *)
LEMMA ContinueKeeps ==
    ASSUME IInv, NEW p \in Procs, flow[p].pc \in Before \cup {"readLoad", "writeLoad"},
           NEW table \in AccessTable, NEW rows \in [Ops -> OpRow], NEW m \in BOOLEAN,
           \A a \in Accesses \ {flow[p].acc} : table[a[1]][a[2]] = access[a[1]][a[2]]
    PROVE  /\ Continue(flow[p]) \in Flow /\ SameWork(p, Continue(flow[p]))
           /\ HoldsOp(p, Continue(flow[p]), rows)
           /\ CreateOn(Continue(flow[p]), table) /\ RevokeOn(Continue(flow[p]), table, m)
           /\ Continue(flow[p]).pc \notin {"readLoad", "writeLoad"}
<1> DEFINE f == Continue(flow[p])
<1>1. flow[p] \in Flow /\ flow[p].pc # "idle" /\ flow[p].pc # "insert" /\ flow[p].acc \in Accesses
  BY Working DEF Before
<1>2. /\ f \in Flow /\ f.pc \in {"queue", "idle"}
      /\ f.pc = "queue" =>
            /\ flow[p].kind = "create" /\ f.kind = "create" /\ flow[p].acc[2] = "wireguard"
            /\ f.acc \in Accesses /\ f.acc[1] = flow[p].acc[1]
            /\ f.acc[2] = "xray" /\ f.node = flow[p].node
  BY <1>1, ContinueFields
<1> HIDE DEF f
<1>3. f.pc = "queue" => table[f.acc[1]][f.acc[2]] = "pending"
  <2> SUFFICES ASSUME f.pc = "queue" PROVE table[f.acc[1]][f.acc[2]] = "pending"
    OBVIOUS
  <2>1. access[flow[p].acc[1]]["xray"] = "pending"
    BY <1>1, <1>2, Working DEF CreateOn
  <2>2. f.acc # flow[p].acc
    BY <1>2
  <2> QED BY <1>2, <2>1, <2>2
<1>4. SameWork(p, f) /\ HoldsOp(p, f, rows) /\ f.pc \notin {"readLoad", "writeLoad"}
  BY <1>1, <1>2 DEF SameWork, HoldsOp, Holding
<1>5. CreateOn(f, table) /\ RevokeOn(f, table, m)
  BY <1>2, <1>3 DEF CreateOn, RevokeOn
<1> QED BY <1>2, <1>4, <1>5 DEF f

LEMMA LoadRead ==
    ASSUME IInv, NEW p \in Procs, ReadLoad(p)
    PROVE  IInv'
<1> DEFINE f == [flow[p] EXCEPT !.pc = "writeLoad", !.read = load[flow[p].node]]
<1>1. /\ flow[p].pc = "readLoad" /\ Becomes(p, f) /\ access' = access /\ op' = op /\ load' = load
      /\ UNCHANGED <<home, told, faults, muddled>>
  BY DEF ReadLoad, At, ghost
<1>2. flow[p] \in Flow /\ load[flow[p].node] \in Int /\ flow[p].acc \in Accesses
  BY <1>1, Working
<1>3. /\ f \in Flow /\ f.pc = "writeLoad" /\ f.kind = flow[p].kind /\ f.acc = flow[p].acc
      /\ f.node = flow[p].node /\ f.read = load[flow[p].node]
  BY <1>2 DEF Flow, Pcs
<1> HIDE DEF f
<1>4. SameWork(p, f) /\ OwnCells(p, access') /\ OwnRows(p, op') /\ HoldsOp(p, f, op')
  BY <1>1, <1>2, <1>3 DEF SameWork, OwnCells, OwnRows, HoldsOp, Holding
<1>5. CreateOn(f, access') /\ RevokeOn(f, access', muddled')
  BY <1>1, <1>3, Working DEF CreateOn, RevokeOn, Before
<1>6. CountedAlone' /\ Accounts'
  BY <1>1, <1>3, CountsAsBefore DEF Counting
<1> QED BY <1>1, <1>3, <1>4, <1>5, <1>6, Working, ProcMoves

LEMMA LoadWritten ==
    ASSUME IInv, NEW p \in Procs, WriteLoad(p)
    PROVE  IInv'
<1> DEFINE f == Continue(flow[p])
<1> DEFINE n == flow[p].node
<1> DEFINE v == IF flow[p].read + Delta(flow[p]) < 0 THEN 0 ELSE flow[p].read + Delta(flow[p])
<1>1. /\ flow[p].pc = "writeLoad" /\ Becomes(p, f) /\ access' = access /\ op' = op
      /\ load' = [load EXCEPT ![n] = v] /\ UNCHANGED <<home, told, faults, muddled>>
  BY DEF WriteLoad, At, UpdateLoad, ghost
<1>2. flow[p] \in Flow /\ n \in Nodes /\ flow[p].read \in Int
  BY <1>1, Working DEF Flow
<1>3. /\ f \in Flow /\ SameWork(p, f) /\ HoldsOp(p, f, op')
      /\ CreateOn(f, access') /\ RevokeOn(f, access', muddled')
      /\ f.pc \notin {"readLoad", "writeLoad"}
  BY <1>1, Working, ContinueKeeps
<1>4. v \in Nat
  BY <1>2 DEF Delta
<1> HIDE DEF f, v
<1>5. load' \in [Nodes -> Nat] /\ load'[n] = v /\ \A m \in Nodes \ {n} : load'[m] = load[m]
  BY <1>1, <1>2, <1>4, Working
<1>6. OwnCells(p, access') /\ OwnRows(p, op')
  BY <1>1 DEF OwnCells, OwnRows
<1>7. CountedAlone' /\ Accounts'
  <2> SUFFICES ASSUME ~muddled' PROVE CountedAlone' /\ Accounts'
    BY NotCounted
  <2>1. ~muddled /\ CountsOn(p, n)
    BY <1>1 DEF CountsOn, Counting
  <2>2. /\ flow'[p] = f /\ \A q \in Procs \ {p} : flow'[q] = flow[q]
    BY <1>1, <1>3, FlowAt DEF IInv
  <2>3. /\ \A m \in Nodes : ~CountsOn(p, m)'
        /\ \A q \in Procs \ {p} : \A m \in Nodes : CountsOn(q, m)' <=> CountsOn(q, m)
        /\ \A q \in Procs \ {p} : ~CountsOn(q, n)
    <3>1. \A q \in Procs \ {p} : ~CountsOn(q, n)
      BY <1>2, <2>1 DEF IInv, CountedAlone
    <3> QED BY <3>1, <2>2, <1>3 DEF CountsOn, Counting
  <2>4. CountedAlone'
    <3>1. ASSUME NEW q \in Procs, flow'[q].pc = "writeLoad"
          PROVE  flow'[q].read = load'[flow'[q].node]
      <4>1. q # p /\ flow'[q] = flow[q] /\ flow[q].pc = "writeLoad"
        BY <1>3, <2>2, <3>1
      <4>2. flow[q].node \in Nodes /\ flow[q].read = load[flow[q].node]
        BY <4>1, <2>1, Working DEF IInv, CountedAlone
      <4>3. flow[q].node # n
        BY <4>1, <2>3 DEF CountsOn, Counting
      <4> QED BY <4>1, <4>2, <4>3, <1>5
    <3>2. \A m \in Nodes : \A q, r \in Procs : CountsOn(q, m)' /\ CountsOn(r, m)' => q = r
      BY <2>1, <2>3 DEF IInv, CountedAlone
    <3> QED BY <3>1, <3>2 DEF CountedAlone
  <2>5. \A m \in Nodes : ActiveOn(m)' = ActiveOn(m)
    BY <1>1 DEF ActiveOn
  <2>6. Cardinality(ActiveOn(n)) = v
    <3>1. Cardinality(ActiveOn(n)) = load[n] + Delta(flow[p]) /\ flow[p].read = load[n]
      BY <1>1, <1>2, <2>1 DEF IInv, Accounts, CountedAlone
    <3>2. Cardinality(ActiveOn(n)) \in Nat
      BY <1>2, ActiveIsFinite
    <3> QED BY <3>1, <3>2 DEF v
  <2>7. ASSUME NEW m \in Nodes
        PROVE  /\ (\A q \in Procs : ~CountsOn(q, m)') => Cardinality(ActiveOn(m)') = load'[m]
               /\ \A q \in Procs : CountsOn(q, m)' =>
                     Cardinality(ActiveOn(m)') = load'[m] + Delta(flow'[q])
    <3>1. CASE m = n
      BY <3>1, <1>5, <2>3, <2>5, <2>6
    <3>2. CASE m # n
      <4>1. load'[m] = load[m]
        BY <1>5, <3>2
      <4>2. ~CountsOn(p, m)
        BY <3>2 DEF CountsOn
      <4> QED BY <4>1, <4>2, <2>1, <2>2, <2>3, <2>5 DEF IInv, Accounts
    <3> QED BY <3>1, <3>2
  <2> QED BY <2>4, <2>7 DEF Accounts
<1> QED BY <1>1, <1>3, <1>5, <1>6, <1>7, Working, ProcMoves

LEMMA AccessMarked ==
    ASSUME IInv, NEW p \in Procs, MarkAccess(p)
    PROVE  IInv'
<1> DEFINE f == [flow[p] EXCEPT !.pc = "readLoad"]
<1> DEFINE a == flow[p].acc
<1> DEFINE n == flow[p].node
<1> DEFINE s == IF flow[p].kind = "create" THEN "active" ELSE "revoked"
<1>0. flow[p] \in Flow /\ "readLoad" \in Pcs
  BY Working DEF Pcs
<1>1. /\ flow[p].pc = "mark" /\ Becomes(p, f) /\ SetAccess(a, s) /\ op' = op /\ load' = load
      /\ muddled' = (muddled \/ \E q \in Procs \ {p} : flow[q].node = n /\ Counting(q))
      /\ UNCHANGED <<home, told, faults>>
  BY DEF MarkAccess, At, Goto
<1>2. /\ f \in Flow /\ f.pc = "readLoad" /\ f.kind = flow[p].kind /\ f.acc = a /\ f.node = n
  BY <1>0, StageFields
<1>3. /\ flow[p].kind \in {"create", "revoke"} /\ a \in Accesses /\ n \in Nodes /\ home[a[1]] = n
      /\ flow[p].kind = "create" => access[a[1]][a[2]] = "pending"
      /\ flow[p].kind = "revoke" /\ ~muddled => access[a[1]][a[2]] = "active"
  BY <1>1, Working DEF CreateOn, RevokeOn, Before
<1>4. s \in {"active", "revoked"} /\ (s = "active" <=> flow[p].kind = "create")
  BY DEF s
<1> HIDE DEF f, a, s
<1>5. /\ access' \in AccessTable /\ access'[a[1]][a[2]] = s
      /\ \A b \in Accesses \ {a} : access'[b[1]][b[2]] = access[b[1]][b[2]]
  BY <1>1, <1>3, <1>4, CellSet, Working
<1>6. muddled' \in BOOLEAN /\ (muddled => muddled')
  <2>1. muddled \in BOOLEAN
    BY Working
  <2> QED BY <1>1, <2>1
<1>7. SameWork(p, f) /\ OwnRows(p, op') /\ HoldsOp(p, f, op') /\ OwnCells(p, access')
  BY <1>1, <1>2, <1>3, <1>4, <1>5 DEF SameWork, OwnRows, HoldsOp, Holding, OwnCells, a
<1>8. CreateOn(f, access') /\ RevokeOn(f, access', muddled')
  <2>1. f.kind = "create" /\ a[2] = "wireguard" => access'[a[1]]["xray"] = "pending"
    <3> SUFFICES ASSUME f.kind = "create", a[2] = "wireguard" PROVE access'[a[1]]["xray"] = "pending"
      OBVIOUS
    <3> DEFINE x == <<a[1], "xray">>
    <3>1. x \in Accesses /\ x[1] = a[1] /\ x[2] = "xray" /\ x # a
      BY <1>3, AccessFields DEF Accesses, Protocols
    <3>2. access[a[1]]["xray"] = "pending"
      BY <1>1, <1>2, Working DEF CreateOn, a
    <3> HIDE DEF x
    <3> QED BY <3>1, <3>2, <1>5
  <2> QED BY <2>1, <1>2, <1>3, <1>4, <1>5 DEF CreateOn, RevokeOn, Before
<1>9. ASSUME NEW b \in Accesses, access'[b[1]][b[2]] # access[b[1]][b[2]]
      PROVE  /\ access'[b[1]][b[2]] = "active" =>
                   \E o \in Ops : op'[o].acc = b /\ op'[o].kind = "create" /\ op'[o].st = "succeeded"
             /\ access'[b[1]][b[2]] = "error" => \E o \in Ops : op'[o].acc = b /\ op'[o].st = "failed"
  <2>1. b = a
    BY <1>5, <1>9
  <2>2. /\ flow[p].op \in Ops /\ op[flow[p].op].st = "succeeded"
        /\ op[flow[p].op].kind = flow[p].kind /\ op[flow[p].op].acc = a
    BY <1>1, OwnRow DEF Holding, OpStage, a
  <2> QED BY <1>1, <1>4, <1>5, <2>1, <2>2
<1>10. CountedAlone' /\ Accounts'
  <2> SUFFICES ASSUME ~muddled' PROVE CountedAlone' /\ Accounts'
    BY NotCounted
  <2>1. ~muddled /\ \A q \in Procs \ {p} : ~CountsOn(q, n)
    BY <1>1, <1>6 DEF CountsOn
  <2>2. /\ flow'[p] = f /\ \A q \in Procs \ {p} : flow'[q] = flow[q]
    BY <1>1, <1>2, FlowAt DEF IInv
  <2>3. /\ \A m \in Nodes : ~CountsOn(p, m) /\ (CountsOn(p, m)' <=> m = n)
        /\ \A q \in Procs \ {p} : \A m \in Nodes : CountsOn(q, m)' <=> CountsOn(q, m)
    BY <1>1, <1>2, <2>2 DEF CountsOn, Counting
  <2>4. CountedAlone'
    <3>1. \A q \in Procs : flow'[q].pc = "writeLoad" => flow'[q].read = load'[flow'[q].node]
      BY <1>1, <1>2, <2>1, <2>2 DEF IInv, CountedAlone
    <3>2. \A m \in Nodes : \A q, r \in Procs : CountsOn(q, m)' /\ CountsOn(r, m)' => q = r
      BY <2>1, <2>3 DEF IInv, CountedAlone
    <3> QED BY <3>1, <3>2 DEF CountedAlone
  <2>5. Cardinality(ActiveOn(n)) = load[n] /\ IsFiniteSet(ActiveOn(n)) /\ load[n] \in Nat
    BY <1>3, <2>1, <2>3, ActiveIsFinite, Working DEF IInv, Accounts
  <2>6. ASSUME NEW m \in Nodes, m = n
        PROVE  Cardinality(ActiveOn(m)') = load[m] + Delta(f)
    <3>1. CASE flow[p].kind = "create"
      <4>1. ActiveOn(m)' = ActiveOn(m) \cup {a} /\ a \notin ActiveOn(m)
        BY <1>1, <1>3, <1>4, <1>5, <2>6, <3>1 DEF ActiveOn
      <4> QED BY ZenonT(30), <1>2, <2>5, <2>6, <3>1, <4>1, FS_AddElement DEF Delta
    <3>2. CASE flow[p].kind = "revoke"
      <4>1. ActiveOn(m)' = ActiveOn(m) \ {a} /\ a \in ActiveOn(m)
        BY <1>1, <1>3, <1>4, <1>5, <2>1, <2>6, <3>2 DEF ActiveOn
      <4> QED BY <1>2, <2>5, <2>6, <3>2, <4>1, FS_RemoveElement DEF Delta
    <3> QED BY <1>3, <3>1, <3>2
  <2>7. \A m \in Nodes \ {n} : ActiveOn(m)' = ActiveOn(m)
    BY <1>1, <1>3, <1>5 DEF ActiveOn
  <2>8. ASSUME NEW m \in Nodes
        PROVE  /\ (\A q \in Procs : ~CountsOn(q, m)') => Cardinality(ActiveOn(m)') = load'[m]
               /\ \A q \in Procs : CountsOn(q, m)' =>
                     Cardinality(ActiveOn(m)') = load'[m] + Delta(flow'[q])
    <3>1. CASE m = n
      BY <3>1, <1>1, <2>1, <2>2, <2>3, <2>6
    <3>2. CASE m # n
      BY <3>2, <1>1, <2>1, <2>2, <2>3, <2>7 DEF IInv, Accounts
    <3> QED BY <3>1, <3>2
  <2> QED BY <2>4, <2>8 DEF Accounts
<1>11. load' \in [Nodes -> Nat] /\ op' \in [Ops -> OpRow] /\ faults' \in 0..MaxFaults
  BY <1>1, Working
<1> QED BY <1>1, <1>2, <1>5, <1>6, <1>7, <1>8, <1>9, <1>10, <1>11, ProcMoves
--------------------------------------------------------------------------------
(***************************************************************************)
(* The failures.                                                           *)
(***************************************************************************)
LEMMA FaultCounts ==
    ASSUME TypeOK, faults < MaxFaults, faults' = faults + 1
    PROVE  faults' \in 0..MaxFaults
BY BoundsAreNat DEF TypeOK

(* Nothing written but what p has of its own, and p is idle or goes on. *)
LEMMA GivesUp ==
    ASSUME IInv, NEW p \in Procs, Becomes(p, NoFlow), UNCHANGED <<home, load, op, told>>,
           access' \in AccessTable, OwnCells(p, access'),
           \A a \in Accesses : access'[a[1]][a[2]] # access[a[1]][a[2]] => access'[a[1]][a[2]] = "pending",
           faults' \in 0..MaxFaults, muddled' = TRUE
    PROVE  IInv'
<1>1. /\ NoFlow \in Flow /\ SameWork(p, NoFlow) /\ HoldsOp(p, NoFlow, op')
      /\ CreateOn(NoFlow, access') /\ RevokeOn(NoFlow, access', muddled')
  BY NoFlowFields DEF SameWork, HoldsOp, Holding, CreateOn, RevokeOn
<1>2. load' \in [Nodes -> Nat] /\ op' \in [Ops -> OpRow] /\ OwnRows(p, op')
  BY Working DEF OwnRows
<1>3. CountedAlone' /\ Accounts'
  BY NotCounted
<1> QED BY <1>1, <1>2, <1>3, ProcMoves

LEMMA InsertFailed ==
    ASSUME IInv, NEW p \in Procs, InsertFails(p)
    PROVE  IInv'
<1>1. /\ flow[p].pc = "insert" /\ Becomes(p, NoFlow) /\ faults < MaxFaults /\ faults' = faults + 1
      /\ muddled' = TRUE /\ UNCHANGED <<home, load, op, told>>
  BY DEF InsertFails, At
<1>2. /\ flow[p].kind = "create" /\ flow[p].acc \in Accesses
      /\ access[flow[p].acc[1]][flow[p].acc[2]] = "none"
  BY <1>1, Working, AccessFields DEF CreateOn, RevokeOn
<1>3. CASE UNCHANGED access
  BY <1>1, <1>3, Working, FaultCounts, GivesUp DEF OwnCells
<1>4. CASE SetAccess(flow[p].acc, "pending")
  <2>1. /\ access' \in AccessTable /\ access'[flow[p].acc[1]][flow[p].acc[2]] = "pending"
        /\ \A b \in Accesses \ {flow[p].acc} : access'[b[1]][b[2]] = access[b[1]][b[2]]
    BY <1>2, <1>4, CellSet, Working
  <2>2. OwnCells(p, access')
    BY <1>1, <1>2, <2>1 DEF OwnCells
  <2> QED BY <1>1, <2>1, <2>2, Working, FaultCounts, GivesUp
<1> QED BY <1>3, <1>4 DEF InsertFails

LEMMA StatementFailed ==
    ASSUME IInv, NEW p \in Procs, StatementFails(p)
    PROVE  IInv'
<1>1. /\ flow[p].pc \in Before \cup {"readLoad", "writeLoad"} /\ faults' \in 0..MaxFaults
      /\ muddled' = TRUE /\ UNCHANGED <<home, load, access, op, told>>
  BY Working, FaultCounts DEF StatementFails, Before, Pcs
<1>2. CASE Becomes(p, NoFlow)
  BY <1>1, <1>2, Working, GivesUp DEF OwnCells
<1>3. CASE Becomes(p, Continue(flow[p]))
  <2>1. /\ load' \in [Nodes -> Nat] /\ op' \in [Ops -> OpRow] /\ access' \in AccessTable
        /\ OwnCells(p, access') /\ OwnRows(p, op') /\ muddled' \in BOOLEAN
    BY <1>1, Working DEF OwnCells, OwnRows
  <2>2. /\ Continue(flow[p]) \in Flow /\ SameWork(p, Continue(flow[p]))
        /\ HoldsOp(p, Continue(flow[p]), op')
        /\ CreateOn(Continue(flow[p]), access') /\ RevokeOn(Continue(flow[p]), access', muddled')
    BY <1>1, <2>1, ContinueKeeps
  <2>3. CountedAlone' /\ Accounts'
    BY <1>1, NotCounted
  <2> QED BY <1>1, <1>3, <2>1, <2>2, <2>3, ProcMoves
<1> QED BY <1>2, <1>3 DEF StatementFails

LEMMA CallFailed ==
    ASSUME IInv, NEW p \in Procs, CallFails(p)
    PROVE  IInv'
<1> DEFINE a == flow[p].acc
<1> DEFINE o == flow[p].op
<1> DEFINE f == Continue(flow[p])
<1>1. /\ flow[p].pc = "call" /\ SetOp(o, "failed") /\ SetAccess(a, "error") /\ Becomes(p, f)
      /\ faults' \in 0..MaxFaults /\ muddled' = TRUE /\ load' = load /\ UNCHANGED <<home, told>>
  BY Working, FaultCounts DEF CallFails, At
<1>2. /\ a \in Accesses /\ flow[p].kind \in {"create", "revoke"}
      /\ flow[p].kind = "create" => access[a[1]][a[2]] = "pending"
  BY <1>1, Working DEF CreateOn, Before
<1>3. o \in Ops /\ OwnOp(p, o) /\ op[o].st = "running" /\ op[o].acc = a
  BY <1>1, OwnRow DEF Holding, OpStage
<1> HIDE DEF f, o
<1>4. /\ access' \in AccessTable /\ access'[a[1]][a[2]] = "error"
      /\ \A b \in Accesses \ {a} : access'[b[1]][b[2]] = access[b[1]][b[2]]
  BY <1>1, <1>2, CellSet, Working
<1>5. /\ op' \in [Ops -> OpRow] /\ \A x \in Ops \ {o} : op'[x] = op[x]
      /\ op'[o].st = "failed" /\ op'[o].acc = a
  <2>1. "failed" \in OpStatuses
    BY DEF OpStatuses
  <2>2. op \in [Ops -> OpRow]
    BY Working
  <2>3. /\ op' \in [Ops -> OpRow] /\ \A x \in Ops \ {o} : op'[x] = op[x]
        /\ op'[o] = [st |-> "failed", kind |-> op[o].kind, acc |-> op[o].acc]
    BY <1>1, <1>3, <2>1, <2>2, OpSet
  <2> QED BY <1>3, <2>3
<1>6. OwnCells(p, access') /\ OwnRows(p, op')
  BY <1>1, <1>2, <1>3, <1>4, <1>5 DEF OwnCells, OwnRows
<1>7. /\ f \in Flow /\ SameWork(p, f) /\ HoldsOp(p, f, op')
      /\ CreateOn(f, access') /\ RevokeOn(f, access', muddled')
  BY <1>1, <1>4, <1>5, ContinueKeeps DEF Before, f
<1>8. ASSUME NEW b \in Accesses, access'[b[1]][b[2]] # access[b[1]][b[2]]
      PROVE  /\ access'[b[1]][b[2]] = "error"
             /\ \E x \in Ops : op'[x].acc = b /\ op'[x].st = "failed"
  <2>1. b = a
    BY <1>4, <1>8
  <2> QED BY <1>3, <1>4, <1>5, <2>1
<1>9. CountedAlone' /\ Accounts' /\ load' \in [Nodes -> Nat]
  BY <1>1, NotCounted, Working
<1> QED BY <1>1, <1>4, <1>5, <1>6, <1>7, <1>8, <1>9, ProcMoves
--------------------------------------------------------------------------------
(***************************************************************************)
(* Beginnings, restarts and reports.                                       *)
(***************************************************************************)
LEMMA Begins ==
    ASSUME IInv, NEW p \in Procs, flow[p].pc = "idle", NEW f \in Flow, Becomes(p, f),
           f.pc \in {"insert", "queue"}, f.kind \in {"create", "revoke"},
           f.acc \in Accesses, f.node \in Nodes,
           load' = load, access' = access, op' = op, UNCHANGED <<told, faults>>,
           home' \in [Devices -> Nodes \cup {NoNode}], home'[f.acc[1]] = f.node,
           \A d \in Devices : /\ home[d] # NoNode => home'[d] = home[d]
                              /\ home'[d] = NoNode => home[d] = NoNode,
           \A n \in Nodes : ActiveOn(n)' = ActiveOn(n),
           muddled' \in BOOLEAN, muddled => muddled',
           CreateOn(f, access), RevokeOn(f, access, muddled'),
           f.kind = "create" => home[f.acc[1]] = NoNode,
           f.kind = "revoke" /\ ~muddled' => \A q \in Procs : ~(Busy(q, "revoke") /\ flow[q].acc = f.acc)
    PROVE  IInv'
<1>1. /\ flow' \in [Procs -> Flow] /\ flow'[p] = f
      /\ \A q \in Procs \ {p} : flow'[q] = flow[q]
  BY FlowAt DEF IInv
<1>2. TypeOK'
  BY <1>1 DEF IInv, TypeOK, told
<1>3. Unassigned'
  BY DEF IInv, Unassigned
<1>4. \A q \in Procs : flow[q].pc # "idle" => home[flow[q].acc[1]] # NoNode /\ flow[q].acc[1] \in Devices
  BY SingleIsNode, AccessFields DEF IInv, AtWork
<1>5. AtWork'
  <2>1. ASSUME NEW q \in Procs, flow'[q].pc # "idle"
        PROVE  /\ flow'[q].kind \in {"create", "revoke"} /\ flow'[q].acc \in Accesses
               /\ flow'[q].node \in Nodes /\ home'[flow'[q].acc[1]] = flow'[q].node
    <3>1. CASE q = p
      BY <1>1, <3>1
    <3>2. CASE q # p
      BY <1>1, <1>4, <2>1, <3>2, Working
    <3> QED BY <3>1, <3>2
  <2> QED BY <2>1 DEF AtWork
<1>6. CreatorsApart'
  <2>1. f.kind = "create" => \A q \in Procs : flow[q].pc # "idle" => flow[q].acc[1] # f.acc[1]
    BY <1>4
  <2> QED BY <1>1, <2>1 DEF IInv, CreatorsApart, Busy
<1>7. CreateGoesOn' /\ RevokeGoesOn'
  <2>1. ASSUME NEW q \in Procs \ {p}
        PROVE  CreateOn(flow'[q], access') /\ RevokeOn(flow'[q], access', muddled')
    BY <1>1, Working DEF RevokeOn
  <2> QED BY <1>1, <2>1 DEF CreateGoesOn, RevokeGoesOn
<1>8. RevokersApart'
  BY <1>1 DEF IInv, RevokersApart, Busy
<1>9. OpsHeld'
  <2>1. f.pc \notin Holding
    BY DEF Holding
  <2> QED BY <1>1, <2>1 DEF IInv, OpsHeld
<1>10. CountedAlone' /\ Accounts'
  BY CountsKept DEF Counting
<1>11. ActiveHasOperation' /\ ErrorHasFailure'
  BY DEF IInv, ActiveHasOperation, ErrorHasFailure
<1> QED BY <1>2, <1>3, <1>5, <1>6, <1>7, <1>8, <1>9, <1>10, <1>11 DEF IInv

LEMMA AssignedOne ==
    ASSUME IInv, NEW p \in Procs, Assign(p)
    PROVE  IInv'
<1>1. PICK d \in Devices, n \in Assigned :
          /\ home[d] = NoNode /\ home' = [home EXCEPT ![d] = n]
          /\ Becomes(p, [NoFlow EXCEPT !.pc = "insert", !.kind = "create",
                                       !.acc = <<d, "wireguard">>, !.node = n])
          /\ flow[p].pc = "idle"
          /\ load' = load /\ access' = access /\ op' = op /\ UNCHANGED <<told, faults, muddled>>
  BY DEF Assign, At, ghost
<1> DEFINE a == <<d, "wireguard">>
<1> DEFINE f == [NoFlow EXCEPT !.pc = "insert", !.kind = "create", !.acc = a, !.node = n]
<1>2. n \in Nodes /\ home \in [Devices -> Nodes \cup {NoNode}]
  BY DEF Assigned, IInv, TypeOK
<1>3. a \in Accesses /\ a[1] = d /\ a[2] = "wireguard"
  BY DEF Accesses, Protocols
<1>4. f \in Flow /\ f.pc = "insert" /\ f.kind = "create" /\ f.acc = a /\ f.node = n
  BY <1>2, <1>3, NoFlowFields DEF Flow, Pcs
<1>5. Becomes(p, f)
  BY <1>1
<1> HIDE DEF a, f
<1>6. /\ home' \in [Devices -> Nodes \cup {NoNode}] /\ home'[d] = n
      /\ \A e \in Devices \ {d} : home'[e] = home[e]
  BY <1>1, <1>2
<1>7. \A pr \in Protocols : access[d][pr] = "none"
  BY <1>1 DEF IInv, Unassigned
<1>8. \A m \in Nodes : ActiveOn(m)' = ActiveOn(m)
  <2>1. \A b \in Accesses : b[1] = d => access[b[1]][b[2]] # "active"
    BY <1>7, AccessFields
  <2>2. \A b \in Accesses : b[1] # d => home'[b[1]] = home[b[1]]
    BY <1>6, AccessFields
  <2> QED BY <1>1, <2>1, <2>2 DEF ActiveOn
<1>9. CreateOn(f, access) /\ RevokeOn(f, access, muddled')
  BY <1>3, <1>4, <1>7 DEF CreateOn, RevokeOn, Before
<1>10. muddled' \in BOOLEAN /\ muddled' = muddled
  BY <1>1, Working
<1>11. /\ load' = load /\ access' = access /\ op' = op /\ UNCHANGED <<told, faults>>
       /\ flow[p].pc = "idle" /\ home[d] = NoNode
  BY <1>1
<1> QED BY <1>2, <1>3, <1>4, <1>5, <1>6, <1>8, <1>9, <1>10, <1>11, Begins

LEMMA Picked ==
    ASSUME IInv, NEW p \in Procs, Pick(p)
    PROVE  IInv'
<1>1. PICK a \in Accesses :
          /\ access[a[1]][a[2]] = "active" /\ flow[p].pc = "idle"
          /\ Becomes(p, [NoFlow EXCEPT !.pc = "queue", !.kind = "revoke", !.acc = a,
                                       !.node = home[a[1]]])
          /\ muddled' = (muddled \/ \E q \in Procs : flow[q].kind = "revoke" /\ flow[q].acc = a)
          /\ load' = load /\ home' = home /\ access' = access /\ op' = op /\ UNCHANGED <<told, faults>>
  BY DEF Pick, At
<1> DEFINE f == [NoFlow EXCEPT !.pc = "queue", !.kind = "revoke", !.acc = a, !.node = home[a[1]]]
<1>2. home[a[1]] \in Nodes /\ home \in [Devices -> Nodes \cup {NoNode}]
  BY <1>1, AccessFields DEF IInv, TypeOK, Unassigned
<1>3. f \in Flow /\ f.pc = "queue" /\ f.kind = "revoke" /\ f.acc = a /\ f.node = home[a[1]]
  BY <1>2, NoFlowFields DEF Flow, Pcs
<1>4. Becomes(p, f)
  BY <1>1
<1> HIDE DEF f
<1>5. \A m \in Nodes : ActiveOn(m)' = ActiveOn(m)
  BY <1>1 DEF ActiveOn
<1>6. CreateOn(f, access) /\ RevokeOn(f, access, muddled')
  BY <1>1, <1>3 DEF CreateOn, RevokeOn
<1>7. muddled' \in BOOLEAN /\ (muddled => muddled')
  <2>1. muddled \in BOOLEAN
    BY Working
  <2> QED BY <1>1, <2>1
<1>8. ~muddled' => \A q \in Procs : ~(Busy(q, "revoke") /\ flow[q].acc = a)
  BY <1>1 DEF Busy
<1> QED BY <1>1, <1>2, <1>3, <1>4, <1>5, <1>6, <1>7, <1>8, Begins

LEMMA Restarted ==
    ASSUME IInv, Restart
    PROVE  IInv'
<1>1. /\ flow' = [p \in Procs |-> NoFlow] /\ faults' \in 0..MaxFaults /\ muddled' = TRUE
      /\ UNCHANGED <<load, home, access, op, told>>
  BY FaultCounts DEF Restart, IInv
<1>2. \A p \in Procs : flow'[p].pc = "idle" /\ flow'[p] \in Flow
  BY <1>1, NoFlowFields
<1>3. TypeOK'
  BY <1>1, <1>2, NoFlowFields DEF IInv, TypeOK, told
<1>4. Unassigned' /\ ActiveHasOperation' /\ ErrorHasFailure'
  BY <1>1 DEF IInv, Unassigned, ActiveHasOperation, ErrorHasFailure
<1>5. AtWork' /\ CreatorsApart' /\ CreateGoesOn' /\ RevokeGoesOn' /\ OpsHeld'
  BY <1>2 DEF AtWork, CreatorsApart, CreateGoesOn, CreateOn, RevokeGoesOn, RevokeOn, OpsHeld, Busy, Holding
<1>6. RevokersApart' /\ CountedAlone' /\ Accounts'
  BY <1>1 DEF RevokersApart, CountedAlone, Accounts
<1> QED BY <1>3, <1>4, <1>5, <1>6 DEF IInv

(* A report names an operation there is no row of, and changes no row but  *)
(* its own. *)
LEMMA Reported ==
    ASSUME IInv, NEW a \in Accesses, NEW entry \in {"ok", "error", "none"}, Report(a, entry)
    PROVE  IInv'
<1>1. op' = op
  <2>1. Settled(ReconcileId, entry) = op
    BY ForeignId DEF Settled, IInv, TypeOK
  <2> QED BY <2>1 DEF Report
<1>2. UNCHANGED <<load, home, access, flow, faults, muddled>>
  BY DEF Report, ghost
<1>3. TypeOK'
  <2>1. report' \in [Accesses -> {"none", "success", "failed"}]
    BY DEF Report, Stored, IInv, TypeOK
  <2>2. failed' \in SUBSET Accesses /\ reports' \in 0..MaxReports
    BY BoundsAreNat DEF Report, IInv, TypeOK
  <2>3. muddled' \in BOOLEAN
    BY <1>2, Working, Zenon DEF IInv, TypeOK
  <2> QED BY <1>1, <1>2, <2>1, <2>2, <2>3 DEF IInv, TypeOK
<1>4. Unassigned' /\ AtWork' /\ CreatorsApart' /\ CreateGoesOn' /\ RevokeGoesOn' /\ RevokersApart'
  BY <1>2
  DEF IInv, Unassigned, AtWork, CreatorsApart, CreateGoesOn, CreateOn, RevokeGoesOn, RevokeOn,
      RevokersApart, Busy
<1>5. OpsHeld' /\ ActiveHasOperation' /\ ErrorHasFailure'
  BY <1>1, <1>2 DEF IInv, OpsHeld, ActiveHasOperation, ErrorHasFailure
<1>6. CountedAlone' /\ Accounts'
  BY <1>2 DEF IInv, CountedAlone, Accounts, CountsOn, Counting, ActiveOn
<1> QED BY <1>3, <1>4, <1>5, <1>6 DEF IInv

LEMMA Unmoved ==
    ASSUME IInv, UNCHANGED vars
    PROVE  IInv'
<1>1. UNCHANGED <<load, home, access, op, report, flow, faults, reports, failed, muddled>>
  BY DEF vars
<1>2. TypeOK' /\ Unassigned' /\ AtWork'
  BY <1>1 DEF IInv, TypeOK, Unassigned, AtWork
<1>3. CreatorsApart' /\ CreateGoesOn' /\ RevokeGoesOn' /\ RevokersApart'
  BY <1>1
  DEF IInv, CreatorsApart, CreateGoesOn, CreateOn, RevokeGoesOn, RevokeOn, RevokersApart, Busy
<1>4. OpsHeld' /\ ActiveHasOperation' /\ ErrorHasFailure'
  BY <1>1 DEF IInv, OpsHeld, ActiveHasOperation, ErrorHasFailure
<1>5. CountedAlone' /\ Accounts'
  BY <1>1 DEF IInv, CountedAlone, Accounts, CountsOn, Counting, ActiveOn
<1> QED BY <1>2, <1>3, <1>4, <1>5 DEF IInv
--------------------------------------------------------------------------------
(***************************************************************************)
(* The theorem.                                                            *)
(***************************************************************************)
LEMMA Starts == Init => IInv
<1> SUFFICES ASSUME Init PROVE IInv
  OBVIOUS
<1>1. \A p \in Procs : flow[p] = NoFlow
  BY DEF Init
<1>2. NoOp \in OpRow
  BY DEF NoOp, OpRow, OpStatuses, OpTypes
<1>3. TypeOK
  <2>1. muddled \in BOOLEAN
    BY Zenon DEF Init
  <2>2. access \in [Devices -> [Protocols -> {"none", "pending", "active", "error", "revoked"}]]
    BY DEF Init
  <2>3. load \in [Nodes -> Nat] /\ home \in [Devices -> Nodes \cup {NoNode}] /\ op \in [Ops -> OpRow]
    BY <1>2 DEF Init
  <2>4. report \in [Accesses -> {"none", "success", "failed"}] /\ flow \in [Procs -> Flow]
    BY NoFlowFields DEF Init
  <2>5. faults \in 0..MaxFaults /\ reports \in 0..MaxReports /\ failed \in SUBSET Accesses
    BY BoundsAreNat DEF Init
  <2> QED BY <2>1, <2>2, <2>3, <2>4, <2>5 DEF TypeOK
<1>4. access \in AccessTable /\ \A a \in Accesses : access[a[1]][a[2]] = "none"
  BY AccessFields DEF Init, AccessTable
<1>5. Unassigned /\ ActiveHasOperation /\ ErrorHasFailure
  BY <1>4 DEF Init, Unassigned, ActiveHasOperation, ErrorHasFailure
<1>6. AtWork /\ CreatorsApart /\ CreateGoesOn /\ RevokeGoesOn /\ RevokersApart /\ OpsHeld /\ CountedAlone
  BY <1>1, NoFlowFields
  DEF AtWork, CreatorsApart, CreateGoesOn, CreateOn, RevokeGoesOn, RevokeOn, RevokersApart,
      OpsHeld, CountedAlone, CountsOn, Counting, Busy, Holding
<1>7. Accounts
  <2>1. \A n \in Nodes : ActiveOn(n) = {} /\ \A p \in Procs : ~CountsOn(p, n)
    BY <1>1, <1>4, NoFlowFields DEF ActiveOn, CountsOn, Counting
  <2> QED BY <2>1, FS_EmptySet DEF Init, Accounts
<1> QED BY <1>3, <1>5, <1>6, <1>7 DEF IInv

LEMMA Inductive == IInv /\ [Next]_vars => IInv'
<1> SUFFICES ASSUME IInv, [Next]_vars PROVE IInv'
  OBVIOUS
<1>1. CASE \E p \in Procs : Assign(p) \/ Pick(p)
  BY <1>1, AssignedOne, Picked
<1>2. CASE \E p \in Procs : Step(p)
  BY <1>2, Inserted, Queued, Executed, AccessMarked, LoadRead, LoadWritten DEF Step
<1>3. CASE \E p \in Procs : Fail(p)
  BY <1>3, InsertFailed, CallFailed, StatementFailed DEF Fail
<1>4. CASE Restart
  BY <1>4, Restarted
<1>5. CASE \E a \in Accesses, entry \in {"ok", "error", "none"} : Report(a, entry)
  BY <1>5, Reported
<1>6. CASE UNCHANGED vars
  BY <1>6, Unmoved
<1> QED BY <1>1, <1>2, <1>3, <1>4, <1>5, <1>6 DEF Next

(* At most one goroutine owes a node its load, so the counts are of sets   *)
(* with one member or none.                                                *)
LEMMA LoadFollows == IInv => LoadCounts
<1> SUFFICES ASSUME IInv, ~muddled, NEW n \in Nodes
             PROVE  load[n] + Cardinality(Owing(n, "create"))
                       = Cardinality(ActiveOn(n)) + Cardinality(Owing(n, "revoke"))
  BY DEF LoadCounts
<1>1. load[n] \in Nat /\ Cardinality(ActiveOn(n)) \in Nat
  BY ActiveIsFinite DEF IInv, TypeOK
<1>2. CASE \A p \in Procs : ~CountsOn(p, n)
  <2>1. Owing(n, "create") = {} /\ Owing(n, "revoke") = {}
    BY <1>2 DEF Owing, CountsOn
  <2> QED BY <1>1, <1>2, <2>1, FS_EmptySet DEF IInv, Accounts
<1>3. CASE \E p \in Procs : CountsOn(p, n)
  <2>1. PICK p \in Procs : CountsOn(p, n)
    BY <1>3
  <2>2. Cardinality(ActiveOn(n)) = load[n] + Delta(flow[p]) /\ flow[p].kind \in {"create", "revoke"}
    BY <2>1, Working DEF IInv, Accounts, CountsOn, Counting
  <2>3. \A q \in Procs : CountsOn(q, n) => q = p
    BY <2>1 DEF IInv, CountedAlone
  <2>4. CASE flow[p].kind = "create"
    <3>1. Owing(n, "create") = {p} /\ Owing(n, "revoke") = {}
      BY <2>1, <2>3, <2>4 DEF Owing, CountsOn
    <3>2. Cardinality(Owing(n, "create")) = 1 /\ Cardinality(Owing(n, "revoke")) = 0
      BY <3>1, FS_EmptySet, FS_Singleton
    <3>3. Delta(flow[p]) = 1
      BY <2>4 DEF Delta
    <3> QED BY <1>1, <2>2, <3>2, <3>3
  <2>5. CASE flow[p].kind = "revoke"
    <3>1. Owing(n, "revoke") = {p} /\ Owing(n, "create") = {}
      BY <2>1, <2>3, <2>5 DEF Owing, CountsOn
    <3>2. Cardinality(Owing(n, "revoke")) = 1 /\ Cardinality(Owing(n, "create")) = 0
      BY <3>1, FS_EmptySet, FS_Singleton
    <3>3. Delta(flow[p]) = -1
      BY <2>5 DEF Delta
    <3> QED BY <1>1, <2>2, <3>2, <3>3
  <2> QED BY <2>2, <2>4, <2>5
<1> QED BY <1>2, <1>3

(* Whatever fails, restarts or is reported: an active access has the create*)
(* operation that made it so and one in error its failed operation, and    *)
(* until something failed or flows overlapped on a node, the load of a node*)
(* is the number of its active accesses but for the goroutine that is about*)
(* to write it.                                                            *)
THEOREM StoryHolds == Spec => []RowsAgree
<1>1. IInv => RowsAgree
  BY LoadFollows DEF IInv, RowsAgree
<1> QED BY <1>1, Starts, Inductive, PTL DEF Spec

--------------------------------------------------------------------------------
(***************************************************************************)
(* The status of the nodes, which NodeOperations leaves out: NodeFleet,    *)
(* with the variables MCNodeOperations gives it.                           *)
(***************************************************************************)

(* A node nobody has blamed is well: its agent is up, its containers       *)
(* answer, no heartbeat on the wire says otherwise, and no goroutine of the*)
(* poll is about to write otherwise. *)
NodeWell(n) ==
    /\ fleetStatus[n] # "down" /\ fleetAgent[n].pc # "off" /\ fleetRuntimeOK[n]
    /\ "unhealthy" \notin fleetWire[n]
    /\ fleetPoll[n].pc = "write" => fleetPoll[n].target # "down"

FleetInv == Fleet!BoundsAreNat /\ Fleet!TypeOK /\ \A n \in Nodes \ fleetBlamed : NodeWell(n)

NodeTyped(n) ==
    /\ fleetStatus[n] \in Fleet!Statuses /\ fleetAgent[n] \in Fleet!Loop /\ fleetRuntimeOK[n] \in BOOLEAN
    /\ fleetWire[n] \in SUBSET Fleet!Requests /\ fleetPoll[n] \in Fleet!Poller

FleetCounted == fleetFaults \in 0..MaxFaults /\ fleetEdits \in 0..MaxAdmin /\ fleetBlamed \in SUBSET Nodes

(* What a step changes, it changes of node n only. *)
OnlyAtNode(n) ==
    /\ fleetStatus' = [fleetStatus EXCEPT ![n] = fleetStatus'[n]]
    /\ fleetAgent' = [fleetAgent EXCEPT ![n] = fleetAgent'[n]]
    /\ fleetRuntimeOK' = [fleetRuntimeOK EXCEPT ![n] = fleetRuntimeOK'[n]]
    /\ fleetWire' = [fleetWire EXCEPT ![n] = fleetWire'[n]]
    /\ fleetPoll' = [fleetPoll EXCEPT ![n] = fleetPoll'[n]]

(* Such a step keeps the invariant if it does at node n.                   *)
LEMMA FleetMoves ==
    ASSUME FleetInv, NEW n \in Nodes, OnlyAtNode(n), NodeTyped(n)', FleetCounted', fleetBlamed \subseteq fleetBlamed',
           n \in fleetBlamed' \/ NodeWell(n)'
    PROVE  FleetInv'
<1>1. Fleet!TypeOK'
  BY DEF FleetInv, Fleet!TypeOK, NodeTyped, FleetCounted, OnlyAtNode
<1>2. ASSUME NEW m \in Nodes \ fleetBlamed', m # n PROVE NodeWell(m)'
  <2>1. /\ fleetStatus'[m] = fleetStatus[m] /\ fleetAgent'[m] = fleetAgent[m] /\ fleetRuntimeOK'[m] = fleetRuntimeOK[m]
        /\ fleetWire'[m] = fleetWire[m] /\ fleetPoll'[m] = fleetPoll[m]
    BY <1>2 DEF FleetInv, Fleet!TypeOK, OnlyAtNode
  <2> QED BY <1>2, <2>1 DEF FleetInv, NodeWell
<1> QED BY <1>1, <1>2 DEF FleetInv

(* What is known of a node and of the counts before a step. *)
LEMMA FleetAsItIs ==
    ASSUME FleetInv, NEW n \in Nodes
    PROVE  NodeTyped(n) /\ FleetCounted /\ (n \in fleetBlamed \/ NodeWell(n))
  BY DEF FleetInv, Fleet!TypeOK, NodeTyped, FleetCounted

(* A fault is counted, and blamed on its node. *)
LEMMA FleetBlames ==
    ASSUME FleetInv, NEW n \in Nodes, Fleet!Fault(n)
    PROVE  fleetFaults' \in 0..MaxFaults /\ fleetBlamed' \in SUBSET Nodes /\ fleetBlamed \subseteq fleetBlamed' /\ n \in fleetBlamed'
  BY DEF FleetInv, Fleet!TypeOK, Fleet!Fault, Fleet!BoundsAreNat

(* The agent of a node goes from one place to another. *)
LEMMA AgentGoes ==
    ASSUME FleetInv, NEW n \in Nodes, NEW pc \in Fleet!AgentPcs, Fleet!Goto(n, pc)
    PROVE  /\ fleetAgent' = [fleetAgent EXCEPT ![n] = fleetAgent'[n]] /\ fleetAgent'[n] \in Fleet!Loop
           /\ fleetAgent'[n].pc = pc
<1>1. fleetAgent \in [Nodes -> Fleet!Loop]
  BY DEF FleetInv, Fleet!TypeOK
<1>2. /\ [fleetAgent[n] EXCEPT !.pc = pc] \in Fleet!Loop /\ [fleetAgent[n] EXCEPT !.pc = pc].pc = pc
  BY <1>1 DEF Fleet!Loop
<1>3. fleetAgent' = [fleetAgent EXCEPT ![n] = [fleetAgent[n] EXCEPT !.pc = pc]]
  BY DEF Fleet!Goto
<1> QED BY <1>1, <1>2, <1>3

(* Where the agent goes after an answer. *)
LEMMA AgentPlaces ==
    /\ {"pass", "check", "fetch"} \subseteq Fleet!AgentPcs
    /\ \A n \in Nodes : Fleet!Waiting(n) => Fleet!NextPc(n) \in {"pass", "check", "fetch"}
<1>1. ASSUME NEW n \in Nodes, Fleet!Waiting(n)
      PROVE  Fleet!NextPc(n) \in {"pass", "check", "fetch"}
  <2>1. CASE fleetAgent[n].pc = "bootWait"
    BY <2>1 DEF Fleet!NextPc
  <2>2. CASE fleetAgent[n].pc = "passWait"
    BY <2>2 DEF Fleet!NextPc
  <2>3. CASE fleetAgent[n].pc = "beatWait"
    BY <2>3 DEF Fleet!NextPc
  <2> QED BY <1>1, <2>1, <2>2, <2>3 DEF Fleet!Waiting
<1> QED BY <1>1 DEF Fleet!AgentPcs

(* The agent of a node posts a request: "unhealthy" only when it is. *)
LEMMA AgentPosts ==
    ASSUME FleetInv, NEW n \in Nodes, NEW r \in Fleet!Requests, NEW pc \in Fleet!AgentPcs,
           Fleet!Post(n, r, pc), pc # "off", r = "unhealthy" => ~fleetRuntimeOK[n],
           UNCHANGED <<fleetStatus, fleetRuntimeOK, fleetPoll, Fleet!ghost>>
    PROVE  FleetInv'
<1>1. /\ fleetAgent \in [Nodes -> Fleet!Loop] /\ fleetWire \in [Nodes -> SUBSET Fleet!Requests]
      /\ fleetStatus \in [Nodes -> Fleet!Statuses] /\ fleetPoll \in [Nodes -> Fleet!Poller]
      /\ fleetRuntimeOK \in [Nodes -> BOOLEAN]
  BY DEF FleetInv, Fleet!TypeOK
<1>2. /\ fleetAgent' = [fleetAgent EXCEPT ![n] = [fleetAgent[n] EXCEPT !.pc = pc, !.sent = r]]
      /\ fleetWire' = [fleetWire EXCEPT ![n] = fleetWire[n] \cup {r}]
  BY DEF Fleet!Post
<1>3. fleetAgent'[n] \in Fleet!Loop /\ fleetAgent'[n].pc = pc
  <2>1. /\ [fleetAgent[n] EXCEPT !.pc = pc, !.sent = r] \in Fleet!Loop
        /\ [fleetAgent[n] EXCEPT !.pc = pc, !.sent = r].pc = pc
    BY <1>1 DEF Fleet!Loop
  <2> QED BY <1>1, <1>2, <2>1
<1>4. OnlyAtNode(n) /\ NodeTyped(n)' /\ FleetCounted' /\ (n \in fleetBlamed' \/ NodeWell(n)')
  BY <1>1, <1>2, <1>3, FleetAsItIs DEF OnlyAtNode, NodeTyped, FleetCounted, NodeWell, Fleet!ghost
<1> QED BY <1>4, FleetMoves DEF Fleet!ghost

LEMMA AgentSteps == ASSUME FleetInv, NEW n \in Nodes, Fleet!AgentStep(n) PROVE FleetInv'
<1>1. CASE Fleet!PostRegister(n)
  <2>1. PICK pc \in {"bootWait", "passWait"} : Fleet!Post(n, "register", pc)
    BY <1>1 DEF Fleet!PostRegister
  <2> QED BY <1>1, <2>1, AgentPosts DEF Fleet!PostRegister, Fleet!Requests, Fleet!AgentPcs
<1>2. CASE Fleet!PostHeartbeat(n)
  <2>1. PICK r \in {"active", "unhealthy"} :
            Fleet!Post(n, r, "beatWait") /\ (r = "unhealthy" => ~fleetRuntimeOK[n])
    BY <1>2 DEF Fleet!PostHeartbeat, Fleet!Health
  <2> QED BY <1>2, <2>1, AgentPosts DEF Fleet!PostHeartbeat, Fleet!Requests, Fleet!AgentPcs
<1>3. CASE Fleet!BeginPass(n) \/ Fleet!Fetch(n)
  <2>1. PICK pc \in {"pass", "check"} : Fleet!Goto(n, pc)
    BY <1>3 DEF Fleet!BeginPass, Fleet!Fetch
  <2>2. UNCHANGED <<fleetStatus, fleetRuntimeOK, fleetWire, fleetPoll, fleetFaults, fleetEdits, fleetBlamed>>
    BY <1>3 DEF Fleet!BeginPass, Fleet!Fetch, Fleet!ghost
  <2>3. OnlyAtNode(n) /\ NodeTyped(n)' /\ FleetCounted' /\ (n \in fleetBlamed' \/ NodeWell(n)')
    BY <2>1, <2>2, AgentPlaces, AgentGoes, FleetAsItIs DEF OnlyAtNode, NodeTyped, FleetCounted, NodeWell, FleetInv, Fleet!TypeOK
  <2> QED BY <2>2, <2>3, FleetMoves
<1> QED BY <1>1, <1>2, <1>3 DEF Fleet!AgentStep

(* Whether a request of the agent is handled or lost: the agent goes on if *)
(* it waits for it.                                                        *)
LEMMA AgentAnswers ==
    ASSUME FleetInv, NEW n \in Nodes, NEW r \in Fleet!Requests,
           \/ Fleet!Answer(n, r)
           \/ Fleet!Waiting(n) /\ Fleet!Goto(n, Fleet!NextPc(n))
           \/ UNCHANGED fleetAgent
    PROVE  /\ fleetAgent' = [fleetAgent EXCEPT ![n] = fleetAgent'[n]] /\ fleetAgent'[n] \in Fleet!Loop
           /\ fleetAgent'[n].pc = "off" => fleetAgent[n].pc = "off"
<1>1. fleetAgent \in [Nodes -> Fleet!Loop] /\ fleetAgent[n] \in Fleet!Loop
  BY DEF FleetInv, Fleet!TypeOK
<1>2. CASE UNCHANGED fleetAgent
  BY <1>1, <1>2
<1>3. CASE Fleet!Waiting(n) /\ Fleet!Goto(n, Fleet!NextPc(n))
  <2>1. Fleet!NextPc(n) \in Fleet!AgentPcs /\ Fleet!NextPc(n) # "off"
    BY <1>3, AgentPlaces
  <2> QED BY <1>3, <2>1, AgentGoes
<1>4. CASE Fleet!Waiting(n) /\ Fleet!Answer(n, r) /\ fleetAgent[n].sent = r
  <2>1. PICK b \in BOOLEAN :
            fleetAgent' = [fleetAgent EXCEPT ![n] = [fleetAgent[n] EXCEPT !.pc = Fleet!NextPc(n), !.registered = b]]
    <3>1. (fleetAgent[n].registered \/ r = "register") \in BOOLEAN
      OBVIOUS
    <3> QED BY <1>4, <3>1 DEF Fleet!Answer
  <2>2. Fleet!NextPc(n) \in Fleet!AgentPcs /\ Fleet!NextPc(n) # "off"
    BY <1>4, AgentPlaces
  <2>3. /\ [fleetAgent[n] EXCEPT !.pc = Fleet!NextPc(n), !.registered = b] \in Fleet!Loop
        /\ [fleetAgent[n] EXCEPT !.pc = Fleet!NextPc(n), !.registered = b].pc # "off"
    BY <1>1, <2>2 DEF Fleet!Loop
  <2> QED BY <1>1, <2>1, <2>2, <2>3
<1> QED BY <1>2, <1>3, <1>4 DEF Fleet!Answer

(* A request is handled. *)
LEMMA FleetHandles ==
    ASSUME FleetInv, NEW n \in Nodes, NEW r \in Fleet!Requests, Fleet!Handle(n, r)
    PROVE  FleetInv'
<1>1. /\ r \in fleetWire[n] /\ fleetWire' = [fleetWire EXCEPT ![n] = fleetWire[n] \ {r}]
      /\ UNCHANGED <<fleetRuntimeOK, fleetPoll, fleetFaults, fleetEdits, fleetBlamed>> /\ Fleet!Answer(n, r)
  BY DEF Fleet!Handle, Fleet!ghost
<1>2. fleetStatus' = [fleetStatus EXCEPT ![n] = fleetStatus'[n]] /\ fleetStatus'[n] \in Fleet!Statuses
      /\ (fleetStatus'[n] = fleetStatus[n] \/ fleetStatus'[n] = Fleet!StatusOf(r))
  BY DEF Fleet!Handle, Fleet!WriteRow, Fleet!StatusOf, Fleet!Statuses, FleetInv, Fleet!TypeOK
<1>3. fleetStatus'[n] = "down" => fleetStatus[n] = "down" \/ r = "unhealthy"
  BY <1>2 DEF Fleet!StatusOf
<1>4. OnlyAtNode(n) /\ NodeTyped(n)' /\ FleetCounted' /\ (n \in fleetBlamed' \/ NodeWell(n)')
  BY <1>1, <1>2, <1>3, AgentAnswers, FleetAsItIs DEF OnlyAtNode, NodeTyped, FleetCounted, NodeWell, FleetInv, Fleet!TypeOK
<1> QED BY <1>1, <1>4, FleetMoves

(* A fault at a node is blamed on it, so only the types are left to show.  *)
LEMMA NodeFaults ==
    ASSUME FleetInv, NEW n \in Nodes, Fleet!FaultStep(n)
    PROVE  FleetInv'
<1> USE DEF FleetInv, Fleet!TypeOK
<1>1. CASE Fleet!Fault(n)
  <2>1. fleetBlamed' \in SUBSET Nodes /\ fleetBlamed \subseteq fleetBlamed' /\ n \in fleetBlamed' /\ fleetFaults' \in 0..MaxFaults
    BY <1>1, FleetBlames
  <2>2. SUFFICES OnlyAtNode(n) /\ NodeTyped(n)' /\ fleetEdits' = fleetEdits
    BY <2>1, <2>2, FleetMoves, FleetAsItIs DEF FleetCounted
  <2>3. CASE Fleet!TimeOut(n)
    BY <2>3, AgentAnswers, FleetAsItIs DEF Fleet!TimeOut, OnlyAtNode, NodeTyped, Fleet!Requests
  <2>4. CASE Fleet!FetchFails(n)
    <3>1. fleetAgent' = [fleetAgent EXCEPT ![n] = [fleetAgent[n] EXCEPT !.pc = "pass", !.registered = FALSE]]
      BY <2>4 DEF Fleet!FetchFails
    <3>2. [fleetAgent[n] EXCEPT !.pc = "pass", !.registered = FALSE] \in Fleet!Loop
      BY AgentPlaces DEF Fleet!Loop
    <3> QED BY <2>4, <3>1, <3>2, FleetAsItIs DEF Fleet!FetchFails, OnlyAtNode, NodeTyped
  <2>5. CASE Fleet!CheckFails(n)
    <3>1. PICK pc \in {"idle", "write"} : fleetPoll' = [fleetPoll EXCEPT ![n] = [fleetPoll[n] EXCEPT !.pc = pc, !.target = "down"]]
      BY <2>5 DEF Fleet!CheckFails, Fleet!Checked
    <3>2. [fleetPoll[n] EXCEPT !.pc = pc, !.target = "down"] \in Fleet!Poller
      BY FleetAsItIs DEF Fleet!Poller, Fleet!Statuses, NodeTyped
    <3> QED BY <2>5, <3>1, <3>2, FleetAsItIs DEF Fleet!CheckFails, OnlyAtNode, NodeTyped
  <2>6. CASE \E r \in Fleet!Requests : Fleet!Lose(n, r)
    <3>1. PICK r \in Fleet!Requests : Fleet!Lose(n, r)
      BY <2>6
    <3> QED BY <3>1, AgentAnswers, FleetAsItIs DEF Fleet!Lose, OnlyAtNode, NodeTyped
  <2>7. CASE Fleet!Crash(n)
    <3>1. [Fleet!Booted EXCEPT !.pc = "off"] \in Fleet!Loop
      BY DEF Fleet!Booted, Fleet!Loop, Fleet!AgentPcs, Fleet!Requests
    <3> QED BY <2>7, <3>1, FleetAsItIs DEF Fleet!Crash, OnlyAtNode, NodeTyped
  <2>8. CASE Fleet!RuntimeFails(n)
    BY <2>8, FleetAsItIs DEF Fleet!RuntimeFails, OnlyAtNode, NodeTyped
  <2>9. CASE Fleet!Boot(n) \/ Fleet!RuntimeRecovers(n)
    <3>1. fleetFaults' = fleetFaults /\ fleetFaults' = fleetFaults + 1
      BY <1>1, <2>9 DEF Fleet!Boot, Fleet!RuntimeRecovers, Fleet!ghost, Fleet!Fault
    <3> QED BY <3>1 DEF Fleet!BoundsAreNat
  <2> QED BY <2>3, <2>4, <2>5, <2>6, <2>7, <2>8, <2>9 DEF Fleet!FaultStep
<1>2. CASE Fleet!Boot(n)
  <2>1. Fleet!Booted \in Fleet!Loop /\ Fleet!Booted.pc # "off"
    BY DEF Fleet!Booted, Fleet!Loop, Fleet!AgentPcs, Fleet!Requests
  <2>2. OnlyAtNode(n) /\ NodeTyped(n)' /\ FleetCounted' /\ (n \in fleetBlamed' \/ NodeWell(n)') /\ fleetBlamed' = fleetBlamed
    BY <1>2, <2>1, FleetAsItIs DEF Fleet!Boot, OnlyAtNode, NodeTyped, FleetCounted, NodeWell, Fleet!ghost
  <2> QED BY <2>2, FleetMoves
<1>3. CASE Fleet!RuntimeRecovers(n)
  <2>1. OnlyAtNode(n) /\ NodeTyped(n)' /\ FleetCounted' /\ (n \in fleetBlamed' \/ NodeWell(n)') /\ fleetBlamed' = fleetBlamed
    BY <1>3, FleetAsItIs DEF Fleet!RuntimeRecovers, OnlyAtNode, NodeTyped, FleetCounted, NodeWell, Fleet!ghost
  <2> QED BY <2>1, FleetMoves
<1> QED BY <1>1, <1>2, <1>3 DEF Fleet!FaultStep, Fleet!TimeOut, Fleet!FetchFails, Fleet!CheckFails,
            Fleet!Lose, Fleet!Crash, Fleet!RuntimeFails

(* The poll finds down only a node whose agent is off. *)
LEMMA FleetPollSteps == ASSUME FleetInv, NEW n \in Nodes, Fleet!PollStep(n) PROVE FleetInv'
<1> USE DEF FleetInv, Fleet!TypeOK
<1>1. CASE Fleet!CheckNode(n)
  <2>1. PICK pc \in {"idle", "write"}, t \in {"active", "down"} :
            /\ fleetPoll' = [fleetPoll EXCEPT ![n] = [fleetPoll[n] EXCEPT !.pc = pc, !.target = t]]
            /\ t = "down" => ~Fleet!Up(n)
    BY <1>1 DEF Fleet!CheckNode, Fleet!Checked
  <2>2. /\ [fleetPoll[n] EXCEPT !.pc = pc, !.target = t] \in Fleet!Poller
        /\ [fleetPoll[n] EXCEPT !.pc = pc, !.target = t].target = t
    BY FleetAsItIs DEF Fleet!Poller, Fleet!Statuses, NodeTyped
  <2>3. OnlyAtNode(n) /\ NodeTyped(n)' /\ FleetCounted' /\ (n \in fleetBlamed' \/ NodeWell(n)') /\ fleetBlamed' = fleetBlamed
    BY <1>1, <2>1, <2>2, FleetAsItIs DEF Fleet!CheckNode, OnlyAtNode, NodeTyped, FleetCounted, NodeWell, Fleet!ghost, Fleet!Up
  <2> QED BY <2>3, FleetMoves
<1>2. CASE Fleet!PollWrite(n)
  <2>1. Fleet!NoPoll \in Fleet!Poller /\ Fleet!NoPoll.pc = "idle"
    BY DEF Fleet!NoPoll, Fleet!Poller, Fleet!Statuses
  <2>2. fleetPoll[n].target \in Fleet!Statuses
    BY DEF Fleet!Poller
  <2>3. OnlyAtNode(n) /\ NodeTyped(n)' /\ FleetCounted' /\ (n \in fleetBlamed' \/ NodeWell(n)') /\ fleetBlamed' = fleetBlamed
    BY <1>2, <2>1, <2>2, FleetAsItIs DEF Fleet!PollWrite, Fleet!WriteRow, OnlyAtNode, NodeTyped, FleetCounted, NodeWell, Fleet!ghost
  <2> QED BY <2>3, FleetMoves
<1> QED BY <1>1, <1>2 DEF Fleet!PollStep

(* A start of the control plane takes down others, and blames them. *)
LEMMA ManyNodesAtOnce ==
    ASSUME FleetInv, Fleet!PollList \/ Fleet!EnsureSingleNode
    PROVE  FleetInv'
<1> USE DEF FleetInv, Fleet!TypeOK, NodeWell
<1>1. Fleet!NoPoll \in Fleet!Poller /\ Fleet!NoPoll.pc = "idle"
  BY DEF Fleet!NoPoll, Fleet!Poller, Fleet!Statuses
<1>2. CASE Fleet!PollList
  <2>1. \A n \in Nodes : [Fleet!NoPoll EXCEPT !.pc = "check", !.listed = fleetStatus[n]] \in Fleet!Poller
    BY DEF Fleet!NoPoll, Fleet!Poller, Fleet!Statuses
  <2>2. \A n \in Nodes : [Fleet!NoPoll EXCEPT !.pc = "check", !.listed = fleetStatus[n]].pc = "check"
    BY DEF Fleet!NoPoll
  <2>3. fleetPoll' \in [Nodes -> Fleet!Poller] /\ \A n \in Nodes : fleetPoll'[n].pc # "write"
    BY <1>1, <1>2, <2>1, <2>2 DEF Fleet!PollList
  <2> QED BY <1>2, <2>3 DEF Fleet!PollList, Fleet!ghost
<1>3. CASE Fleet!EnsureSingleNode
  <2>1. fleetStatus' \in [Nodes -> Fleet!Statuses] /\ \A n \in Nodes : fleetStatus'[n] = "down" => n \in fleetBlamed'
    BY <1>3 DEF Fleet!EnsureSingleNode, Fleet!Statuses
  <2>2. fleetPoll' \in [Nodes -> Fleet!Poller] /\ \A n \in Nodes : fleetPoll'[n].pc # "write"
    BY <1>1, <1>3 DEF Fleet!EnsureSingleNode
  <2>3. fleetFaults' \in 0..MaxFaults /\ fleetBlamed' \in SUBSET Nodes /\ fleetBlamed \subseteq fleetBlamed'
    BY <1>3 DEF Fleet!EnsureSingleNode, Fleet!BoundsAreNat
  <2> QED BY <1>3, <2>1, <2>2, <2>3 DEF Fleet!EnsureSingleNode
<1> QED BY <1>2, <1>3

LEMMA FleetAdminSteps ==
    ASSUME FleetInv, NEW n \in Nodes, Fleet!AdminDisable(n) \/ Fleet!AdminEnable(n)
    PROVE  FleetInv'
<1>1. PICK s \in {"draining", "active"} : Fleet!SetNodeLifecycle(n, s)
  BY DEF Fleet!AdminDisable, Fleet!AdminEnable
<1>2. OnlyAtNode(n) /\ NodeTyped(n)' /\ FleetCounted' /\ n \in fleetBlamed' /\ fleetBlamed \subseteq fleetBlamed'
  BY <1>1, FleetAsItIs DEF Fleet!SetNodeLifecycle, Fleet!WriteRow, OnlyAtNode, NodeTyped, FleetCounted,
     FleetInv, Fleet!TypeOK, Fleet!Statuses, Fleet!BoundsAreNat
<1> QED BY <1>2, FleetMoves

LEMMA FleetStarts == Fleet!BoundsAreNat /\ Fleet!Init => FleetInv
<1>1. Fleet!NoPoll \in Fleet!Poller /\ Fleet!NoPoll.pc = "idle"
  BY DEF Fleet!NoPoll, Fleet!Poller, Fleet!Statuses
<1>2. Fleet!Booted \in Fleet!Loop /\ Fleet!Booted.pc = "boot"
  BY DEF Fleet!Booted, Fleet!Loop, Fleet!AgentPcs, Fleet!Requests
<1> QED BY <1>1, <1>2 DEF Fleet!Init, FleetInv, Fleet!TypeOK, NodeWell, Fleet!Statuses, Fleet!BoundsAreNat

LEMMA FleetGoesOn == FleetInv /\ [Fleet!Next]_(Fleet!vars) => FleetInv'
<1> SUFFICES ASSUME FleetInv, [Fleet!Next]_(Fleet!vars) PROVE FleetInv'
  OBVIOUS
<1>1. CASE UNCHANGED Fleet!vars
  BY <1>1 DEF Fleet!vars, FleetInv, Fleet!TypeOK, NodeWell
<1>2. CASE Fleet!Next
  BY <1>2, AgentSteps, FleetHandles, FleetPollSteps, NodeFaults, FleetAdminSteps, ManyNodesAtOnce DEF Fleet!Next, Fleet!HandleStep
<1> QED BY <1>1, <1>2

(* However heartbeats, the poll, admins and starts of the control plane     *)
(* interleave, a node is down only after something happened to that node.  *)
THEOREM NodesDownForAReason == Fleet!Spec => []DownIsExplained
<1>1. FleetInv => DownIsExplained
  BY DEF FleetInv, NodeWell, DownIsExplained, Fleet!DownIsExplained, Fleet!DownIsBlamed, Fleet!TypeOK
<1>2. Fleet!BoundsAreNat
  BY PartsAssume
<1> QED BY <1>1, <1>2, FleetStarts, FleetGoesOn, PTL DEF Fleet!Spec

--------------------------------------------------------------------------------
(***************************************************************************)
(* What requests of the nodes pass before they are handled, for which      *)
(* NodeOperations has none: Guard, with the variables and constants        *)
(* MCNodeOperations gives it in the scene "gate"; in its other scenes the  *)
(* same variables are those of a Guard with other constants.               *)
(***************************************************************************)

(* The numbers are numbers, at least one request is let in, and marks last *)
(* as long as requests are young. *)
GateNumbers ==
    Gate!NumbersAreNat /\ Gate!LimitPositive /\ Gate!MarkCoversSkew

(* The requests of the current window are the last that were let in, and   *)
(* those before the window before it came long ago. *)
WindowOpen == guardBucket.reset - Window

WindowsApart ==
    /\ \A i, j \in 1..Len(guardTaken) : i <= j => guardTaken[i] <= guardTaken[j]
    /\ \A i \in 1..Len(guardTaken) : guardTaken[i] <= guardNow
    /\ guardBucket.count <= Len(guardTaken)
    /\ guardBucket.count = 0 => Len(guardTaken) = 0 /\ guardBucket.reset = -1
    /\ guardBucket.count > 0 => guardTaken[Len(guardTaken) - guardBucket.count + 1] = WindowOpen
    /\ \A i \in 1..Len(guardTaken) - guardBucket.count - Limit : guardTaken[i] < WindowOpen - Window

(* A clock that is not ahead stamps nothing that is to come.               *)
StampsPast == Gate!OnTime => \A r \in GateRequests : guardStamp[r] <= guardNow

(* Who was checked was young then, and is marked in the same second when   *)
(* nothing is late.                                                        *)
CheckedYoung ==
    \A c \in Copies :
        /\ guardCopy[c].pc # "none" => guardCopy[c].req \in GateRequests /\ guardStamp[guardCopy[c].req] >= 0
        /\ Gate!OnTime /\ guardCopy[c].pc = "checked" => guardCopy[c].at = guardNow /\ Gate!Young(guardCopy[c].req)

(* The last mark of a request that was handled; it was made before.        *)
MarksStand(r) ==
    LET s == guardHandled[r]
    IN  /\ Len(s) > 0 => guardMark[r] = s[Len(s)] + MarkTTL /\ guardStamp[r] # -1
        /\ Len(s) = 0 => guardMark[r] = -1
        /\ \A i, j \in 1..Len(s) : i <= j => s[i] <= s[j]
        /\ \A i \in 1..Len(s) : s[i] <= guardNow /\ (Gate!OnTime => guardStamp[r] <= s[i])

GuardInv ==
    /\ GateNumbers /\ Gate!TypeOK /\ WindowsApart /\ StampsPast /\ CheckedYoung
    /\ \A r \in GateRequests : MarksStand(r)
    /\ Gate!TwiceTheLimit /\ Gate!RefusedOnlyWhenBusy /\ Gate!HandledOnce /\ Gate!HandledApart

(* A sequence of which one more is told, and what it holds.                *)
LEMMA Appended ==
    ASSUME NEW S, NEW s \in Seq(S), NEW e \in S
    PROVE  /\ Append(s, e) \in Seq(S)
           /\ Len(s) \in Nat /\ DOMAIN s = 1..Len(s) /\ \A i \in 1..Len(s) : s[i] \in S
           /\ Len(Append(s, e)) = Len(s) + 1
           /\ DOMAIN Append(s, e) = 1..Len(s) + 1
           /\ Append(s, e)[Len(s) + 1] = e
           /\ \A i \in 1..Len(s) : Append(s, e)[i] = s[i]
  OBVIOUS

(* What a sequence holds.                                                  *)
LEMMA Elements ==
    ASSUME NEW S, NEW s \in Seq(S)
    PROVE  Len(s) \in Nat /\ \A i \in 1..Len(s) : s[i] \in S
  OBVIOUS

(* Where the windows lie in the n requests that were let in, the last b of *)
(* them in the current one.                                                *)
LEMMA BeforeTheWindow ==
    ASSUME NEW n \in Nat, NEW l \in Nat, NEW b \in 0..l, l > 0
    PROVE  /\ \A i \in 1..n + 1 : i \in 1..n \/ i = n + 1
           /\ \A i \in 1..n : i + 1 \in 1..n + 1 /\ i \in 1..n + 1
           /\ \A i \in 1..n + 1 : i + 2 * l = n + 1 => i = n + 1 - 2 * l
           /\ n + 1 - 2 * l > 0 => n + 1 - 2 * l \in 1..n - l
           /\ n + 1 - 2 * l > 0 /\ b < l => n + 1 - 2 * l \in 1..n - b - l
           /\ \A i \in 1..n - l : i \in 1..n /\ i < n - b + 1
           /\ \A i \in 1..n - b - l : i \in 1..n
           /\ b > 0 /\ b <= n => n - b + 1 \in 1..n
           /\ n + 1 - 1 - l = n - l /\ n + 1 - 1 + 1 = n + 1
           /\ n + 1 - (b + 1) + 1 = n - b + 1 /\ n + 1 - (b + 1) - l = n - b - l
  OBVIOUS

(* A request that is let in opens a window, or falls into the open one.    *)
LEMMA LetIn ==
    ASSUME GateNumbers, Gate!TypeOK, WindowsApart, Gate!TwiceTheLimit,
           Gate!allow(TRUE), guardTaken' = Append(guardTaken, guardNow), guardNow' = guardNow
    PROVE  /\ guardBucket' \in [count: 0..Limit, reset: -1..MaxTime + Window]
           /\ WindowsApart' /\ Gate!TwiceTheLimit'
<1>0. PICK n \in Nat : n = Len(guardTaken)
  BY DEF Gate!TypeOK
<1>1. /\ Limit \in Nat /\ Window \in Nat /\ MaxTime \in Nat /\ Limit > 0
      /\ guardNow \in 0..MaxTime /\ guardTaken \in Seq(0..MaxTime) /\ Len(guardTaken) = n
      /\ guardBucket \in [count: 0..Limit, reset: -1..MaxTime + Window]
      /\ guardBucket.count \in 0..Limit /\ guardBucket.reset \in -1..MaxTime + Window
  BY <1>0 DEF GateNumbers, Gate!NumbersAreNat, Gate!LimitPositive, Gate!TypeOK, Gate!Times
<1>a. guardBucket.count \in 0..Limit
  BY <1>1
<1>b. /\ \A i \in 1..n + 1 : i \in 1..n \/ i = n + 1
      /\ \A i \in 1..n : i \in 1..n + 1
  BY <1>1, <1>a, BeforeTheWindow
<1>2. /\ Len(guardTaken') = n + 1 /\ guardTaken'[n + 1] = guardNow
      /\ \A i \in 1..n : guardTaken'[i] = guardTaken[i] /\ guardTaken[i] \in 0..MaxTime
  <2>1. guardTaken \in Seq(0..MaxTime) /\ guardNow \in 0..MaxTime /\ Len(guardTaken) = n
    BY <1>1
  <2>2. Len(Append(guardTaken, guardNow)) = n + 1
    BY <2>1, Appended
  <2>3. Append(guardTaken, guardNow)[n + 1] = guardNow
    BY <2>1, Appended
  <2>4. \A i \in 1..n : Append(guardTaken, guardNow)[i] = guardTaken[i]
    BY <2>1, Appended
  <2>5. \A i \in 1..n : guardTaken[i] \in 0..MaxTime
    BY <2>1, Appended
  <2> QED BY <2>2, <2>3, <2>4, <2>5
<1>3. \A i, j \in 1..Len(guardTaken') : i <= j => guardTaken'[i] <= guardTaken'[j]
  <2> SUFFICES ASSUME NEW i \in 1..n + 1, NEW j \in 1..n + 1, i <= j PROVE guardTaken'[i] <= guardTaken'[j]
    BY <1>2
  <2>1. \A k \in 1..n : guardTaken[k] <= guardNow /\ guardTaken[k] \in Int
    BY <1>1, <1>2 DEF WindowsApart
  <2>2. CASE j \in 1..n
    BY SMTT(30), <1>1, <1>2, <1>b, <2>2 DEF WindowsApart
  <2>3. CASE j = n + 1
    BY <1>1, <1>2, <1>b, <2>1, <2>3
  <2> QED BY <1>b, <2>2, <2>3
<1>4. \A i \in 1..Len(guardTaken') : guardTaken'[i] <= guardNow'
  BY <1>1, <1>2 DEF WindowsApart
<1>5. Gate!TwiceTheLimit' <=> \A i \in 1..n + 1 : i + 2 * Limit \in 1..n + 1 => guardTaken'[i + 2 * Limit] - guardTaken'[i] > Window
  <2>1. DOMAIN guardTaken' = 1..n + 1
    BY <1>1
  <2> QED BY <2>1, <1>1, <1>2 DEF Gate!TwiceTheLimit
<1>6. \A i \in 1..n : i + 2 * Limit \in 1..n => guardTaken'[i + 2 * Limit] - guardTaken'[i] > Window
  <2>1. DOMAIN guardTaken = 1..n
    BY <1>1
  <2> QED BY <2>1, <1>1, <1>2 DEF Gate!TwiceTheLimit
<1>7. SUFFICES ASSUME TRUE
               PROVE  /\ guardBucket' \in [count: 0..Limit, reset: -1..MaxTime + Window]
                      /\ guardBucket'.count <= n + 1
                      /\ guardBucket'.count > 0 /\ guardTaken'[n + 1 - guardBucket'.count + 1] = guardBucket'.reset - Window
                      /\ \A i \in 1..(n + 1) - guardBucket'.count - Limit : guardTaken'[i] < guardBucket'.reset - Window - Window
                      /\ n + 1 - 2 * Limit > 0 => guardNow - guardTaken'[n + 1 - 2 * Limit] > Window
  <2>1. \A i \in 1..n + 1 : i + 2 * Limit = n + 1 => i = n + 1 - 2 * Limit
    BY <1>1, <1>a, BeforeTheWindow
  <2>2. WindowsApart'
    <3>1. guardBucket'.count \in 0..Limit /\ guardBucket'.reset \in Int /\ guardBucket'.count # 0
      BY <1>1, <1>7
    <3>2. guardBucket'.count <= Len(guardTaken') /\ guardBucket'.count # 0
      BY <1>2, <1>7, <3>1
    <3>3. guardTaken'[Len(guardTaken') - guardBucket'.count + 1] = guardBucket'.reset - Window
      BY <1>2, <1>7
    <3>4. \A i \in 1..Len(guardTaken') - guardBucket'.count - Limit : guardTaken'[i] < guardBucket'.reset - Window - Window
      <4>1. Len(guardTaken') = n + 1
        BY <1>2
      <4> QED BY <1>7, <4>1
    <3> QED BY <1>3, <1>4, <3>1, <3>2, <3>3, <3>4 DEF WindowsApart, WindowOpen
  <2>3. ASSUME NEW i \in 1..n + 1, i + 2 * Limit \in 1..n + 1
        PROVE  guardTaken'[i + 2 * Limit] - guardTaken'[i] > Window
    <3>1. CASE i + 2 * Limit = n + 1
      BY <1>2, <1>7, <2>1, <3>1
    <3>2. CASE i + 2 * Limit \in 1..n
      <4>1. i \in 1..n
        BY <1>1, <3>2
      <4> QED BY <1>2, <1>6, <3>2, <4>1
    <3> QED BY <1>b, <2>3, <3>1, <3>2
  <2> QED BY <1>5, <1>7, <2>2, <2>3
<1>8. CASE guardNow > guardBucket.reset /\ guardBucket' = [count |-> 1, reset |-> guardNow + Window]
  <2>1. guardBucket'.count = 1 /\ guardBucket'.reset = guardNow + Window
    BY <1>8
  <2>2. \A i \in 1..n - Limit : guardTaken[i] < guardNow - Window
    <3> SUFFICES ASSUME NEW i \in 1..n - Limit PROVE guardTaken[i] < guardNow - Window
      OBVIOUS
    <3>1. n > 0 /\ guardBucket.count > 0 /\ guardBucket.count <= n
      BY <1>1 DEF WindowsApart
    <3>2. n - guardBucket.count + 1 \in 1..n /\ i \in 1..n /\ i <= n - guardBucket.count + 1
      BY SMTT(30), <1>1, <3>1
    <3>3. guardTaken[i] <= guardBucket.reset - Window
      BY <1>1, <3>1, <3>2 DEF WindowsApart, WindowOpen
    <3>4. guardTaken[i] \in Int /\ guardBucket.reset \in Int /\ Window \in Int /\ guardNow \in Int
      BY <1>1, <1>2, <3>2
    <3> QED BY <1>8, <3>3, <3>4
  <2>3. \A i \in 1..n + 1 - 1 - Limit : guardTaken'[i] < guardNow + Window - Window - Window
    BY <1>1, <1>2, <1>a, <2>2, BeforeTheWindow
  <2>4. n + 1 - 2 * Limit > 0 => n + 1 - 2 * Limit \in 1..n - Limit
    BY <1>1, <1>a, BeforeTheWindow
  <2>5. n + 1 - 2 * Limit > 0 => guardNow - guardTaken'[n + 1 - 2 * Limit] > Window
    <3> SUFFICES ASSUME n + 1 - 2 * Limit \in 1..n - Limit PROVE guardNow - guardTaken'[n + 1 - 2 * Limit] > Window
      BY <2>4
    <3>1. n + 1 - 2 * Limit \in 1..n /\ guardTaken[n + 1 - 2 * Limit] < guardNow - Window
      BY <1>1, <1>a, <2>2, BeforeTheWindow
    <3>2. guardTaken'[n + 1 - 2 * Limit] = guardTaken[n + 1 - 2 * Limit] /\ guardTaken[n + 1 - 2 * Limit] \in Int
      BY <1>2, <3>1
    <3> QED BY <1>1, <3>1, <3>2, SMTT(30)
  <2>6. guardBucket' \in [count: 0..Limit, reset: -1..MaxTime + Window]
    <3>1. 1 \in 0..Limit /\ guardNow + Window \in -1..MaxTime + Window
      BY <1>1
    <3> QED BY <1>8, <3>1
  <2>7. guardBucket'.count <= n + 1 /\ guardBucket'.count > 0
    BY <2>1
  <2>8. guardTaken'[n + 1 - guardBucket'.count + 1] = guardBucket'.reset - Window
    <3>1. n + 1 - guardBucket'.count + 1 = n + 1
      BY <2>1
    <3>2. guardBucket'.reset - Window = guardNow
      BY <1>1, <2>1
    <3> QED BY <1>2, <3>1, <3>2
  <2>9. \A i \in 1..(n + 1) - guardBucket'.count - Limit : guardTaken'[i] < guardBucket'.reset - Window - Window
    <3>1. /\ (n + 1) - guardBucket'.count - Limit = n + 1 - 1 - Limit
          /\ guardBucket'.reset - Window - Window = guardNow + Window - Window - Window
      BY <1>1, <2>1
    <3>2. ASSUME NEW i \in 1..(n + 1) - guardBucket'.count - Limit
          PROVE  guardTaken'[i] < guardBucket'.reset - Window - Window
      <4>1. i \in 1..n + 1 - 1 - Limit
        BY <3>1
      <4>2. guardTaken'[i] < guardNow + Window - Window - Window
        BY <2>3, <4>1
      <4> QED BY <3>1, <4>2
    <3> QED BY <3>2
  <2> QED BY <2>5, <2>6, <2>7, <2>8, <2>9
<1>9. CASE /\ guardNow <= guardBucket.reset /\ guardBucket.count < Limit
           /\ guardBucket' = [guardBucket EXCEPT !.count = @ + 1]
  <2>1. guardBucket' = [count |-> guardBucket.count + 1, reset |-> guardBucket.reset]
    BY <1>1, <1>9
  <2>2. guardBucket.count > 0 /\ guardBucket.count <= n
    BY <1>1, <1>9 DEF WindowsApart
  <2>3. n - guardBucket.count + 1 \in 1..n
    BY <1>1, <2>2, SMTT(30)
  <2>4. guardTaken[n - guardBucket.count + 1] = guardBucket.reset - Window /\ guardBucket.reset - Window <= guardNow
    BY <1>1, <2>2, <2>3 DEF WindowsApart, WindowOpen
  <2>5. n + 1 - (guardBucket.count + 1) + 1 = n - guardBucket.count + 1 /\ n + 1 - (guardBucket.count + 1) - Limit = n - guardBucket.count - Limit
    BY <1>1, <1>a, BeforeTheWindow
  <2>6. \A i \in 1..n - guardBucket.count - Limit : i \in 1..n /\ guardTaken[i] < guardBucket.reset - Window - Window
    BY <1>1, <1>a, BeforeTheWindow DEF WindowsApart, WindowOpen
  <2>7. n + 1 - 2 * Limit > 0 => n + 1 - 2 * Limit \in 1..n - guardBucket.count - Limit
    <3>1. guardBucket.count < Limit /\ Limit \in Nat /\ Limit > 0
      BY <1>1, <1>9
    <3> QED BY <1>a, <3>1, BeforeTheWindow
  <2>8. n + 1 - 2 * Limit > 0 => guardNow - guardTaken'[n + 1 - 2 * Limit] > Window
    <3> SUFFICES ASSUME n + 1 - 2 * Limit \in 1..n - guardBucket.count - Limit
                 PROVE  guardNow - guardTaken'[n + 1 - 2 * Limit] > Window
      BY <2>7
    <3>1. n + 1 - 2 * Limit \in 1..n /\ guardTaken[n + 1 - 2 * Limit] < guardBucket.reset - Window - Window
      BY <2>6
    <3>2. guardTaken'[n + 1 - 2 * Limit] = guardTaken[n + 1 - 2 * Limit] /\ guardTaken[n + 1 - 2 * Limit] \in Int
      BY <1>2, <3>1
    <3>3. Window \in Nat /\ guardNow \in Int /\ guardBucket.reset \in Int
      BY <1>1
    <3>4. guardTaken[n + 1 - 2 * Limit] < guardNow - Window
      <4>1. \A x, r, w, t \in Int : x < r - w - w /\ r - w <= t => x < t - w
        OBVIOUS
      <4> QED BY <2>4, <3>1, <3>2, <3>3, <4>1, SMTT(30)
    <3> QED BY <3>2, <3>3, <3>4
  <2>9. guardBucket'.count = guardBucket.count + 1 /\ guardBucket'.reset = guardBucket.reset
    BY <2>1
  <2>10. guardBucket' \in [count: 0..Limit, reset: -1..MaxTime + Window]
    <3>1. guardBucket.count + 1 \in 0..Limit
      BY <1>1, <1>a, <1>9
    <3> QED BY <1>1, <2>1, <3>1
  <2>11. guardBucket'.count <= n + 1 /\ guardBucket'.count > 0
    BY <1>a, <2>2, <2>9
  <2>12. guardTaken'[n + 1 - guardBucket'.count + 1] = guardBucket'.reset - Window
    BY <1>2, <2>3, <2>4, <2>5, <2>9
  <2>13. \A i \in 1..(n + 1) - guardBucket'.count - Limit : guardTaken'[i] < guardBucket'.reset - Window - Window
    <3>1. (n + 1) - guardBucket'.count - Limit = n - guardBucket.count - Limit
      BY <1>1, <1>a, <2>9
    <3> QED BY <1>2, <2>6, <2>9, <3>1
  <2> QED BY <2>8, <2>10, <2>11, <2>12, <2>13
<1>10. CASE guardNow > guardBucket.reset /\ guardBucket' = [count |-> 1, reset |-> Gate!WindowEnd]
  BY <1>8, <1>10 DEF Gate!WindowEnd
<1>11. CASE guardNow <= guardBucket.reset /\ ~Gate!Full /\ guardBucket' = [guardBucket EXCEPT !.count = @ + 1]
  <2>1. guardBucket.count \in Int /\ Limit \in Int
    BY <1>1, <1>a
  <2>2. guardBucket.count < Limit
    BY <1>11, <2>1 DEF Gate!Full
  <2> QED BY <1>9, <1>11, <2>2
<1> QED BY <1>10, <1>11 DEF Gate!allow

(* A request that is refused meets a window that is full.                  *)
LEMMA TurnedAway ==
    ASSUME GateNumbers, Gate!TypeOK, WindowsApart, Gate!RefusedOnlyWhenBusy,
           Gate!allow(FALSE), UNCHANGED <<guardTaken, guardNow>>, guardRefused' = guardRefused \cup {guardNow}
    PROVE  guardBucket' = guardBucket /\ Gate!RefusedOnlyWhenBusy'
<1>1. /\ Limit \in Nat /\ Window \in Nat /\ MaxTime \in Nat /\ Limit > 0
      /\ guardNow \in 0..MaxTime /\ guardTaken \in Seq(0..MaxTime) /\ Len(guardTaken) \in Nat
      /\ DOMAIN guardTaken = 1..Len(guardTaken)
      /\ guardBucket.count \in 0..Limit /\ guardBucket.reset \in -1..MaxTime + Window
  BY DEF GateNumbers, Gate!NumbersAreNat, Gate!LimitPositive, Gate!TypeOK, Gate!Times
<1>2. guardNow <= guardBucket.reset /\ guardBucket.count = Limit /\ guardBucket' = guardBucket
  BY <1>1 DEF Gate!allow, Gate!Full, Gate!AfterRefusal
<1>3. Len(guardTaken) - Limit + 1 \in 1..Len(guardTaken) /\ Len(guardTaken) - Limit + 1 + Limit - 1 = Len(guardTaken)
  BY <1>1, <1>2 DEF WindowsApart
<1>4. guardTaken[Len(guardTaken) - Limit + 1] = guardBucket.reset - Window /\ guardTaken[Len(guardTaken)] <= guardNow
  BY <1>1, <1>2, <1>3 DEF WindowsApart, WindowOpen
<1>s. Len(guardTaken) - Limit + 1 + Limit - 1 = Len(guardTaken)
  BY <1>3
<1>5. /\ Len(guardTaken) - Limit + 1 \in DOMAIN guardTaken
      /\ Len(guardTaken) - Limit + 1 + Limit - 1 \in DOMAIN guardTaken
      /\ guardNow - Window <= guardTaken[Len(guardTaken) - Limit + 1]
      /\ guardTaken[Len(guardTaken) - Limit + 1 + Limit - 1] <= guardNow
  <2>1. guardNow - Window <= guardBucket.reset - Window /\ Len(guardTaken) \in 1..Len(guardTaken)
    BY <1>1, <1>2, <1>3
  <2> QED BY <1>1, <1>3, <1>4, <1>s, <2>1
<1>6. \A t \in guardRefused' : t \in guardRefused \/ t = guardNow
  OBVIOUS
<1>7. SUFFICES ASSUME NEW t \in guardRefused'
               PROVE  \E i \in DOMAIN guardTaken : /\ i + Limit - 1 \in DOMAIN guardTaken
                                                   /\ t - Window <= guardTaken[i] /\ guardTaken[i + Limit - 1] <= t
  BY <1>2 DEF Gate!RefusedOnlyWhenBusy
<1>8. CASE t = guardNow
  BY <1>5, <1>8
<1>9. CASE t \in guardRefused
  BY <1>9 DEF Gate!RefusedOnlyWhenBusy
<1> QED BY <1>6, <1>8, <1>9

(* What is not handled now is as it was.                                   *)
LEMMA MarksGoOn ==
    ASSUME NEW r \in GateRequests, Gate!TypeOK, MarksStand(r), guardNow' \in Nat, guardNow <= guardNow',
           guardHandled'[r] = guardHandled[r], guardMark'[r] = guardMark[r],
           guardStamp[r] # -1 => guardStamp'[r] = guardStamp[r]
    PROVE  MarksStand(r)'
<1>1. guardHandled[r] \in Seq(0..MaxTime) /\ guardNow \in Int
  BY DEF Gate!TypeOK, Gate!Times
<1>2. \A i \in 1..Len(guardHandled[r]) : guardHandled[r][i] \in 0..MaxTime
  BY <1>1, Elements
<1>3. Len(guardHandled[r]) \in Nat
  BY <1>1
<1> DEFINE s == guardHandled[r]
<1>4. /\ Len(s) > 0 => guardMark'[r] = s[Len(s)] + MarkTTL /\ guardStamp[r] # -1
      /\ Len(s) = 0 => guardMark'[r] = -1
      /\ \A i, j \in 1..Len(s) : i <= j => s[i] <= s[j]
      /\ \A i \in 1..Len(s) : s[i] <= guardNow /\ (Gate!OnTime => guardStamp[r] <= s[i])
  BY DEF MarksStand
<1>5. Len(s) > 0 => guardStamp'[r] = guardStamp[r]
  BY <1>4
<1>6. \A i \in 1..Len(s) : s[i] <= guardNow' /\ (Gate!OnTime => guardStamp'[r] <= s[i])
  BY <1>1, <1>2, <1>3, <1>4, <1>5
<1>7. Gate!OnTime' <=> Gate!OnTime
  BY DEF Gate!OnTime
<1> HIDE DEF s
<1>8. guardHandled'[r] = s
  BY DEF s
<1> QED BY <1>4, <1>5, <1>6, <1>7, <1>8 DEF MarksStand

(* A request that is handled now was not marked, and if it had been handled*)
(* before it would be marked still when nothing is late.                   *)
LEMMA HandledNow ==
    ASSUME GuardInv, NEW c \in Copies, Gate!SetNX(c), ~Gate!Marked(guardCopy[c].req)
    PROVE  /\ Gate!OnTime => guardHandled[guardCopy[c].req] = <<>>
           /\ \A i \in 1..Len(guardHandled[guardCopy[c].req]) : guardNow - guardHandled[guardCopy[c].req][i] > MarkTTL
<1> DEFINE r == guardCopy[c].req
           s == guardHandled[r]
<1>1. /\ r \in GateRequests /\ guardStamp[r] >= 0 /\ MarksStand(r) /\ guardNow \in Int /\ guardMark[r] \in Int
      /\ s \in Seq(0..MaxTime) /\ MarkTTL \in Nat /\ MaxSkew \in Nat /\ MarkTTL >= MaxSkew
      /\ guardStamp[r] \in Int
  <2>1. MarkTTL \in Nat /\ MaxSkew \in Nat /\ Ahead \in Nat /\ MarkTTL >= MaxSkew
    BY DEF GuardInv, GateNumbers, Gate!NumbersAreNat, Gate!MarkCoversSkew
  <2>2. r \in GateRequests /\ guardStamp[r] >= 0 /\ MarksStand(r)
    BY DEF GuardInv, Gate!SetNX, CheckedYoung
  <2>3. /\ guardNow \in Int /\ guardStamp \in [GateRequests -> -1..MaxTime + Ahead]
        /\ guardMark \in [GateRequests -> -1..MaxTime + MarkTTL] /\ guardHandled \in [GateRequests -> Seq(0..MaxTime)]
    BY DEF GuardInv, Gate!TypeOK, Gate!Times
  <2> QED BY <2>1, <2>2, <2>3
<1>2. guardNow > guardMark[r]
  BY <1>1 DEF Gate!Marked
<1>3. \A i \in 1..Len(s) : s[i] \in 0..MaxTime
  BY <1>1, Elements
<1>4. Len(s) \in Nat
  BY <1>1
<1>5. ASSUME NEW i \in 1..Len(s) PROVE guardNow - s[i] > MarkTTL
  <2>1. Len(s) > 0 /\ Len(s) \in 1..Len(s) /\ i <= Len(s)
    BY <1>4
  <2>2. guardMark[r] = s[Len(s)] + MarkTTL /\ s[i] <= s[Len(s)]
    BY <1>1, <2>1 DEF MarksStand
  <2>3. s[i] \in Int /\ s[Len(s)] \in Int
    BY SMTT(30), <1>3, <2>1
  <2> QED BY <1>1, <1>2, <2>2, <2>3
<1>6. ASSUME Gate!OnTime PROVE s = <<>>
  <2>1. guardNow <= guardStamp[r] + MaxSkew
    BY <1>1, <1>6 DEF GuardInv, CheckedYoung, Gate!SetNX, Gate!Young
  <2>2. ASSUME Len(s) > 0 PROVE FALSE
    <3>1. Len(s) \in 1..Len(s)
      BY <1>4, <2>2
    <3>2. guardMark[r] = s[Len(s)] + MarkTTL /\ guardStamp[r] <= s[Len(s)]
      BY <1>1, <1>6, <2>2, <3>1 DEF MarksStand
    <3>3. s[Len(s)] \in Int
      BY <1>3, <3>1
    <3> QED BY SMTT(30), <1>1, <1>2, <2>1, <3>2, <3>3
  <2>3. Len(s) = 0
    BY <1>4, <2>2
  <2> QED BY <1>1, <2>3
<1> QED BY <1>5, <1>6

(* The node sends, or the network delivers again.                          *)
LEMMA PostStep == ASSUME GuardInv, NEW c \in Copies, NEW r \in GateRequests, Gate!post(c, r) PROVE GuardInv'
<1>1. /\ guardStamp \in [GateRequests -> -1..MaxTime + Ahead] /\ guardNow \in 0..MaxTime /\ Ahead \in Nat
      /\ guardCopy \in [Copies -> Gate!Copy] /\ MaxTime \in Nat
  BY DEF GuardInv, Gate!TypeOK, Gate!Times, GateNumbers, Gate!NumbersAreNat
<1>2. /\ guardStamp' = [guardStamp EXCEPT ![r] = IF guardStamp[r] = -1 THEN guardNow + Ahead ELSE guardStamp[r]]
      /\ guardCopy' = [guardCopy EXCEPT ![c] = [pc |-> "travel", req |-> r, at |-> guardNow]]
      /\ UNCHANGED <<guardNow, guardBucket, guardMark, guardTaken, guardRefused, guardHandled>>
  BY DEF Gate!post
<1>3. /\ guardStamp' \in [GateRequests -> -1..MaxTime + Ahead] /\ guardStamp'[r] >= 0
      /\ \A q \in GateRequests : guardStamp[q] # -1 => guardStamp'[q] = guardStamp[q]
      /\ \A q \in GateRequests : guardStamp'[q] = guardStamp[q] \/ guardStamp'[q] = guardNow + Ahead
  BY <1>1, <1>2
<1>4. guardCopy' \in [Copies -> Gate!Copy]
  <2>1. [pc |-> "travel", req |-> r, at |-> guardNow] \in Gate!Copy
    BY <1>1 DEF Gate!Copy, Gate!Times
  <2> QED BY <1>1, <1>2, <2>1
<1>5. Gate!TypeOK' /\ GateNumbers'
  BY <1>2, <1>3, <1>4 DEF GuardInv, Gate!TypeOK, Gate!Times, GateNumbers,
     Gate!NumbersAreNat, Gate!LimitPositive, Gate!MarkCoversSkew
<1>6. /\ WindowsApart' /\ Gate!TwiceTheLimit' /\ Gate!RefusedOnlyWhenBusy'
      /\ Gate!HandledOnce' /\ Gate!HandledApart'
  BY <1>2 DEF GuardInv, WindowsApart, WindowOpen, Gate!TwiceTheLimit, Gate!RefusedOnlyWhenBusy,
     Gate!HandledOnce, Gate!OnTime, Gate!HandledApart
<1>7. StampsPast'
  BY <1>1, <1>2, <1>3 DEF GuardInv, StampsPast, Gate!OnTime
<1>8. CheckedYoung'
  <2> SUFFICES ASSUME NEW d \in Copies
               PROVE  /\ guardCopy'[d].pc # "none" => guardCopy'[d].req \in GateRequests /\ guardStamp'[guardCopy'[d].req] >= 0
                      /\ Gate!OnTime /\ guardCopy'[d].pc = "checked" => guardCopy'[d].at = guardNow' 
                            /\ guardStamp'[guardCopy'[d].req] \in guardNow' - MaxSkew .. guardNow' + MaxSkew
    BY <1>2 DEF CheckedYoung, Gate!OnTime, Gate!Young
  <2>1. CASE d = c
    BY <1>1, <1>2, <1>3, <2>1
  <2>2. CASE d # c
    <3>1. guardCopy'[d] = guardCopy[d]
      BY <1>1, <1>2, <2>2
    <3>2. guardCopy[d].pc # "none" => guardCopy[d].req \in GateRequests /\ guardStamp'[guardCopy[d].req] = guardStamp[guardCopy[d].req]
      BY <1>1, <1>3 DEF GuardInv, CheckedYoung
    <3> QED BY <1>2, <3>1, <3>2 DEF GuardInv, CheckedYoung, Gate!Young
  <2> QED BY <2>1, <2>2
<1>9. ASSUME NEW q \in GateRequests PROVE MarksStand(q)'
  BY <1>1, <1>2, <1>3, MarksGoOn DEF GuardInv
<1> QED BY <1>5, <1>6, <1>7, <1>8, <1>9 DEF GuardInv

(* A copy that moves on is a copy.                                         *)
LEMMA CopyFields ==
    ASSUME NEW k \in Gate!Copy, NEW pc \in {"checked", "done"}, NEW at \in 0..MaxTime
    PROVE  [k EXCEPT !.pc = pc, !.at = at] \in Gate!Copy
  BY DEF Gate!Copy, Gate!Times

(* A copy moves on, and nothing else that is told of copies.               *)
LEMMA CopyMoves ==
    ASSUME GuardInv, NEW c \in Copies, NEW pc \in {"checked", "done"}, NEW at \in 0..MaxTime,
           guardCopy[c].pc # "none",
           guardCopy' = [guardCopy EXCEPT ![c] = [@ EXCEPT !.pc = pc, !.at = at]], UNCHANGED <<guardNow, guardStamp>>,
           pc = "checked" => at = guardNow /\ Gate!Young(guardCopy[c].req)
    PROVE  guardCopy' \in [Copies -> Gate!Copy] /\ CheckedYoung' /\ StampsPast'
<1>1. guardCopy \in [Copies -> Gate!Copy]
  BY DEF GuardInv, Gate!TypeOK
<1>2. guardCopy[c] \in Gate!Copy
  BY <1>1
<1>3. /\ guardCopy'[c] = [guardCopy[c] EXCEPT !.pc = pc, !.at = at]
      /\ \A d \in Copies \ {c} : guardCopy'[d] = guardCopy[d]
  BY <1>1
<1>4. /\ [guardCopy[c] EXCEPT !.pc = pc, !.at = at] \in Gate!Copy
      /\ guardCopy'[c].pc = pc /\ guardCopy'[c].at = at /\ guardCopy'[c].req = guardCopy[c].req
  <2>1. PICK k \in Gate!Copy : k = guardCopy[c]
    BY <1>2
  <2>2. guardCopy'[c] = [k EXCEPT !.pc = pc, !.at = at]
    BY <1>3, <2>1
  <2>3. [k EXCEPT !.pc = pc, !.at = at] \in Gate!Copy
    BY CopyFields
  <2>4. guardCopy'[c].pc = pc /\ guardCopy'[c].at = at
    BY <2>2 DEF Gate!Copy
  <2>5. guardCopy'[c].req = k.req
    BY ZenonT(30), <2>2 DEF Gate!Copy
  <2> QED BY <2>1, <2>2, <2>3, <2>4, <2>5
<1>5. guardCopy' \in [Copies -> Gate!Copy]
  BY <1>1, <1>3, <1>4
<1>6. CheckedYoung'
  <2> SUFFICES ASSUME NEW d \in Copies
               PROVE  /\ guardCopy'[d].pc # "none" => guardCopy'[d].req \in GateRequests /\ guardStamp'[guardCopy'[d].req] >= 0
                      /\ Gate!OnTime /\ guardCopy'[d].pc = "checked" => guardCopy'[d].at = guardNow' 
                            /\ guardStamp'[guardCopy'[d].req] \in guardNow' - MaxSkew .. guardNow' + MaxSkew
    BY DEF CheckedYoung, Gate!OnTime, Gate!Young
  <2>1. CASE d = c
    BY <1>4, <2>1 DEF GuardInv, CheckedYoung, Gate!Young
  <2>2. CASE d # c
    BY <1>3, <2>2 DEF GuardInv, CheckedYoung, Gate!Young
  <2> QED BY <2>1, <2>2
<1> QED BY <1>5, <1>6 DEF GuardInv, StampsPast, Gate!OnTime

(* The limiter and the age.                                                *)
LEMMA ArriveStep == ASSUME GuardInv, NEW c \in Copies, Gate!Arrive(c) PROVE GuardInv'
<1>1. PICK ok \in BOOLEAN :
          /\ Gate!allow(ok)
          /\ guardTaken' = IF ok THEN Append(guardTaken, guardNow) ELSE guardTaken
          /\ guardRefused' = IF ok THEN guardRefused ELSE guardRefused \cup {guardNow}
          /\ guardCopy' = [guardCopy EXCEPT ![c] =
                [@ EXCEPT !.pc = IF ok /\ Gate!Young(guardCopy[c].req) THEN "checked" ELSE "done",
                          !.at = guardNow]]
  BY DEF Gate!Arrive
<1>2. guardCopy[c].pc = "travel" /\ UNCHANGED <<guardNow, guardStamp, guardMark, guardHandled>>
  BY DEF Gate!Arrive
<1>3. guardNow \in 0..MaxTime /\ guardTaken \in Seq(0..MaxTime) /\ guardRefused \subseteq 0..MaxTime
  BY DEF GuardInv, Gate!TypeOK, Gate!Times
<1>4. guardCopy' \in [Copies -> Gate!Copy] /\ CheckedYoung' /\ StampsPast'
  BY <1>1, <1>2, <1>3, CopyMoves
<1>5. /\ guardBucket' \in [count: 0..Limit, reset: -1..MaxTime + Window]
      /\ WindowsApart' /\ Gate!TwiceTheLimit' /\ Gate!RefusedOnlyWhenBusy'
  <2>1. CASE ok = TRUE
    <3>1. Gate!allow(TRUE) /\ guardTaken' = Append(guardTaken, guardNow) /\ guardRefused' = guardRefused
      BY <1>1, <2>1
    <3>2. Gate!RefusedOnlyWhenBusy'
      <4>1. /\ Len(guardTaken) \in Nat /\ DOMAIN guardTaken = 1..Len(guardTaken) /\ DOMAIN guardTaken' = 1..Len(guardTaken) + 1
            /\ \A i \in 1..Len(guardTaken) : i \in 1..Len(guardTaken) + 1
        BY <1>3, <3>1
      <4>2. \A i \in DOMAIN guardTaken : i \in DOMAIN guardTaken' /\ guardTaken'[i] = guardTaken[i]
        BY <1>3, <3>1, <4>1, Appended
      <4> QED BY <3>1, <4>2 DEF GuardInv, Gate!RefusedOnlyWhenBusy
    <3> QED BY <1>2, <3>1, <3>2, LetIn DEF GuardInv
  <2>2. CASE ok = FALSE
    <3>1. Gate!allow(FALSE) /\ guardTaken' = guardTaken /\ guardRefused' = guardRefused \cup {guardNow}
      BY <1>1, <2>2
    <3>2. guardBucket' = guardBucket /\ Gate!RefusedOnlyWhenBusy'
      BY <1>2, <3>1, TurnedAway DEF GuardInv
    <3> QED BY <1>2, <3>1, <3>2 DEF GuardInv, Gate!TypeOK, WindowsApart, WindowOpen, Gate!TwiceTheLimit
  <2> QED BY <2>1, <2>2
<1>6. guardTaken' \in Seq(0..MaxTime) /\ guardRefused' \subseteq 0..MaxTime
  <2>1. Append(guardTaken, guardNow) \in Seq(0..MaxTime)
    BY <1>3, Appended
  <2> QED BY <1>1, <1>3, <2>1
<1>7. Gate!TypeOK' /\ GateNumbers'
  BY <1>2, <1>4, <1>5, <1>6 DEF GuardInv, Gate!TypeOK, Gate!Times, GateNumbers,
     Gate!NumbersAreNat, Gate!LimitPositive, Gate!MarkCoversSkew
<1>8. Gate!HandledOnce' /\ Gate!HandledApart' /\ \A r \in GateRequests : MarksStand(r)'
  BY <1>2 DEF GuardInv, Gate!HandledOnce, Gate!OnTime, Gate!HandledApart, MarksStand
<1> QED BY <1>4, <1>5, <1>7, <1>8 DEF GuardInv

(* The mark, and the handler.                                              *)
LEMMA SetNXStep == ASSUME GuardInv, NEW c \in Copies, Gate!SetNX(c) PROVE GuardInv'
<1>0. PICK r \in GateRequests : r = guardCopy[c].req
  BY DEF Gate!SetNX, GuardInv, CheckedYoung
<1>1. /\ guardCopy[c].pc = "checked"
      /\ guardCopy' = [guardCopy EXCEPT ![c].pc = "done"]
      /\ UNCHANGED <<guardNow, guardBucket, guardStamp, guardTaken, guardRefused>>
  BY DEF Gate!SetNX, GuardInv, CheckedYoung
<1>2. /\ guardNow \in 0..MaxTime /\ MarkTTL \in Nat /\ MaxTime \in Nat
      /\ guardMark \in [GateRequests -> -1..MaxTime + MarkTTL] /\ guardHandled \in [GateRequests -> Seq(0..MaxTime)]
      /\ guardCopy \in [Copies -> Gate!Copy] /\ guardCopy[c] \in Gate!Copy /\ guardCopy[c].at \in 0..MaxTime
  BY DEF GuardInv, Gate!TypeOK, Gate!Times, Gate!Copy, GateNumbers, Gate!NumbersAreNat
<1>3. guardCopy' \in [Copies -> Gate!Copy] /\ CheckedYoung' /\ StampsPast'
  <2>1. guardCopy' = [guardCopy EXCEPT ![c] = [@ EXCEPT !.pc = "done", !.at = guardCopy[c].at]]
    BY <1>1, <1>2 DEF Gate!Copy
  <2> QED BY <1>1, <1>2, <2>1, CopyMoves
<1>4. WindowsApart' /\ Gate!TwiceTheLimit' /\ Gate!RefusedOnlyWhenBusy' /\ GateNumbers'
  BY <1>1 DEF GuardInv, WindowsApart, WindowOpen, Gate!TwiceTheLimit, Gate!RefusedOnlyWhenBusy,
     GateNumbers, Gate!NumbersAreNat, Gate!LimitPositive, Gate!MarkCoversSkew
<1>5. /\ guardMark' \in [GateRequests -> -1..MaxTime + MarkTTL] /\ guardHandled' \in [GateRequests -> Seq(0..MaxTime)]
      /\ \A q \in GateRequests : MarksStand(q)' /\ Gate!HandledOnce' /\ Gate!HandledApart'
  <2>1. CASE Gate!Marked(r)
    <3>1. UNCHANGED <<guardMark, guardHandled>>
      BY <1>0, <2>1 DEF Gate!SetNX
    <3> QED BY <1>1, <1>2, <3>1 DEF GuardInv, MarksStand, Gate!OnTime, Gate!HandledOnce, Gate!HandledApart
  <2>2. CASE ~Gate!Marked(r)
    <3>0. PICK s \in Seq(0..MaxTime) : s = guardHandled[r]
      BY <1>2
    <3>1. /\ guardMark' = [guardMark EXCEPT ![r] = guardNow + MarkTTL]
          /\ guardHandled' = [guardHandled EXCEPT ![r] = Append(s, guardNow)]
      BY <1>0, <2>2, <3>0 DEF Gate!SetNX, Gate!MarkEnd
    <3>2. /\ guardHandled'[r] = Append(s, guardNow) /\ guardMark'[r] = guardNow + MarkTTL
          /\ \A q \in GateRequests \ {r} : guardHandled'[q] = guardHandled[q] /\ guardMark'[q] = guardMark[q]
      BY <1>1, <1>2, <3>1
    <3>3. /\ Append(s, guardNow) \in Seq(0..MaxTime) /\ Len(s) \in Nat
          /\ DOMAIN Append(s, guardNow) = 1..Len(s) + 1
      BY <1>2, Appended
    <3>4. Len(Append(s, guardNow)) = Len(s) + 1
      BY <1>2, Appended
    <3>5. Append(s, guardNow)[Len(s) + 1] = guardNow
      BY <1>2, Appended
    <3>6. \A i \in 1..Len(s) : Append(s, guardNow)[i] = s[i]
      BY <1>2, Appended
    <3>7. \A i \in 1..Len(s) : s[i] \in 0..MaxTime
      BY Elements
    <3>8. /\ Gate!OnTime => s = <<>>
          /\ \A i \in 1..Len(s) : guardNow - s[i] > MarkTTL
      BY <1>0, <2>2, <3>0, HandledNow
    <3>9. \A i \in 1..Len(s) + 1 : i \in 1..Len(s) \/ i = Len(s) + 1
      BY <3>3
    <3>10. guardMark' \in [GateRequests -> -1..MaxTime + MarkTTL] /\ guardHandled' \in [GateRequests -> Seq(0..MaxTime)]
      BY <1>2, <3>1, <3>3
    <3>11. guardStamp[r] >= 0 /\ guardStamp[r] \in Int /\ MarksStand(r) /\ (Gate!OnTime => guardStamp[r] <= guardNow)
      BY <1>0, <1>1 DEF GuardInv, CheckedYoung, Gate!TypeOK, StampsPast
    <3>12. MarksStand(r)'
      <4>1. \A i, j \in 1..Len(s) + 1 : i <= j => Append(s, guardNow)[i] <= Append(s, guardNow)[j]
        <5> SUFFICES ASSUME NEW i \in 1..Len(s) + 1, NEW j \in 1..Len(s) + 1, i <= j
                     PROVE  Append(s, guardNow)[i] <= Append(s, guardNow)[j]
          OBVIOUS
        <5>1. CASE j \in 1..Len(s)
          <6>1. i \in 1..Len(s)
            BY <3>3, <5>1
          <6>2. s[i] <= s[j]
            BY <3>0, <3>11, <5>1, <6>1 DEF MarksStand
          <6> QED BY <3>6, <5>1, <6>1, <6>2
        <5>2. CASE j = Len(s) + 1
          <6>1. CASE i = Len(s) + 1
            BY <1>2, <3>5, <5>2, <6>1
          <6>2. CASE i \in 1..Len(s)
            <7>1. s[i] <= guardNow
              BY <3>0, <3>11, <6>2 DEF MarksStand
            <7> QED BY <3>5, <3>6, <5>2, <6>2, <7>1
          <6> QED BY <3>9, <6>1, <6>2
        <5> QED BY <3>9, <5>1, <5>2
      <4>2. \A i \in 1..Len(s) + 1 : Append(s, guardNow)[i] <= guardNow /\ (Gate!OnTime => guardStamp[r] <= Append(s, guardNow)[i])
        <5> SUFFICES ASSUME NEW i \in 1..Len(s) + 1
                     PROVE  Append(s, guardNow)[i] <= guardNow /\ (Gate!OnTime => guardStamp[r] <= Append(s, guardNow)[i])
          OBVIOUS
        <5>1. CASE i \in 1..Len(s)
          BY <3>0, <3>6, <3>11, <5>1 DEF MarksStand
        <5>2. CASE i = Len(s) + 1
          BY <1>2, <3>5, <3>11, <5>2
        <5> QED BY <3>9, <5>1, <5>2
      <4>3. Len(guardHandled'[r]) = Len(s) + 1 /\ Len(s) + 1 > 0 /\ Len(s) + 1 # 0
        BY <3>2, <3>3, <3>4
      <4>4. guardHandled'[r][Len(guardHandled'[r])] = guardNow
        BY <3>2, <3>5, <4>3
      <4>5. guardStamp'[r] = guardStamp[r] /\ guardStamp[r] # -1 /\ guardNow' = guardNow
        BY <1>1, <3>11
      <4> QED BY <3>2, <4>1, <4>2, <4>3, <4>4, <4>5 DEF MarksStand, Gate!OnTime
    <3>13. ASSUME NEW q \in GateRequests \ {r} PROVE MarksStand(q)'
      BY <1>1, <1>2, <3>2, MarksGoOn DEF GuardInv
    <3>14. Gate!HandledOnce'
      <4>1. ASSUME Gate!OnTime PROVE Len(guardHandled'[r]) <= 1
        BY <3>2, <3>4, <3>8, <4>1
      <4> QED BY <3>2, <4>1 DEF GuardInv, Gate!HandledOnce, Gate!OnTime
    <3>15. Gate!HandledApart'
      <4> SUFFICES ASSUME NEW q \in GateRequests, NEW i \in DOMAIN guardHandled'[q], NEW j \in DOMAIN guardHandled'[q], i < j
                   PROVE  guardHandled'[q][j] - guardHandled'[q][i] > MarkTTL
        BY DEF Gate!HandledApart
      <4>1. CASE q # r
        BY <3>2, <4>1 DEF GuardInv, Gate!HandledApart
      <4>2. CASE q = r
        <5>1. i \in 1..Len(s) + 1 /\ j \in 1..Len(s) + 1 /\ guardHandled'[q] = Append(s, guardNow)
          BY <3>2, <3>3, <4>2
        <5>2. i \in 1..Len(s)
          BY <3>3, <5>1
        <5>3. CASE j = Len(s) + 1
          BY <3>5, <3>6, <3>8, <5>1, <5>2, <5>3
        <5>4. CASE j \in 1..Len(s)
          <6>1. DOMAIN s = 1..Len(s)
            OBVIOUS
          <6>2. s[j] - s[i] > MarkTTL
            BY <3>0, <5>2, <5>4, <6>1 DEF GuardInv, Gate!HandledApart
          <6> QED BY <3>6, <5>1, <5>2, <5>4, <6>2
        <5> QED BY <3>9, <5>1, <5>3, <5>4
      <4> QED BY <4>1, <4>2
    <3> QED BY <3>10, <3>12, <3>13, <3>14, <3>15
  <2> QED BY <2>1, <2>2
<1>6. Gate!TypeOK'
  BY <1>1, <1>3, <1>5 DEF GuardInv, Gate!TypeOK, Gate!Times
<1> QED BY <1>3, <1>4, <1>5, <1>6 DEF GuardInv

(* No one is between the age and the mark when nothing is late.            *)
LEMMA TickStep == ASSUME GuardInv, Gate!Tick PROVE GuardInv'
<1>1. /\ guardNow' = guardNow + 1 /\ guardNow < MaxTime /\ guardNow \in 0..MaxTime /\ MaxTime \in Nat
      /\ guardNow' \in 0..MaxTime /\ guardNow' \in Nat /\ guardNow <= guardNow' /\ guardNow \in Int
      /\ UNCHANGED <<guardBucket, guardStamp, guardCopy, guardMark, guardTaken, guardRefused, guardHandled>>
  BY DEF Gate!Tick, GuardInv, Gate!TypeOK, Gate!Times, GateNumbers, Gate!NumbersAreNat
<1>2. Gate!TypeOK' /\ GateNumbers'
  BY <1>1 DEF GuardInv, Gate!TypeOK, Gate!Times, GateNumbers,
     Gate!NumbersAreNat, Gate!LimitPositive, Gate!MarkCoversSkew
<1>3. /\ Gate!TwiceTheLimit' /\ Gate!RefusedOnlyWhenBusy'
      /\ Gate!HandledOnce' /\ Gate!HandledApart'
  BY <1>1 DEF GuardInv, Gate!TwiceTheLimit, Gate!RefusedOnlyWhenBusy,
     Gate!HandledOnce, Gate!OnTime, Gate!HandledApart
<1>4. WindowsApart'
  <2>1. \A i \in 1..Len(guardTaken) : guardTaken[i] \in Int
    <3>1. guardTaken \in Seq(0..MaxTime)
      BY DEF GuardInv, Gate!TypeOK, Gate!Times
    <3> QED BY <1>1, <3>1, Elements
  <2>2. \A i \in 1..Len(guardTaken) : guardTaken[i] <= guardNow'
    BY <1>1, <2>1 DEF GuardInv, WindowsApart
  <2> QED BY <1>1, <2>2 DEF GuardInv, WindowsApart, WindowOpen
<1>5. StampsPast'
  BY <1>1 DEF GuardInv, StampsPast, Gate!OnTime, Gate!TypeOK
<1>6. CheckedYoung'
  <2>1. ASSUME Gate!OnTime, NEW c \in Copies, guardCopy[c].pc = "checked" PROVE FALSE
    <3>1. guardCopy[c].at = guardNow /\ guardNow - guardCopy[c].at < 0
      BY <2>1 DEF GuardInv, CheckedYoung, Gate!Tick, Gate!OnTime
    <3> QED BY <1>1, <3>1
  <2> QED BY <1>1, <2>1 DEF GuardInv, CheckedYoung, Gate!OnTime
<1>7. ASSUME NEW r \in GateRequests PROVE MarksStand(r)'
  BY <1>1, MarksGoOn DEF GuardInv
<1> QED BY <1>2, <1>3, <1>4, <1>5, <1>6, <1>7 DEF GuardInv

(* Nothing was sent yet.                                                   *)
LEMMA GuardStarts == GateNumbers /\ Gate!Init => GuardInv
<1> SUFFICES ASSUME GateNumbers, Gate!Init PROVE GuardInv
  OBVIOUS
<1>1. /\ guardNow = 0 /\ guardBucket = [count |-> 0, reset |-> -1] /\ guardTaken = <<>> /\ guardRefused = {}
      /\ Len(guardTaken) = 0 /\ guardBucket.count = 0 /\ guardBucket.reset = -1 /\ DOMAIN guardTaken = {}
      /\ \A r \in GateRequests : guardStamp[r] = -1 /\ guardMark[r] = -1 /\ guardHandled[r] = <<>>
                             /\ Len(guardHandled[r]) = 0 /\ DOMAIN guardHandled[r] = {}
      /\ \A c \in Copies : guardCopy[c] = Gate!NoCopy /\ guardCopy[c].pc = "none"
  BY DEF Gate!Init, Gate!NoCopy
<1>2. {Limit, Window, MarkTTL, Ahead, MaxTime} \subseteq Nat /\ Limit > 0
  BY DEF GateNumbers, Gate!NumbersAreNat, Gate!LimitPositive
<1>3. Gate!TypeOK
  <2>1. MaxTime \in Nat /\ Limit \in Nat /\ Window \in Nat /\ MarkTTL \in Nat /\ Ahead \in Nat
    BY <1>2
  <2>2. Gate!NoCopy \in Gate!Copy
    BY <2>1 DEF Gate!NoCopy, Gate!Copy, Gate!Times
  <2> QED BY <1>1, <2>1, <2>2 DEF Gate!Init, Gate!TypeOK, Gate!Times
<1>4. WindowsApart
  <2>1. Limit \in Nat
    BY <1>2
  <2> QED BY <1>1, <2>1 DEF WindowsApart, WindowOpen
<1>5. StampsPast /\ CheckedYoung /\ \A r \in GateRequests : MarksStand(r)
  BY <1>1 DEF StampsPast, CheckedYoung, MarksStand
<1>6. Gate!TwiceTheLimit /\ Gate!RefusedOnlyWhenBusy /\ Gate!HandledOnce /\ Gate!HandledApart
  BY <1>1 DEF Gate!TwiceTheLimit, Gate!RefusedOnlyWhenBusy, Gate!HandledOnce, Gate!HandledApart
<1> QED BY <1>3, <1>4, <1>5, <1>6 DEF GuardInv

(* Every step, of the node, the network, the control plane or the clock.   *)
LEMMA GuardGoesOn == GuardInv /\ [Gate!Next]_(Gate!vars) => GuardInv'
<1> SUFFICES ASSUME GuardInv, [Gate!Next]_(Gate!vars) PROVE GuardInv'
  OBVIOUS
<1>1. CASE UNCHANGED Gate!vars
  BY <1>1 DEF GuardInv, Gate!vars, GateNumbers, Gate!NumbersAreNat, Gate!LimitPositive,
     Gate!MarkCoversSkew, Gate!TypeOK, Gate!Times, WindowsApart, WindowOpen,
     StampsPast, CheckedYoung, Gate!Young, Gate!OnTime, MarksStand, Gate!TwiceTheLimit,
     Gate!RefusedOnlyWhenBusy, Gate!HandledOnce, Gate!HandledApart
<1>2. CASE Gate!Next
  BY <1>2, PostStep, ArriveStep, SetNXStep, TickStep DEF Gate!Next
<1> QED BY <1>1, <1>2

(* For any requests and deliveries, any limit, window and clock: no time   *)
(* as long as a window sees more than twice the limit, only who is busy is *)
(* refused, and a request is handled once, or again after its mark ended   *)
(* when the clock is ahead or a mark is late.                              *)
THEOREM RequestsPassTheGuard ==
    Gate!Spec /\ [](scene = "gate") => []RequestsAreGuarded
<1>1. GuardInv /\ scene = "gate" => RequestsAreGuarded
  BY DEF GuardInv, RequestsAreGuarded, Gate!RequestsAreGuarded
<1>2. GateNumbers
  BY PartsAssume DEF GateNumbers
<1> QED BY <1>1, <1>2, GuardStarts, GuardGoesOn, PTL DEF Gate!Spec

--------------------------------------------------------------------------------
(***************************************************************************)
(* The start of the control plane: StartRepair, with the variables and     *)
(* constants MCNodeOperations gives it.                                    *)
(***************************************************************************)

(* The repair runs for a node, and has left alive elsewhere, or to come    *)
(* back to life there, only what was suspended while it ran.               *)
RepairDone ==
    repairRepaired =>
        /\ repairNodeID \in Nodes /\ repairPc \in {"off", "up"}
        /\ \A r \in RepairRows :
              repairRow[r].st \in Repair!Live \cup {"suspended_nonpayment"}
              /\ repairRow[r].node # repairNodeID => r \in repairPaused

(* Whatever is stale before the last statement is there twice.             *)
StaleAreTwins == repairPc = "revoke" => \A r \in RepairRows : Repair!Stale(r) => Repair!HasTwin(r)

(* With the types, and a node for every statement.                         *)
RepairInv ==
    /\ Repair!TypeOK /\ RepairDone /\ StaleAreTwins
    /\ repairPc \in {"insert", "deactivate", "relink", "revoke"} => repairNodeID \in Nodes

(* What is assumed of its constants.                                       *)
RepairAssumed ==
    /\ RepairAccessOf \in [RepairRows -> RepairAccesses] /\ NoNode \notin Nodes
    /\ MaxStarts \in Nat /\ MaxFaults \in Nat /\ MaxChanges \in Nat

(* It holds of them.                                                       *)
LEMMA RepairConstants == RepairAssumed
  BY PartsAssume DEF RepairAssumed, Repair!RowsAreOfAccesses, Repair!NoneIsNoNode, Repair!BoundsAreNat

(* A statement that leaves the rows as they are.                           *)
LEMMA RowsStay ==
    ASSUME RepairInv, RepairAssumed,
           \/ \E n \in Nodes \cup {NoNode} : Repair!Start(n)
           \/ Repair!InsertNode \/ Repair!DeactivateOthers \/ Repair!RelinkConflicts
           \/ Repair!GivesUp \/ Repair!ShutDown \/ \E n \in Nodes : Repair!NodeStatus(n)
    PROVE  RepairInv'
<1> USE DEF RepairAssumed
<1>1. repairRow' = repairRow
  BY DEF Repair!Start, Repair!InsertNode, Repair!DeactivateOthers, Repair!RelinkConflicts,
         Repair!GivesUp, Repair!ShutDown, Repair!NodeStatus
<1>2. Repair!Unique(repairRow)' /\ Repair!Unique(repairRow) 
  BY <1>1 DEF RepairInv, Repair!TypeOK, Repair!Unique
<1>3. ASSUME NEW n \in Nodes \cup {NoNode}, Repair!Start(n) PROVE RepairInv'
  <2>1. /\ repairPc' \in {"insert", "up"} /\ repairNodeID' = n /\ (repairPc' = "insert" => n # NoNode)
        /\ repairStarts < MaxStarts /\ repairStarts' = repairStarts + 1 /\ repairRepaired' = FALSE
        /\ UNCHANGED <<repairActive, repairRow, repairPaused, repairFaults, repairChanges>>
    BY <1>3 DEF Repair!Start
  <2>2. Repair!TypeOK'
    <3>1. repairStarts' \in 0..MaxStarts
      BY <2>1 DEF RepairInv, Repair!TypeOK
    <3>2. Repair!TypeOK
      BY DEF RepairInv
    <3> QED BY <1>2, <2>1, <3>1, <3>2 DEF Repair!TypeOK
  <2> QED BY <2>1, <2>2 DEF RepairInv, RepairDone, StaleAreTwins
<1>4. CASE Repair!InsertNode \/ Repair!DeactivateOthers
  <2>1. Repair!TypeOK'
    BY <1>1, <1>2, <1>4 DEF RepairInv, Repair!TypeOK, Repair!InsertNode, Repair!DeactivateOthers,
                            Repair!counters
  <2> QED BY <1>4, <2>1 DEF RepairInv, RepairDone, StaleAreTwins, Repair!InsertNode, Repair!DeactivateOthers
<1>5. CASE Repair!RelinkConflicts \/ Repair!GivesUp \/ Repair!ShutDown
  <2>1. Repair!TypeOK'
    BY <1>1, <1>2, <1>5 DEF RepairInv, Repair!TypeOK, Repair!RelinkConflicts, Repair!GivesUp, Repair!ShutDown,
                            Repair!Fault, Repair!counters
  <2>2. repairPc' \in {"up", "off"} /\ UNCHANGED <<repairRow, repairNodeID, repairRepaired, repairPaused>>
    BY <1>5 DEF Repair!RelinkConflicts, Repair!GivesUp, Repair!ShutDown
  <2> QED BY <2>1, <2>2 DEF RepairInv, RepairDone, StaleAreTwins
<1>6. ASSUME NEW n \in Nodes, Repair!NodeStatus(n) PROVE RepairInv'
  <2>1. Repair!TypeOK'
    BY <1>1, <1>2, <1>6 DEF RepairInv, Repair!TypeOK, Repair!NodeStatus, Repair!Running
  <2> QED BY <1>6, <2>1 DEF RepairInv, RepairDone, StaleAreTwins, Repair!NodeStatus, Repair!Running
<1> QED BY <1>3, <1>4, <1>5, <1>6

(* The move to the node of the service: what stays behind is there already.*)
LEMMA RelinkMoves == ASSUME RepairInv, RepairAssumed, Repair!Relink PROVE RepairInv'
<1> DEFINE N == repairNodeID
<1>1. /\ repairPc = "relink" /\ repairPc' = "revoke" /\ Repair!Unique(repairRow') /\ N \in Nodes
      /\ repairRow' = Repair!Relinked
      /\ UNCHANGED <<repairNodeID, repairActive, repairRepaired, repairPaused, repairFaults, repairStarts, repairChanges>>
  BY DEF RepairInv, Repair!Relink, Repair!counters
<1>2. \A r \in RepairRows : repairRow[r] \in Repair!Row
  BY DEF RepairInv, Repair!TypeOK
<1>3. \A r \in RepairRows :
         /\ r \in Repair!Relocatable => repairRow'[r] = [repairRow[r] EXCEPT !.node = N]
         /\ r \notin Repair!Relocatable => repairRow'[r] = repairRow[r]
  BY <1>1 DEF Repair!Relinked
<1>4. \A r \in RepairRows : /\ repairRow'[r] \in Repair!Row
                            /\ repairRow'[r].st = repairRow[r].st
                            /\ r \in Repair!Relocatable => repairRow'[r].node = N
  BY <1>1, <1>2, <1>3 DEF Repair!Row
<1>5. repairRow' \in [RepairRows -> Repair!Row]
  BY <1>1, <1>4 DEF Repair!Relinked
<1>6. Repair!TypeOK'
  <2>1. Repair!Unique(repairRow)'
    BY <1>1 DEF Repair!Unique
  <2> QED BY <1>1, <1>5, <2>1 DEF RepairInv, Repair!TypeOK
<1>7. ~repairRepaired
  BY <1>1 DEF RepairInv, RepairDone
<1>8. ASSUME NEW r \in RepairRows, Repair!Stale(r)' PROVE Repair!HasTwin(r)'
  <2>1. r \notin Repair!Relocatable
    BY <1>1, <1>4, <1>8 DEF Repair!Stale
  <2>2. Repair!Stale(r)
    BY <1>1, <1>3, <1>8, <2>1 DEF Repair!Stale
  <2>3. PICK q \in RepairRows : Repair!Exists(q) /\ RepairAccessOf[q] = RepairAccessOf[r] /\ repairRow[q].node = N
    BY <2>1, <2>2 DEF Repair!Relocatable, Repair!HasTwin
  <2>4. q \notin Repair!Relocatable
    BY <2>3 DEF Repair!Relocatable, Repair!Stale
  <2> QED BY <1>1, <1>3, <2>3, <2>4 DEF Repair!HasTwin, Repair!Exists
<1> QED BY <1>1, <1>6, <1>7, <1>8 DEF RepairInv, RepairDone, StaleAreTwins

(* What is stale is revoked, and nothing else changes.                     *)
LEMMA RevokeEnds == ASSUME RepairInv, RepairAssumed, Repair!RevokeStale PROVE RepairInv'
<1>1. /\ repairPc' = "up" /\ repairRepaired' = TRUE /\ repairPaused' = Repair!Paused /\ repairNodeID \in Nodes
      /\ repairRow' = [r \in RepairRows |-> IF Repair!Stale(r) THEN [repairRow[r] EXCEPT !.st = "revoked"]
                                            ELSE repairRow[r]]
      /\ UNCHANGED <<repairNodeID, repairActive, repairFaults, repairStarts, repairChanges>>
  BY DEF RepairInv, Repair!RevokeStale, Repair!counters
<1>2. \A r \in RepairRows : repairRow[r] \in Repair!Row
  BY DEF RepairInv, Repair!TypeOK
<1>3. \A r \in RepairRows :
         /\ Repair!Stale(r) => repairRow'[r] = [repairRow[r] EXCEPT !.st = "revoked"]
         /\ ~Repair!Stale(r) => repairRow'[r] = repairRow[r]
  BY <1>1
<1>4. \A r \in RepairRows : /\ repairRow'[r] \in Repair!Row /\ repairRow'[r].node = repairRow[r].node
                            /\ repairRow'[r].st = "none" <=> repairRow[r].st = "none"
                            /\ Repair!Stale(r) => repairRow'[r].st = "revoked"
  BY <1>2, <1>3 DEF Repair!Row, Repair!Stale, Repair!Live
<1>5. Repair!TypeOK'
  <2>1. repairRow' \in [RepairRows -> Repair!Row]
    BY <1>1, <1>4
  <2>2. Repair!Unique(repairRow)'
    BY <1>4 DEF RepairInv, Repair!TypeOK, Repair!Unique
  <2>3. repairPaused' \subseteq RepairRows
    BY <1>1 DEF Repair!Paused
  <2> QED BY <1>1, <2>1, <2>2, <2>3 DEF RepairInv, Repair!TypeOK
<1>6. ASSUME NEW r \in RepairRows, repairRow'[r].st \in Repair!Live \cup {"suspended_nonpayment"},
             repairRow'[r].node # repairNodeID
      PROVE  r \in repairPaused'
  <2>1. ~Repair!Stale(r)
    BY <1>4, <1>6 DEF Repair!Live
  <2>2. repairRow[r].node # repairNodeID /\ repairRow[r].st = "suspended_nonpayment"
    BY <1>3, <1>6, <2>1 DEF Repair!Stale
  <2> QED BY <1>1, <2>2 DEF Repair!Paused
<1> QED BY <1>1, <1>5, <1>6 DEF RepairInv, RepairDone, StaleAreTwins, Repair!Live

(* A row is made on the node of the service, or changes its status.        *)
LEMMA RowChanges ==
    ASSUME RepairInv, RepairAssumed, NEW r \in RepairRows,
           Repair!ChangeStatus(r) \/ \E n \in Nodes : Repair!CreateAccess(r, n)
    PROVE  RepairInv'
<1>1. /\ repairPc = "up" /\ repairChanges < MaxChanges /\ repairChanges' = repairChanges + 1
      /\ UNCHANGED <<repairPc, repairNodeID, repairRepaired, repairPaused, repairStarts, repairFaults, repairActive>>
  BY DEF Repair!ChangeStatus, Repair!CreateAccess, Repair!Running
<1>2. repairRow \in [RepairRows -> Repair!Row] /\ Repair!Unique(repairRow)
  BY DEF RepairInv, Repair!TypeOK
<1>3. CASE Repair!ChangeStatus(r)
  <2>1. PICK m \in Repair!Moves : repairRow[r].st = m[1] /\ repairRow' = [repairRow EXCEPT ![r].st = m[2]]
    BY <1>3 DEF Repair!ChangeStatus
  <2>2. /\ m[1] \in {"pending", "active", "suspended_nonpayment"}
        /\ m[2] \in {"active", "error", "suspended_nonpayment", "revoked"}
    BY DEF Repair!Moves
  <2>3. /\ repairRow' \in [RepairRows -> Repair!Row]
        /\ \A q \in RepairRows : repairRow'[q].node = repairRow[q].node /\ (q # r => repairRow'[q] = repairRow[q])
        /\ repairRow'[r].st = m[2]
    BY <1>2, <2>1, <2>2 DEF Repair!Row, Repair!Live
  <2>4. Repair!Unique(repairRow)'
    BY <1>2, <2>1, <2>2, <2>3 DEF Repair!Unique
  <2>5. Repair!TypeOK'
    BY <1>1, <2>3, <2>4 DEF RepairInv, Repair!TypeOK, RepairAssumed
  <2>6. repairRow[r].st \in Repair!Live \cup {"suspended_nonpayment"}
    BY <2>1, <2>2 DEF Repair!Live
  <2>7. RepairDone'
    BY <1>1, <2>3, <2>6 DEF RepairInv, RepairDone, Repair!Live
  <2> QED BY <1>1, <2>5, <2>7 DEF RepairInv, StaleAreTwins
<1>4. ASSUME NEW n \in Nodes, Repair!CreateAccess(r, n) PROVE RepairInv'
  <2>1. /\ n \in Repair!Assignable /\ repairActive \subseteq Nodes
        /\ \A q \in RepairRows : RepairAccessOf[q] = RepairAccessOf[r] => ~Repair!Exists(q)
        /\ repairRow' = [repairRow EXCEPT ![r] = [node |-> n, st |-> "pending"]]
    BY <1>4 DEF RepairInv, Repair!TypeOK, Repair!CreateAccess
  <2>2. /\ repairRow' \in [RepairRows -> Repair!Row]
        /\ repairRow'[r].node = n /\ \A q \in RepairRows : q # r => repairRow'[q] = repairRow[q]
    BY <1>2, <2>1 DEF Repair!Row, Repair!Live
  <2>3. Repair!Unique(repairRow)'
    BY <1>2, <2>1, <2>2 DEF Repair!Unique, Repair!Exists
  <2>4. Repair!TypeOK'
    BY <1>1, <2>2, <2>3 DEF RepairInv, Repair!TypeOK, RepairAssumed
  <2>5. repairNodeID \in Nodes => n = repairNodeID
    BY <2>1 DEF Repair!Assignable, RepairAssumed
  <2>6. RepairDone'
    BY <1>1, <2>2, <2>5 DEF RepairInv, RepairDone
  <2> QED BY <1>1, <2>4, <2>6 DEF RepairInv, StaleAreTwins
<1> QED BY <1>3, <1>4

(* Any rows, and nothing repaired yet.                                     *)
LEMMA RepairStarts == Repair!Init /\ RepairAssumed => RepairInv
<1> SUFFICES ASSUME Repair!Init, RepairAssumed PROVE RepairInv
  OBVIOUS
<1>1. /\ repairPc = "off" /\ repairNodeID = NoNode /\ repairActive \subseteq Nodes
      /\ repairRow \in [RepairRows -> Repair!Row] /\ Repair!Unique(repairRow)
      /\ repairRepaired = FALSE /\ repairPaused = {} /\ repairStarts = 0 /\ repairFaults = 0 /\ repairChanges = 0
  BY DEF Repair!Init
<1>2. Repair!TypeOK
  <2>1. repairStarts \in 0..MaxStarts /\ repairFaults \in 0..MaxFaults /\ repairChanges \in 0..MaxChanges
    BY <1>1 DEF RepairAssumed
  <2> QED BY <1>1, <2>1, Zenon DEF Repair!TypeOK
<1> QED BY <1>1, <1>2 DEF RepairInv, RepairDone, StaleAreTwins

(* Every step keeps it.                                                    *)
LEMMA RepairGoesOn == RepairInv /\ RepairAssumed /\ [Repair!Next]_(Repair!vars) => RepairInv'
<1>1. RepairInv /\ UNCHANGED Repair!vars => RepairInv'
  BY DEF RepairInv, Repair!TypeOK, Repair!Unique, RepairDone, StaleAreTwins, Repair!Stale, Repair!HasTwin,
         Repair!Exists, Repair!vars
<1> QED BY <1>1, RowsStay, RelinkMoves, RevokeEnds, RowChanges DEF Repair!Next

(* Of what is alive at the last statement, only a twin is revoked.         *)
LEMMA OnlyTwinsGo ==
    ASSUME RepairInv, [Repair!Next]_(Repair!vars), NEW r \in RepairRows,
           repairPc = "revoke", repairRow[r].st \in Repair!Live, repairRow'[r].st = "revoked"
    PROVE  Repair!HasTwin(r)
<1>1. repairRow' # repairRow
  BY DEF Repair!Live
<1>2. Repair!RevokeStale
  <2>1. Repair!Next
    BY <1>1 DEF Repair!vars
  <2> QED BY <1>1, <2>1 DEF Repair!Next, Repair!Start, Repair!InsertNode, Repair!DeactivateOthers,
        Repair!Relink, Repair!RelinkConflicts, Repair!GivesUp, Repair!ShutDown, Repair!ChangeStatus, Repair!CreateAccess,
        Repair!NodeStatus, Repair!Running
<1>3. Repair!Stale(r)
  BY <1>2 DEF Repair!RevokeStale, Repair!Live
<1> QED BY <1>3 DEF RepairInv, StaleAreTwins

(* The repair of ensureSingleNode, when all its statements succeed, leaves *)
(* nothing alive on another node but what was suspended while it ran, and  *)
(* revokes no row of which the node of the service has no other: for any   *)
(* rows of the time when nodes were many, with any failures and restarts.  *)
THEOREM RepairIsKind == Repair!Spec => RepairKeepsAccess
<1> DEFINE Twins == \A r \in RepairRows :
                       repairPc = "revoke" /\ repairRow[r].st \in Repair!Live /\ repairRow'[r].st = "revoked"
                          => Repair!HasTwin(r)
           Safe == Repair!TypeOK /\ Repair!StrayWasPaused
<1>1. RepairAssumed
  BY RepairConstants
<1>2. RepairInv => Safe
  BY DEF RepairInv, RepairDone, Repair!StrayWasPaused
<1>3. RepairInv /\ [Repair!Next]_(Repair!vars) => [Twins]_(Repair!vars)
  BY OnlyTwinsGo
<1>4. Repair!Spec => []Safe /\ [][Twins]_(Repair!vars)
  <2> HIDE DEF Safe, Twins
  <2> QED BY <1>1, <1>2, <1>3, RepairStarts, RepairGoesOn, PTL DEF Repair!Spec
<1>5. [][Twins]_(Repair!vars) <=> Repair!RevokedHasTwin
  BY DEF Repair!RevokedHasTwin
<1> HIDE DEF Twins
<1> QED BY <1>4, <1>5 DEF RepairKeepsAccess, Repair!RepairKeepsAccess

--------------------------------------------------------------------------------
(***************************************************************************)
(* The operations log: OpLog.  A record moves from the file of its day to  *)
(* the compressed one and is there until its time is over; a compression   *)
(* that broke off leaves both, and the file is due to be compressed again. *)
(***************************************************************************)

(* What is assumed of its times.                                           *)
LogAssumed ==
    /\ LogDay \in Nat \ {0} /\ LogRetention \in Nat \ {0}
    /\ LogTime \in Nat /\ MaxFaults \in Nat

(* It holds of them.                                                       *)
LEMMA LogConstants == LogAssumed
  BY PartsAssume DEF LogAssumed, Log!TimesArePositive, Log!BoundsAreNat

(* A record r of time w is in the file p of its day, or when that is gone  *)
(* in the compressed file g and not older than it, or its time is over.    *)
RecordKept(r, w, p, g, t) ==
    \/ p # Log!Absent /\ r \in p.recs
    \/ p = Log!Absent /\ r \in g.recs /\ w <= g.mtime
    \/ t - w > LogRetention

(* Where both files are there, a compression is to be made good.           *)
HalfDone(p, g, t) == p # Log!Absent /\ g # Log!Absent => t - p.mtime >= LogDay

(* No request loses what was recorded of it, but on the late days.         *)
LogInv ==
    /\ Log!TypeOK
    /\ \A r \in LogRequests :
          /\ logReq[r].open => logReq[r].began \in Log!Times
          /\ logReq[r].written # Log!Never =>
                /\ logReq[r].began \in Log!Times /\ logReq[r].written <= logNow
                /\ Log!DayOf(logReq[r].began) \notin logLate =>
                     RecordKept(r, logReq[r].written, logPlain[Log!DayOf(logReq[r].began)],
                                logGz[Log!DayOf(logReq[r].began)], logNow)
    /\ \A d \in Log!Days \ logLate : HalfDone(logPlain[d], logGz[d], logNow)

(* Every time is of a day.                                                 *)
LEMMA DayOfTime == ASSUME LogAssumed, NEW t \in Log!Times PROVE Log!DayOf(t) \in Log!Days
<1> DEFINE a == t \div LogDay
           b == LogTime \div LogDay
<1>1. t \in Nat /\ t <= LogTime /\ LogTime \in Nat /\ LogDay \in Nat /\ LogDay > 0
  BY DEF LogAssumed, Log!Times
<1>2. a \in Nat /\ b \in Nat /\ a * LogDay <= t /\ LogTime < (b + 1) * LogDay
  BY <1>1
<1> HIDE DEF a, b
<1>3. b + 1 <= a => (b + 1) * LogDay <= a * LogDay
  BY <1>1, <1>2
<1>4. a * LogDay \in Int /\ (b + 1) * LogDay \in Int
  BY <1>1, <1>2
<1>5. a <= b
  BY <1>1, <1>2, <1>3, <1>4
<1> QED BY <1>2, <1>5 DEF a, b, Log!DayOf, Log!Days

(* The parts of its types.                                                 *)
LEMMA LogParts ==
    ASSUME LogInv
    PROVE  /\ logNow \in Log!Times /\ Log!Times \subseteq Nat
           /\ \A r \in LogRequests : logReq[r] \in Log!Request
           /\ \A d \in Log!Days : /\ logPlain[d] \in Log!File \cup {Log!Absent}
                                  /\ logGz[d] \in Log!File \cup {Log!Absent}
  BY DEF LogInv, Log!TypeOK, Log!Times

(* A file and its compressed one before and after: no record is lost, and  *)
(* what is half done is still to be made good.                             *)
FilesKept(p, g, p2, g2) ==
    /\ p2 \in Log!File \cup {Log!Absent} /\ g2 \in Log!File \cup {Log!Absent}
    /\ HalfDone(p, g, logNow) =>
          /\ HalfDone(p2, g2, logNow)
          /\ \A r \in LogRequests, w \in Nat :
                w <= logNow /\ RecordKept(r, w, p, g, logNow) => RecordKept(r, w, p2, g2, logNow)

(* A compressed file takes over the records.                               *)
LEMMA Compressed ==
    ASSUME LogAssumed, LogInv, NEW d \in Log!Days, Log!Old(d)
    PROVE  FilesKept(logPlain[d], logGz[d], Log!Absent, Log!CompressedFile(d))
<1>1. logPlain[d] \in Log!File /\ logNow \in Log!Times /\ logNow \in Nat
  BY LogParts DEF Log!Old
<1> DEFINE c == Log!CompressedFile(d)
<1>2. c \in Log!File /\ c.recs = logPlain[d].recs /\ c.mtime = logNow
  BY <1>1 DEF Log!CompressedFile, Log!File
<1>3. HalfDone(Log!Absent, c, logNow)
  BY DEF HalfDone
<1>4. logPlain[d] # Log!Absent
  BY DEF Log!Old
<1> HIDE DEF c
<1>5. ASSUME NEW r \in LogRequests, NEW w \in Nat, w <= logNow,
             RecordKept(r, w, logPlain[d], logGz[d], logNow)
      PROVE  RecordKept(r, w, Log!Absent, c, logNow)
  BY <1>1, <1>2, <1>4, <1>5 DEF RecordKept
<1> QED BY <1>2, <1>3, <1>5 DEF FilesKept, c

(* A compression that is broken off leaves the file as it was.             *)
LEMMA BrokenOff ==
    ASSUME LogAssumed, LogInv, NEW d \in Log!Days, Log!Old(d), NEW part \in SUBSET LogRequests
    PROVE  FilesKept(logPlain[d], logGz[d], logPlain[d], [recs |-> part, mtime |-> logNow])
<1>1. logPlain[d] \in Log!File /\ logNow \in Log!Times /\ logNow \in Nat
  BY LogParts DEF Log!Old
<1> DEFINE c == [recs |-> part, mtime |-> logNow]
<1>2. c \in Log!File
  BY <1>1 DEF Log!File
<1>3. HalfDone(logPlain[d], c, logNow) /\ logPlain[d] # Log!Absent
  BY DEF HalfDone, Log!Old
<1> HIDE DEF c
<1>5. ASSUME NEW r \in LogRequests, NEW w \in Nat, w <= logNow,
             RecordKept(r, w, logPlain[d], logGz[d], logNow)
      PROVE  RecordKept(r, w, logPlain[d], c, logNow)
  BY <1>1, <1>2, <1>3, <1>5 DEF RecordKept
<1> QED BY <1>1, <1>2, <1>3, <1>5 DEF FilesKept, c

(* What is removed is of a time that is over.                              *)
LEMMA Removed ==
    ASSUME LogAssumed, LogInv, NEW d \in Log!Days, Log!Expired(d)
    PROVE  FilesKept(logPlain[d], logGz[d], logPlain[d], Log!Absent)
<1>1. /\ logPlain[d] \in Log!File \cup {Log!Absent} /\ logGz[d] \in Log!File /\ logNow \in Nat
      /\ logNow - logGz[d].mtime > LogRetention
  BY LogParts DEF Log!Expired
<1>2. logGz[d].mtime \in Nat /\ LogRetention \in Nat
  BY <1>1 DEF Log!File, Log!Times, LogAssumed
<1>3. HalfDone(logPlain[d], Log!Absent, logNow)
  BY DEF HalfDone
<1>4. ASSUME NEW r \in LogRequests, NEW w \in Nat, w <= logNow,
             RecordKept(r, w, logPlain[d], logGz[d], logNow)
      PROVE  RecordKept(r, w, logPlain[d], Log!Absent, logNow)
  <2>1. w <= logGz[d].mtime => logNow - w > LogRetention
    BY <1>1, <1>2
  <2> QED BY <1>4, <2>1 DEF RecordKept
<1> QED BY <1>1, <1>3, <1>4 DEF FilesKept

(* Or nothing happens to it.                                               *)
LEMMA Untouched ==
    ASSUME LogInv, NEW d \in Log!Days
    PROVE  FilesKept(logPlain[d], logGz[d], logPlain[d], logGz[d])
  BY LogParts DEF FilesKept

(* The compressions and removals of a write.                               *)
LEMMA FilesAfter ==
    ASSUME LogAssumed, LogInv, NEW bad \in Log!Failing, NEW part \in Log!Parts(bad), NEW d \in Log!Days
    PROVE  /\ FilesKept(logPlain[d], logGz[d], Log!PlainAfter(bad)[d], Log!GzAfter(bad, part)[d])
           /\ bad = {} /\ HalfDone(logPlain[d], logGz[d], logNow) =>
                Log!PlainAfter(bad)[d] = Log!Absent \/ Log!GzAfter(bad, part)[d] = Log!Absent
<1> DEFINE P == Log!PlainAfter(bad)[d]
           G == Log!GzAfter(bad, part)[d]
<1>1. P = IF Log!Old(d) /\ d \notin bad THEN Log!Absent ELSE logPlain[d]
  BY DEF Log!PlainAfter
<1>2. G = CASE Log!Old(d) /\ d \notin bad -> Log!CompressedFile(d)
            [] Log!Old(d) /\ d \in bad    -> [recs |-> part, mtime |-> logNow]
            [] ~Log!Old(d) /\ Log!Expired(d)  -> Log!Absent
            [] OTHER                  -> logGz[d]
  BY DEF Log!GzAfter
<1> HIDE DEF P, G
<1>3. part \in SUBSET LogRequests
  <2>1. \A e \in Log!Days : logPlain[e].recs \subseteq LogRequests
    BY LogParts DEF Log!File, Log!Absent
  <2>2. bad \subseteq Log!Days
    BY DEF Log!Failing
  <2> QED BY <2>1, <2>2 DEF Log!Parts
<1>4. CASE Log!Old(d) /\ d \notin bad
  BY <1>1, <1>2, <1>4, Compressed DEF P, G
<1>5. CASE Log!Old(d) /\ d \in bad
  BY <1>1, <1>2, <1>3, <1>5, BrokenOff DEF P, G
<1>6. CASE ~Log!Old(d) /\ Log!Expired(d)
  BY <1>1, <1>2, <1>6, Removed DEF P, G
<1>7. CASE ~Log!Old(d) /\ ~Log!Expired(d)
  <2>1. P = logPlain[d] /\ G = logGz[d]
    BY <1>1, <1>2, <1>7
  <2>2. HalfDone(logPlain[d], logGz[d], logNow) => logPlain[d] = Log!Absent \/ logGz[d] = Log!Absent
    BY <1>7 DEF HalfDone, Log!Old
  <2> QED BY <2>1, <2>2, Untouched DEF P, G
<1> QED BY <1>4, <1>5, <1>6, <1>7

(* A step that keeps the files, and records no request.                    *)
LEMMA KeptByFiles ==
    ASSUME LogAssumed, LogInv, UNCHANGED <<logNow, logLate>>,
           logPlain' = [d \in Log!Days |-> logPlain'[d]], logGz' = [d \in Log!Days |-> logGz'[d]],
           \A d \in Log!Days : FilesKept(logPlain[d], logGz[d], logPlain'[d], logGz'[d]),
           logReq' \in [LogRequests -> Log!Request], logFaults' \in 0..MaxFaults,
           \A r \in LogRequests : /\ logReq'[r].began = logReq[r].began \/ ~logReq[r].open
                                  /\ logReq'[r].began = logReq[r].began \/ logReq'[r].began \in Log!Times
                                  /\ logReq'[r].written = logReq[r].written
                                  /\ logReq'[r].open => logReq[r].open \/ logReq'[r].began \in Log!Times
                                  /\ logReq[r].written # Log!Never => logReq'[r].began = logReq[r].began
    PROVE  LogInv'
<1>1. logPlain' \in [Log!Days -> Log!File \cup {Log!Absent}] /\ logGz' \in [Log!Days -> Log!File \cup {Log!Absent}]
  BY DEF FilesKept
<1>2. Log!TypeOK'
  BY <1>1 DEF LogInv, Log!TypeOK
<1>3. \A d \in Log!Days \ logLate' : HalfDone(logPlain'[d], logGz'[d], logNow')
  BY DEF LogInv, FilesKept
<1>4. ASSUME NEW r \in LogRequests, logReq'[r].written # Log!Never
      PROVE  /\ logReq'[r].began \in Log!Times /\ logReq'[r].written <= logNow'
             /\ Log!DayOf(logReq'[r].began) \notin logLate' =>
                  RecordKept(r, logReq'[r].written, logPlain'[Log!DayOf(logReq'[r].began)],
                             logGz'[Log!DayOf(logReq'[r].began)], logNow')
  <2>1. /\ logReq'[r].written = logReq[r].written /\ logReq'[r].began = logReq[r].began
        /\ logReq[r].began \in Log!Times /\ logReq[r].written <= logNow
        /\ logReq[r].written \in Nat
    BY <1>4, LogParts DEF LogInv, Log!Request
  <2> DEFINE d == Log!DayOf(logReq[r].began)
  <2>2. d \in Log!Days
    BY <2>1, DayOfTime
  <2>3. d \notin logLate => RecordKept(r, logReq[r].written, logPlain[d], logGz[d], logNow)
                            /\ HalfDone(logPlain[d], logGz[d], logNow)
    BY <1>4, <2>1, <2>2 DEF LogInv
  <2>4. FilesKept(logPlain[d], logGz[d], logPlain'[d], logGz'[d])
    BY <2>2
  <2> HIDE DEF d
  <2>5. d \notin logLate => RecordKept(r, logReq[r].written, logPlain'[d], logGz'[d], logNow)
    BY <2>1, <2>3, <2>4 DEF FilesKept
  <2> QED BY <2>1, <2>5 DEF d
<1>5. \A r \in LogRequests : logReq'[r].open => logReq'[r].began \in Log!Times
  BY DEF LogInv
<1> QED BY <1>2, <1>3, <1>4, <1>5 DEF LogInv

(* A request begins.                                                       *)
LEMMA LogBegins == ASSUME LogAssumed, LogInv, NEW q \in LogRequests, Log!Begin(q) PROVE LogInv'
<1>1. /\ logReq[q].began = Log!Never /\ UNCHANGED <<logNow, logPlain, logGz, logFaults, logLate>>
      /\ logReq' = [logReq EXCEPT ![q].began = logNow, ![q].open = TRUE]
  BY DEF Log!Begin
<1>2. logReq \in [LogRequests -> Log!Request] /\ logNow \in Log!Times
  BY DEF LogInv, Log!TypeOK
<1>3. /\ logReq' \in [LogRequests -> Log!Request]
      /\ logReq'[q].began = logNow /\ logReq'[q].written = logReq[q].written
      /\ \A r \in LogRequests : r # q => logReq'[r] = logReq[r]
  BY <1>1, <1>2 DEF Log!Request
<1>4. Log!Never \notin Log!Times
  BY DEF Log!Never, Log!Times
<1>5. logReq[q].written = Log!Never /\ ~logReq[q].open
  BY <1>1, <1>4 DEF LogInv
<1>6. logPlain' = [d \in Log!Days |-> logPlain'[d]] /\ logGz' = [d \in Log!Days |-> logGz'[d]]
  BY <1>1 DEF LogInv, Log!TypeOK
<1>7. \A d \in Log!Days : FilesKept(logPlain[d], logGz[d], logPlain'[d], logGz'[d])
  BY <1>1, Untouched
<1>8. logFaults' \in 0..MaxFaults
  BY <1>1 DEF LogInv, Log!TypeOK
<1>9. \A r \in LogRequests : /\ logReq'[r].began = logReq[r].began \/ ~logReq[r].open
                             /\ logReq'[r].began = logReq[r].began \/ logReq'[r].began \in Log!Times
                             /\ logReq'[r].written = logReq[r].written
                             /\ logReq'[r].open => logReq[r].open \/ logReq'[r].began \in Log!Times
                             /\ logReq[r].written # Log!Never => logReq'[r].began = logReq[r].began
  BY <1>2, <1>3, <1>5
<1> HIDE DEF LogInv
<1> QED BY <1>1, <1>3, <1>6, <1>7, <1>8, <1>9, KeptByFiles

(* Requests end without a record.                                          *)
LEMMA Closed ==
    ASSUME LogInv, NEW C \in SUBSET LogRequests,
           logReq' = [r \in LogRequests |-> IF r \in C THEN [logReq[r] EXCEPT !.open = FALSE] ELSE logReq[r]]
    PROVE  /\ logReq' \in [LogRequests -> Log!Request]
           /\ \A r \in LogRequests : /\ logReq'[r].began = logReq[r].began
                                     /\ logReq'[r].written = logReq[r].written
                                     /\ logReq'[r].open => logReq[r].open
<1>1. logReq \in [LogRequests -> Log!Request]
  BY DEF LogInv, Log!TypeOK
<1> QED BY <1>1 DEF Log!Request

(* The record cannot be written, what comes before it can.                 *)
LEMMA LogWriteFails == ASSUME LogAssumed, LogInv, NEW q \in LogRequests, Log!WriteFails(q) PROVE LogInv'
<1>1. /\ logPlain' = Log!PlainAfter({}) /\ logGz' = Log!GzAfter({}, {})
      /\ logFaults < MaxFaults /\ logFaults' = logFaults + 1 /\ UNCHANGED <<logNow, logLate>>
      /\ logReq' = [logReq EXCEPT ![q].open = FALSE]
  BY DEF Log!WriteFails, Log!Fault
<1>2. logReq' = [r \in LogRequests |-> IF r \in {q} THEN [logReq[r] EXCEPT !.open = FALSE] ELSE logReq[r]]
  BY <1>1 DEF LogInv, Log!TypeOK
<1>3. logFaults' \in 0..MaxFaults
  BY <1>1 DEF LogInv, Log!TypeOK, LogAssumed
<1>4. {} \in Log!Failing /\ {} \in Log!Parts({})
  BY DEF Log!Failing, Log!Parts
<1>5. \A d \in Log!Days : FilesKept(logPlain[d], logGz[d], logPlain'[d], logGz'[d])
  BY <1>1, <1>4, FilesAfter
<1>6. logPlain' = [d \in Log!Days |-> logPlain'[d]] /\ logGz' = [d \in Log!Days |-> logGz'[d]]
  BY <1>1 DEF Log!PlainAfter, Log!GzAfter
<1>7. /\ logReq' \in [LogRequests -> Log!Request]
      /\ \A r \in LogRequests : /\ logReq'[r].began = logReq[r].began
                                /\ logReq'[r].written = logReq[r].written
                                /\ logReq'[r].open => logReq[r].open
  <2>1. {q} \in SUBSET LogRequests
    OBVIOUS
  <2> QED BY <1>2, <2>1, Closed
<1> QED BY <1>1, <1>3, <1>5, <1>6, <1>7, KeptByFiles

(* A crash leaves the days before the one it was at, and those after it.   *)
LEMMA LogCrashes == ASSUME LogAssumed, LogInv, NEW b \in Log!Days, Log!Crash(b) PROVE LogInv'
<1> DEFINE Done(e) == Log!Old(e) /\ e < b
<1>1. PICK part \in SUBSET logPlain[b].recs :
         /\ logPlain' = [e \in Log!Days |-> IF Done(e) THEN Log!Absent ELSE logPlain[e]]
         /\ logGz' = [e \in Log!Days |-> CASE Done(e) -> Log!CompressedFile(e)
                                           [] e = b   -> [recs |-> part, mtime |-> logNow]
                                           [] OTHER   -> logGz[e]]
  BY DEF Log!Crash
<1>2. /\ Log!Old(b) /\ logFaults < MaxFaults /\ logFaults' = logFaults + 1 /\ UNCHANGED <<logNow, logLate>>
      /\ logReq' = [r \in LogRequests |-> [logReq[r] EXCEPT !.open = FALSE]]
  BY DEF Log!Crash, Log!Fault
<1>3. part \in SUBSET LogRequests
  BY LogParts DEF Log!File, Log!Absent
<1>4. ASSUME NEW d \in Log!Days PROVE FilesKept(logPlain[d], logGz[d], logPlain'[d], logGz'[d])
  <2>1. CASE Done(d)
    <3>0. d # b /\ Log!Old(d)
      BY <2>1 DEF Log!Days
    <3> HIDE DEF Done
    <3>1. logPlain'[d] = Log!Absent /\ logGz'[d] = Log!CompressedFile(d)
      BY <1>1, <2>1, <3>0
    <3> QED BY <3>0, <3>1, Compressed
  <2>2. CASE ~Done(d) /\ d = b
    <3>1. logPlain'[d] = logPlain[d] /\ logGz'[d] = [recs |-> part, mtime |-> logNow]
      BY <1>1, <2>2
    <3> QED BY <1>2, <1>3, <2>2, <3>1, BrokenOff
  <2>3. CASE ~Done(d) /\ d # b
    <3>1. logPlain'[d] = logPlain[d] /\ logGz'[d] = logGz[d]
      BY <1>1, <2>3
    <3> QED BY <3>1, Untouched
  <2> QED BY <2>1, <2>2, <2>3
<1>5. logFaults' \in 0..MaxFaults
  BY <1>2 DEF LogInv, Log!TypeOK, LogAssumed
<1>6. logPlain' = [d \in Log!Days |-> logPlain'[d]] /\ logGz' = [d \in Log!Days |-> logGz'[d]]
  BY <1>1
<1>7. /\ logReq' \in [LogRequests -> Log!Request]
      /\ \A r \in LogRequests : /\ logReq'[r].began = logReq[r].began
                                /\ logReq'[r].written = logReq[r].written
                                /\ logReq'[r].open => logReq[r].open
  <2>1. logReq' = [r \in LogRequests |-> IF r \in LogRequests THEN [logReq[r] EXCEPT !.open = FALSE] ELSE logReq[r]]
    BY <1>2
  <2> QED BY <2>1, Closed
<1> HIDE DEF Done
<1> QED BY <1>2, <1>4, <1>5, <1>6, <1>7, KeptByFiles

(* The clock.                                                              *)
LEMMA LogTicks == ASSUME LogAssumed, LogInv, Log!Tick PROVE LogInv'
<1>1. /\ logNow < LogTime /\ logNow' = logNow + 1 /\ UNCHANGED <<logReq, logPlain, logGz, logFaults, logLate>>
  BY DEF Log!Tick
<1>2. logNow \in Nat /\ logNow' \in Log!Times /\ LogDay \in Nat /\ LogRetention \in Nat
  BY <1>1 DEF LogInv, Log!TypeOK, Log!Times, LogAssumed
<1>3. Log!TypeOK'
  BY <1>1, <1>2 DEF LogInv, Log!TypeOK
<1>4. ASSUME NEW d \in Log!Days, HalfDone(logPlain[d], logGz[d], logNow)
      PROVE  HalfDone(logPlain'[d], logGz'[d], logNow')
  <2>1. logPlain[d] # Log!Absent => logPlain[d].mtime \in Nat
    BY LogParts DEF Log!File
  <2> QED BY <1>1, <1>2, <1>4, <2>1 DEF HalfDone
<1>5. ASSUME NEW r, NEW w \in Nat, NEW p, NEW g, RecordKept(r, w, p, g, logNow)
      PROVE  RecordKept(r, w, p, g, logNow')
  BY <1>1, <1>2, <1>5 DEF RecordKept
<1>6. \A r \in LogRequests : logReq[r].written # Log!Never => logReq[r].written \in Nat
  BY LogParts DEF Log!Request
<1>7. \A r \in LogRequests : logReq[r].written # Log!Never => logReq[r].written <= logNow'
  BY <1>1, <1>2, <1>6 DEF LogInv
<1> QED BY <1>1, <1>3, <1>4, <1>5, <1>6, <1>7 DEF LogInv

(* A record is written.                                                    *)
LEMMA LogWrites ==
    ASSUME LogAssumed, LogInv, NEW q \in LogRequests, Log!Write(q)
    PROVE  LogInv' /\ (logFaults' = logFaults =>
                         \A d \in Log!Days \ logLate' : logPlain'[d].recs \cap logGz'[d].recs = {})
<1> DEFINE b == Log!DayOf(logReq[q].began)
<1>0. PICK bad \in Log!Failing : \E part \in Log!Parts(bad) :
        /\ IF bad = {} THEN UNCHANGED logFaults ELSE Log!Fault
        /\ logPlain' = [Log!PlainAfter(bad) EXCEPT ![b] = Log!Appended(@, q)]
        /\ logGz' = Log!GzAfter(bad, part)
        /\ logLate' = IF logGz'[b] # Log!Absent THEN logLate \cup {b} ELSE logLate
  BY DEF Log!Write
<1>1. PICK part \in Log!Parts(bad) :
        /\ IF bad = {} THEN UNCHANGED logFaults ELSE Log!Fault
        /\ logPlain' = [Log!PlainAfter(bad) EXCEPT ![b] = Log!Appended(@, q)]
        /\ logGz' = Log!GzAfter(bad, part)
        /\ logLate' = IF logGz'[b] # Log!Absent THEN logLate \cup {b} ELSE logLate
  BY <1>0
<1>2. /\ logReq[q].open /\ logReq[q].began \in Log!Times /\ UNCHANGED logNow
      /\ logReq' = [logReq EXCEPT ![q].written = logNow, ![q].open = FALSE]
  BY DEF Log!Write, LogInv
<1>3. b \in Log!Days
  BY <1>2, DayOfTime
<1>4. logReq \in [LogRequests -> Log!Request] /\ logNow \in Log!Times /\ logFaults \in 0..MaxFaults
      /\ logLate \subseteq Log!Days
  BY DEF LogInv, Log!TypeOK
<1>5. /\ logReq' \in [LogRequests -> Log!Request]
      /\ logReq'[q].began = logReq[q].began /\ logReq'[q].written = logNow /\ ~logReq'[q].open
      /\ \A r \in LogRequests : r # q => logReq'[r] = logReq[r]
  BY <1>2, <1>4 DEF Log!Request
<1> DEFINE P == Log!PlainAfter(bad)
<1>6. /\ P = [d \in Log!Days |-> P[d]] /\ logGz' = [d \in Log!Days |-> logGz'[d]]
      /\ logPlain'[b] = Log!Appended(P[b], q) /\ \A d \in Log!Days : d # b => logPlain'[d] = P[d]
      /\ logPlain' = [d \in Log!Days |-> logPlain'[d]]
  BY <1>1, <1>3 DEF Log!PlainAfter, Log!GzAfter
<1>7. \A d \in Log!Days :
         /\ FilesKept(logPlain[d], logGz[d], P[d], logGz'[d])
         /\ bad = {} /\ HalfDone(logPlain[d], logGz[d], logNow) => P[d] = Log!Absent \/ logGz'[d] = Log!Absent
  BY <1>1, FilesAfter
<1>8. logFaults' \in 0..MaxFaults /\ (logFaults' = logFaults => bad = {})
  BY <1>1, <1>4 DEF Log!Fault, LogAssumed
<1> HIDE DEF P, b
<1>9. P[b].recs \subseteq LogRequests
  BY <1>3, <1>7 DEF FilesKept, Log!File, Log!Absent
<1>10. /\ logPlain'[b] \in Log!File /\ logPlain'[b].recs = P[b].recs \cup {q}
  BY <1>4, <1>6, <1>9 DEF Log!Appended, Log!File
<1>11. logPlain'[b] # Log!Absent
  <2>1. Log!Absent \notin Log!File
    BY DEF Log!Absent, Log!File, Log!Times, Log!Never
  <2> QED BY <1>10, <2>1
<1>12. /\ logLate \subseteq logLate' /\ logLate' \subseteq Log!Days
       /\ b \notin logLate' => logGz'[b] = Log!Absent
  BY <1>1, <1>3, <1>4
<1>13. Log!TypeOK'
  <2>1. logPlain' \in [Log!Days -> Log!File \cup {Log!Absent}]
    BY <1>6, <1>7, <1>10 DEF FilesKept
  <2>2. logGz' \in [Log!Days -> Log!File \cup {Log!Absent}]
    BY <1>6, <1>7 DEF FilesKept
  <2> QED BY <1>2, <1>4, <1>5, <1>8, <1>12, <2>1, <2>2 DEF Log!TypeOK
<1>14. ASSUME NEW d \in Log!Days \ logLate' PROVE HalfDone(logPlain'[d], logGz'[d], logNow')
  <2>1. CASE d = b
    BY <1>12, <1>14, <2>1 DEF HalfDone
  <2>2. CASE d # b
    <3>1. HalfDone(logPlain[d], logGz[d], logNow)
      BY <1>12, <1>14 DEF LogInv
    <3> QED BY <1>2, <1>6, <1>7, <2>2, <3>1 DEF FilesKept
  <2> QED BY <2>1, <2>2
<1>15. ASSUME NEW r \in LogRequests, logReq'[r].written # Log!Never
       PROVE  /\ logReq'[r].began \in Log!Times /\ logReq'[r].written <= logNow'
              /\ Log!DayOf(logReq'[r].began) \notin logLate' =>
                   RecordKept(r, logReq'[r].written, logPlain'[Log!DayOf(logReq'[r].began)],
                              logGz'[Log!DayOf(logReq'[r].began)], logNow')
  <2>1. CASE r = q
    <3>1. logNow <= logNow
      BY <1>4 DEF Log!Times
    <3> QED BY <1>2, <1>5, <1>10, <1>11, <2>1, <3>1 DEF RecordKept, b
  <2>2. CASE r # q
    <3>1. /\ logReq'[r] = logReq[r] /\ logReq[r].written # Log!Never
          /\ logReq[r].began \in Log!Times /\ logReq[r].written <= logNow /\ logReq[r].written \in Nat
      BY <1>5, <1>15, <2>2, LogParts DEF LogInv, Log!Request
    <3> DEFINE d == Log!DayOf(logReq[r].began)
               w == logReq[r].written
    <3>2. d \in Log!Days
      BY <3>1, DayOfTime
    <3>3. d \notin logLate => RecordKept(r, w, logPlain[d], logGz[d], logNow)
                              /\ HalfDone(logPlain[d], logGz[d], logNow)
      BY <3>1, <3>2 DEF LogInv
    <3>4. FilesKept(logPlain[d], logGz[d], P[d], logGz'[d])
      BY <1>7, <3>2
    <3> HIDE DEF d, w
    <3>5. d \notin logLate => RecordKept(r, w, P[d], logGz'[d], logNow)
      BY <3>1, <3>3, <3>4 DEF FilesKept, w
    <3>6. d \notin logLate' => RecordKept(r, w, logPlain'[d], logGz'[d], logNow)
      <4>1. CASE d # b
        BY <1>6, <1>12, <3>2, <3>5, <4>1
      <4>2. CASE d = b
        <5>1. logGz'[b] = Log!Absent => logGz'[b].recs = {}
          BY DEF Log!Absent
        <5> QED BY <1>10, <1>11, <1>12, <3>5, <4>2, <5>1 DEF RecordKept
      <4> QED BY <4>1, <4>2
    <3> QED BY <1>2, <3>1, <3>6 DEF d, w
  <2> QED BY <2>1, <2>2
<1>16. \A r \in LogRequests : logReq'[r].open => logReq'[r].began \in Log!Times
  BY <1>5 DEF LogInv
<1>17. ASSUME logFaults' = logFaults, NEW d \in Log!Days \ logLate'
       PROVE  logPlain'[d].recs \cap logGz'[d].recs = {}
  <2>1. logPlain'[d] = Log!Absent \/ logGz'[d] = Log!Absent
    BY <1>6, <1>7, <1>8, <1>12, <1>17 DEF LogInv
  <2> QED BY <2>1 DEF Log!Absent
<1> QED BY <1>13, <1>14, <1>15, <1>16, <1>17 DEF LogInv

(* No file, and no request.                                                *)
LEMMA LogStarts == Log!Init /\ LogAssumed => LogInv
<1> SUFFICES ASSUME Log!Init, LogAssumed PROVE LogInv
  OBVIOUS
<1> DEFINE q0 == [began |-> Log!Never, written |-> Log!Never, open |-> FALSE]
<1>1. /\ logNow = 0 /\ logFaults = 0 /\ logLate = {} /\ logReq = [r \in LogRequests |-> q0]
      /\ logPlain = [d \in Log!Days |-> Log!Absent] /\ logGz = [d \in Log!Days |-> Log!Absent]
  BY DEF Log!Init
<1>2. q0 \in Log!Request /\ q0.written = Log!Never /\ ~q0.open
  BY DEF Log!Request
<1> HIDE DEF q0
<1>3. Log!TypeOK
  BY <1>1, <1>2 DEF Log!TypeOK, Log!Times, LogAssumed
<1>4. \A d \in Log!Days : HalfDone(logPlain[d], logGz[d], logNow)
  BY <1>1 DEF HalfDone
<1> QED BY <1>1, <1>2, <1>3, <1>4 DEF LogInv

(* Every step keeps it.                                                    *)
LEMMA LogGoesOn == LogInv /\ LogAssumed /\ [Log!Next]_(Log!vars) => LogInv'
<1>1. LogInv /\ UNCHANGED Log!vars => LogInv'
  BY DEF LogInv, Log!TypeOK, Log!vars
<1> QED BY <1>1, LogBegins, LogWrites, LogWriteFails, LogCrashes, LogTicks DEF Log!Next

(* What is due can be read.                                                *)
LEMMA LogReadable == LogInv /\ LogAssumed => Log!KeptUnlessLate
<1> SUFFICES ASSUME LogInv, LogAssumed, NEW r \in LogRequests, Log!Due(r), Log!DayOf(logReq[r].began) \notin logLate
             PROVE  r \in Log!Readable
  BY DEF Log!KeptUnlessLate
<1> DEFINE d == Log!DayOf(logReq[r].began)
<1>1. /\ logReq[r].written # Log!Never /\ logNow - logReq[r].written <= LogRetention
      /\ logReq[r].began \in Log!Times
      /\ RecordKept(r, logReq[r].written, logPlain[d], logGz[d], logNow)
  BY DEF Log!Due, LogInv
<1>2. d \in Log!Days
  BY <1>1, DayOfTime
<1>3. logReq[r].written \in Nat /\ logNow \in Nat /\ LogRetention \in Nat
  BY <1>1, LogParts DEF Log!Request, LogAssumed
<1> HIDE DEF d
<1>4. r \in logPlain[d].recs \cup logGz[d].recs
  BY <1>1, <1>3 DEF RecordKept
<1> QED BY <1>2, <1>4 DEF Log!Readable

(* A record of the operations log can be read until its time is over, and  *)
(* a write that nothing disturbs leaves it in one file: Append and         *)
(* compressAndCleanupLocked, for any requests, days and retention, with    *)
(* crashes and failures in the middle of a compression.                    *)
THEOREM RecordsAreKept == Log!Spec => LogKeepsRecords
<1> DEFINE Once == (\E r \in LogRequests : Log!Write(r)) /\ logFaults' = logFaults
                      => \A d \in Log!Days \ logLate' : logPlain'[d].recs \cap logGz'[d].recs = {}
           Safe == Log!TypeOK /\ Log!KeptUnlessLate
<1>1. LogAssumed
  BY LogConstants
<1>2. LogInv /\ LogAssumed => Safe
  BY LogReadable DEF LogInv
<1>3. LogInv /\ LogAssumed /\ [Log!Next]_(Log!vars) => [Once]_(Log!vars)
  BY LogWrites
<1>4. Log!Spec => []Safe /\ [][Once]_(Log!vars)
  <2> HIDE DEF Safe, Once
  <2> QED BY <1>1, <1>2, <1>3, LogStarts, LogGoesOn, PTL DEF Log!Spec
<1>5. [][Once]_(Log!vars) <=> Log!WriteLeavesOneCopy
  BY DEF Log!WriteLeavesOneCopy
<1> HIDE DEF Once
<1> QED BY <1>4, <1>5 DEF LogKeepsRecords, Log!LogKeepsRecords

--------------------------------------------------------------------------------
(***************************************************************************)
(* The throughput samples: Throughput.  What the pages add up is counted   *)
(* byte by byte, as the recursion of a fold cannot be followed by          *)
(* induction: a set of samples that is least among those for which the sum *)
(* were wrong leads to a lesser one.                                       *)
(***************************************************************************)

(* Of subsets of a finite set there is a least one.                        *)
LEMMA LeastSubset ==
  ASSUME NEW S, IsFiniteSet(S), NEW T, T \subseteq SUBSET S, T # {}
  PROVE  \E m \in T : \A y \in T : ~(y # m /\ y \subseteq m)
<1>1. IsWellFoundedOn(StrictSubsetOrdering(S), SUBSET S)
  BY FS_StrictSubsetOrderingWellFounded, FS_FiniteSubsetsOfFinite
<1>2. \E m \in T : \A y \in T : ~(<<y, m>> \in StrictSubsetOrdering(S))
  BY <1>1, WFMin
<1> QED BY <1>2 DEF StrictSubsetOrdering

(* The bytes of samples, one by one: a sum is counted, not folded.         *)
Bytes(g, s) == {u \in s \X Nat : 1 <= u[2] /\ u[2] <= g[u[1]]}

(* They are finitely many, ...                                             *)
LEMMA BytesFinite ==
    ASSUME NEW D, IsFiniteSet(D), NEW M \in Nat, NEW g, \A x \in D : g[x] \in 0..M
    PROVE  IsFiniteSet(Bytes(g, D)) /\ Cardinality(Bytes(g, D)) \in Nat
<1>1. IsFiniteSet(1..M)
  BY FS_Interval
<1>2. IsFiniteSet(D \X (1..M))
  BY <1>1, FS_Product
<1>3. Bytes(g, D) \subseteq D \X (1..M)
  BY DEF Bytes
<1> QED BY <1>2, <1>3, FS_Subset, FS_CardinalityType

(* ... and one sample's more with it than without.                         *)
LEMMA BytesAdd ==
    ASSUME NEW D, IsFiniteSet(D), NEW M \in Nat, NEW g, \A x \in D : g[x] \in 0..M, NEW d \in D
    PROVE  Cardinality(Bytes(g, D)) = g[d] + Cardinality(Bytes(g, D \ {d}))
<1> DEFINE A == Bytes(g, {d})
           B == Bytes(g, D \ {d})
<1>1. Bytes(g, D) = A \cup B /\ A \cap B = {}
  BY DEF Bytes
<1>2. IsFiniteSet(A) /\ IsFiniteSet(B) /\ Cardinality(B) \in Nat
  <2>1. IsFiniteSet({d}) /\ IsFiniteSet(D \ {d})
    BY FS_Singleton, FS_Subset
  <2>2. \A x \in {d} : g[x] \in 0..M
    OBVIOUS
  <2>3. \A x \in D \ {d} : g[x] \in 0..M
    OBVIOUS
  <2> QED BY <2>1, <2>2, <2>3, BytesFinite
<1>3. Cardinality(A) = g[d] /\ g[d] \in Nat
  <2>1. IsFiniteSet({d}) /\ Cardinality({d}) = 1
    BY FS_Singleton
  <2> DEFINE n == g[d]
  <2>6. n \in Nat
    OBVIOUS
  <2> HIDE DEF n
  <2>7. IsFiniteSet(1..n) /\ Cardinality(1..n) = n
    <3>1. 1 \in Int /\ n \in Int /\ (1 > n => n = 0) /\ n - 1 + 1 = n
      BY <2>6
    <3> QED BY <3>1, FS_Interval
  <2> DEFINE I == 1..n
             O == {d}
  <2>8. IsFiniteSet(I) /\ Cardinality(I) = n /\ IsFiniteSet(O) /\ Cardinality(O) = 1
    BY <2>1, <2>7
  <2> HIDE DEF I, O
  <2>9. Cardinality(O \X I) = Cardinality(O) * Cardinality(I)
    BY <2>8, FS_Product
  <2>3. Cardinality({d} \X (1..g[d])) = 1 * g[d]
    <3>1. Cardinality(O \X I) = 1 * n
      BY <2>8, <2>9
    <3> QED BY <3>1 DEF I, O, n
  <2>2. IsFiniteSet(1..g[d]) /\ Cardinality(1..g[d]) = g[d] /\ g[d] \in Nat
    BY <2>6, <2>7 DEF n
  <2>4. A = {d} \X (1..g[d])
    BY <2>2 DEF Bytes
  <2>5. \A k \in Nat : 1 * k = k
    OBVIOUS
  <2> QED BY <2>2, <2>3, <2>4, <2>5
<1> HIDE DEF A, B
<1>4. Cardinality(A \cup B) = Cardinality(A) + Cardinality(B) - Cardinality(A \cap B)
  BY <1>2, FS_Union
<1>5. Cardinality(A \cap B) = 0
  BY <1>1, FS_EmptySet
<1>6. Cardinality(Bytes(g, D)) = g[d] + Cardinality(B)
  BY <1>1, <1>2, <1>3, <1>4, <1>5
<1> QED BY <1>6 DEF B

(* The sum of samples, as Throughput takes it.                             *)
SumOver(g, s) == Samples!MapThenSumSet(LAMBDA b : g[b], s)

(* A sum is the number of its bytes: the recursion of MapThenSumSet is     *)
(* followed down from a least set on which the two would differ.           *)
LEMMA SumCounts ==
    ASSUME NEW S, IsFiniteSet(S), NEW M \in Nat, NEW g, \A x \in S : g[x] \in 0..M
    PROVE  SumOver(g, S) = Cardinality(Bytes(g, S))
<1> DEFINE Fold(f) == [s \in SUBSET S |-> IF s = {} THEN 0
                          ELSE g[CHOOSE x \in s : TRUE] + f[s \ {CHOOSE x \in s : TRUE}]]
           h == [s \in SUBSET S |-> Cardinality(Bytes(g, s))]
<1>1. SumOver(g, S) = (CHOOSE f : f = Fold(f))[S]
  BY DEF SumOver, Samples!MapThenSumSet, Samples!MapThenFoldSet
<1>2. h = Fold(h)
  <2> SUFFICES ASSUME NEW s \in SUBSET S PROVE h[s] = Fold(h)[s]
    BY Zenon
  <2>1. CASE s = {}
    <3>1. Bytes(g, s) = {}
      BY <2>1 DEF Bytes
    <3> QED BY <2>1, <3>1, FS_EmptySet
  <2>2. CASE s # {}
    <3> DEFINE d == CHOOSE x \in s : TRUE
    <3>1. d \in s
      BY <2>2
    <3> HIDE DEF d
    <3>2. Cardinality(Bytes(g, s)) = g[d] + Cardinality(Bytes(g, s \ {d}))
      <4>1. IsFiniteSet(s) /\ \A x \in s : g[x] \in 0..M
        BY FS_Subset
      <4> QED BY <3>1, <4>1, BytesAdd
    <3>3. h[s \ {d}] = Cardinality(Bytes(g, s \ {d}))
      OBVIOUS
    <3> QED BY <2>2, <3>2, <3>3 DEF d
  <2> QED BY <2>1, <2>2
<1>3. ASSUME NEW f, f = Fold(f) PROVE f[S] = h[S]
  <2> DEFINE T == {s \in SUBSET S : f[s] # h[s]}
  <2> SUFFICES T = {}
    OBVIOUS
  <2> SUFFICES ASSUME T # {} PROVE FALSE
    OBVIOUS
  <2>1. T \subseteq SUBSET S
    OBVIOUS
  <2> HIDE DEF T
  <2>2. PICK m \in T : \A y \in T : ~(y # m /\ y \subseteq m)
    BY <2>1, LeastSubset
  <2> USE DEF T
  <2>3. f[m] = Fold(f)[m] /\ h[m] = Fold(h)[m]
    BY <1>2, <1>3, Zenon
  <2>4. m # {}
    BY <2>3
  <2> DEFINE d == CHOOSE x \in m : TRUE
  <2>5. d \in m
    BY <2>4
  <2> HIDE DEF d
  <2>6. m \ {d} # m /\ m \ {d} \subseteq m /\ m \ {d} \in SUBSET S
    BY <2>5
  <2>7. f[m \ {d}] = h[m \ {d}]
    BY <2>2, <2>6
  <2> QED BY <2>2, <2>3, <2>4, <2>7 DEF d
<1>4. (CHOOSE f : f = Fold(f)) = Fold(CHOOSE f : f = Fold(f))
  BY <1>2
<1> QED BY <1>1, <1>3, <1>4

(* Fewer samples, none of them greater, do not add up to more.             *)
LEMMA LessAddsUpToLess ==
    ASSUME NEW S, IsFiniteSet(S), NEW M \in Nat, NEW g, \A x \in S : g[x] \in 0..M,
           NEW Q \in SUBSET S, NEW h, \A x \in Q : h[x] = g[x]
    PROVE  SumOver(h, Q) \in Nat /\ SumOver(g, S) \in Nat /\ SumOver(h, Q) <= SumOver(g, S)
<1>1. IsFiniteSet(Q) /\ \A x \in Q : h[x] \in 0..M
  BY FS_Subset
<1>2. SumOver(h, Q) = Cardinality(Bytes(h, Q)) /\ SumOver(g, S) = Cardinality(Bytes(g, S))
  BY <1>1, SumCounts
<1>3. IsFiniteSet(Bytes(g, S)) /\ Cardinality(Bytes(g, S)) \in Nat
  BY BytesFinite
<1>4. Cardinality(Bytes(h, Q)) \in Nat
  BY <1>1, BytesFinite
<1>5. Bytes(h, Q) \in SUBSET Bytes(g, S)
  BY DEF Bytes
<1>6. Cardinality(Bytes(h, Q)) <= Cardinality(Bytes(g, S))
  BY <1>3, <1>5, FS_Subset
<1> QED BY <1>2, <1>3, <1>4, <1>6

(* A sample more adds what it has, or less where it takes another's place. *)
LEMMA OneMoreAdds ==
    ASSUME NEW S, IsFiniteSet(S), NEW M \in Nat, NEW g, \A x \in S : g[x] \in 0..M,
           NEW b, NEW n \in 0..M
    PROVE  LET h == [c \in S \cup {b} |-> IF c = b THEN n ELSE g[c]]
           IN  SumOver(h, S \cup {b}) \in Nat /\ SumOver(h, S \cup {b}) <= SumOver(g, S) + n
<1> DEFINE Q == S \cup {b}
           h == [c \in Q |-> IF c = b THEN n ELSE g[c]]
<1>1. IsFiniteSet(Q) /\ b \in Q
  BY FS_AddElement
<1>2. \A x \in Q : h[x] \in 0..M
  OBVIOUS
<1>3. h[b] = n /\ \A x \in Q \ {b} : h[x] = g[x]
  OBVIOUS
<1> HIDE DEF h
<1>4. SumOver(h, Q) = Cardinality(Bytes(h, Q)) /\ Cardinality(Bytes(h, Q)) \in Nat
  BY <1>1, <1>2, SumCounts, BytesFinite
<1>5. Cardinality(Bytes(h, Q)) = h[b] + Cardinality(Bytes(h, Q \ {b}))
  BY <1>1, <1>2, BytesAdd
<1>6. Q \ {b} \in SUBSET S
  OBVIOUS
<1>7. SumOver(h, Q \ {b}) = Cardinality(Bytes(h, Q \ {b}))
  <2>1. IsFiniteSet(Q \ {b}) /\ \A x \in Q \ {b} : h[x] \in 0..M
    BY <1>1, <1>2, FS_Subset
  <2> QED BY <2>1, SumCounts
<1>8. SumOver(h, Q \ {b}) \in Nat /\ SumOver(g, S) \in Nat /\ SumOver(h, Q \ {b}) <= SumOver(g, S)
  <2> HIDE DEF Q
  <2> QED BY <1>3, <1>6, LessAddsUpToLess
<1>9. SumOver(h, Q) \in Nat /\ SumOver(h, Q) <= SumOver(g, S) + n
  BY <1>3, <1>4, <1>5, <1>7, <1>8
<1> QED BY <1>9 DEF h

(* What is assumed of its numbers.                                         *)
SamplesAssumed ==
    /\ Interval \in Nat \ {0} /\ Link \in Nat \ {0}
    /\ Day \in Nat /\ Retention \in Nat /\ Day <= Retention
    /\ Horizon \in Nat /\ Interval <= Horizon /\ MaxFaults \in Nat

(* It holds of them.                                                       *)
LEMMA SamplesConstants == SamplesAssumed
  BY PartsAssume DEF SamplesAssumed, Samples!StepIsPositive, Samples!KeptForADay, Samples!BoundsAreNat

(* The next step is the next bucket, and every time has one.               *)
LEMMA Buckets ==
    ASSUME SamplesAssumed, NEW t \in Nat
    PROVE  /\ Samples!Bucket(t) \in Nat /\ Samples!Bucket(t + Interval) = Samples!Bucket(t) + 1
           /\ t <= Horizon => Samples!Bucket(t) \in Samples!Buckets
           /\ t < Interval => Samples!Bucket(t) = 0
<1> DEFINE q == t \div Interval
           p == (t + Interval) \div Interval
           e == Horizon \div Interval
           I == Interval
<1>1. I \in Nat /\ I > 0 /\ t \in Nat /\ Horizon \in Nat
  BY DEF SamplesAssumed
<1>2. q \in Nat /\ q * I <= t /\ t < (q + 1) * I
  BY <1>1
<1>3. p \in Nat /\ p * I <= t + I /\ t + I < (p + 1) * I
  <2>1. t + I \in Nat
    BY <1>1
  <2> QED BY <1>1, <2>1
<1>4. e \in Nat /\ Horizon < (e + 1) * I
  BY <1>1
<1>8. Samples!Bucket(t) = q /\ Samples!Bucket(t + Interval) = p /\ Samples!Buckets = 0..e
  BY DEF Samples!Bucket, Samples!Buckets
<1> HIDE DEF q, p, e, I
<1>5. (q + 1) * I = q * I + I /\ (p + 1) * I = p * I + I /\ (e + 1) * I = e * I + I
  BY <1>1, <1>2, <1>3, <1>4
<1>6. p = q + 1
  <2>1. (p + 1) * I > (q + 1) * I
    BY <1>1, <1>2, <1>3, <1>5
  <2>2. p + 1 > q + 1
    BY <1>1, <1>2, <1>3, <2>1
  <2>3. p * I < (q + 1) * I + I /\ (q + 2) * I = (q + 1) * I + I
    BY <1>1, <1>2, <1>3
  <2>4. p < q + 2
    BY <1>1, <1>2, <1>3, <2>3
  <2> QED BY <1>2, <1>3, <2>2, <2>4
<1>7. t <= Horizon => q <= e
  <2>1. t <= Horizon => (e + 1) * I > q * I
    BY <1>1, <1>2, <1>4
  <2> QED BY <1>1, <1>2, <1>4, <2>1
<1>9. t < I => q = 0
  BY <1>1, <1>2
<1> QED BY <1>2, <1>4, <1>6, <1>7, <1>8, <1>9 DEF I

(* The node transfers no more than its link.                               *)
MostSent == Link * Horizon

(* More with every unit of time, and never more than that.                 *)
LEMMA SentMost ==
    ASSUME SamplesAssumed
    PROVE  /\ MostSent \in Nat
           /\ \A t \in Nat : Link * t \in Nat /\ (t < Horizon => Link * t + Link <= MostSent)
                             /\ Link * (t + 1) = Link * t + Link
<1>1. Link \in Nat /\ Horizon \in Nat
  BY DEF SamplesAssumed
<1> SUFFICES ASSUME NEW t \in Nat
             PROVE  /\ MostSent \in Nat /\ Link * t \in Nat /\ Link * (t + 1) = Link * t + Link
                    /\ t < Horizon => Link * t + Link <= MostSent
  OBVIOUS
<1>2. MostSent \in Nat /\ Link * t \in Nat /\ Link * (t + 1) = Link * t + Link
  BY <1>1 DEF MostSent
<1>3. t < Horizon => Link * (t + 1) <= Link * Horizon
  BY <1>1
<1> QED BY <1>2, <1>3 DEF MostSent

(* Of a pass: what it read, and what it is about to store.                 *)
PassRead ==
    /\ samplesJob.pc \in {"idle", "fetch", "snapshot"} => samplesJob.grown = 0
    /\ samplesJob.pc = "snapshot" => samplesCounted <= samplesJob.got /\ samplesJob.got <= samplesSent
    /\ samplesJob.at <= samplesNow

(* No byte is in two samples, and none in one and in what a pass is about  *)
(* to store.                                                               *)
CountedOnce ==
    /\ \A b \in DOMAIN samplesSamples : samplesSamples[b] \in 0..MostSent
    /\ Samples!Sampled \in Nat /\ Samples!Sampled <= samplesCounted
    /\ samplesJob.pc = "sample" =>
          samplesJob.grown <= MostSent /\ Samples!Sampled + samplesJob.grown <= samplesCounted

(* As long as no pass is late and the worker goes on, a pass begins with   *)
(* every tick, and there is no sample yet of the step it begins in.        *)
Punctual(now, samples, pc, at, due, next) ==
    /\ next - Interval \in Nat /\ next - Interval <= now /\ now < next
    /\ due => pc = "idle" /\ now = next - Interval
    /\ pc # "idle" => at = next - Interval
    /\ \A b \in DOMAIN samples :
          /\ b <= Samples!Bucket(next - Interval)
          /\ due \/ pc \in {"fetch", "snapshot", "sample"} => b < Samples!Bucket(next - Interval)

(* Nothing is overwritten then.                                            *)
OnTime ==
    ~samplesLate /\ samplesStops = 0 =>
        /\ samplesRunning /\ ~samplesOverwritten
        /\ Punctual(samplesNow, samplesSamples, samplesJob.pc, samplesJob.at, samplesDue, samplesNextTick)

(* The values of the variables.                                            *)
SamplesTypes ==
    /\ samplesNow \in 0..Horizon /\ samplesSent \in Nat /\ samplesSent <= Link * samplesNow
    /\ samplesCounted \in 0..samplesSent
    /\ DOMAIN samplesSamples \subseteq Samples!Buckets
    /\ samplesJob \in Samples!Job
    /\ samplesRunning \in BOOLEAN /\ samplesDue \in BOOLEAN /\ samplesNextTick \in Nat
    /\ samplesLate \in BOOLEAN /\ samplesOverwritten \in BOOLEAN
    /\ samplesStops \in 0..samplesFaults /\ samplesFaults \in 0..MaxFaults

(* All of it.                                                              *)
SamplesInv == SamplesTypes /\ PassRead /\ CountedOnce /\ OnTime

(* Samples are of finitely many steps.                                     *)
LEMMA FewSamples ==
    ASSUME SamplesAssumed, SamplesInv
    PROVE  /\ IsFiniteSet(DOMAIN samplesSamples) /\ DOMAIN samplesSamples \subseteq Nat
           /\ MostSent \in Nat /\ \A b \in DOMAIN samplesSamples : samplesSamples[b] \in 0..MostSent
           /\ Samples!Sampled = SumOver(samplesSamples, DOMAIN samplesSamples)
<1>1. Samples!Bucket(Horizon) \in Nat /\ Samples!Buckets = 0..Samples!Bucket(Horizon)
  BY Buckets DEF SamplesAssumed, Samples!Buckets, Samples!Bucket
<1>2. IsFiniteSet(Samples!Buckets)
  BY <1>1, FS_Interval
<1>3. Samples!Sampled = SumOver(samplesSamples, DOMAIN samplesSamples)
  BY DEF Samples!Sampled, SumOver
<1>4. DOMAIN samplesSamples \subseteq Samples!Buckets
  BY DEF SamplesInv, SamplesTypes
<1>5. IsFiniteSet(DOMAIN samplesSamples)
  BY <1>2, <1>4, FS_Subset
<1>6. \A b \in DOMAIN samplesSamples : samplesSamples[b] \in 0..MostSent
  BY DEF SamplesInv, CountedOnce
<1>7. MostSent \in Nat
  BY SentMost
<1>8. DOMAIN samplesSamples \subseteq Nat
  BY <1>1, <1>4
<1> QED BY <1>3, <1>5, <1>6, <1>7, <1>8

(* The samples are the same, and so is their sum.                          *)
LEMMA SameSum == ASSUME samplesSamples' = samplesSamples PROVE Samples!Sampled' = Samples!Sampled
  BY DEF Samples!Sampled, Samples!MapThenSumSet, Samples!MapThenFoldSet

(* Time passes, perhaps to a tick.                                         *)
LEMMA SamplesClock == ASSUME SamplesAssumed, SamplesInv, Samples!Clock PROVE SamplesInv'
<1>1. /\ samplesNow < Horizon /\ ~(samplesRunning /\ samplesJob.pc = "idle" /\ samplesDue)
      /\ samplesNow' = samplesNow + 1
      /\ IF samplesRunning /\ samplesNow' = samplesNextTick
         THEN /\ samplesDue' = TRUE /\ samplesNextTick' = samplesNextTick + Interval
              /\ samplesLate' = (samplesLate \/ samplesJob.pc # "idle")
         ELSE UNCHANGED <<samplesDue, samplesNextTick, samplesLate>>
      /\ UNCHANGED <<samplesCounted, samplesSamples, samplesJob, samplesRunning, samplesStops,
                     samplesOverwritten, samplesFaults>>
  BY DEF Samples!Clock
<1>2. PICK n \in 0..Link : samplesSent' = samplesSent + n
  BY DEF Samples!Clock
<1>3. /\ samplesNow \in Nat /\ samplesNow' \in 0..Horizon /\ Link * samplesNow \in Nat
      /\ Link * (samplesNow + 1) = Link * samplesNow + Link
      /\ Interval \in Nat /\ Interval > 0 /\ Link \in Nat /\ Horizon \in Nat
  BY <1>1, SentMost DEF SamplesAssumed, SamplesInv, SamplesTypes
<1>4. samplesSent \in Nat /\ samplesSent <= Link * samplesNow /\ samplesCounted \in 0..samplesSent
  BY DEF SamplesInv, SamplesTypes
<1>5. /\ samplesSent' \in Nat /\ samplesSent' <= Link * samplesNow' /\ samplesSent <= samplesSent'
      /\ samplesCounted' \in 0..samplesSent'
  BY <1>1, <1>2, <1>3, <1>4
<1>6. samplesDue' \in BOOLEAN /\ samplesNextTick' \in Nat /\ samplesLate' \in BOOLEAN
  <2>1. samplesDue \in BOOLEAN /\ samplesNextTick \in Nat /\ samplesLate \in BOOLEAN
    BY DEF SamplesInv, SamplesTypes
  <2>2. samplesNextTick' \in Nat
    BY <1>1, <1>3, <2>1
  <2>3. samplesDue' \in BOOLEAN /\ samplesLate' \in BOOLEAN
    BY <1>1, <2>1, Zenon
  <2> QED BY <2>2, <2>3
<1>7. SamplesTypes'
  BY <1>1, <1>3, <1>5, <1>6 DEF SamplesInv, SamplesTypes
<1>8. PassRead'
  <2>1. samplesJob.got \in Nat /\ samplesJob.at \in Nat
    BY DEF SamplesInv, SamplesTypes, Samples!Job
  <2> QED BY <1>1, <1>3, <1>4, <1>5, <2>1 DEF SamplesInv, PassRead
<1>9. CountedOnce'
  BY <1>1, SameSum DEF SamplesInv, CountedOnce
<1>10. OnTime'
  <2> SUFFICES ASSUME ~samplesLate', samplesStops' = 0
               PROVE  /\ samplesRunning' /\ ~samplesOverwritten'
                      /\ Punctual(samplesNow', samplesSamples', samplesJob'.pc, samplesJob'.at,
                                  samplesDue', samplesNextTick')
    BY DEF OnTime
  <2> DEFINE L == samplesNextTick - Interval
             pc == samplesJob.pc
  <2>1. /\ ~samplesLate /\ samplesRunning /\ ~samplesOverwritten
        /\ Punctual(samplesNow, samplesSamples, pc, samplesJob.at, samplesDue, samplesNextTick)
    BY <1>1 DEF SamplesInv, OnTime, SamplesTypes
  <2>2. /\ L \in Nat /\ L <= samplesNow /\ samplesNow < samplesNextTick /\ samplesNextTick \in Nat
        /\ samplesDue => pc = "idle" /\ samplesNow = L
        /\ pc # "idle" => samplesJob.at = L
        /\ \A b \in DOMAIN samplesSamples :
              /\ b <= Samples!Bucket(L)
              /\ samplesDue \/ pc \in {"fetch", "snapshot", "sample"} => b < Samples!Bucket(L)
    BY <2>1 DEF Punctual, SamplesInv, SamplesTypes
  <2>3. ~samplesDue
    BY <1>1, <2>1, <2>2
  <2>4. CASE samplesNow' = samplesNextTick
    <3>1. /\ samplesDue' = TRUE /\ samplesNextTick' = samplesNextTick + Interval /\ pc = "idle"
      BY <1>1, <2>1, <2>4
    <3>2. samplesNextTick' - Interval = L + Interval /\ samplesNextTick' - Interval = samplesNow'
      BY <1>3, <2>2, <2>4, <3>1
    <3>3. Samples!Bucket(L + Interval) = Samples!Bucket(L) + 1 /\ Samples!Bucket(L) \in Nat
      BY <2>2, Buckets
    <3>4. \A b \in DOMAIN samplesSamples : b \in Nat
      BY FewSamples
    <3> HIDE DEF L, pc
    <3>5. \A b \in DOMAIN samplesSamples : b < Samples!Bucket(L + Interval) /\ b <= Samples!Bucket(L + Interval)
      BY <2>2, <3>3, <3>4
    <3>6. samplesNow' < samplesNextTick' /\ L + Interval \in Nat
      BY <1>3, <2>2, <2>4, <3>1
    <3> QED BY <1>1, <1>3, <2>1, <3>1, <3>2, <3>5, <3>6 DEF Punctual, pc
  <2>5. CASE samplesNow' # samplesNextTick
    <3>1. UNCHANGED <<samplesDue, samplesNextTick>>
      BY <1>1, <2>5
    <3>2. samplesNow' < samplesNextTick /\ L <= samplesNow'
      BY <1>1, <1>3, <2>2, <2>5
    <3> QED BY <1>1, <2>1, <2>2, <2>3, <3>1, <3>2 DEF Punctual
  <2> QED BY <2>4, <2>5
<1> QED BY <1>7, <1>8, <1>9, <1>10 DEF SamplesInv

(* The process stops, and starts again.                                    *)
LEMMA SamplesStop == ASSUME SamplesAssumed, SamplesInv, Samples!Stop \/ Samples!Start PROVE SamplesInv'
<1>1. /\ UNCHANGED <<samplesNow, samplesSent, samplesCounted, samplesSamples, samplesLate, samplesOverwritten>>
      /\ samplesRunning' \in BOOLEAN /\ samplesDue' \in BOOLEAN
      /\ samplesNextTick' = samplesNextTick \/ samplesNextTick' = samplesNow + Interval
      /\ samplesJob' = Samples!Idle \/ samplesJob' = samplesJob
      /\ \/ samplesStops' = samplesStops + 1 /\ samplesFaults' = samplesFaults + 1 /\ samplesFaults < MaxFaults
         \/ ~samplesRunning /\ UNCHANGED <<samplesStops, samplesFaults>>
  BY DEF Samples!Stop, Samples!Start, Samples!Fault, Samples!clock
<1>2. /\ Samples!Idle \in Samples!Job /\ Samples!Idle.pc = "idle" /\ Samples!Idle.grown = 0 /\ Samples!Idle.at = 0
  BY DEF Samples!Idle, Samples!Job
<1>3. samplesNextTick' \in Nat
  BY <1>1 DEF SamplesInv, SamplesTypes, SamplesAssumed
<1>4. samplesStops' \in 0..samplesFaults' /\ samplesFaults' \in 0..MaxFaults
  BY <1>1 DEF SamplesInv, SamplesTypes, SamplesAssumed
<1>5. samplesStops' # 0 \/ ~samplesRunning
  BY <1>1 DEF SamplesInv, SamplesTypes
<1>6. SamplesTypes'
  BY <1>1, <1>2, <1>3, <1>4 DEF SamplesInv, SamplesTypes
<1>7. samplesNow \in Nat /\ samplesCounted \in Nat /\ samplesJob.grown \in Nat
  BY DEF SamplesInv, SamplesTypes, Samples!Job
<1>8. PassRead'
  BY <1>1, <1>2, <1>7 DEF SamplesInv, PassRead
<1>9. CountedOnce'
  <2>1. Samples!Sampled' = Samples!Sampled
    BY <1>1, SameSum
  <2>2. samplesJob'.pc = "sample" => samplesJob' = samplesJob
    BY <1>1, <1>2
  <2> QED BY <1>1, <2>1, <2>2 DEF SamplesInv, CountedOnce
<1>10. OnTime'
  BY <1>1, <1>5 DEF SamplesInv, OnTime, SamplesTypes
<1> QED BY <1>6, <1>8, <1>9, <1>10 DEF SamplesInv

(* A pass begins, with the tick.                                           *)
LEMMA PassBegins == ASSUME SamplesAssumed, SamplesInv, Samples!Collect PROVE SamplesInv'
<1>1. /\ samplesRunning /\ samplesJob.pc = "idle" /\ samplesDue /\ samplesDue' = FALSE
      /\ samplesJob' = [Samples!Idle EXCEPT !.pc = "fetch", !.at = samplesNow]
      /\ UNCHANGED <<samplesNow, samplesSent, samplesCounted, samplesSamples, samplesRunning, samplesNextTick,
                     samplesLate, samplesStops, samplesOverwritten, samplesFaults>>
  BY DEF Samples!Collect, Samples!clock
<1>2. samplesNow \in Nat /\ samplesCounted \in Nat
  BY <1>1 DEF SamplesInv, SamplesTypes
<1>3. /\ samplesJob' \in Samples!Job /\ samplesJob'.pc = "fetch" /\ samplesJob'.at = samplesNow
      /\ samplesJob'.grown = 0
  BY <1>1, <1>2 DEF Samples!Idle, Samples!Job
<1>4. SamplesTypes'
  BY <1>1, <1>3 DEF SamplesInv, SamplesTypes
<1>5. PassRead'
  BY <1>1, <1>2, <1>3 DEF PassRead
<1>6. CountedOnce'
  BY <1>1, <1>2, <1>3, SameSum DEF SamplesInv, CountedOnce
<1>7. OnTime'
  BY <1>1, <1>3 DEF SamplesInv, OnTime, Punctual
<1> QED BY <1>4, <1>5, <1>6, <1>7 DEF SamplesInv

(* It reads the counter, or fails to.                                      *)
LEMMA PassFetches == ASSUME SamplesAssumed, SamplesInv, Samples!Fetch PROVE SamplesInv'
<1>1. /\ samplesJob.pc = "fetch"
      /\ \/ samplesJob' = [samplesJob EXCEPT !.pc = "snapshot", !.got = samplesSent] /\ UNCHANGED samplesFaults
         \/ samplesJob' = [samplesJob EXCEPT !.pc = "clean"]
            /\ samplesFaults < MaxFaults /\ samplesFaults' = samplesFaults + 1
      /\ UNCHANGED <<samplesNow, samplesSent, samplesCounted, samplesSamples, samplesRunning, samplesDue,
                     samplesNextTick, samplesLate, samplesStops, samplesOverwritten>>
  BY DEF Samples!Fetch, Samples!Fault, Samples!clock, Samples!worker
<1>2. /\ samplesJob \in Samples!Job /\ samplesCounted \in 0..samplesSent /\ samplesSent \in Nat
      /\ samplesJob.grown = 0 /\ samplesJob.at <= samplesNow
  BY <1>1 DEF SamplesInv, SamplesTypes, PassRead
<1>3. /\ samplesJob' \in Samples!Job /\ samplesJob'.pc \in {"snapshot", "clean"} /\ samplesJob'.at = samplesJob.at
      /\ samplesJob'.grown = 0 /\ (samplesJob'.pc = "snapshot" => samplesJob'.got = samplesSent)
  BY <1>1, <1>2 DEF Samples!Job
<1>4. samplesFaults' \in 0..MaxFaults /\ samplesStops' \in 0..samplesFaults'
  BY <1>1 DEF SamplesInv, SamplesTypes, SamplesAssumed
<1>5. SamplesTypes'
  BY <1>1, <1>3, <1>4 DEF SamplesInv, SamplesTypes
<1>6. PassRead'
  BY <1>1, <1>2, <1>3 DEF PassRead
<1>7. CountedOnce'
  BY <1>1, <1>2, <1>3, SameSum DEF SamplesInv, CountedOnce
<1>8. OnTime'
  BY <1>1, <1>3 DEF SamplesInv, OnTime, Punctual
<1> QED BY <1>5, <1>6, <1>7, <1>8 DEF SamplesInv

(* It stores the snapshot, with what the counter grew by; or skips it.     *)
LEMMA PassSnapshots ==
    ASSUME SamplesAssumed, SamplesInv, Samples!CreateSnapshot \/ Samples!SnapshotFails
    PROVE  SamplesInv'
<1>1. /\ samplesJob.pc = "snapshot"
      /\ \/ /\ samplesCounted' = samplesJob.got /\ UNCHANGED samplesFaults
            /\ samplesJob' = [samplesJob EXCEPT !.pc = "sample", !.grown = samplesJob.got - samplesCounted]
         \/ /\ samplesJob' = [samplesJob EXCEPT !.pc = "sample"] /\ UNCHANGED samplesCounted
            /\ samplesFaults < MaxFaults /\ samplesFaults' = samplesFaults + 1
      /\ UNCHANGED <<samplesNow, samplesSent, samplesSamples, samplesRunning, samplesDue,
                     samplesNextTick, samplesLate, samplesStops, samplesOverwritten>>
  BY DEF Samples!CreateSnapshot, Samples!SnapshotFails, Samples!Fault, Samples!clock, Samples!worker
<1>2. /\ samplesJob \in Samples!Job /\ samplesCounted \in Nat /\ samplesCounted <= samplesSent /\ samplesSent \in Nat
      /\ samplesJob.grown = 0 /\ samplesJob.at <= samplesNow /\ samplesJob.got \in Nat
      /\ samplesCounted <= samplesJob.got /\ samplesJob.got <= samplesSent
  BY <1>1 DEF SamplesInv, SamplesTypes, PassRead, Samples!Job
<1>3. /\ samplesJob' \in Samples!Job /\ samplesJob'.pc = "sample" /\ samplesJob'.at = samplesJob.at
      /\ samplesJob'.grown \in Nat /\ samplesJob'.grown + samplesCounted = samplesCounted'
      /\ samplesCounted' \in Nat /\ samplesCounted <= samplesCounted' /\ samplesCounted' <= samplesSent
  <2> DEFINE n == samplesJob.got - samplesCounted
  <2>1. n \in Nat /\ n + samplesCounted = samplesJob.got /\ 0 + samplesCounted = samplesCounted
        /\ samplesCounted <= samplesCounted
    BY <1>2
  <2> HIDE DEF n
  <2>2. \/ samplesCounted' = samplesJob.got /\ samplesJob' = [samplesJob EXCEPT !.pc = "sample", !.grown = n]
        \/ samplesCounted' = samplesCounted /\ samplesJob' = [samplesJob EXCEPT !.pc = "sample"]
    BY <1>1 DEF n
  <2>3. /\ samplesJob' \in Samples!Job /\ samplesJob'.pc = "sample" /\ samplesJob'.at = samplesJob.at
        /\ \/ samplesCounted' = samplesJob.got /\ samplesJob'.grown = n
           \/ samplesCounted' = samplesCounted /\ samplesJob'.grown = 0
    BY <1>2, <2>1, <2>2 DEF Samples!Job
  <2> QED BY <1>2, <2>1, <2>3
<1>4. samplesFaults' \in 0..MaxFaults /\ samplesStops' \in 0..samplesFaults'
  BY <1>1 DEF SamplesInv, SamplesTypes, SamplesAssumed
<1>5. SamplesTypes'
  <2>1. samplesCounted' \in 0..samplesSent'
    BY <1>1, <1>2, <1>3
  <2> QED BY <1>1, <1>3, <1>4, <2>1 DEF SamplesInv, SamplesTypes
<1>6. PassRead'
  BY <1>1, <1>2, <1>3 DEF PassRead
<1>7. CountedOnce'
  <2>1. samplesSent <= MostSent /\ MostSent \in Nat
    <3>1. samplesNow \in Nat /\ Link \in Nat /\ Horizon \in Nat /\ samplesNow <= Horizon
      BY DEF SamplesAssumed, SamplesInv, SamplesTypes
    <3>2. Link * samplesNow <= Link * Horizon /\ Link * samplesNow \in Nat /\ Link * Horizon \in Nat
      BY <3>1
    <3>3. samplesSent <= Link * samplesNow
      BY DEF SamplesInv, SamplesTypes
    <3> QED BY <1>2, <3>2, <3>3 DEF MostSent
  <2>2. samplesJob'.grown <= MostSent
    BY <1>2, <1>3, <2>1
  <2>3. Samples!Sampled \in Nat /\ Samples!Sampled <= samplesCounted
        /\ \A b \in DOMAIN samplesSamples : samplesSamples[b] \in 0..MostSent
    BY DEF SamplesInv, CountedOnce
  <2>4. Samples!Sampled' = Samples!Sampled
    BY <1>1, SameSum
  <2>5. Samples!Sampled' + samplesJob'.grown <= samplesCounted'
    <3> DEFINE n == Samples!Sampled
    <3>1. n \in Nat /\ n <= samplesCounted
      BY <2>3
    <3> HIDE DEF n
    <3>2. n + samplesJob'.grown <= samplesCounted'
      BY <1>2, <1>3, <3>1
    <3> QED BY <2>4, <3>2 DEF n
  <2>6. Samples!Sampled' <= samplesCounted'
    <3> DEFINE n == Samples!Sampled
    <3>1. n \in Nat /\ n <= samplesCounted
      BY <2>3
    <3> HIDE DEF n
    <3>2. n <= samplesCounted'
      BY <1>2, <1>3, <3>1
    <3> QED BY <2>4, <3>2 DEF n
  <2> QED BY <1>1, <2>2, <2>3, <2>4, <2>5, <2>6 DEF CountedOnce
<1>8. OnTime'
  BY <1>1, <1>3 DEF SamplesInv, OnTime, Punctual
<1> QED BY <1>5, <1>6, <1>7, <1>8 DEF SamplesInv

(* It stores the sample of its step, or fails to.                          *)
LEMMA PassAddsSample == ASSUME SamplesAssumed, SamplesInv, Samples!AddSample PROVE SamplesInv'
<1> DEFINE b == Samples!Bucket(samplesJob.at)
           S == DOMAIN samplesSamples
           h == [c \in S \cup {b} |-> IF c = b THEN samplesJob.grown ELSE samplesSamples[c]]
<1>1. /\ samplesJob.pc = "sample" /\ samplesJob' = [samplesJob EXCEPT !.pc = "clean"]
      /\ \/ /\ samplesSamples' = h /\ samplesOverwritten' = (samplesOverwritten \/ b \in S)
            /\ UNCHANGED samplesFaults
         \/ /\ UNCHANGED <<samplesSamples, samplesOverwritten>>
            /\ samplesFaults < MaxFaults /\ samplesFaults' = samplesFaults + 1
      /\ UNCHANGED <<samplesNow, samplesSent, samplesCounted, samplesRunning, samplesDue,
                     samplesNextTick, samplesLate, samplesStops>>
  BY DEF Samples!AddSample, Samples!Fault, Samples!clock, Samples!worker
<1>2. /\ samplesJob \in Samples!Job /\ samplesCounted \in Nat /\ samplesJob.at <= samplesNow
      /\ samplesNow \in 0..Horizon /\ samplesJob.at \in Nat /\ samplesJob.grown \in Nat
      /\ samplesOverwritten \in BOOLEAN
  BY DEF SamplesInv, SamplesTypes, PassRead, Samples!Job
<1>3. b \in Samples!Buckets /\ b \in Nat
  <2>1. samplesJob.at <= Horizon
    BY <1>2 DEF SamplesAssumed
  <2> QED BY <1>2, <2>1, Buckets
<1>4. /\ IsFiniteSet(S) /\ S \subseteq Samples!Buckets /\ S \subseteq Nat /\ MostSent \in Nat
      /\ \A c \in S : samplesSamples[c] \in 0..MostSent
      /\ Samples!Sampled = SumOver(samplesSamples, S)
  BY FewSamples DEF SamplesInv, SamplesTypes
<1>5. /\ samplesJob.grown \in 0..MostSent
      /\ Samples!Sampled \in Nat /\ Samples!Sampled + samplesJob.grown <= samplesCounted
  BY <1>1, <1>2, <1>4 DEF SamplesInv, CountedOnce
<1>6. SumOver(h, S \cup {b}) \in Nat /\ SumOver(h, S \cup {b}) <= SumOver(samplesSamples, S) + samplesJob.grown
  <2> HIDE DEF b, S
  <2> QED BY <1>4, <1>5, OneMoreAdds
<1>7. DOMAIN h = S \cup {b} /\ \A c \in S \cup {b} : h[c] \in 0..MostSent
  <2> HIDE DEF b, S
  <2> QED BY <1>4, <1>5
<1>8. samplesSamples' = h => Samples!Sampled' = SumOver(h, S \cup {b})
  <2> HIDE DEF h
  <2> QED BY <1>7 DEF Samples!Sampled, SumOver, Samples!MapThenSumSet, Samples!MapThenFoldSet
<1> HIDE DEF h
<1>9. /\ samplesJob' \in Samples!Job /\ samplesJob'.pc = "clean" /\ samplesJob'.at = samplesJob.at
      /\ samplesJob'.grown = samplesJob.grown
  BY <1>1, <1>2 DEF Samples!Job
<1>10. samplesFaults' \in 0..MaxFaults /\ samplesStops' \in 0..samplesFaults'
  BY <1>1 DEF SamplesInv, SamplesTypes, SamplesAssumed
<1>11. samplesOverwritten' \in BOOLEAN
  BY <1>1, <1>2, Zenon
<1>12. DOMAIN samplesSamples' \subseteq S \cup {b}
  BY <1>1, <1>7
<1>13. SamplesTypes'
  <2>1. DOMAIN samplesSamples' \subseteq Samples!Buckets
    BY <1>3, <1>4, <1>12
  <2> HIDE DEF b, S
  <2> QED BY <1>1, <1>9, <1>10, <1>11, <2>1 DEF SamplesInv, SamplesTypes
<1>14. PassRead'
  BY <1>1, <1>2, <1>9 DEF PassRead
<1>15. CountedOnce'
  <2>1. CASE samplesSamples' = h
    <3>1. Samples!Sampled' \in Nat /\ Samples!Sampled' <= samplesCounted
      BY <1>2, <1>4, <1>5, <1>6, <1>8, <2>1
    <3>2. \A c \in DOMAIN samplesSamples' : samplesSamples'[c] \in 0..MostSent
      BY <1>7, <2>1
    <3> QED BY <1>1, <1>9, <3>1, <3>2 DEF CountedOnce
  <2>2. CASE samplesSamples' = samplesSamples
    <3>1. Samples!Sampled' = Samples!Sampled /\ Samples!Sampled <= samplesCounted
      BY <1>2, <1>5, <2>2, SameSum
    <3> QED BY <1>1, <1>4, <1>5, <1>9, <2>2, <3>1 DEF CountedOnce
  <2> QED BY <1>1, <2>1, <2>2
<1>16. OnTime'
  <2> SUFFICES ASSUME ~samplesLate, samplesStops = 0
               PROVE  /\ samplesRunning' /\ ~samplesOverwritten'
                      /\ Punctual(samplesNow', samplesSamples', samplesJob'.pc, samplesJob'.at,
                                  samplesDue', samplesNextTick')
    BY <1>1 DEF OnTime
  <2> DEFINE L == samplesNextTick - Interval
  <2>1. /\ samplesRunning /\ ~samplesOverwritten
        /\ L \in Nat /\ L <= samplesNow /\ samplesNow < samplesNextTick
        /\ ~samplesDue /\ samplesJob.at = L
        /\ \A c \in S : c <= Samples!Bucket(L) /\ c < Samples!Bucket(L)
    BY <1>1 DEF SamplesInv, OnTime, Punctual
  <2>2. b \notin S
    <3>1. ~(b < b)
      BY <1>3
    <3> QED BY <2>1, <3>1
  <2>3. ~samplesOverwritten'
    BY <1>1, <2>1, <2>2
  <2>4. \A c \in DOMAIN samplesSamples' : c <= Samples!Bucket(L)
    <3>1. b = Samples!Bucket(L) /\ b <= b
      BY <1>3, <2>1
    <3> QED BY <1>12, <2>1, <3>1
  <2> HIDE DEF b, S
  <2> QED BY <1>1, <1>9, <2>1, <2>3, <2>4 DEF Punctual
<1> QED BY <1>13, <1>14, <1>15, <1>16 DEF SamplesInv

(* It removes what is too old, or fails to.                                *)
LEMMA PassCleans == ASSUME SamplesAssumed, SamplesInv, Samples!Cleanup PROVE SamplesInv'
<1> DEFINE S == DOMAIN samplesSamples
           Q == {c \in S : ~Samples!Old(c)}
           h == [c \in Q |-> samplesSamples[c]]
<1>1. /\ samplesJob.pc = "clean" /\ samplesJob' = Samples!Idle
      /\ \/ samplesSamples' = h /\ UNCHANGED samplesFaults
         \/ /\ UNCHANGED samplesSamples
            /\ samplesFaults < MaxFaults /\ samplesFaults' = samplesFaults + 1
      /\ UNCHANGED <<samplesNow, samplesSent, samplesCounted, samplesRunning, samplesDue,
                     samplesNextTick, samplesLate, samplesStops, samplesOverwritten>>
  BY DEF Samples!Cleanup, Samples!Fault, Samples!clock, Samples!worker
<1>2. /\ Samples!Idle \in Samples!Job /\ Samples!Idle.pc = "idle" /\ Samples!Idle.grown = 0 /\ Samples!Idle.at = 0
  BY DEF Samples!Idle, Samples!Job
<1>3. samplesNow \in Nat /\ samplesCounted \in Nat
  BY DEF SamplesInv, SamplesTypes
<1>4. /\ IsFiniteSet(S) /\ S \subseteq Samples!Buckets /\ MostSent \in Nat
      /\ \A c \in S : samplesSamples[c] \in 0..MostSent
      /\ Samples!Sampled = SumOver(samplesSamples, S)
  BY FewSamples DEF SamplesInv, SamplesTypes
<1>5. Samples!Sampled \in Nat /\ Samples!Sampled <= samplesCounted
  BY DEF SamplesInv, CountedOnce
<1>6. Q \in SUBSET S /\ DOMAIN h = Q /\ \A c \in Q : h[c] = samplesSamples[c]
  OBVIOUS
<1> HIDE DEF Q, h, S
<1>7. SumOver(h, Q) \in Nat /\ SumOver(h, Q) <= SumOver(samplesSamples, S)
  BY <1>4, <1>6, LessAddsUpToLess
<1>8. samplesSamples' = h => Samples!Sampled' = SumOver(h, Q)
  BY <1>6 DEF Samples!Sampled, SumOver, Samples!MapThenSumSet, Samples!MapThenFoldSet
<1>9. DOMAIN samplesSamples' \subseteq S
  BY <1>1, <1>6 DEF S
<1>10. samplesFaults' \in 0..MaxFaults /\ samplesStops' \in 0..samplesFaults'
  BY <1>1 DEF SamplesInv, SamplesTypes, SamplesAssumed
<1>11. SamplesTypes'
  <2>1. DOMAIN samplesSamples' \subseteq Samples!Buckets
    BY <1>4, <1>9
  <2> QED BY <1>1, <1>2, <1>10, <2>1 DEF SamplesInv, SamplesTypes
<1>12. PassRead'
  BY <1>1, <1>2, <1>3 DEF PassRead
<1>13. CountedOnce'
  <2>1. CASE samplesSamples' = h
    <3>1. Samples!Sampled' \in Nat /\ Samples!Sampled' <= samplesCounted
      BY <1>3, <1>4, <1>5, <1>7, <1>8, <2>1
    <3>2. \A c \in DOMAIN samplesSamples' : samplesSamples'[c] \in 0..MostSent
      BY <1>4, <1>6, <2>1
    <3> QED BY <1>1, <1>2, <3>1, <3>2 DEF CountedOnce
  <2>2. CASE samplesSamples' = samplesSamples
    <3>1. Samples!Sampled' = Samples!Sampled
      BY <2>2, SameSum
    <3> QED BY <1>1, <1>2, <1>5, <2>2, <3>1 DEF SamplesInv, CountedOnce
  <2> QED BY <1>1, <2>1, <2>2
<1>14. OnTime'
  <2> SUFFICES ASSUME ~samplesLate, samplesStops = 0
               PROVE  /\ samplesRunning' /\ ~samplesOverwritten'
                      /\ Punctual(samplesNow', samplesSamples', samplesJob'.pc, samplesJob'.at,
                                  samplesDue', samplesNextTick')
    BY <1>1 DEF OnTime
  <2>1. /\ samplesRunning /\ ~samplesOverwritten
        /\ Punctual(samplesNow, samplesSamples, samplesJob.pc, samplesJob.at, samplesDue, samplesNextTick)
    BY DEF SamplesInv, OnTime
  <2>2. ~samplesDue
    BY <1>1, <2>1 DEF Punctual
  <2> QED BY <1>1, <1>2, <1>9, <2>1, <2>2 DEF Punctual, S
<1> QED BY <1>11, <1>12, <1>13, <1>14 DEF SamplesInv

(* A worker that has just started.                                         *)
LEMMA SamplesStarts == Samples!Init /\ SamplesAssumed => SamplesInv
<1> SUFFICES ASSUME Samples!Init, SamplesAssumed PROVE SamplesInv
  OBVIOUS
<1>1. /\ samplesNow \in 0..(Interval - 1) /\ samplesSent = 0 /\ samplesCounted = 0
      /\ samplesSamples = [b \in {} |-> 0] /\ samplesJob = Samples!Idle
      /\ samplesRunning = TRUE /\ samplesDue = TRUE /\ samplesNextTick = samplesNow + Interval
      /\ samplesLate = FALSE /\ samplesOverwritten = FALSE /\ samplesStops = 0 /\ samplesFaults = 0
  BY DEF Samples!Init
<1>2. Samples!Idle \in Samples!Job /\ Samples!Idle.pc = "idle" /\ Samples!Idle.grown = 0 /\ Samples!Idle.at = 0
  BY DEF Samples!Idle, Samples!Job
<1>3. /\ samplesNow \in 0..Horizon /\ samplesNow \in Nat /\ Interval \in Nat /\ Interval > 0
      /\ Link \in Nat /\ Link * samplesNow \in Nat /\ DOMAIN samplesSamples = {}
  BY <1>1 DEF SamplesAssumed
<1>4. SamplesTypes
  <2>1. samplesSent \in Nat /\ samplesSent <= Link * samplesNow /\ samplesCounted \in 0..samplesSent
    BY <1>1, <1>3
  <2>2. samplesStops \in 0..samplesFaults /\ samplesFaults \in 0..MaxFaults /\ samplesNextTick \in Nat
    BY <1>1, <1>3 DEF SamplesAssumed
  <2>3. DOMAIN samplesSamples \subseteq Samples!Buckets
    BY <1>3
  <2> QED BY <1>1, <1>2, <1>3, <2>1, <2>2, <2>3 DEF SamplesTypes
<1>5. PassRead
  BY <1>1, <1>2, <1>3 DEF PassRead
<1>6. CountedOnce
  <2>1. Samples!Sampled = SumOver(samplesSamples, {})
    BY <1>3 DEF Samples!Sampled, SumOver, Samples!MapThenSumSet, Samples!MapThenFoldSet
  <2>2. IsFiniteSet({}) /\ Cardinality({}) = 0 /\ 0 \in Nat /\ \A x \in {} : samplesSamples[x] \in 0..0
    BY FS_EmptySet
  <2>3. SumOver(samplesSamples, {}) = Cardinality(Bytes(samplesSamples, {}))
    BY <2>2, SumCounts
  <2>4. Bytes(samplesSamples, {}) = {}
    BY DEF Bytes
  <2> QED BY <1>1, <1>2, <1>3, <2>1, <2>2, <2>3, <2>4, SMTT(30) DEF CountedOnce
<1>7. OnTime
  <2>1. samplesNextTick - Interval = samplesNow /\ samplesNow < samplesNextTick
    BY <1>1, <1>3
  <2> QED BY <1>1, <1>2, <1>3, <2>1 DEF OnTime, Punctual
<1> QED BY <1>4, <1>5, <1>6, <1>7 DEF SamplesInv

(* Every step keeps it.                                                    *)
LEMMA SamplesGoOn == SamplesInv /\ SamplesAssumed /\ [Samples!Next]_(Samples!vars) => SamplesInv'
<1>1. ASSUME SamplesInv, UNCHANGED Samples!vars PROVE SamplesInv'
  <2>1. UNCHANGED <<samplesNow, samplesSent, samplesCounted, samplesSamples, samplesJob, samplesRunning, samplesDue,
                    samplesNextTick, samplesLate, samplesStops, samplesOverwritten, samplesFaults>>
    BY <1>1 DEF Samples!vars, Samples!clock, Samples!worker
  <2>2. CountedOnce'
    BY <1>1, <2>1, SameSum DEF SamplesInv, CountedOnce
  <2> QED BY <1>1, <2>1, <2>2 DEF SamplesInv, SamplesTypes, PassRead, OnTime, Punctual
<1>2. Samples!Next => \/ Samples!Clock \/ Samples!Stop \/ Samples!Start \/ Samples!Collect \/ Samples!Fetch
                      \/ Samples!CreateSnapshot \/ Samples!SnapshotFails \/ Samples!AddSample \/ Samples!Cleanup
  BY DEF Samples!Next, Samples!Pass
<1> QED BY <1>1, <1>2, SamplesClock, SamplesStop, PassBegins, PassFetches, PassSnapshots, PassAddsSample, PassCleans

(* What the run checks of states follows.                                  *)
LEMMA SamplesSafe ==
    SamplesInv /\ SamplesAssumed => Samples!TypeOK /\ Samples!NoByteTwice /\ Samples!OverwritesOnlyIfLate
<1> SUFFICES ASSUME SamplesInv, SamplesAssumed
             PROVE  Samples!TypeOK /\ Samples!NoByteTwice /\ Samples!OverwritesOnlyIfLate
  OBVIOUS
<1>1. samplesSent \in 0..(Link * Horizon)
  <2>1. samplesNow \in Nat /\ samplesNow <= Horizon /\ Link \in Nat /\ Horizon \in Nat /\ samplesSent \in Nat
        /\ samplesSent <= Link * samplesNow
    BY DEF SamplesInv, SamplesTypes, SamplesAssumed
  <2>2. Link * samplesNow <= Link * Horizon /\ Link * samplesNow \in Nat /\ Link * Horizon \in Nat
    BY <2>1
  <2> QED BY <2>1, <2>2
<1>2. samplesStops \in 0..MaxFaults
  BY DEF SamplesInv, SamplesTypes, SamplesAssumed
<1>3. \A b \in DOMAIN samplesSamples : samplesSamples[b] \in Nat
  BY FewSamples
<1>4. Samples!TypeOK
  BY <1>1, <1>2, <1>3 DEF SamplesInv, SamplesTypes, Samples!TypeOK
<1>5. Samples!NoByteTwice
  BY DEF SamplesInv, CountedOnce, Samples!NoByteTwice
<1>6. Samples!OverwritesOnlyIfLate
  <2>1. samplesStops = 0 \/ samplesStops > 0
    BY <1>2 DEF SamplesAssumed
  <2> QED BY <2>1 DEF SamplesInv, OnTime, Samples!OverwritesOnlyIfLate
<1> QED BY <1>4, <1>5, <1>6

(* Only the end of a pass removes samples, and none of the last day.       *)
LEMMA SamplesOfTheDayStay ==
    ASSUME SamplesInv, SamplesAssumed, [Samples!Next]_(Samples!vars), NEW b \in Samples!OfTheDay
    PROVE  b \in DOMAIN samplesSamples'
<1>1. b \in DOMAIN samplesSamples /\ b * Interval + Day >= samplesNow /\ b \in Nat
  BY FewSamples DEF Samples!OfTheDay
<1>2. ~Samples!Old(b)
  <2>1. /\ samplesJob.at \in Nat /\ samplesNow \in Nat /\ samplesJob.at <= samplesNow
        /\ Day \in Nat /\ Retention \in Nat /\ Day <= Retention /\ Interval \in Nat
    BY DEF SamplesInv, SamplesTypes, PassRead, Samples!Job, SamplesAssumed
  <2>2. b * Interval \in Nat
    BY <1>1, <2>1
  <2> DEFINE n == b * Interval
  <2>3. n \in Nat /\ n + Day >= samplesNow
    BY <1>1, <2>2
  <2> HIDE DEF n
  <2>4. ~(n + Retention < samplesJob.at)
    BY <2>1, <2>3
  <2> QED BY <2>4 DEF n, Samples!Old
<1>3. CASE samplesSamples' = samplesSamples
  BY <1>1, <1>3
<1>4. CASE Samples!AddSample
  BY <1>1, <1>4 DEF Samples!AddSample
<1>5. CASE Samples!Cleanup
  BY <1>1, <1>2, <1>5 DEF Samples!Cleanup
<1> QED BY <1>3, <1>4, <1>5 DEF Samples!Next, Samples!Pass, Samples!vars, Samples!Clock, Samples!Stop, Samples!Start,
        Samples!Collect, Samples!Fetch, Samples!CreateSnapshot, Samples!SnapshotFails

(* No byte that a node transferred is in two throughput samples, a sample  *)
(* takes another's place only after a late pass or a restart, and those of *)
(* the last day stay: collect with AddNodeThroughputSample and             *)
(* CleanupNodeThroughputSamples, for any steps, retention, rates and       *)
(* faults.                                                                 *)
THEOREM SamplesFit == Samples!Spec => SamplesAddUp
<1> DEFINE Stay == \A b \in Samples!OfTheDay : b \in DOMAIN samplesSamples'
           Safe == Samples!TypeOK /\ Samples!NoByteTwice /\ Samples!OverwritesOnlyIfLate
<1>1. SamplesAssumed
  BY SamplesConstants
<1>2. SamplesInv /\ SamplesAssumed => Safe
  BY SamplesSafe
<1>3. SamplesInv /\ SamplesAssumed /\ [Samples!Next]_(Samples!vars) => [Stay]_(Samples!vars)
  BY SamplesOfTheDayStay
<1>4. Samples!Spec => []Safe /\ [][Stay]_(Samples!vars)
  <2> HIDE DEF Safe, Stay
  <2> QED BY <1>1, <1>2, <1>3, SamplesStarts, SamplesGoOn, PTL DEF Samples!Spec
<1>5. [][Stay]_(Samples!vars) <=> Samples!DayIsKept
  BY DEF Samples!DayIsKept
<1> HIDE DEF Stay
<1> QED BY <1>4, <1>5 DEF SamplesAddUp, Samples!SamplesAddUp

--------------------------------------------------------------------------------
(***************************************************************************)
(* The pass of PeerConsistency.  Rows, peers and look-ups are read at three*)
(* moments, so the invariant says, of a device nothing happened to since   *)
(* the pass began, what each of its sets means of the present (KnowsOf),   *)
(* and that every listed peer is still to come or settled.                 *)
(***************************************************************************)
(* What a finished peer has come to: its row is ticked off, or it is a     *)
(* device with an Xray row as well; and without any row it was counted.    *)
LookedAt(d) ==
    /\ d \in peersJob.db => d \in peersJob.seen \/ d \in peersTwin
    /\ d \notin peersWg \cup peersTwin => d \in peersJob.unknown \cup peersJob.stale

(* A peer is still to be looked at.                                        *)
Waits(d) == \E c \in peersJob.todo : c.dev = d

(* What a pass knows of a device nothing happened to.                      *)
KnowsOf(d) ==
    /\ peersJob.pc # "idle" => (d \in peersJob.db <=> d \in peersWg \cap peersHere)
    /\ Waits(d) => d \in peersPeers
    /\ d \in peersJob.seen => d \in peersPeers
    /\ d \in peersJob.unknown => d \in peersPeers \ (peersWg \cap peersHere)
    /\ d \in peersJob.stale => d \in peersPeers \ peersHere
    /\ peersJob.pc = "compare" /\ peersJob.listed /\ d \in peersPeers => Waits(d) \/ LookedAt(d)

PassKnows == \A d \in Devices \ peersTouched : KnowsOf(d)

(* Before the answer of the agent nothing has been counted.                *)
NothingYet ==
    peersJob.pc = "fetch" =>
        peersJob.todo = {} /\ peersJob.seen = {} /\ peersJob.stale = {} /\ peersJob.unknown = {}

(* What a step keeps of a pass.                                            *)
PeersInv == Peers!TypeOK /\ NothingYet /\ PassKnows

(* The parts of its types.                                                 *)
LEMMA PeersTypes ==
    ASSUME PeersInv
    PROVE  /\ peersHere \subseteq Devices /\ peersWg \subseteq Devices /\ peersTwin \subseteq Devices
           /\ peersPeers \subseteq Devices /\ peersClients \subseteq Devices /\ peersIds \subseteq Devices
           /\ peersTouched \subseteq Devices /\ peersReport \in Peers!Report
           /\ peersChanges \in 0..PeerChanges /\ peersFaults \in 0..MaxFaults
           /\ peersJob \in [pc: {"idle", "fetch", "compare"}, db: SUBSET Devices,
                            todo: SUBSET Peers!Counter, seen: SUBSET Devices, stale: SUBSET Devices,
                            unknown: SUBSET Devices, listed: BOOLEAN]
           /\ peersJob.pc = "idle" => peersJob = Peers!NoJob
  BY DEF PeersInv, Peers!TypeOK, Peers!Job

(* A pass that has not begun has nothing.                                  *)
LEMMA NoJobIsEmpty ==
    /\ Peers!NoJob \in Peers!Job
    /\ Peers!NoJob.pc = "idle" /\ Peers!NoJob.db = {} /\ Peers!NoJob.todo = {} /\ Peers!NoJob.seen = {}
    /\ Peers!NoJob.stale = {} /\ Peers!NoJob.unknown = {} /\ Peers!NoJob.listed = FALSE
  BY DEF Peers!NoJob, Peers!Job

(* Whatever goes on beside a pass, it leaves the pass alone, and the rows  *)
(* and peers of all devices but those it is about.                         *)
LEMMA OthersChange ==
    ASSUME PeersInv, BoundsAreNat /\ PeerChanges \in Nat,
           \/ \E d \in Devices : Peers!PeerUp(d) \/ Peers!PeerDown(d) \/ Peers!RowChanges(d)
           \/ Peers!AgentRestarts \/ Peers!ContainerRestarts
    PROVE  PeersInv'
<1> DEFINE Moves ==
        /\ peersWg' \subseteq Devices /\ peersTwin' \subseteq Devices /\ peersPeers' \subseteq Devices
        /\ peersClients' \subseteq Devices /\ peersIds' \subseteq Devices
        /\ peersTouched \subseteq peersTouched' /\ peersTouched' \subseteq Devices
        /\ peersChanges' = peersChanges + 1 /\ peersChanges < PeerChanges
        /\ UNCHANGED <<peersHere, peersJob, peersReport, peersFaults>>
        /\ \A e \in Devices \ peersTouched' : /\ e \in peersWg' <=> e \in peersWg
                                              /\ e \in peersTwin' <=> e \in peersTwin
                                              /\ e \in peersPeers' <=> e \in peersPeers
<1>1. ASSUME NEW d \in Devices, Peers!PeerUp(d) PROVE Moves
  BY <1>1, PeersTypes DEF Peers!PeerUp, Peers!Change, Peers!worker
<1>2. ASSUME NEW d \in Devices, Peers!PeerDown(d) PROVE Moves
  BY <1>2, PeersTypes DEF Peers!PeerDown, Peers!Change, Peers!worker
<1>3. ASSUME NEW d \in Devices, Peers!RowChanges(d) PROVE Moves
  BY <1>3, PeersTypes DEF Peers!RowChanges, Peers!Change, Peers!worker
<1>4. ASSUME Peers!AgentRestarts PROVE Moves
  BY <1>4, PeersTypes DEF Peers!AgentRestarts, Peers!Change, Peers!worker
<1>5. ASSUME Peers!ContainerRestarts PROVE Moves
  BY <1>5, PeersTypes DEF Peers!ContainerRestarts, Peers!Change, Peers!worker
<1>6. Moves
  BY <1>1, <1>2, <1>3, <1>4, <1>5
<1>7. Peers!TypeOK'
  <2>1. peersChanges' \in 0..PeerChanges
    BY <1>6, PeersTypes
  <2> QED BY <1>6, <2>1 DEF PeersInv, Peers!TypeOK
<1>8. NothingYet'
  BY <1>6 DEF PeersInv, NothingYet
<1>9. PassKnows'
  <2> SUFFICES ASSUME NEW d \in Devices \ peersTouched' PROVE KnowsOf(d)'
    BY DEF PassKnows
  <2>1. KnowsOf(d)
    BY <1>6 DEF PeersInv, PassKnows
  <2>2. Waits(d)' <=> Waits(d)
    BY <1>6 DEF Waits
  <2>3. LookedAt(d)' <=> LookedAt(d)
    BY <1>6 DEF LookedAt
  <2> QED BY <1>6, <2>1, <2>2, <2>3 DEF KnowsOf
<1> QED BY <1>7, <1>8, <1>9 DEF PeersInv

(* Rows are read: all of the node's, and nothing has happened since.       *)
LEMMA RowsAreListed == ASSUME PeersInv, Peers!ListRows PROVE PeersInv'
<1> DEFINE j == peersJob'
<1>1. /\ j = [Peers!NoJob EXCEPT !.pc = "fetch", !.db = peersWg \cap peersHere] /\ peersTouched' = {}
      /\ UNCHANGED <<peersHere, peersWg, peersTwin, peersPeers, peersClients, peersIds, peersChanges,
                     peersReport, peersFaults>>
  BY DEF Peers!ListRows, Peers!ListActive, Peers!environment
<1>2. /\ j \in Peers!Job /\ j.pc = "fetch" /\ j.db = peersWg \cap peersHere /\ j.todo = {} /\ j.seen = {}
      /\ j.stale = {} /\ j.unknown = {}
  BY <1>1, PeersTypes DEF Peers!NoJob, Peers!Job
<1>3. Peers!TypeOK'
  BY <1>1, <1>2 DEF PeersInv, Peers!TypeOK
<1>4. \A d \in Devices : KnowsOf(d)'
  BY <1>1, <1>2 DEF KnowsOf, Waits
<1> QED BY <1>2, <1>3, <1>4 DEF PeersInv, NothingYet, PassKnows

(* The agent's answer: all peers of the interface, or none and not listed. *)
LEMMA PeersAreFetched ==
    ASSUME PeersInv, BoundsAreNat, Peers!Fetch \/ Peers!FetchWithoutWG
    PROVE  PeersInv'
<1> DEFINE counter(d) == [dev |-> d, id |-> d \in peersIds]
           all == {counter(d) : d \in peersPeers}
           j == peersJob'
<1>1. /\ peersJob.pc = "fetch" /\ UNCHANGED <<peersHere, peersWg, peersTwin, peersPeers, peersClients,
                                             peersIds, peersChanges, peersReport, peersTouched>>
      /\ \/ j = [peersJob EXCEPT !.pc = "compare", !.todo = all, !.listed = TRUE] /\ peersFaults' = peersFaults
         \/ /\ j = [peersJob EXCEPT !.pc = "compare", !.todo = {}, !.listed = FALSE]
            /\ peersFaults < MaxFaults /\ peersFaults' = peersFaults + 1
  BY DEF Peers!Fetch, Peers!FetchWithoutWG, Peers!Fetched, Peers!environment, Peers!Fault
<1>2. /\ all \subseteq Peers!Counter
      /\ \A d \in Devices : (\E c \in all : c.dev = d) <=> d \in peersPeers
  <2>1. ASSUME NEW d \in peersPeers PROVE counter(d) \in Peers!Counter /\ counter(d).dev = d
    <3> DEFINE known == d \in peersIds
    <3>1. d \in Devices
      BY PeersTypes
    <3>2. known \in BOOLEAN
      <4>1. (d \in peersIds) = TRUE \/ (d \in peersIds) = FALSE
        OBVIOUS
      <4> QED BY <4>1, Zenon
    <3> HIDE DEF known
    <3>3. [dev |-> d, id |-> known] \in Peers!Counter /\ [dev |-> d, id |-> known].dev = d
      BY <3>1, <3>2 DEF Peers!Counter
    <3> QED BY <3>3, Zenon DEF known
  <2> HIDE DEF counter
  <2> QED BY <2>1, PeersTypes
<1> HIDE DEF all
<1>3. /\ j \in Peers!Job /\ j.pc = "compare" /\ j.db = peersJob.db /\ j.seen = {} /\ j.stale = {}
      /\ j.unknown = {} /\ j.todo \in {all, {}} /\ (j.listed => j.todo = all)
  BY <1>1, <1>2, PeersTypes, ZenonT(60) DEF PeersInv, NothingYet, Peers!Job
<1>4. Peers!TypeOK'
  <2>1. peersFaults' \in 0..MaxFaults
    BY <1>1, PeersTypes DEF BoundsAreNat
  <2> QED BY <1>1, <1>3, <2>1 DEF PeersInv, Peers!TypeOK
<1>5. ASSUME NEW d \in Devices \ peersTouched PROVE KnowsOf(d)'
  <2>1. d \in peersJob.db <=> d \in peersWg \cap peersHere
    BY <1>1 DEF PeersInv, PassKnows, KnowsOf
  <2>2. Waits(d)' => d \in peersPeers
    BY <1>2, <1>3 DEF Waits
  <2>3. j.listed /\ d \in peersPeers => Waits(d)'
    BY <1>2, <1>3 DEF Waits
  <2> QED BY <1>1, <1>3, <2>1, <2>2, <2>3 DEF KnowsOf
<1> QED BY <1>1, <1>3, <1>4, <1>5 DEF PeersInv, NothingYet, PassKnows

(* The node is left out, or the pass is over.                              *)
LEMMA PassIsOver ==
    ASSUME PeersInv, BoundsAreNat, Peers!Skip \/ Peers!Log
    PROVE  PeersInv'
<1>1. /\ peersJob' = Peers!NoJob
      /\ UNCHANGED <<peersHere, peersWg, peersTwin, peersPeers, peersClients, peersIds, peersChanges, peersTouched>>
      /\ \/ peersFaults < MaxFaults /\ peersFaults' = peersFaults + 1 /\ peersReport' = peersReport
         \/ /\ peersReport' = [stale |-> peersJob.stale, unknown |-> peersJob.unknown,
                               missing |-> peersJob.db \ peersJob.seen]
            /\ peersFaults' = peersFaults
  BY DEF Peers!Skip, Peers!Log, Peers!environment, Peers!Fault
<1>2. Peers!TypeOK'
  <2>1. peersFaults' \in 0..MaxFaults
    BY <1>1, PeersTypes DEF BoundsAreNat
  <2>2. peersReport' \in Peers!Report
    BY <1>1, PeersTypes DEF Peers!Report
  <2> QED BY <1>1, <2>1, <2>2, NoJobIsEmpty, PeersTypes DEF Peers!TypeOK
<1>3. \A d \in Devices : KnowsOf(d)'
  BY <1>1, NoJobIsEmpty DEF KnowsOf, Waits
<1> QED BY <1>1, <1>2, <1>3, NoJobIsEmpty DEF PeersInv, NothingYet, PassKnows

(* The addresses of rows carry a mask and those of peers none: they never  *)
(* match, and a peer without its access is looked for by its key.          *)
LEMMA AddressesDiffer == \A c : Peers!ByIP(c) = {}
<1>1. ASSUME NEW a, NEW b PROVE <<a, "/32">> # <<b, "">>
  <2>1. "/32" # ""
    BY Zenon
  <2> DEFINE x == "/32"
             y == ""
  <2> HIDE DEF x, y
  <2>2. x # y => <<a, x>> # <<b, y>>
    OBVIOUS
  <2> QED BY <2>1, <2>2, Zenon DEF x, y
<1> QED BY <1>1, Zenon DEF Peers!ByIP, Peers!AssignedIP, Peers!AllowedIP

(* What a peer ticks off is its own row, or nothing.                       *)
LEMMA TicksItsOwn ==
    ASSUME NEW c
    PROVE  /\ c.id => Peers!Ticks(c) = peersJob.db \cap {c.dev}
           /\ ~c.id => Peers!Ticks(c) = (peersWg \ peersTwin) \cap {c.dev}
  BY AddressesDiffer, Zenon DEF Peers!Ticks, Peers!ByKeySees

(* One more peer is looked at.                                             *)
LEMMA OneIsCompared == ASSUME PeersInv, Peers!Compare PROVE PeersInv'
<1> DEFINE j == peersJob'
<1>1. /\ peersJob.pc = "compare"
      /\ UNCHANGED <<peersHere, peersWg, peersTwin, peersPeers, peersClients, peersIds, peersChanges,
                     peersReport, peersTouched, peersFaults>>
  BY DEF Peers!Compare, Peers!environment
<1>2. PICK c \in peersJob.todo :
           j = [peersJob EXCEPT
                    !.todo    = @ \ {c},
                    !.seen    = @ \cup Peers!Ticks(c),
                    !.stale   = IF Peers!IsStale(c) THEN @ \cup {c.dev} ELSE @,
                    !.unknown = IF Peers!Recognised(c) \/ Peers!IsStale(c) THEN @ ELSE @ \cup {c.dev}]
  BY DEF Peers!Compare
<1>3. c \in Peers!Counter /\ c.dev \in Devices
  BY PeersTypes DEF Peers!Counter
<1> DEFINE ticks == Peers!Ticks(c)
           stale == IF Peers!IsStale(c) THEN {c.dev} ELSE {}
           unknown == IF Peers!Recognised(c) \/ Peers!IsStale(c) THEN {} ELSE {c.dev}
<1>4. /\ ticks \subseteq {c.dev}
      /\ stale = {c.dev} => c.dev \notin peersJob.db /\ c.dev \notin peersHere
      /\ unknown = {c.dev} => \/ c.dev \notin peersJob.db
                              \/ c.dev \notin peersHere \cap (peersWg \cup peersTwin)
      /\ c.dev \in peersJob.db => c.dev \in ticks \/ c.dev \notin peersWg \/ c.dev \in peersTwin
      /\ c.dev \notin peersJob.db \cup peersWg \cup peersTwin => c.dev \in unknown \cup stale
  <2>1. CASE c.id
    BY <2>1, TicksItsOwn DEF Peers!IsStale, Peers!Recognised
  <2>2. CASE ~c.id
    BY <2>2, TicksItsOwn, AddressesDiffer DEF Peers!IsStale, Peers!Recognised, Peers!ByKey
  <2> QED BY <2>1, <2>2
<1>5. stale \subseteq {c.dev} /\ unknown \subseteq {c.dev}
  OBVIOUS
<1>6. j = [peersJob EXCEPT !.todo = @ \ {c}, !.seen = @ \cup ticks, !.stale = @ \cup stale,
                           !.unknown = @ \cup unknown]
  BY <1>2
<1> HIDE DEF ticks, stale, unknown
<1>7. /\ j \in Peers!Job /\ j.pc = "compare" /\ j.db = peersJob.db /\ j.listed = peersJob.listed
      /\ j.todo = peersJob.todo \ {c} /\ j.seen = peersJob.seen \cup ticks
      /\ j.stale = peersJob.stale \cup stale /\ j.unknown = peersJob.unknown \cup unknown
  <2>1. ticks \subseteq Devices /\ stale \subseteq Devices /\ unknown \subseteq Devices
    BY <1>3, <1>4, <1>5
  <2> HIDE DEF j
  <2> QED BY <1>1, <1>6, <2>1, PeersTypes DEF Peers!Job
<1> HIDE DEF j
<1>8. Peers!TypeOK'
  BY <1>1, <1>7 DEF PeersInv, Peers!TypeOK, j
<1>9. ASSUME NEW d \in Devices \ peersTouched PROVE KnowsOf(d)'
  <2>1. KnowsOf(d)
    BY DEF PeersInv, PassKnows
  <2>2. Waits(d)' => Waits(d)
    BY <1>7 DEF Waits, j
  <2>3. CASE d # c.dev
    <3>1. Waits(d)' <=> Waits(d)
      BY <1>7, <2>3 DEF Waits, j
    <3>2. LookedAt(d)' <=> LookedAt(d)
      BY <1>1, <1>4, <1>5, <1>7, <2>3 DEF LookedAt, j
    <3> QED BY <1>1, <1>4, <1>5, <1>7, <2>1, <2>3, <3>1, <3>2 DEF KnowsOf, j
  <2>4. CASE d = c.dev
    <3>1. Waits(d) /\ d \in peersPeers /\ (d \in peersJob.db <=> d \in peersWg \cap peersHere)
      BY <1>1, <2>1, <2>4 DEF KnowsOf, Waits
    <3>2. LookedAt(d)'
      BY <1>1, <1>4, <1>7, <2>4, <3>1 DEF LookedAt, j
    <3> QED BY <1>1, <1>4, <1>5, <1>7, <2>1, <2>2, <2>4, <3>1, <3>2 DEF KnowsOf, j
  <2> QED BY <2>3, <2>4
<1> QED BY <1>1, <1>7, <1>8, <1>9 DEF PeersInv, NothingYet, PassKnows, j

(* A look-up fails: nothing is said of that device.                        *)
LEMMA OneIsNotCompared == ASSUME PeersInv, BoundsAreNat, Peers!CompareFails PROVE PeersInv'
<1> DEFINE j == peersJob'
<1>1. /\ peersJob.pc = "compare" /\ peersFaults < MaxFaults /\ peersFaults' = peersFaults + 1
      /\ UNCHANGED <<peersHere, peersWg, peersTwin, peersPeers, peersClients, peersIds, peersChanges,
                     peersReport>>
  BY DEF Peers!CompareFails, Peers!environment, Peers!Fault
<1>2. PICK c \in peersJob.todo : /\ j = [peersJob EXCEPT !.todo = @ \ {c}, !.unknown = @ \cup {c.dev}]
                                 /\ peersTouched' = peersTouched \cup {c.dev}
  BY DEF Peers!CompareFails
<1>3. c.dev \in Devices
  BY PeersTypes DEF Peers!Counter
<1>4. /\ j \in Peers!Job /\ j.pc = "compare" /\ j.db = peersJob.db /\ j.listed = peersJob.listed
      /\ j.todo = peersJob.todo \ {c} /\ j.seen = peersJob.seen
      /\ j.stale = peersJob.stale /\ j.unknown = peersJob.unknown \cup {c.dev}
  <2> HIDE DEF j
  <2> QED BY <1>1, <1>2, <1>3, PeersTypes DEF Peers!Job
<1> HIDE DEF j
<1>5. Peers!TypeOK'
  <2>1. peersFaults' \in 0..MaxFaults
    BY <1>1, PeersTypes DEF BoundsAreNat
  <2> QED BY <1>1, <1>2, <1>3, <1>4, <2>1 DEF PeersInv, Peers!TypeOK, j
<1>6. ASSUME NEW d \in Devices \ peersTouched' PROVE KnowsOf(d)'
  <2>1. KnowsOf(d) /\ d # c.dev
    BY <1>2 DEF PeersInv, PassKnows
  <2>2. Waits(d)' <=> Waits(d)
    BY <1>4, <2>1 DEF Waits, j
  <2>3. LookedAt(d)' <=> LookedAt(d)
    BY <1>1, <1>4, <2>1 DEF LookedAt, j
  <2> QED BY <1>1, <1>4, <2>1, <2>2, <2>3 DEF KnowsOf, j
<1> QED BY <1>4, <1>5, <1>6 DEF PeersInv, NothingYet, PassKnows, j

(* No pass, no rows, no peers.                                             *)
LEMMA PeersStart == Peers!Init /\ BoundsAreNat /\ PeerChanges \in Nat => PeersInv
<1> SUFFICES ASSUME Peers!Init, BoundsAreNat, PeerChanges \in Nat PROVE PeersInv
  OBVIOUS
<1>1. /\ peersHere \subseteq Devices /\ peersWg = {} /\ peersTwin = {} /\ peersPeers = {} /\ peersClients = {}
      /\ peersIds = {} /\ peersTouched = {} /\ peersJob = Peers!NoJob /\ peersChanges = 0 /\ peersFaults = 0
      /\ peersReport = [stale |-> {}, unknown |-> {}, missing |-> {}]
  BY DEF Peers!Init
<1>2. peersReport \in Peers!Report
  BY <1>1 DEF Peers!Report
<1>3. Peers!TypeOK
  <2>1. 0 \in 0..PeerChanges /\ 0 \in 0..MaxFaults
    BY DEF BoundsAreNat
  <2> QED BY <1>1, <1>2, <2>1, NoJobIsEmpty DEF Peers!TypeOK
<1> QED BY <1>1, <1>3, NoJobIsEmpty DEF PeersInv, NothingYet, PassKnows, KnowsOf, Waits

(* Every step keeps it.                                                    *)
LEMMA PeersGoOn ==
    PeersInv /\ BoundsAreNat /\ PeerChanges \in Nat /\ [Peers!Next]_(Peers!vars) => PeersInv'
<1>1. PeersInv /\ UNCHANGED Peers!vars => PeersInv'
  BY DEF PeersInv, Peers!TypeOK, NothingYet, PassKnows, KnowsOf, Waits, LookedAt, Peers!vars
<1> QED
  BY <1>1, OthersChange, RowsAreListed, PeersAreFetched, PassIsOver, OneIsCompared, OneIsNotCompared
     DEF Peers!Next, Peers!Pass

(* What is logged: the pass looked at every peer, and at the rest of the   *)
(* rows by leaving them unticked.                                          *)
LEMMA LoggedIsTrue ==
    ASSUME PeersInv, Peers!Next, Peers!Logs
    PROVE  \A d \in Peers!Quiet :
               /\ peersJob.listed =>
                      /\ d \in peersReport'.missing
                             => d \in Peers!Active /\ (d \in peersPeers => d \in peersTwin)
                      /\ d \in peersReport'.unknown => d \in peersPeers \ Peers!Active
                      /\ d \in peersReport'.stale   => d \in peersPeers \ peersHere
               /\ d \in Peers!Active \ peersPeers => d \in peersReport'.missing
               /\ peersJob.listed /\ d \in peersPeers \ (peersWg \cup peersTwin)
                      => d \in peersReport'.unknown \cup peersReport'.stale
<1>1. Peers!Log
  <2>1. ~\E d \in Devices : Peers!PeerUp(d) \/ Peers!PeerDown(d) \/ Peers!RowChanges(d)
    BY DEF Peers!Logs, Peers!PeerUp, Peers!PeerDown, Peers!RowChanges, Peers!Change, Peers!worker
  <2>2. ~Peers!AgentRestarts /\ ~Peers!ContainerRestarts
    BY DEF Peers!Logs, Peers!AgentRestarts, Peers!ContainerRestarts, Peers!Change, Peers!worker
  <2>3. ~Peers!ListRows /\ ~Peers!Fetch /\ ~Peers!FetchWithoutWG /\ ~Peers!Skip
    BY DEF Peers!Logs, Peers!ListRows, Peers!Fetch, Peers!FetchWithoutWG, Peers!Fetched, Peers!Skip
  <2>4. ~Peers!Compare
    <3> SUFFICES ASSUME Peers!Compare PROVE peersJob'.pc = peersJob.pc
      BY DEF Peers!Logs
    <3> QED BY PeersTypes DEF Peers!Compare
  <2>5. ~Peers!CompareFails
    <3> SUFFICES ASSUME Peers!CompareFails PROVE peersJob'.pc = peersJob.pc
      BY DEF Peers!Logs
    <3> QED BY PeersTypes DEF Peers!CompareFails
  <2> QED BY <2>1, <2>2, <2>3, <2>4, <2>5 DEF Peers!Next, Peers!Pass
<1>2. /\ peersJob.pc = "compare" /\ peersJob.todo = {} /\ peersReport'.stale = peersJob.stale
      /\ peersReport'.unknown = peersJob.unknown /\ peersReport'.missing = peersJob.db \ peersJob.seen
  BY <1>1 DEF Peers!Log
<1> TAKE d \in Peers!Quiet
<1>3. KnowsOf(d)
  BY DEF PeersInv, PassKnows, Peers!Quiet
<1>4. ~Waits(d)
  BY <1>2 DEF Waits
<1> QED BY <1>2, <1>3, <1>4 DEF KnowsOf, LookedAt, Peers!Active

(* Whatever is created, revoked and restarted while a pass of the peer     *)
(* consistency worker goes through a node, what it logs of the devices     *)
(* nothing happened to is so, and it leaves none of them out: compareNode- *)
(* Peers and the queries around it, for any devices, changes and failures. *)
THEOREM PassTellsTheTruth == Peers!Spec => PassIsTrue
<1> DEFINE Alarm == Peers!Logs /\ peersJob.listed => \A d \in Peers!Quiet :
               /\ d \in peersReport'.missing
                      => d \in Peers!Active /\ (d \in peersPeers => d \in peersTwin)
               /\ d \in peersReport'.unknown => d \in peersPeers \ Peers!Active
               /\ d \in peersReport'.stale   => d \in peersPeers \ peersHere
           Whole == Peers!Logs => \A d \in Peers!Quiet :
               /\ d \in Peers!Active \ peersPeers => d \in peersReport'.missing
               /\ peersJob.listed /\ d \in peersPeers \ (peersWg \cup peersTwin)
                      => d \in peersReport'.unknown \cup peersReport'.stale
           Bounds == BoundsAreNat /\ PeerChanges \in Nat
<1>1. Bounds
  BY PartsAssume, BoundsAreNat DEF Peers!BoundsAreNat
<1>2. PeersInv /\ [Peers!Next]_(Peers!vars) => [Alarm /\ Whole]_(Peers!vars)
  BY LoggedIsTrue
<1>3. Peers!Init /\ Bounds => PeersInv
  BY PeersStart
<1>4. PeersInv /\ Bounds /\ [Peers!Next]_(Peers!vars) => PeersInv'
  BY PeersGoOn
<1>5. PeersInv => Peers!TypeOK
  BY DEF PeersInv
<1>6. Peers!Spec => []Peers!TypeOK /\ [][Alarm]_(Peers!vars) /\ [][Whole]_(Peers!vars)
  <2> HIDE DEF Alarm, Whole, Bounds
  <2> QED BY <1>1, <1>2, <1>3, <1>4, <1>5, PTL DEF Peers!Spec
<1>7. /\ [][Alarm]_(Peers!vars) <=> Peers!NoFalseAlarm
      /\ [][Whole]_(Peers!vars) <=> Peers!NothingOverlooked
  BY DEF Peers!NoFalseAlarm, Peers!NothingOverlooked
<1> HIDE DEF Alarm, Whole
<1> QED BY <1>6, <1>7 DEF PassIsTrue, Peers!PassIsTrue

================================================================================
