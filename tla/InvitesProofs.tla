----------------------------- MODULE InvitesProofs -----------------------------
(***************************************************************************)
(* That uses, grants and bonuses add up, for any users, codes and handlers *)
(* and any faults.  The counts alone are not inductive: an activation      *)
(* commits what it checked one step before.  IInv adds what the two locks -*)
(* the dispatcher's on the sender, the transaction's on the code - keep    *)
(* true in between, and who owes a bonus that has not come.                *)
(***************************************************************************)
EXTENDS MCInvites, FiniteSetTheorems, TLAPS

(* The functions have the domains TypeOK reads them on.                    *)
Shapes ==
    /\ uses \in [Codes -> Nat] /\ grants \in [Users -> SUBSET Grant]
    /\ IsFiniteSet(activation)
    /\ \A h \in Handlers : flow[h].pc # "idle" => flow[h].user \in Users /\ flow[h].code \in Codes

(* A user is in one handler at a time.                                     *)
SenderHeld ==
    \A h, k \in Handlers : flow[h].user = flow[k].user /\ flow[h].user # None => h = k

Holds(h) == flow[h].pc \in {"locked", "commit"}

CodeHeld == \A h, k \in Handlers : Holds(h) /\ Holds(k) /\ flow[h].code = flow[k].code => h = k

(* What an activation checked is so when it commits.                       *)
CheckStillGood ==
    \A h \in Handlers : flow[h].pc = "commit" =>
        /\ Active(flow[h].user) = {}
        /\ status[flow[h].code] = "active"
        /\ ~HasActivationByUser(flow[h].code, flow[h].user)

UnmadeUnused == \A c \in Codes : status[c] = "none" => uses[c] = 0

OneActive == \A u \in Users : \A g1, g2 \in Active(u) : g1 = g2

(* A bonus that has not come is still due in a handler.                    *)
BonusDue ==
    faults = 0 =>
        /\ \A a \in activation : a \in credited \/
              \E h \in Handlers : flow[h].pc = "bonus" /\ flow[h].code = a.code /\ flow[h].user = a.user
        /\ \A h \in Handlers : flow[h].pc = "check" =>
              [code |-> flow[h].code, user |-> flow[h].user] \in credited

IInv == /\ TypeOK /\ Shapes /\ UsesCounted /\ SenderHeld /\ CodeHeld /\ CheckStillGood
        /\ UnmadeUnused /\ OneActive /\ BonusDue

--------------------------------------------------------------------------------
(***************************************************************************)
(* Facts about the parts of the state.                                     *)
(***************************************************************************)
LEMMA FlowFields ==
    ASSUME NEW f \in Flow, NEW pc \in {"idle", "lookup", "locked", "commit", "bonus", "check"}
    PROVE  /\ [f EXCEPT !.pc = pc] \in Flow
           /\ [f EXCEPT !.pc = pc].pc = pc
           /\ [f EXCEPT !.pc = pc].user = f.user
           /\ [f EXCEPT !.pc = pc].code = f.code
BY DEF Flow

LEMMA IdleFields ==
    /\ Idle \in Flow /\ Idle.pc = "idle" /\ Idle.user = None /\ Idle.code = None
BY DEF Flow, Idle

LEMMA FaultCounts ==
    ASSUME TypeOK, Fault
    PROVE  faults' \in 0..MaxFaults /\ faults' # 0
BY NumbersAreNat DEF TypeOK, Fault

(* A handler moves, and credits may be written: what its new stage needs.  *)
LEMMA FlowMoves ==
    ASSUME IInv, NEW h \in Handlers, NEW f \in Flow, Becomes(h, f),
           UNCHANGED <<now, codes, grants>>,
           balance' \in [Users -> Int], paid' \in [Users -> Nat],
           credited \subseteq credited', credited' \subseteq Pair,
           faults' \in 0..MaxFaults,
           f.pc # "idle" => f.user \in Users /\ f.code \in Codes,
           f.user # None => \A k \in Handlers \ {h} : flow[k].user # f.user,
           f.pc \in {"locked", "commit"} =>
               \A k \in Handlers \ {h} : Holds(k) => flow[k].code # f.code,
           f.pc = "commit" =>
               Active(f.user) = {} /\ status[f.code] = "active" /\ ~HasActivationByUser(f.code, f.user),
           faults' = 0 =>
               /\ faults = 0
               /\ flow[h].pc = "bonus" => [code |-> flow[h].code, user |-> flow[h].user] \in credited'
               /\ f.pc = "check" => [code |-> f.code, user |-> f.user] \in credited'
    PROVE  IInv'
<1>1. /\ flow' \in [Handlers -> Flow] /\ flow'[h] = f
      /\ \A k \in Handlers \ {h} : flow'[k] = flow[k]
  BY DEF IInv, TypeOK, Becomes
<1>2. UNCHANGED <<now, status, uses, ends, activation, grants>>
  BY DEF codes
<1>3. TypeOK'
  BY <1>1, <1>2 DEF IInv, TypeOK
<1>4. Shapes'
  BY <1>1, <1>2 DEF IInv, Shapes
<1>5. UsesCounted' /\ UnmadeUnused'
  BY <1>2 DEF IInv, UsesCounted, UnmadeUnused
<1>6. SenderHeld'
  BY <1>1 DEF IInv, SenderHeld
<1>7. CodeHeld'
  BY <1>1 DEF IInv, CodeHeld, Holds
<1>8. CheckStillGood'
  BY <1>1, <1>2 DEF IInv, CheckStillGood, Active, HasActivationByUser
<1>9. OneActive'
  BY <1>2 DEF IInv, OneActive, Active
<1>10. BonusDue'
  <2> SUFFICES ASSUME faults' = 0 PROVE BonusDue'
    BY DEF BonusDue
  <2>1. ASSUME NEW a \in activation
        PROVE  a \in credited' \/ \E k \in Handlers :
                  flow'[k].pc = "bonus" /\ flow'[k].code = a.code /\ flow'[k].user = a.user
    <3>1. a \in Pair /\ a = [code |-> a.code, user |-> a.user]
      BY DEF IInv, TypeOK, Pair
    <3>2. CASE a \in credited
      BY <3>2
    <3>3. CASE a \notin credited
      <4>1. PICK k \in Handlers : flow[k].pc = "bonus" /\ flow[k].code = a.code /\ flow[k].user = a.user
        BY <3>3 DEF IInv, BonusDue
      <4>2. CASE k = h
        BY <4>1, <4>2, <3>1
      <4>3. CASE k # h
        BY <4>1, <4>3, <1>1
      <4> QED BY <4>2, <4>3
    <3> QED BY <3>2, <3>3
  <2>2. ASSUME NEW k \in Handlers, flow'[k].pc = "check"
        PROVE  [code |-> flow'[k].code, user |-> flow'[k].user] \in credited'
    BY <1>1, <2>2 DEF IInv, BonusDue
  <2> QED BY <2>1, <2>2, <1>2 DEF BonusDue
<1> QED BY <1>3, <1>4, <1>5, <1>6, <1>7, <1>8, <1>9, <1>10 DEF IInv

(* Without credits. *)
LEMMA StageMoves ==
    ASSUME IInv, NEW h \in Handlers, NEW f \in Flow, Becomes(h, f),
           UNCHANGED <<now, codes, grants, money>>,
           faults' \in 0..MaxFaults,
           f.pc # "idle" => f.user \in Users /\ f.code \in Codes,
           f.user # None => \A k \in Handlers \ {h} : flow[k].user # f.user,
           f.pc \in {"locked", "commit"} =>
               \A k \in Handlers \ {h} : Holds(k) => flow[k].code # f.code,
           f.pc = "commit" =>
               Active(f.user) = {} /\ status[f.code] = "active" /\ ~HasActivationByUser(f.code, f.user),
           faults' = 0 => faults = 0 /\ flow[h].pc # "bonus" /\ f.pc # "check"
    PROVE  IInv'
<1>1. UNCHANGED <<balance, paid, credited>>
  BY DEF money
<1>2. /\ balance' \in [Users -> Int] /\ paid' \in [Users -> Nat]
      /\ credited \subseteq credited' /\ credited' \subseteq Pair
  BY <1>1 DEF IInv, TypeOK
<1> QED BY <1>2, FlowMoves

(* What is so of a handler in the middle of its code.                      *)
LEMMA Underway ==
    ASSUME IInv, NEW h \in Handlers
    PROVE  /\ flow[h] \in Flow /\ faults \in 0..MaxFaults
           /\ flow[h].pc # "idle" => flow[h].user \in Users /\ flow[h].code \in Codes
           /\ flow[h].user # None => \A k \in Handlers \ {h} : flow[k].user # flow[h].user
           /\ Holds(h) => \A k \in Handlers \ {h} : Holds(k) => flow[k].code # flow[h].code
BY DEF IInv, TypeOK, Shapes, SenderHeld, CodeHeld
--------------------------------------------------------------------------------
(***************************************************************************)
(* The handlers' steps.                                                    *)
(***************************************************************************)
LEMMA TypedCode ==
    ASSUME IInv, NEW h \in Handlers, NEW u \in Users, NEW c \in Codes, handleInviteCode(h, u, c)
    PROVE  IInv'
<1> DEFINE f == [pc |-> "lookup", user |-> u, code |-> c]
<1>1. f \in Flow /\ f.pc = "lookup" /\ f.user = u /\ f.code = c
  BY DEF Flow
<1>2. Becomes(h, f) /\ NotProcessing(u) /\ flow[h].pc = "idle" /\ UNCHANGED <<now, codes, grants, money, faults>>
  BY IdleFields DEF handleInviteCode
<1> HIDE DEF f
<1> QED BY <1>1, <1>2, Underway, StageMoves DEF NotProcessing

LEMMA ToIdle ==
    ASSUME IInv, NEW h \in Handlers, Becomes(h, Idle),
           UNCHANGED <<now, codes, grants, money>>, faults' \in 0..MaxFaults,
           faults' = 0 => faults = 0 /\ flow[h].pc # "bonus"
    PROVE  IInv'
BY IdleFields, StageMoves

LEMMA CodeLocked ==
    ASSUME IInv, NEW h \in Handlers, GetByCodeForUpdate(h)
    PROVE  IInv'
<1>1. flow[h].pc = "lookup" /\ UNCHANGED <<now, codes, grants, money, faults>>
  BY DEF GetByCodeForUpdate
<1>2. CASE status[flow[h].code] = "none"
  BY <1>1, <1>2, Underway, ToIdle DEF GetByCodeForUpdate
<1>3. CASE status[flow[h].code] # "none"
  <2> DEFINE f == [flow[h] EXCEPT !.pc = "locked"]
  <2>1. f \in Flow /\ f.pc = "locked" /\ f.user = flow[h].user /\ f.code = flow[h].code
    BY Underway, FlowFields
  <2>2. Becomes(h, f) /\ Free(flow[h].code)
    BY <1>3 DEF GetByCodeForUpdate, Pc
  <2> HIDE DEF f
  <2> QED BY <2>1, <2>2, <1>1, Underway, StageMoves DEF Free, Holds
<1> QED BY <1>2, <1>3

LEMMA CodeChecked ==
    ASSUME IInv, NEW h \in Handlers, Check(h)
    PROVE  IInv'
<1>1. flow[h].pc = "locked" /\ UNCHANGED <<now, codes, grants, money, faults>>
  BY DEF Check
<1>2. CASE Active(flow[h].user) = {} /\ Usable(flow[h].code, flow[h].user)
  <2> DEFINE f == [flow[h] EXCEPT !.pc = "commit"]
  <2>1. f \in Flow /\ f.pc = "commit" /\ f.user = flow[h].user /\ f.code = flow[h].code
    BY Underway, FlowFields
  <2>2. Becomes(h, f)
    BY <1>2 DEF Check, Pc
  <2>3. status[flow[h].code] = "active" /\ ~HasActivationByUser(flow[h].code, flow[h].user)
    BY <1>2 DEF Usable
  <2> HIDE DEF f
  <2> QED BY <2>1, <2>2, <2>3, <1>1, <1>2, Underway, StageMoves DEF Holds
<1>3. CASE ~(Active(flow[h].user) = {} /\ Usable(flow[h].code, flow[h].user))
  BY <1>1, <1>3, Underway, ToIdle DEF Check
<1> QED BY <1>2, <1>3

LEMMA CreditWrites ==
    ASSUME IInv, NEW u \in Users, NEW c \in Codes, Credit(u, c)
    PROVE  /\ balance' \in [Users -> Int] /\ paid' \in [Users -> Nat]
           /\ credited \subseteq credited' /\ credited' \subseteq Pair
           /\ [code |-> c, user |-> u] \in credited'
<1>1. balance' \in [Users -> Int]
  BY NumbersAreNat DEF Credit, IInv, TypeOK
<1>2. paid' \in [Users -> Nat]
  BY DEF Credit, IInv, TypeOK
<1>3. [code |-> c, user |-> u] \in Pair
  BY DEF Pair
<1> QED BY <1>1, <1>2, <1>3 DEF Credit, IInv, TypeOK

LEMMA BonusApplied ==
    ASSUME IInv, NEW h \in Handlers, ApplyInviteBonus(h)
    PROVE  IInv'
<1> DEFINE f == [flow[h] EXCEPT !.pc = "check"]
<1>1. f \in Flow /\ f.pc = "check" /\ f.user = flow[h].user /\ f.code = flow[h].code
  BY Underway, FlowFields
<1>2. /\ flow[h].pc = "bonus" /\ Becomes(h, f) /\ UNCHANGED <<now, codes, grants, faults>>
      /\ Credit(flow[h].user, flow[h].code)
  BY DEF ApplyInviteBonus, Pc
<1> HIDE DEF f
<1>3. /\ balance' \in [Users -> Int] /\ paid' \in [Users -> Nat]
      /\ credited \subseteq credited' /\ credited' \subseteq Pair
      /\ [code |-> flow[h].code, user |-> flow[h].user] \in credited'
  BY <1>2, Underway, CreditWrites
<1> QED BY <1>1, <1>2, <1>3, Underway, FlowMoves

LEMMA BonusRepaired ==
    ASSUME IInv, NEW h \in Handlers, Repair(h)
    PROVE  IInv'
<1>1. flow[h].pc = "check" /\ Becomes(h, Idle) /\ UNCHANGED <<now, codes, grants, faults>>
  BY DEF Repair
<1>2. CASE NeedsRepair(flow[h].user)
  <2>1. Credit(flow[h].user, flow[h].code)
    BY <1>2 DEF Repair
  <2>2. /\ balance' \in [Users -> Int] /\ paid' \in [Users -> Nat]
        /\ credited \subseteq credited' /\ credited' \subseteq Pair
    BY <1>1, <2>1, Underway, CreditWrites
  <2> QED BY <1>1, <2>2, Underway, IdleFields, FlowMoves
<1>3. CASE ~NeedsRepair(flow[h].user)
  <2>1. UNCHANGED money
    BY <1>3 DEF Repair
  <2> QED BY <1>1, <2>1, Underway, ToIdle
<1> QED BY <1>2, <1>3

LEMMA HandlerFails ==
    ASSUME IInv, NEW h \in Handlers, ActivationFails(h) \/ BonusFails(h) \/ RepairFails(h)
    PROVE  IInv'
<1>0. TypeOK
  BY DEF IInv
<1>1. CASE ActivationFails(h)
  BY <1>0, <1>1, FaultCounts, ToIdle DEF ActivationFails
<1>2. CASE BonusFails(h)
  <2> DEFINE f == [flow[h] EXCEPT !.pc = "check"]
  <2>1. f \in Flow /\ f.pc = "check" /\ f.user = flow[h].user /\ f.code = flow[h].code
    BY Underway, FlowFields
  <2>2. Becomes(h, f) /\ flow[h].pc = "bonus" /\ UNCHANGED <<now, codes, grants, money>> /\ Fault
    BY <1>2 DEF BonusFails, Pc
  <2> HIDE DEF f
  <2> QED BY <1>0, <2>1, <2>2, Underway, FaultCounts, StageMoves
<1>3. CASE RepairFails(h)
  BY <1>0, <1>3, FaultCounts, ToIdle DEF RepairFails
<1> QED BY <1>1, <1>2, <1>3

(* One more activation is counted.                                         *)
LEMMA OneMoreUse ==
    ASSUME IsFiniteSet(activation), NEW c \in Codes, NEW u \in Users,
           ~HasActivationByUser(c, u), CreateActivation(c, u)
    PROVE  /\ IsFiniteSet(activation')
           /\ Cardinality({a \in activation' : a.code = c})
                 = Cardinality({a \in activation : a.code = c}) + 1
           /\ \A d \in Codes \ {c} :
                 {a \in activation' : a.code = d} = {a \in activation : a.code = d}
<1> DEFINE new == [code |-> c, user |-> u]
<1> DEFINE before == {a \in activation : a.code = c}
<1>1. new \notin activation /\ activation' = activation \cup {new} /\ new.code = c
  BY DEF HasActivationByUser, CreateActivation
<1> HIDE DEF new
<1>2. IsFiniteSet(activation')
  BY <1>1, FS_AddElement
<1>3. IsFiniteSet(before)
  BY FS_Subset
<1>4. {a \in activation' : a.code = c} = before \cup {new} /\ new \notin before
  BY <1>1
<1>5. Cardinality(before \cup {new}) = Cardinality(before) + 1
  BY <1>3, <1>4, FS_AddElement
<1> QED BY <1>1, <1>2, <1>4, <1>5

LEMMA Activated ==
    ASSUME IInv, NEW h \in Handlers, Execute(h)
    PROVE  IInv'
<1> DEFINE c == flow[h].code
<1> DEFINE u == flow[h].user
<1> DEFINE f == [flow[h] EXCEPT !.pc = "bonus"]
<1>1. /\ flow[h].pc = "commit" /\ c \in Codes /\ u \in Users /\ Holds(h)
      /\ Active(u) = {} /\ status[c] = "active" /\ ~HasActivationByUser(c, u)
  BY Underway DEF Execute, Activate, IInv, CheckStillGood, Holds
<1>2. /\ f \in Flow /\ f.pc = "bonus" /\ f.user = u /\ f.code = c
  BY Underway, FlowFields
<1>3. /\ CreateActivation(c, u) /\ Becomes(h, f)
      /\ grants' = [grants EXCEPT ![u] = @ \cup {NewGrant(c)}]
      /\ uses' = [uses EXCEPT ![c] = @ + 1]
      /\ status' = [status EXCEPT ![c] = MaybeExhaust(c)]
      /\ UNCHANGED <<now, ends, balance, paid, credited, faults>>
  BY DEF Execute, Activate, Pc, money
<1> HIDE DEF c, u, f
<1>4. /\ flow' \in [Handlers -> Flow] /\ flow'[h] = f
      /\ \A k \in Handlers \ {h} : flow'[k] = flow[k] /\ flow[k].user # u
      /\ \A k \in Handlers \ {h} : Holds(k) => flow[k].code # c
  <2>1. \A k \in Handlers \ {h} : flow[k].user # u
    BY <1>1, Underway, NoneIsNoUser DEF u
  <2>2. \A k \in Handlers \ {h} : Holds(k) => flow[k].code # c
    BY <1>1, Underway DEF c
  <2> QED BY <1>2, <1>3, <2>1, <2>2 DEF IInv, TypeOK, Becomes
<1>5. NewGrant(c) \in Grant /\ NewGrant(c).status = "active"
  BY <1>1, NumbersAreNat DEF NewGrant, Grant, IInv, TypeOK, Days
<1>6. /\ uses[c] \in Nat /\ MaxUses[c] \in Nat /\ uses[c] < MaxUses[c]
      /\ uses \in [Codes -> Nat] /\ uses' \in [Codes -> Nat] /\ uses'[c] = uses[c] + 1
      /\ \A d \in Codes \ {c} : uses'[d] = uses[d]
  <2>1. uses \in [Codes -> Nat] /\ uses[c] \in Nat
    BY <1>1 DEF IInv, Shapes
  <2>2. MaxUses[c] \in Nat
    BY <1>1, UsesArePositive
  <2>3. uses[c] < MaxUses[c]
    BY <1>1 DEF IInv, UsesCounted
  <2> QED BY <2>1, <2>2, <2>3, <1>1, <1>3
<1>7. /\ status' \in [Codes -> {"none", "active", "exhausted", "revoked"}]
      /\ status'[c] = MaybeExhaust(c) /\ \A d \in Codes \ {c} : status'[d] = status[d]
      /\ MaybeExhaust(c) \in {"active", "exhausted"}
      /\ MaybeExhaust(c) = "active" => uses[c] + 1 < MaxUses[c]
  <2>1. /\ MaybeExhaust(c) \in {"active", "exhausted"}
        /\ MaybeExhaust(c) = "active" => uses[c] + 1 < MaxUses[c]
    BY <1>1, <1>6 DEF MaybeExhaust
  <2> QED BY <1>1, <1>3, <2>1 DEF IInv, TypeOK
<1>8. /\ grants' \in [Users -> SUBSET Grant] /\ grants'[u] = grants[u] \cup {NewGrant(c)}
      /\ \A v \in Users \ {u} : grants'[v] = grants[v]
  BY <1>1, <1>3, <1>5 DEF IInv, Shapes
<1>9. [code |-> c, user |-> u] \in Pair
  BY <1>1 DEF Pair
<1>10. TypeOK'
  <2>1. activation' \subseteq Pair
    BY <1>3, <1>9 DEF CreateActivation, IInv, TypeOK
  <2>2. \A d \in Codes : uses'[d] \in 0..MaxUses[d]
    BY <1>6 DEF IInv, TypeOK
  <2>3. \A v \in Users : grants'[v] \subseteq Grant
    BY <1>8
  <2> QED BY <2>1, <2>2, <2>3, <1>3, <1>4, <1>7 DEF IInv, TypeOK
<1>11. Shapes'
  <2>1. IsFiniteSet(activation')
    BY <1>1, <1>3, OneMoreUse DEF IInv, Shapes
  <2> QED BY <2>1, <1>1, <1>2, <1>4, <1>6, <1>8 DEF IInv, Shapes
<1>12. UsesCounted'
  <2>1. /\ Cardinality({a \in activation' : a.code = c})
              = Cardinality({a \in activation : a.code = c}) + 1
        /\ \A d \in Codes \ {c} :
              {a \in activation' : a.code = d} = {a \in activation : a.code = d}
    BY <1>1, <1>3, OneMoreUse DEF IInv, Shapes
  <2>2. /\ uses'[c] = Cardinality({a \in activation' : a.code = c})
        /\ uses'[c] <= MaxUses[c]
        /\ status'[c] = "active" => uses'[c] < MaxUses[c]
    BY <2>1, <1>1, <1>6, <1>7 DEF IInv, UsesCounted
  <2>3. ASSUME NEW d \in Codes \ {c}
        PROVE  /\ uses'[d] = Cardinality({a \in activation' : a.code = d})
               /\ uses'[d] <= MaxUses[d]
               /\ status'[d] = "active" => uses'[d] < MaxUses[d]
    BY <2>1, <1>6, <1>7 DEF IInv, UsesCounted
  <2> QED BY <2>2, <2>3, <1>3 DEF UsesCounted
<1>13. SenderHeld'
  BY <1>2, <1>4 DEF IInv, SenderHeld
<1>14. CodeHeld'
  BY <1>2, <1>4 DEF IInv, CodeHeld, Holds
<1>15. CheckStillGood'
  <2> SUFFICES ASSUME NEW k \in Handlers, flow'[k].pc = "commit"
               PROVE  /\ Active(flow[k].user)' = {}
                      /\ status'[flow[k].code] = "active"
                      /\ ~HasActivationByUser(flow[k].code, flow[k].user)'
                      /\ flow'[k] = flow[k]
    BY DEF CheckStillGood, Active, HasActivationByUser
  <2>1. k # h /\ flow'[k] = flow[k] /\ Holds(k) /\ flow[k].user \in Users /\ flow[k].code \in Codes
    BY <1>2, <1>4, Underway DEF Holds
  <2>2. flow[k].user # u /\ flow[k].code # c
    BY <1>4, <2>1
  <2>3. /\ Active(flow[k].user) = {} /\ status[flow[k].code] = "active"
        /\ ~HasActivationByUser(flow[k].code, flow[k].user)
    BY <2>1 DEF IInv, CheckStillGood, Holds
  <2> QED BY <2>1, <2>2, <2>3, <1>3, <1>7, <1>8 DEF Active, HasActivationByUser, CreateActivation
<1>16. UnmadeUnused'
  BY <1>6, <1>7 DEF IInv, UnmadeUnused
<1>17. OneActive'
  <2> SUFFICES ASSUME NEW v \in Users, NEW g1 \in Active(v)', NEW g2 \in Active(v)' PROVE g1 = g2
    BY DEF OneActive
  <2>1. CASE v = u
    BY <2>1, <1>1, <1>8 DEF Active
  <2>2. CASE v # u
    BY <2>2, <1>8 DEF Active, IInv, OneActive
  <2> QED BY <2>1, <2>2
<1>18. BonusDue'
  <2> SUFFICES ASSUME faults' = 0 PROVE BonusDue'
    BY DEF BonusDue
  <2>1. ASSUME NEW a \in activation'
        PROVE  a \in credited \/ \E k \in Handlers :
                  flow'[k].pc = "bonus" /\ flow'[k].code = a.code /\ flow'[k].user = a.user
    <3>1. CASE a = [code |-> c, user |-> u]
      BY <3>1, <1>2, <1>4
    <3>2. CASE a \in activation /\ a \notin credited
      <4>1. PICK k \in Handlers : flow[k].pc = "bonus" /\ flow[k].code = a.code /\ flow[k].user = a.user
        BY <3>2, <1>3 DEF IInv, BonusDue
      <4> QED BY <4>1, <1>1, <1>4
    <3> QED BY <3>1, <3>2, <1>3 DEF CreateActivation
  <2>2. ASSUME NEW k \in Handlers, flow'[k].pc = "check"
        PROVE  [code |-> flow'[k].code, user |-> flow'[k].user] \in credited
    BY <2>2, <1>2, <1>3, <1>4 DEF IInv, BonusDue
  <2> QED BY <2>1, <2>2, <1>3 DEF BonusDue
<1> QED BY <1>10, <1>11, <1>12, <1>13, <1>14, <1>15, <1>16, <1>17, <1>18 DEF IInv

LEMMA Restarted ==
    ASSUME IInv, Restart
    PROVE  IInv'
<1>1. /\ flow' = [h \in Handlers |-> Idle] /\ faults' \in 0..MaxFaults /\ faults' # 0
      /\ UNCHANGED <<now, status, uses, ends, activation, grants, balance, paid, credited>>
  BY FaultCounts DEF IInv, Restart, codes, money
<1>2. \A h \in Handlers : flow'[h].pc = "idle" /\ flow'[h].user = None
  BY <1>1, IdleFields
<1>3. TypeOK' /\ Shapes'
  BY <1>1, <1>2, IdleFields DEF IInv, TypeOK, Shapes
<1>4. UsesCounted' /\ UnmadeUnused' /\ OneActive'
  BY <1>1 DEF IInv, UsesCounted, UnmadeUnused, OneActive, Active
<1>5. SenderHeld' /\ CodeHeld' /\ CheckStillGood'
  BY <1>2 DEF SenderHeld, CodeHeld, CheckStillGood, Holds
<1>6. BonusDue'
  BY <1>1 DEF BonusDue
<1> QED BY <1>3, <1>4, <1>5, <1>6 DEF IInv
--------------------------------------------------------------------------------
(***************************************************************************)
(* Admins, charges and time.                                               *)
(***************************************************************************)
LEMMA Created ==
    ASSUME IInv, NEW c \in Codes, Create(c)
    PROVE  IInv'
<1>1. /\ status[c] = "none" /\ status' = [status EXCEPT ![c] = "active"]
      /\ UNCHANGED <<now, uses, activation, grants, balance, paid, credited, flow, faults>>
  BY DEF Create, money
<1>2. ends' \in [Codes -> Days \cup {Never}]
  BY DEF Create, IInv, TypeOK
<1>3. /\ status' \in [Codes -> {"none", "active", "exhausted", "revoked"}]
      /\ status'[c] = "active" /\ \A d \in Codes \ {c} : status'[d] = status[d]
  BY <1>1 DEF IInv, TypeOK
<1>4. TypeOK' /\ Shapes'
  BY <1>1, <1>2, <1>3 DEF IInv, TypeOK, Shapes
<1>5. UsesCounted' /\ UnmadeUnused'
  <2>1. uses[c] = 0 /\ uses[c] < MaxUses[c]
    BY <1>1, UsesArePositive DEF IInv, UnmadeUnused
  <2> QED BY <2>1, <1>1, <1>3 DEF IInv, UsesCounted, UnmadeUnused
<1>6. SenderHeld' /\ CodeHeld' /\ OneActive' /\ BonusDue'
  BY <1>1 DEF IInv, SenderHeld, CodeHeld, OneActive, Active, BonusDue, Holds
<1>7. CheckStillGood'
  <2> SUFFICES ASSUME NEW h \in Handlers, flow[h].pc = "commit"
               PROVE  /\ Active(flow[h].user) = {} /\ status'[flow[h].code] = "active"
                      /\ ~HasActivationByUser(flow[h].code, flow[h].user)
    BY <1>1 DEF CheckStillGood, Active, HasActivationByUser
  <2>1. flow[h].code \in Codes
    BY Underway
  <2> QED BY <2>1, <1>3 DEF IInv, CheckStillGood
<1> QED BY <1>4, <1>5, <1>6, <1>7 DEF IInv

LEMMA CodeRevoked ==
    ASSUME IInv, NEW c \in Codes, RevokeByID(c)
    PROVE  IInv'
<1>1. /\ status[c] # "none" /\ Free(c) /\ status' = [status EXCEPT ![c] = "revoked"]
      /\ UNCHANGED <<now, uses, ends, activation, grants, balance, paid, credited, flow, faults>>
  BY DEF RevokeByID, money
<1>2. /\ status' \in [Codes -> {"none", "active", "exhausted", "revoked"}]
      /\ status'[c] = "revoked" /\ \A d \in Codes \ {c} : status'[d] = status[d]
  BY <1>1 DEF IInv, TypeOK
<1>3. TypeOK' /\ Shapes'
  BY <1>1, <1>2 DEF IInv, TypeOK, Shapes
<1>4. UsesCounted' /\ UnmadeUnused'
  BY <1>1, <1>2 DEF IInv, UsesCounted, UnmadeUnused
<1>5. SenderHeld' /\ CodeHeld' /\ OneActive' /\ BonusDue'
  BY <1>1 DEF IInv, SenderHeld, CodeHeld, OneActive, Active, BonusDue, Holds
<1>6. CheckStillGood'
  <2> SUFFICES ASSUME NEW h \in Handlers, flow[h].pc = "commit"
               PROVE  /\ Active(flow[h].user) = {} /\ status'[flow[h].code] = "active"
                      /\ ~HasActivationByUser(flow[h].code, flow[h].user)
    BY <1>1 DEF CheckStillGood, Active, HasActivationByUser
  <2>1. flow[h].code \in Codes /\ flow[h].code # c
    BY <1>1, Underway DEF Free
  <2> QED BY <2>1, <1>2 DEF IInv, CheckStillGood
<1> QED BY <1>3, <1>4, <1>5, <1>6 DEF IInv

LEMMA GrantsRevoked ==
    ASSUME IInv, NEW u \in Users, RevokeActiveByUserID(u)
    PROVE  IInv'
<1> DEFINE Off(g) == [g EXCEPT !.status = "revoked"]
<1> DEFINE revoked == {Off(g) : g \in grants[u]}
<1>1. /\ grants' = [grants EXCEPT ![u] = revoked]
      /\ UNCHANGED <<now, status, uses, ends, activation, balance, paid, credited, flow, faults>>
  BY DEF RevokeActiveByUserID, codes, money
<1>2. \A g \in revoked : g \in Grant /\ g.status = "revoked"
  <2>1. \A g \in Grant : Off(g) \in Grant /\ Off(g).status = "revoked"
    BY DEF Grant
  <2>2. grants[u] \subseteq Grant
    BY DEF IInv, TypeOK
  <2> HIDE DEF Off
  <2> QED BY <2>1, <2>2
<1> HIDE DEF revoked
<1>3. /\ grants' \in [Users -> SUBSET Grant] /\ grants'[u] = revoked
      /\ \A v \in Users \ {u} : grants'[v] = grants[v]
  BY <1>1, <1>2 DEF IInv, Shapes
<1>4. Active(u)' = {} /\ \A v \in Users \ {u} : Active(v)' = Active(v)
  BY <1>2, <1>3 DEF Active
<1>5. TypeOK' /\ Shapes'
  BY <1>1, <1>3 DEF IInv, TypeOK, Shapes
<1>6. UsesCounted' /\ UnmadeUnused'
  BY <1>1 DEF IInv, UsesCounted, UnmadeUnused
<1>7. SenderHeld' /\ CodeHeld' /\ BonusDue'
  BY <1>1 DEF IInv, SenderHeld, CodeHeld, BonusDue, Holds
<1>8. OneActive'
  BY <1>4 DEF IInv, OneActive
<1>9. CheckStillGood'
  <2> SUFFICES ASSUME NEW h \in Handlers, flow[h].pc = "commit"
               PROVE  /\ Active(flow[h].user)' = {} /\ status[flow[h].code] = "active"
                      /\ ~HasActivationByUser(flow[h].code, flow[h].user)
    BY <1>1 DEF CheckStillGood, Active, HasActivationByUser
  <2>1. flow[h].user \in Users
    BY Underway
  <2>2. /\ Active(flow[h].user) = {} /\ status[flow[h].code] = "active"
        /\ ~HasActivationByUser(flow[h].code, flow[h].user)
    BY DEF IInv, CheckStillGood
  <2>3. Active(flow[h].user)' = {}
    BY <2>1, <2>2, <1>3, <1>4, <1>1 DEF Active
  <2> QED BY <2>2, <2>3
<1> QED BY <1>5, <1>6, <1>7, <1>8, <1>9 DEF IInv

LEMMA OtherSteps ==
    ASSUME IInv, (\E u \in Users : Spend(u)) \/ NewDay \/ UNCHANGED vars
    PROVE  IInv'
<1>1. /\ UNCHANGED <<status, uses, ends, activation, grants, paid, credited, flow, faults>>
      /\ now' \in Days /\ balance' \in [Users -> Int]
  <2>1. CASE \E u \in Users : Spend(u)
    BY <2>1 DEF Spend, codes, IInv, TypeOK
  <2>2. CASE NewDay
    BY <2>2, NumbersAreNat DEF NewDay, codes, money, IInv, TypeOK, Days
  <2>3. CASE UNCHANGED vars
    BY <2>3 DEF vars, IInv, TypeOK
  <2> QED BY <2>1, <2>2, <2>3
<1>2. TypeOK' /\ Shapes'
  BY <1>1 DEF IInv, TypeOK, Shapes
<1>3. UsesCounted' /\ UnmadeUnused' /\ OneActive' /\ SenderHeld' /\ CodeHeld' /\ BonusDue'
  BY <1>1 DEF IInv, UsesCounted, UnmadeUnused, OneActive, Active, SenderHeld, CodeHeld, Holds, BonusDue
<1>4. CheckStillGood'
  BY <1>1 DEF IInv, CheckStillGood, Active, HasActivationByUser
<1> QED BY <1>2, <1>3, <1>4 DEF IInv
--------------------------------------------------------------------------------
(***************************************************************************)
(* The theorem.                                                            *)
(***************************************************************************)
LEMMA Starts == Init => IInv
<1> SUFFICES ASSUME Init PROVE IInv
  OBVIOUS
<1>1. \A h \in Handlers : flow[h] = Idle
  BY DEF Init
<1>2. TypeOK
  BY IdleFields, NumbersAreNat, UsesArePositive DEF Init, TypeOK, Days
<1>3. Shapes
  BY <1>1, IdleFields, FS_EmptySet DEF Init, Shapes
<1>4. UsesCounted
  <2>1. \A c \in Codes : {a \in activation : a.code = c} = {}
    BY DEF Init
  <2>2. \A c \in Codes : MaxUses[c] \in Nat \ {0}
    BY UsesArePositive
  <2> QED BY <2>1, <2>2, FS_EmptySet DEF Init, UsesCounted
<1>5. SenderHeld /\ CodeHeld /\ CheckStillGood
  BY <1>1, IdleFields DEF SenderHeld, CodeHeld, CheckStillGood, Holds
<1>6. UnmadeUnused /\ OneActive
  BY DEF Init, UnmadeUnused, OneActive, Active
<1>7. BonusDue
  BY <1>1, IdleFields DEF Init, BonusDue
<1> QED BY <1>2, <1>3, <1>4, <1>5, <1>6, <1>7 DEF IInv

LEMMA Inductive == IInv /\ [Next]_vars => IInv'
<1> SUFFICES ASSUME IInv, [Next]_vars PROVE IInv'
  OBVIOUS
<1>1. CASE \E h \in Handlers, u \in Users, c \in Codes : handleInviteCode(h, u, c)
  BY <1>1, TypedCode
<1>2. CASE \E h \in Handlers : Step(h)
  BY <1>2, CodeLocked, CodeChecked, Activated, BonusApplied, BonusRepaired DEF Step
<1>3. CASE \E h \in Handlers : ActivationFails(h) \/ BonusFails(h) \/ RepairFails(h)
  BY <1>3, HandlerFails
<1>4. CASE \E c \in Codes : Create(c) \/ RevokeByID(c)
  BY <1>4, Created, CodeRevoked
<1>5. CASE \E u \in Users : RevokeActiveByUserID(u)
  BY <1>5, GrantsRevoked
<1>6. CASE (\E u \in Users : Spend(u)) \/ NewDay \/ UNCHANGED vars
  BY <1>6, OtherSteps
<1>7. CASE Restart
  BY <1>7, Restarted
<1> QED BY <1>1, <1>2, <1>3, <1>4, <1>5, <1>6, <1>7 DEF Next

(* The properties follow.                                                  *)
LEMMA CountedFollows == IInv => TypeOK /\ UsesCounted /\ OneActiveGrant /\ BonusComes
<1> SUFFICES ASSUME IInv PROVE OneActiveGrant /\ BonusComes
  BY DEF IInv
<1>1. ASSUME NEW u \in Users PROVE Cardinality(Active(u)) <= 1
  <2>1. CASE Active(u) = {}
    BY <2>1, FS_EmptySet
  <2>2. CASE Active(u) # {}
    <3>1. PICK g : g \in Active(u)
      BY <2>2
    <3>2. Active(u) = {g}
      BY <3>1 DEF IInv, OneActive
    <3>3. Cardinality({g}) = 1
      BY FS_Singleton
    <3> QED BY <3>2, <3>3
  <2> QED BY <2>1, <2>2
<1>2. BonusComes
  BY DEF IInv, BonusDue, BonusComes, Open
<1> QED BY <1>1, <1>2 DEF OneActiveGrant

(* No step uses a revoked code or takes the revocation back: a commit that *)
(* had begun still finds the code active, for the revocation waits for it. *)
LEMMA RevokedStays ==
    ASSUME IInv, [Next]_vars, NEW c \in Codes, status[c] = "revoked"
    PROVE  status'[c] = "revoked" /\ uses'[c] = uses[c]
<1>0. status \in [Codes -> {"none", "active", "exhausted", "revoked"}] /\ uses \in [Codes -> Nat]
  BY DEF IInv, TypeOK, Shapes
<1>1. CASE \E h \in Handlers : Execute(h)
  <2>1. PICK h \in Handlers : Execute(h)
    BY <1>1
  <2>2. flow[h].pc = "commit" /\ flow[h].code # c
    BY <2>1 DEF Execute, Activate, IInv, CheckStillGood
  <2>3. /\ uses' = [uses EXCEPT ![flow[h].code] = @ + 1]
        /\ status' = [status EXCEPT ![flow[h].code] = MaybeExhaust(flow[h].code)]
    BY <2>1 DEF Execute, Activate
  <2> QED BY <1>0, <2>2, <2>3
<1>2. CASE \E d \in Codes : Create(d)
  BY <1>0, <1>2 DEF Create
<1>3. CASE \E d \in Codes : RevokeByID(d)
  BY <1>0, <1>3 DEF RevokeByID
<1>4. CASE UNCHANGED <<status, uses>>
  BY <1>4
<1> QED
  BY <1>1, <1>2, <1>3, <1>4
  DEF Next, Step, vars, codes, handleInviteCode, GetByCodeForUpdate, Check, ApplyInviteBonus,
      Repair, ActivationFails, BonusFails, RepairFails, Restart, RevokeActiveByUserID, Spend, NewDay

(* Every state reached satisfies the inductive invariant.                  *)
THEOREM InvariantHolds == Spec => []IInv
  BY Starts, Inductive, PTL DEF Spec

(* Whoever types which code at one moment, whatever is revoked meanwhile   *)
(* and whatever fails: a code is used as often as its activations say and  *)
(* no oftener than it allows, a user has one active grant, a revoked code  *)
(* is not used any more, and without a fault every activation has its      *)
(* bonus or a handler that still owes it.                                  *)
THEOREM ActivationsAddUp == Spec => ActivationsCounted
<1>1. IInv /\ [Next]_vars =>
        [\A c \in Codes : status[c] = "revoked" => status'[c] = "revoked" /\ uses'[c] = uses[c]]_vars
  BY RevokedStays
<1> QED BY <1>1, InvariantHolds, CountedFollows, PTL DEF Spec, ActivationsCounted, RevokedIsFinal

--------------------------------------------------------------------------------
(***************************************************************************)
(* The notices about a node that is switched off, which share no state     *)
(* with Invites: Notices, with the variables that MCInvites gives it.      *)
(***************************************************************************)
NoticesNumbers == Notices!OwnersAreUsers /\ Notices!TimesAreNat /\ Notices!BoundsAreNat

(* Who is being told was not told by this command before.                  *)
NotTwice ==
    /\ noticesJob.pc \in {"list", "look"} => \A u \in Users : noticesNotices[u] = 0
    /\ noticesJob.pc = "send" => \A u \in noticesJob.left : noticesNotices[u] = 0
    /\ Notices!NoticeOnce

(* Who is going to be told, or was.                                        *)
Awaited(u) ==
    \/ noticesJob.pc = "look" /\ (u \in noticesJob.found \/ \E a \in noticesJob.todo : Owner[a[1]] = u)
    \/ noticesJob.pc = "send" /\ u \in noticesJob.left
    \/ noticesNotices[u] > 0

(* Users who have an access, or are about to.                              *)
OnNode(u) ==
    \/ \E a \in Notices!Accesses : noticesAccess[a] \in {"pending", "active", "suspended"} /\ Owner[a[1]] = u
    \/ \E d \in noticesMaking : Owner[d] = u

Listed ==
    /\ noticesJob.pc # "idle" => noticesStatus = "draining"
    /\ noticesStatus = "draining" /\ noticesJob.pc # "list" /\ ~noticesJob.fault /\ ~noticesJob.slow =>
          \A u \in Users : OnNode(u) => u \in noticesExcused \/ Awaited(u)

NoticesInv == NoticesNumbers /\ Notices!TypeOK /\ NotTwice /\ Listed

(* The devices of a user come and go; on a node that is switched off none  *)
(* comes.                                                                  *)
LEMMA OthersGo ==
    ASSUME NoticesInv, UNCHANGED <<noticesStatus, noticesJob, noticesNotices, noticesExcused, noticesCommands, noticesFaults>>,
           noticesAccess' \in [Notices!Accesses -> {"none", "pending", "active", "suspended", "error", "revoked"}],
           noticesMaking' \subseteq Devices, noticesChanges' \in 0..MaxChanges,
           noticesStatus = "draining" => \A u \in Users : OnNode(u)' => OnNode(u)
    PROVE  NoticesInv'
<1>1. NoticesNumbers' /\ Notices!TypeOK'
  BY DEF NoticesInv, NoticesNumbers, Notices!OwnersAreUsers, Notices!TimesAreNat, Notices!BoundsAreNat, Notices!TypeOK
<1>2. NotTwice'
  BY DEF NoticesInv, NotTwice, Notices!NoticeOnce
<1>3. \A u \in Users : Awaited(u)' <=> Awaited(u)
  BY DEF Awaited
<1>4. Listed'
  BY <1>3 DEF NoticesInv, Listed
<1> QED BY <1>1, <1>2, <1>4 DEF NoticesInv

(* A change is counted.                                                    *)
LEMMA ChangeCounts ==
    ASSUME Notices!Change, NoticesInv
    PROVE  noticesChanges' \in 0..MaxChanges
  BY DEF Notices!Change, NoticesInv, Notices!TypeOK, NoticesNumbers, Notices!BoundsAreNat

(* A device is made or deleted.                                            *)
LEMMA DevicesGo ==
    ASSUME NoticesInv, NEW d \in Devices,
           Notices!PickNode(d) \/ Notices!InsertAccesses(d) \/ Notices!Delete(d)
    PROVE  NoticesInv'
<1>1. /\ noticesAccess \in [Notices!Accesses -> {"none", "pending", "active", "suspended", "error", "revoked"}]
      /\ noticesMaking \subseteq Devices /\ noticesChanges \in 0..MaxChanges
  BY DEF NoticesInv, Notices!TypeOK
<1>2. UNCHANGED <<noticesStatus, noticesJob, noticesNotices, noticesExcused, noticesCommands, noticesFaults>>
  BY DEF Notices!PickNode, Notices!InsertAccesses, Notices!Delete, Notices!Others, Notices!history
<1>3. CASE Notices!PickNode(d)
  <2>1. /\ noticesAccess' = noticesAccess /\ noticesMaking' = noticesMaking \cup {d} /\ noticesStatus # "draining"
        /\ noticesChanges' \in 0..MaxChanges
    BY <1>3, ChangeCounts DEF Notices!PickNode, Notices!Others, Notices!Pickable
  <2> QED BY <1>1, <1>2, <2>1, OthersGo
<1>4. CASE Notices!InsertAccesses(d)
  <2>1. /\ d \in noticesMaking /\ noticesMaking' = noticesMaking \ {d} /\ noticesChanges' = noticesChanges
        /\ noticesAccess' = [a \in Notices!Accesses |-> IF a[1] = d THEN "pending" ELSE noticesAccess[a]]
    BY <1>4 DEF Notices!InsertAccesses, Notices!Others
  <2>2. noticesAccess' \in [Notices!Accesses -> {"none", "pending", "active", "suspended", "error", "revoked"}]
    BY <1>1, <2>1
  <2>3. ASSUME NEW u \in Users, OnNode(u)' PROVE OnNode(u)
    <3>1. CASE \E a \in Notices!Accesses : noticesAccess'[a] \in {"pending", "active", "suspended"} /\ Owner[a[1]] = u
      BY <2>1, <3>1 DEF OnNode
    <3>2. CASE \E e \in noticesMaking' : Owner[e] = u
      BY <2>1, <3>2 DEF OnNode
    <3> QED BY <2>3, <3>1, <3>2 DEF OnNode
  <2> QED BY <1>1, <1>2, <2>1, <2>2, <2>3, OthersGo
<1>5. CASE Notices!Delete(d)
  <2>1. /\ noticesMaking' = noticesMaking /\ noticesChanges' \in 0..MaxChanges
        /\ noticesAccess' = [a \in Notices!Accesses |-> IF a[1] = d /\ noticesAccess[a] = "active" THEN "revoked" ELSE noticesAccess[a]]
    BY <1>5, ChangeCounts DEF Notices!Delete, Notices!Others
  <2>2. noticesAccess' \in [Notices!Accesses -> {"none", "pending", "active", "suspended", "error", "revoked"}]
    BY <1>1, <2>1
  <2>3. ASSUME NEW u \in Users, OnNode(u)' PROVE OnNode(u)
    BY <2>1, <2>3 DEF OnNode
  <2> QED BY <1>1, <1>2, <2>1, <2>2, <2>3, OthersGo
<1> QED BY <1>3, <1>4, <1>5

(* The peer of a new access is confirmed, or fails.                        *)
LEMMA ConfirmGoes == ASSUME NoticesInv, NEW b \in Notices!Accesses, Notices!Confirm(b) PROVE NoticesInv'
<1>1. /\ noticesAccess \in [Notices!Accesses -> {"none", "pending", "active", "suspended", "error", "revoked"}]
      /\ noticesMaking \subseteq Devices /\ noticesChanges \in 0..MaxChanges
  BY DEF NoticesInv, Notices!TypeOK
<1>2. /\ UNCHANGED <<noticesStatus, noticesJob, noticesNotices, noticesExcused, noticesCommands, noticesFaults, noticesMaking, noticesChanges>>
      /\ noticesAccess[b] = "pending"
  BY DEF Notices!Confirm, Notices!Others, Notices!history
<1>3. PICK st \in {"active", "error"} : noticesAccess' = [noticesAccess EXCEPT ![b] = st]
  BY DEF Notices!Confirm, Notices!Others
<1>4. noticesAccess' \in [Notices!Accesses -> {"none", "pending", "active", "suspended", "error", "revoked"}]
  BY <1>1, <1>3
<1>5. ASSUME NEW u \in Users, OnNode(u)' PROVE OnNode(u)
  <2>1. \A a \in Notices!Accesses : noticesAccess'[a] \in {"pending", "active", "suspended"} =>
           noticesAccess[a] \in {"pending", "active", "suspended"}
    BY <1>1, <1>2, <1>3
  <2> QED BY <1>2, <1>5, <2>1 DEF OnNode
<1> QED BY <1>1, <1>2, <1>4, <1>5, OthersGo

(* A user is suspended or pays.                                            *)
LEMMA PaymentsGo ==
    ASSUME NoticesInv, NEW v \in Users, Notices!Suspend(v) \/ Notices!Resume(v)
    PROVE  NoticesInv'
<1>1. /\ noticesAccess \in [Notices!Accesses -> {"none", "pending", "active", "suspended", "error", "revoked"}]
      /\ noticesMaking \subseteq Devices
  BY DEF NoticesInv, Notices!TypeOK
<1>2. /\ UNCHANGED <<noticesStatus, noticesJob, noticesNotices, noticesExcused, noticesCommands, noticesFaults, noticesMaking>>
      /\ noticesChanges' \in 0..MaxChanges
  BY ChangeCounts DEF Notices!Suspend, Notices!Resume, Notices!Others, Notices!history
<1>3. PICK from \in {"active", "suspended"}, to \in {"active", "suspended"} :
         noticesAccess' = [a \in Notices!Accesses |-> IF Owner[a[1]] = v /\ noticesAccess[a] = from THEN to ELSE noticesAccess[a]]
  BY DEF Notices!Suspend, Notices!Resume, Notices!Others
<1>4. noticesAccess' \in [Notices!Accesses -> {"none", "pending", "active", "suspended", "error", "revoked"}]
  BY <1>1, <1>3
<1>5. ASSUME NEW u \in Users, OnNode(u)' PROVE OnNode(u)
  <2>1. \A a \in Notices!Accesses : noticesAccess'[a] \in {"pending", "active", "suspended"} =>
           noticesAccess[a] \in {"pending", "active", "suspended"}
    BY <1>1, <1>3
  <2> QED BY <1>2, <1>5, <2>1 DEF OnNode
<1> QED BY <1>1, <1>2, <1>4, <1>5, OthersGo

(* What a step of the handler keeps: nobody comes or goes while it takes.  *)
LEMMA HandlerGoesOn ==
    ASSUME NoticesInv, UNCHANGED <<noticesAccess, noticesMaking, noticesChanges>>,
           noticesStatus' \in {"active", "draining"}, noticesJob' \in Notices!Job, noticesNotices' \in [Users -> Nat],
           noticesExcused' \subseteq Users, noticesCommands' \in 0..MaxCommands, noticesFaults' \in 0..MaxFaults,
           NotTwice', Listed'
    PROVE  NoticesInv'
  BY DEF NoticesInv, NoticesNumbers, Notices!OwnersAreUsers, Notices!TimesAreNat, Notices!BoundsAreNat, Notices!TypeOK

(* A fault is counted.                                                     *)
LEMMA FaultsStay == ASSUME NoticesInv, Notices!Fault \/ UNCHANGED noticesFaults PROVE noticesFaults' \in 0..MaxFaults
  BY DEF Notices!Fault, NoticesInv, Notices!TypeOK, NoticesNumbers, Notices!BoundsAreNat

(* The jobs a command begins with.                                         *)
LEMMA IdleJob ==
    /\ Notices!Idle \in Notices!Job /\ Notices!Idle.pc = "idle"
    /\ [Notices!Idle EXCEPT !.pc = "list"] \in Notices!Job /\ [Notices!Idle EXCEPT !.pc = "list"].pc = "list"
    /\ [Notices!Idle EXCEPT !.fault = TRUE] \in Notices!Job /\ [Notices!Idle EXCEPT !.fault = TRUE].pc = "idle"
    /\ [Notices!Idle EXCEPT !.fault = TRUE].fault
  BY DEF Notices!Idle, Notices!Job, Notices!Pcs

(* A command begins, or begins to fail; or the node is on again.           *)
LEMMA CommandBegins ==
    ASSUME NoticesInv, Notices!adminSetNodeLifecycle \/ Notices!Enable
    PROVE  NoticesInv'
<1>1. PICK st, j : /\ Notices!Begin(st, j) /\ (Notices!Fault \/ UNCHANGED noticesFaults)
                   /\ \/ st = "draining" /\ j = [Notices!Idle EXCEPT !.pc = "list"]
                      \/ st = noticesStatus /\ j = [Notices!Idle EXCEPT !.fault = TRUE]
                      \/ st = "active" /\ j = Notices!Idle
  BY DEF Notices!adminSetNodeLifecycle, Notices!Enable
<1>2. /\ noticesStatus' = st /\ noticesJob' = j /\ noticesNotices' = [u \in Users |-> 0] /\ noticesExcused' = {}
      /\ UNCHANGED <<noticesAccess, noticesMaking, noticesChanges>> /\ noticesCommands' \in 0..MaxCommands
  <2>1. noticesCommands \in 0..MaxCommands /\ MaxCommands \in Nat
    BY DEF NoticesInv, Notices!TypeOK, NoticesNumbers, Notices!BoundsAreNat
  <2> QED BY <1>1, <2>1 DEF Notices!Begin, Notices!Rest
<1>3. noticesJob' \in Notices!Job /\ st \in {"active", "draining"}
  BY <1>1, <1>2, IdleJob DEF NoticesInv, Notices!TypeOK
<1>4. noticesFaults' \in 0..MaxFaults
  BY <1>1, FaultsStay
<1>5. NotTwice'
  <2>1. noticesJob'.pc # "send"
    BY <1>1, <1>2, IdleJob
  <2> QED BY <1>2, <2>1 DEF NotTwice, Notices!NoticeOnce
<1>6. Listed'
  BY <1>1, <1>2, IdleJob DEF Listed
<1> QED BY <1>2, <1>3, <1>4, <1>5, <1>6, HandlerGoesOn

(* The accesses are listed: who has one is in sight, or comes later.       *)
LEMMA ListStep == ASSUME NoticesInv, Notices!ListActiveByNodeID PROVE NoticesInv'
<1>1. /\ noticesJob \in Notices!Job /\ noticesJob.pc = "list" /\ noticesStatus = "draining" /\ \A u \in Users : noticesNotices[u] = 0
      /\ noticesExcused \subseteq Users /\ noticesMaking \subseteq Devices /\ Owner \in [Devices -> Users]
      /\ noticesStatus \in {"active", "draining"} /\ noticesNotices \in [Users -> Nat] /\ noticesCommands \in 0..MaxCommands
  BY DEF NoticesInv, Notices!TypeOK, NotTwice, Listed, Notices!ListActiveByNodeID, NoticesNumbers, Notices!OwnersAreUsers
<1>2. /\ UNCHANGED <<noticesStatus, noticesNotices, noticesCommands, noticesAccess, noticesMaking, noticesChanges>>
      /\ noticesExcused' = Notices!Having({"pending", "suspended"}) \cup {Owner[d] : d \in noticesMaking}
      /\ noticesFaults' \in 0..MaxFaults
  BY FaultsStay DEF Notices!ListActiveByNodeID, Notices!Rest
<1>3. noticesExcused' \subseteq Users
  BY <1>1, <1>2 DEF Notices!Having, Notices!Accesses
<1>4. NotTwice'
  BY <1>1, <1>2 DEF NotTwice, Notices!NoticeOnce, NoticesInv, Notices!ListActiveByNodeID, Notices!Job
<1>5. CASE noticesJob' = [noticesJob EXCEPT !.pc = "look", !.todo = {a \in Notices!Accesses : noticesAccess[a] = "active"}]
  <2>1. /\ noticesJob' \in Notices!Job /\ noticesJob'.pc = "look" /\ noticesJob'.todo = {a \in Notices!Accesses : noticesAccess[a] = "active"}
    BY <1>1, <1>5 DEF Notices!Job, Notices!Pcs
  <2>2. ASSUME NEW u \in Users, OnNode(u)' PROVE u \in noticesExcused' \/ Awaited(u)'
    <3>1. CASE \E a \in Notices!Accesses : noticesAccess[a] = "active" /\ Owner[a[1]] = u
      BY <2>1, <3>1 DEF Awaited
    <3>2. CASE \E a \in Notices!Accesses : noticesAccess[a] \in {"pending", "suspended"} /\ Owner[a[1]] = u
      BY <1>2, <3>2 DEF Notices!Having
    <3>3. CASE \E d \in noticesMaking : Owner[d] = u
      BY <1>2, <3>3
    <3> QED BY <1>2, <2>2, <3>1, <3>2, <3>3 DEF OnNode
  <2>3. Listed'
    BY <1>1, <1>2, <2>2 DEF Listed
  <2> QED BY <1>1, <1>2, <1>3, <1>4, <2>1, <2>3, HandlerGoesOn
<1>6. CASE noticesJob' = [noticesJob EXCEPT !.pc = "answer", !.fault = TRUE]
  <2>1. noticesJob' \in Notices!Job /\ noticesJob'.pc = "answer" /\ noticesJob'.fault
    BY <1>1, <1>6 DEF Notices!Job, Notices!Pcs
  <2>2. Listed'
    BY <1>1, <1>2, <2>1 DEF Listed
  <2> QED BY <1>1, <1>2, <1>3, <1>4, <2>1, <2>2, HandlerGoesOn
<1> QED BY <1>5, <1>6 DEF Notices!ListActiveByNodeID

(* A step that writes nothing but the job.                                 *)
LEMMA JobGoesOn ==
    ASSUME NoticesInv, UNCHANGED <<noticesStatus, noticesAccess, noticesMaking, noticesChanges, noticesNotices, noticesExcused, noticesCommands>>,
           noticesFaults' \in 0..MaxFaults, noticesJob' \in Notices!Job, noticesJob.pc # "idle", noticesJob.pc # "list",
           noticesJob'.pc \in {"look", "send", "answer", "idle"},
           noticesJob'.pc = "look" => noticesJob.pc = "look",
           noticesJob'.pc = "send" => \A u \in noticesJob'.left : noticesNotices[u] = 0,
           ~noticesJob'.fault /\ ~noticesJob'.slow =>
               ~noticesJob.fault /\ ~noticesJob.slow /\ \A u \in Users : Awaited(u) => Awaited(u)'
    PROVE  NoticesInv'
<1>1. NotTwice'
  BY DEF NoticesInv, NotTwice, Notices!NoticeOnce
<1>2. \A u \in Users : OnNode(u)' <=> OnNode(u)
  BY DEF OnNode
<1>3. Listed'
  BY <1>2 DEF NoticesInv, Listed
<1> QED BY <1>1, <1>3, HandlerGoesOn DEF NoticesInv, Notices!TypeOK

(* The user of an access is found, or skipped.                             *)
LEMMA LookStep == ASSUME NoticesInv, Notices!Look PROVE NoticesInv'
<1>1. /\ noticesJob \in Notices!Job /\ noticesJob.pc = "look" /\ Owner \in [Devices -> Users]
      /\ UNCHANGED <<noticesStatus, noticesAccess, noticesMaking, noticesChanges, noticesNotices, noticesExcused, noticesCommands>>
      /\ noticesFaults' \in 0..MaxFaults
  BY FaultsStay, SMTT(30) DEF Notices!Look, NoticesInv, Notices!TypeOK, Notices!Rest, Notices!history, NoticesNumbers, Notices!OwnersAreUsers
<1>2. PICK a \in noticesJob.todo :
         \/ noticesJob' = [noticesJob EXCEPT !.todo = @ \ {a}, !.found = @ \cup {Owner[a[1]]}]
         \/ noticesJob' = [noticesJob EXCEPT !.todo = @ \ {a}, !.fault = TRUE]
  BY DEF Notices!Look
<1>3. a \in Notices!Accesses /\ Owner[a[1]] \in Users /\ noticesJob.todo \subseteq Notices!Accesses /\ noticesJob.found \subseteq Users
  BY <1>1 DEF Notices!Job, Notices!Accesses
<1>4. CASE noticesJob' = [noticesJob EXCEPT !.todo = @ \ {a}, !.found = @ \cup {Owner[a[1]]}]
  <2>1. /\ noticesJob' \in Notices!Job /\ noticesJob'.pc = "look" /\ noticesJob'.todo = noticesJob.todo \ {a}
        /\ noticesJob'.found = noticesJob.found \cup {Owner[a[1]]} /\ noticesJob'.fault = noticesJob.fault /\ noticesJob'.slow = noticesJob.slow
    BY <1>1, <1>3, <1>4 DEF Notices!Job, Notices!Pcs
  <2>2. \A u \in Users : Awaited(u) => Awaited(u)'
    BY <1>1, <2>1 DEF Awaited
  <2> QED BY <1>1, <2>1, <2>2, JobGoesOn
<1>5. CASE noticesJob' = [noticesJob EXCEPT !.todo = @ \ {a}, !.fault = TRUE]
  <2>1. noticesJob' \in Notices!Job /\ noticesJob'.pc = "look" /\ noticesJob'.fault
    BY <1>1, <1>3, <1>5 DEF Notices!Job, Notices!Pcs
  <2> QED BY <1>1, <2>1, JobGoesOn
<1> QED BY <1>2, <1>4, <1>5

(* All are found; none was told.                                           *)
LEMMA LookedStep == ASSUME NoticesInv, Notices!Looked PROVE NoticesInv'
<1>1. /\ noticesJob \in Notices!Job /\ noticesJob.pc = "look" /\ noticesJob.todo = {} /\ \A u \in Users : noticesNotices[u] = 0
      /\ UNCHANGED <<noticesStatus, noticesAccess, noticesMaking, noticesChanges, noticesNotices, noticesExcused, noticesCommands>>
      /\ noticesFaults' \in 0..MaxFaults /\ noticesJob' = [noticesJob EXCEPT !.pc = "send", !.left = noticesJob.found]
  BY FaultsStay DEF Notices!Looked, NoticesInv, Notices!TypeOK, Notices!Rest, Notices!history, NotTwice
<1>2. /\ noticesJob' \in Notices!Job /\ noticesJob'.pc = "send" /\ noticesJob'.left = noticesJob.found /\ noticesJob.found \subseteq Users
      /\ noticesJob'.fault = noticesJob.fault /\ noticesJob'.slow = noticesJob.slow
  BY <1>1 DEF Notices!Job, Notices!Pcs
<1>3. \A u \in Users : Awaited(u) => Awaited(u)'
  BY <1>1, <1>2 DEF Awaited
<1> QED BY <1>1, <1>2, <1>3, JobGoesOn

(* All were told, or a call failed.                                        *)
LEMMA SentStep == ASSUME NoticesInv, Notices!Sent PROVE NoticesInv'
<1>1. /\ noticesJob \in Notices!Job /\ noticesJob.pc = "send" /\ noticesJob.left = {}
      /\ UNCHANGED <<noticesStatus, noticesAccess, noticesMaking, noticesChanges, noticesNotices, noticesExcused, noticesCommands>>
      /\ noticesFaults' \in 0..MaxFaults /\ noticesJob' = [noticesJob EXCEPT !.pc = "answer"]
  BY FaultsStay DEF Notices!Sent, NoticesInv, Notices!TypeOK, Notices!Rest, Notices!history
<1>2. noticesJob' \in Notices!Job /\ noticesJob'.pc = "answer" /\ noticesJob'.fault = noticesJob.fault /\ noticesJob'.slow = noticesJob.slow
  BY <1>1 DEF Notices!Job, Notices!Pcs
<1>3. \A u \in Users : Awaited(u) => Awaited(u)'
  BY <1>1, <1>2 DEF Awaited
<1> QED BY <1>1, <1>2, <1>3, JobGoesOn

(* The summary.                                                            *)
LEMMA AnswerStep == ASSUME NoticesInv, Notices!Answer PROVE NoticesInv'
<1>1. /\ noticesJob \in Notices!Job /\ noticesJob.pc = "answer"
      /\ UNCHANGED <<noticesStatus, noticesAccess, noticesMaking, noticesChanges, noticesNotices, noticesExcused, noticesCommands>>
      /\ noticesFaults' \in 0..MaxFaults /\ noticesJob' = [noticesJob EXCEPT !.pc = "idle"]
  BY FaultsStay DEF Notices!Answer, NoticesInv, Notices!TypeOK, Notices!Rest, Notices!history
<1>2. noticesJob' \in Notices!Job /\ noticesJob'.pc = "idle" /\ noticesJob'.fault = noticesJob.fault /\ noticesJob'.slow = noticesJob.slow
  BY <1>1 DEF Notices!Job, Notices!Pcs
<1>3. \A u \in Users : Awaited(u) => Awaited(u)'
  BY <1>1, <1>2 DEF Awaited
<1> QED BY <1>1, <1>2, <1>3, JobGoesOn

(* Of two numbers one is the least.                                        *)
LEMMA LeastOfTwo == \A x, y \in Int : Notices!Min({x, y}) \in Int
<1> SUFFICES ASSUME NEW x \in Int, NEW y \in Int PROVE Notices!Min({x, y}) \in Int
  OBVIOUS
<1>1. \E z \in {x, y} : \A w \in {x, y} : z <= w
  OBVIOUS
<1> QED BY <1>1 DEF Notices!Min

(* A notice, whose call may fail after it went out, and who has it is not  *)
(* told again.                                                             *)
LEMMA SendStep == ASSUME NoticesInv, NEW v \in Users, Notices!Send(v) PROVE NoticesInv'
<1>1. /\ noticesJob \in Notices!Job /\ noticesJob.pc = "send" /\ v \in noticesJob.left /\ noticesNotices[v] = 0
      /\ noticesJob.left \subseteq Users /\ noticesJob.spent \in Nat /\ noticesNotices \in [Users -> Nat]
      /\ noticesStatus = "draining" /\ \A u \in noticesJob.left : noticesNotices[u] = 0
      /\ UNCHANGED <<noticesStatus, noticesAccess, noticesMaking, noticesChanges, noticesExcused, noticesCommands>>
      /\ SendDeadline \in Nat /\ SendMax \in Nat
  BY DEF Notices!Send, NoticesInv, Notices!TypeOK, Notices!Job, NotTwice, Listed, Notices!Rest, NoticesNumbers, Notices!TimesAreNat
<1>2. PICK t \in Notices!Durations, out \in BOOLEAN, ok \in BOOLEAN :
           /\ ok => out
           /\ IF Notices!TimesOut(t) THEN ~ok /\ UNCHANGED noticesFaults
              ELSE IF ok THEN UNCHANGED noticesFaults ELSE Notices!Fault
           /\ noticesNotices' = [noticesNotices EXCEPT ![v] = IF out THEN @ + 1 ELSE @]
           /\ noticesJob' = [noticesJob EXCEPT !.left = Notices!Left(v, ok), !.spent = @ + t,
                                 !.fault = @ \/ ~(ok \/ Notices!TimesOut(t)),
                                 !.slow = @ \/ Notices!TimesOut(t)]
  BY DEF Notices!Send
<1>3. t \in Nat
  BY <1>1, LeastOfTwo DEF Notices!Durations
<1>4. noticesFaults' \in 0..MaxFaults
  BY <1>2, FaultsStay
<1>5. /\ noticesJob'.pc = "send" /\ noticesJob'.left = noticesJob.left \ {v}
      /\ noticesJob'.fault = (noticesJob.fault \/ ~(ok \/ Notices!TimesOut(t)))
      /\ noticesJob'.slow = (noticesJob.slow \/ Notices!TimesOut(t))
  BY <1>1, <1>2 DEF Notices!Job, Notices!Left
<1>6. noticesJob' \in Notices!Job
  <2>1. noticesJob.spent + t \in Nat /\ noticesJob.left \ {v} \in SUBSET Users
    BY <1>1, <1>3
  <2>2. (noticesJob.fault \/ ~(ok \/ Notices!TimesOut(t))) \in BOOLEAN /\ (noticesJob.slow \/ Notices!TimesOut(t)) \in BOOLEAN
    OBVIOUS
  <2> QED BY <1>1, <1>2, <2>1, <2>2 DEF Notices!Job, Notices!Left
<1>7. /\ noticesNotices' \in [Users -> Nat] /\ noticesNotices'[v] \in {0, 1} /\ (out => noticesNotices'[v] = 1)
      /\ \A u \in Users \ {v} : noticesNotices'[u] = noticesNotices[u]
  BY <1>1, <1>2
<1>8. NotTwice'
  <2>1. \A u \in noticesJob'.left : u \in noticesJob.left /\ u # v /\ u \in Users
    BY <1>1, <1>5
  <2>2. \A u \in Users : noticesNotices'[u] <= 1
    BY <1>7 DEF NoticesInv, NotTwice, Notices!NoticeOnce
  <2> QED BY <1>1, <1>5, <1>7, <2>1, <2>2 DEF NotTwice, Notices!NoticeOnce
<1>9. Listed'
  <2> SUFFICES ASSUME ~noticesJob'.fault, ~noticesJob'.slow, NEW u \in Users, OnNode(u)'
               PROVE  u \in noticesExcused' \/ Awaited(u)'
    BY <1>1, <1>5 DEF Listed
  <2>1. ~noticesJob.fault /\ ~noticesJob.slow /\ out
    BY <1>2, <1>5
  <2>2. u \in noticesExcused \/ Awaited(u)
    <3>1. OnNode(u)
      BY <1>1 DEF OnNode
    <3> QED BY <1>1, <2>1, <3>1 DEF NoticesInv, Listed
  <2>3. CASE u = v
    BY <1>7, <2>1, <2>3 DEF Awaited
  <2>4. CASE u # v
    BY <1>1, <1>5, <1>7, <2>2, <2>4 DEF Awaited
  <2> QED BY <2>3, <2>4
<1> QED BY <1>1, <1>4, <1>6, <1>7, <1>8, <1>9, HandlerGoesOn DEF NoticesInv, Notices!TypeOK

(* The node is on, and nobody was told of anything.                        *)
LEMMA NoticesStart == NoticesNumbers /\ Notices!Init => NoticesInv
<1> SUFFICES ASSUME NoticesNumbers, Notices!Init PROVE NoticesInv
  OBVIOUS
<1>1. /\ noticesStatus = "active" /\ noticesMaking = {} /\ noticesJob = Notices!Idle /\ noticesNotices = [u \in Users |-> 0]
      /\ noticesExcused = {} /\ noticesCommands = 0 /\ noticesChanges = 0 /\ noticesFaults = 0
  BY DEF Notices!Init
<1>2. PICK has \in [Devices -> {"none", "active", "suspended"}] : noticesAccess = [a \in Notices!Accesses |-> has[a[1]]]
  BY DEF Notices!Init
<1>3. noticesAccess \in [Notices!Accesses -> {"none", "pending", "active", "suspended", "error", "revoked"}]
  BY <1>2 DEF Notices!Accesses
<1>4. Notices!TypeOK
  BY <1>1, <1>3, IdleJob DEF Notices!TypeOK, NoticesNumbers, Notices!BoundsAreNat
<1>5. NotTwice /\ Listed
  BY <1>1, IdleJob DEF NotTwice, Notices!NoticeOnce, Listed
<1> QED BY <1>4, <1>5 DEF NoticesInv

(* Every step, of the handler and of the others.                           *)
LEMMA NoticesGoOn == NoticesInv /\ [Notices!Next]_(Notices!vars) => NoticesInv'
<1> SUFFICES ASSUME NoticesInv, [Notices!Next]_(Notices!vars) PROVE NoticesInv'
  OBVIOUS
<1>1. CASE UNCHANGED Notices!vars
  BY <1>1, OthersGo DEF Notices!vars, NoticesInv, Notices!TypeOK, OnNode
<1>2. CASE Notices!Next
  <2>1. ASSUME Notices!Step PROVE NoticesInv'
    BY <2>1, ListStep, LookStep, LookedStep, SendStep, SentStep, AnswerStep DEF Notices!Step
  <2> QED BY <1>2, <2>1, DevicesGo, ConfirmGoes, PaymentsGo, CommandBegins DEF Notices!Next
<1> QED BY <1>1, <1>2

(* For any users and devices, whatever calls fail or take their time: no   *)
(* user gets two notices of a command, and after one in which nothing      *)
(* failed or was slow whoever is on the node was told, or had no active    *)
(* access when they were listed.                                           *)
THEOREM NoticesComeOnce == Notices!Spec => []NoticesReach
<1>1. NoticesInv => NoticesReach
  <2> SUFFICES ASSUME NoticesInv, Notices!Over, ~noticesJob.fault, ~noticesJob.slow, NEW u \in Notices!Having({"active"})
               PROVE  Notices!Told(u) \/ u \in noticesExcused
    BY DEF NoticesInv, NotTwice, NoticesReach, Notices!NoticesReach, Notices!UntoldWereOutOfSight
  <2>1. PICK a \in Notices!Accesses : noticesAccess[a] = "active" /\ u = Owner[a[1]]
    BY DEF Notices!Having
  <2>2. u \in Users /\ OnNode(u)
    BY <2>1 DEF OnNode, Notices!Accesses, NoticesInv, NoticesNumbers, Notices!OwnersAreUsers
  <2> QED BY <2>2 DEF NoticesInv, Listed, Awaited, Notices!Over, Notices!Told
<1>2. NoticesNumbers
  BY PartsAssume DEF NoticesNumbers
<1> QED BY <1>1, <1>2, NoticesStart, NoticesGoOn, PTL DEF Notices!Spec

--------------------------------------------------------------------------------
(***************************************************************************)
(* The codes admins make before anybody uses them: InviteCodes, with       *)
(* the variables that MCInvites gives it.                                  *)
(***************************************************************************)
MakingNumbers ==
    /\ Making!SizesAreNat /\ Making!BoundsAreNat
    /\ IsFiniteSet(Numbers)

Running(j) == j.pc \in {"insert", "answer", "failed"}

(* What a command has made so far is in the table under its number.        *)
Table(j) ==
    LET made == Making!MadeBy(j.id)
    IN  /\ makingTold[j.id] = {} /\ makingCounted[j.id] = Making!Unsaid
        /\ j.pc \in {"insert", "answer"} => j.made = made
        /\ j.pc = "failed" => /\ j.id \in makingExcused
                              /\ Cardinality(made) \in {Cardinality(j.made), Cardinality(j.made) + 1}
        /\ j.pc = "insert" => Cardinality(j.made) < j.want /\ j.tries < Tries

JobTrue(j) ==
    /\ IF j.pc = "idle" THEN j = Making!Idle ELSE j.id \in 1..makingCommand
    /\ Running(j) => Table(j)

IdsApart ==
    \A a, b \in Admins : makingJob[a].pc # "idle" /\ makingJob[a].id = makingJob[b].id => a = b

(* What was made was told, or the command was cut off.                     *)
ToldTrue(k) ==
    /\ makingTold[k] \subseteq Making!MadeBy(k)
    /\ makingCounted[k] # Making!Unsaid =>
          k <= makingCommand /\ Cardinality(Making!MadeBy(k)) \in {makingCounted[k], makingCounted[k] + 1}
    /\ \/ k > makingCommand \/ k \in makingExcused \/ Cardinality(Making!MadeBy(k)) > Fits
       \/ \E a \in Admins : Running(makingJob[a]) /\ makingJob[a].id = k
       \/ Making!MadeBy(k) \subseteq makingTold[k]

MakingInv ==
    /\ MakingNumbers /\ Making!TypeOK /\ makingJob \in [Admins -> Making!Job]
    /\ \A c \in Numbers : makingRow[c] <= makingCommand
    /\ IdsApart
    /\ \A a \in Admins : JobTrue(makingJob[a])
    /\ \A k \in Making!Commands : ToldTrue(k)

(* Counting is the same in both modules. *)
LEMMA SameCount == \A S : Making!Cardinality(S) = Cardinality(S)
  BY DEF Making!Cardinality, Cardinality

(* The codes of a command are some of the codes, and finite.               *)
LEMMA MadeFinite ==
    ASSUME IsFiniteSet(Numbers), NEW S \in SUBSET Numbers
    PROVE  IsFiniteSet(S) /\ Cardinality(S) \in Nat /\ Cardinality(S) <= Cardinality(Numbers)
           /\ Cardinality(Numbers) \in Nat
  BY FS_Subset, FS_CardinalityType

(* They are some of the codes.                                             *)
LEMMA MadeAre == \A k : Making!MadeBy(k) \in SUBSET Numbers
  BY DEF Making!MadeBy

(* A step of one command that writes rows and answers of that one only.    *)
LEMMA OneCommand ==
    ASSUME MakingInv, NEW a \in Admins, NEW i \in 1..makingCommand, NEW j \in Making!Job,
           makingJob[a].pc # "idle", makingJob[a].id = i,
           makingJob' = [makingJob EXCEPT ![a] = j], UNCHANGED makingCommand,
           j.pc # "idle" => j.id = i, Cardinality(j.made) <= j.want,
           makingRow' \in [Numbers -> 0..MaxCommands], \A c \in Numbers : makingRow'[c] <= makingCommand,
           makingTold' \in [Making!Commands -> SUBSET Numbers],
           makingCounted' \in [Making!Commands -> 0..(Cardinality(Numbers) + 1)],
           makingExcused \subseteq makingExcused', makingExcused' \subseteq Making!Commands,
           makingFaults' \in 0..MaxFaults,
           \A k \in Making!Commands \ {i} :
               Making!MadeBy(k)' = Making!MadeBy(k) /\ makingTold'[k] = makingTold[k] /\ makingCounted'[k] = makingCounted[k],
           JobTrue(j)',
           makingTold'[i] \subseteq Making!MadeBy(i)',
           makingCounted'[i] # Making!Unsaid => Cardinality(Making!MadeBy(i)') \in {makingCounted'[i], makingCounted'[i] + 1},
           Running(j) \/ i \in makingExcused' \/ Making!MadeBy(i)' \subseteq makingTold'[i]
               \/ Cardinality(Making!MadeBy(i)') > Fits
    PROVE  MakingInv'
<1>1. /\ makingJob \in [Admins -> Making!Job] /\ makingCommand \in 0..MaxCommands /\ MaxCommands \in Nat
      /\ i \in Making!Commands
  BY DEF MakingInv, Making!TypeOK, MakingNumbers, Making!BoundsAreNat, Making!Commands
<1>2. /\ makingJob' \in [Admins -> Making!Job] /\ makingJob'[a] = j
      /\ \A b \in Admins \ {a} : makingJob'[b] = makingJob[b]
  BY <1>1
<1>3. MakingNumbers' /\ Making!TypeOK'
  <2>1. \A b \in Admins : makingJob'[b] \in Making!Job /\ Cardinality(makingJob'[b].made) <= makingJob'[b].want
    <3>1. \A b \in Admins : makingJob[b] \in Making!Job /\ Cardinality(makingJob[b].made) <= makingJob[b].want
      BY SameCount DEF MakingInv, Making!TypeOK
    <3> QED BY <1>2, <3>1
  <2>2. makingCommand' \in 0..MaxCommands
    BY <1>1
  <2>3. MakingNumbers'
    BY DEF MakingInv, MakingNumbers, Making!SizesAreNat, Making!BoundsAreNat
  <2> QED BY <2>1, <2>2, <2>3, SameCount DEF Making!TypeOK
<1>4. \A b \in Admins \ {a} : makingJob[b].id # i
  BY <1>1 DEF MakingInv, IdsApart
<1>5. j.pc = "idle" => j.id = 0
  BY DEF JobTrue, Making!Idle
<1>6. \A b \in Admins : makingJob[b].pc = "idle" => makingJob[b].id = 0
  BY DEF MakingInv, JobTrue, Making!Idle
<1>7. IdsApart'
  <2> SUFFICES ASSUME NEW b \in Admins, NEW d \in Admins, makingJob'[b].pc # "idle", makingJob'[b].id = makingJob'[d].id
               PROVE  b = d
    BY DEF IdsApart
  <2>1. CASE b = a /\ d # a
    BY <1>1, <1>2, <1>4, <2>1
  <2>2. CASE b # a /\ d = a
    <3>1. makingJob[b].id \in 1..makingCommand /\ makingJob[b].pc # "idle"
      BY <1>2, <2>2 DEF MakingInv, JobTrue
    <3> QED BY <1>2, <1>4, <1>5, <2>2, <3>1
  <2>3. CASE b # a /\ d # a
    BY <1>2, <2>3 DEF MakingInv, IdsApart
  <2> QED BY <2>1, <2>2, <2>3
<1>8. ASSUME NEW b \in Admins PROVE JobTrue(makingJob[b])'
  <2>1. CASE b = a
    BY <1>2, <2>1 DEF JobTrue, Table, Running, Making!MadeBy
  <2>2. CASE b # a
    <3>1. PICK g \in Making!Job : g = makingJob[b]
      BY <1>1
    <3>2. JobTrue(g) /\ g = makingJob'[b]
      BY <1>2, <2>2, <3>1 DEF MakingInv
    <3>3. JobTrue(g)'
      <4>1. CASE g.pc = "idle"
        BY <3>2, <4>1 DEF JobTrue, Running
      <4>2. CASE g.pc # "idle"
        <5>1. g.id \in 1..makingCommand /\ g.id # i
          BY <1>4, <2>2, <3>1, <3>2, <4>2 DEF JobTrue
        <5>2. g.id \in Making!Commands \ {i}
          BY <1>1, <5>1 DEF Making!Commands
        <5>3. Making!MadeBy(g.id)' = Making!MadeBy(g.id) /\ makingTold'[g.id] = makingTold[g.id] /\ makingCounted'[g.id] = makingCounted[g.id]
          BY <5>2
        <5>4. Table(g) => Table(g)'
          BY <5>3 DEF Table, Making!Unsaid
        <5> QED BY <3>2, <4>2, <5>1, <5>4 DEF JobTrue
      <4> QED BY <4>1, <4>2
    <3> QED BY <3>2, <3>3 DEF JobTrue, Table, Running, Making!MadeBy
  <2> QED BY <2>1, <2>2
<1>9. ASSUME NEW k \in Making!Commands PROVE ToldTrue(k)'
  <2>1. CASE k = i
    <3>1. ToldTrue(i)'
      BY <1>1, <1>2 DEF ToldTrue, Making!Unsaid, JobTrue, Running
    <3> QED BY <2>1, <3>1
  <2>2. CASE k # i
    <3>1. ToldTrue(k)
      BY DEF MakingInv
    <3>2. Making!MadeBy(k)' = Making!MadeBy(k) /\ makingTold'[k] = makingTold[k] /\ makingCounted'[k] = makingCounted[k]
      BY <2>2
    <3>3. (\E b \in Admins : Running(makingJob[b]) /\ makingJob[b].id = k) => (\E b \in Admins : Running(makingJob'[b]) /\ makingJob'[b].id = k)
      BY <1>1, <1>2, <1>4, <2>2
    <3> QED BY <3>1, <3>2, <3>3 DEF ToldTrue, Making!Unsaid
  <2> QED BY <2>1, <2>2
<1> QED BY <1>2, <1>3, <1>7, <1>8, <1>9 DEF MakingInv

(* What is known of the command of an admin who has one.                   *)
LEMMA BatchUnderway ==
    ASSUME MakingInv, NEW a \in Admins, makingJob[a].pc # "idle"
    PROVE  /\ makingJob[a] \in Making!Job /\ makingJob[a].id \in 1..makingCommand /\ makingJob[a].id \in Making!Commands
           /\ makingRow \in [Numbers -> 0..MaxCommands] /\ \A c \in Numbers : makingRow[c] <= makingCommand
           /\ makingCommand \in 0..MaxCommands /\ MaxCommands \in Nat
           /\ makingTold \in [Making!Commands -> SUBSET Numbers]
           /\ makingCounted \in [Making!Commands -> 0..(Cardinality(Numbers) + 1)]
           /\ makingExcused \subseteq Making!Commands /\ makingFaults \in 0..MaxFaults
           /\ Cardinality(makingJob[a].made) <= makingJob[a].want
           /\ makingJob[a].made \in SUBSET Numbers /\ makingJob[a].want \in Nat /\ makingJob[a].tries \in 0..Tries
           /\ Cardinality(makingJob[a].made) \in Nat /\ Cardinality(makingJob[a].made) <= Cardinality(Numbers)
           /\ Making!Unsaid = Cardinality(Numbers) + 1 /\ Cardinality(Numbers) \in Nat
           /\ Tries \in Nat /\ Tries > 0 /\ Fits \in Nat /\ IsFiniteSet(Numbers)
           /\ JobTrue(makingJob[a])
<1>1. JobTrue(makingJob[a]) /\ makingJob[a].id \in 1..makingCommand /\ makingJob[a] \in Making!Job
  BY DEF MakingInv, JobTrue
<1>2. /\ makingRow \in [Numbers -> 0..MaxCommands] /\ \A c \in Numbers : makingRow[c] <= makingCommand
      /\ makingCommand \in 0..MaxCommands
      /\ makingTold \in [Making!Commands -> SUBSET Numbers]
      /\ makingCounted \in [Making!Commands -> 0..(Cardinality(Numbers) + 1)]
      /\ makingExcused \subseteq Making!Commands /\ makingFaults \in 0..MaxFaults
      /\ Cardinality(makingJob[a].made) <= makingJob[a].want
  BY SameCount DEF MakingInv, Making!TypeOK
<1>3. /\ Tries \in Nat /\ Tries > 0 /\ Fits \in Nat /\ IsFiniteSet(Numbers) /\ MaxCommands \in Nat
  BY DEF MakingInv, MakingNumbers, Making!SizesAreNat, Making!BoundsAreNat
<1>4. makingJob[a].id \in Making!Commands
  BY <1>1, <1>2, <1>3 DEF Making!Commands
<1>5. makingJob[a].made \in SUBSET Numbers /\ makingJob[a].want \in Nat /\ makingJob[a].tries \in 0..Tries
  BY <1>1 DEF Making!Job
<1>6. /\ Cardinality(makingJob[a].made) \in Nat /\ Cardinality(makingJob[a].made) <= Cardinality(Numbers)
      /\ Cardinality(Numbers) \in Nat
  BY <1>3, <1>5, MadeFinite
<1>7. Making!Unsaid = Cardinality(Numbers) + 1
  BY SameCount DEF Making!Unsaid
<1> QED BY <1>1, <1>2, <1>3, <1>4, <1>5, <1>6, <1>7

(* Faults stay within their bound.                                         *)
LEMMA MakingFaultCounts ==
    ASSUME MakingInv, Making!Fault \/ UNCHANGED makingFaults
    PROVE  makingFaults' \in 0..MaxFaults
  BY DEF Making!Fault, MakingInv, Making!TypeOK, MakingNumbers, Making!BoundsAreNat

(* A step that writes neither rows nor answers.                            *)
LEMMA NoRowWritten ==
    ASSUME MakingInv, NEW a \in Admins, NEW j \in Making!Job, makingJob[a].pc # "idle",
           makingJob' = [makingJob EXCEPT ![a] = j], UNCHANGED <<makingRow, makingCommand, makingTold, makingCounted>>,
           makingExcused \subseteq makingExcused', makingExcused' \subseteq makingExcused \cup {makingJob[a].id},
           makingFaults' \in 0..MaxFaults,
           IF j.pc = "idle" THEN j = Making!Idle
           ELSE j.id = makingJob[a].id /\ j.want = makingJob[a].want /\ j.made = makingJob[a].made,
           j.pc \in {"insert", "answer"} => j.pc = makingJob[a].pc,
           j.pc = "insert" => j.tries < Tries,
           j.pc = "failed" => makingJob[a].pc \in {"insert", "failed"} /\ makingJob[a].id \in makingExcused',
           Running(makingJob[a]) /\ ~Running(j) => makingJob[a].id \in makingExcused'
    PROVE  MakingInv'
<1>1. PICK i \in 1..makingCommand : i = makingJob[a].id /\ i \in Making!Commands
  BY BatchUnderway
<1>2. PICK g \in Making!Job : g = makingJob[a]
  BY BatchUnderway
<1>3. \A k : Making!MadeBy(k)' = Making!MadeBy(k)
  BY DEF Making!MadeBy
<1>4. ToldTrue(i) /\ JobTrue(g) /\ g.id = i
  BY <1>1, <1>2 DEF MakingInv
<1>5. Making!Unsaid' = Making!Unsaid
  BY DEF Making!Unsaid
<1>6. Cardinality(g.made) \in Nat /\ Cardinality(g.made) <= g.want
  BY <1>2, BatchUnderway
<1>7. JobTrue(j)'
  <2>1. CASE j.pc = "idle"
    BY <2>1 DEF JobTrue, Running
  <2>2. CASE j.pc # "idle" /\ ~Running(j)
    BY <1>1, <2>2 DEF JobTrue
  <2>3. CASE Running(j)
    <3>1. j.id = i /\ j.made = g.made /\ j.want = g.want /\ j.pc # "idle" /\ Running(g) /\ Table(g)
      BY <1>1, <1>2, <1>4, <2>3 DEF Running, JobTrue
    <3>2. makingTold[i] = {} /\ makingCounted[i] = Making!Unsaid
      BY <1>4, <3>1 DEF Table
    <3>3. j.pc \in {"insert", "answer"} => j.made = Making!MadeBy(i)
      BY <1>2, <1>4, <3>1 DEF Table
    <3>4. j.pc = "insert" => Cardinality(j.made) < j.want /\ j.tries < Tries
      BY <1>2, <3>1 DEF Table
    <3>5. j.pc = "failed" => /\ i \in makingExcused'
                             /\ Cardinality(Making!MadeBy(i)) \in {Cardinality(j.made), Cardinality(j.made) + 1}
      BY <1>1, <1>2, <1>4, <3>1 DEF Table
    <3>6. Table(j)'
      BY <1>3, <1>5, <3>1, <3>2, <3>3, <3>4, <3>5 DEF Table
    <3> QED BY <1>1, <3>1, <3>6 DEF JobTrue
  <2> QED BY <2>1, <2>2, <2>3
<1>8. Cardinality(j.made) <= j.want
  <2>1. CASE j.pc = "idle"
    BY <2>1, FS_EmptySet DEF Making!Idle
  <2>2. CASE j.pc # "idle"
    BY <1>2, <1>6, <2>2
  <2> QED BY <2>1, <2>2
<1>9. Running(j) \/ i \in makingExcused' \/ Making!MadeBy(i)' \subseteq makingTold'[i]
          \/ Cardinality(Making!MadeBy(i)') > Fits
  <2> SUFFICES ASSUME ~Running(j), i \notin makingExcused' PROVE \/ Making!MadeBy(i) \subseteq makingTold[i]
                                                            \/ Cardinality(Making!MadeBy(i)) > Fits
    BY <1>3
  <2>1. ~Running(makingJob[a]) /\ i \notin makingExcused /\ ~(i > makingCommand)
    BY <1>1, BatchUnderway
  <2>2. \A b \in Admins : makingJob[b].id = i => b = a
    BY <1>1 DEF MakingInv, IdsApart
  <2> QED BY <1>4, <2>1, <2>2 DEF ToldTrue
<1>10. /\ makingTold'[i] \subseteq Making!MadeBy(i)'
       /\ makingCounted'[i] # Making!Unsaid => Cardinality(Making!MadeBy(i)') \in {makingCounted'[i], makingCounted'[i] + 1}
  BY <1>3, <1>4 DEF ToldTrue
<1> QED BY <1>1, <1>3, <1>7, <1>8, <1>9, <1>10, OneCommand, BatchUnderway

(* A code is inserted that was not there.                                  *)
LEMMA InsertedRow ==
    ASSUME MakingInv, NEW a \in Admins, makingJob[a].pc # "idle", NEW c \in Numbers,
           ~Making!Taken(c), Making!Inserted(a, c)
    PROVE  /\ makingRow' \in [Numbers -> 0..MaxCommands] /\ \A d \in Numbers : makingRow'[d] <= makingCommand
           /\ c \notin Making!MadeBy(makingJob[a].id)
           /\ \A i : i = makingJob[a].id => Making!MadeBy(i)' = Making!MadeBy(i) \cup {c}
           /\ \A k \in Making!Commands : k # makingJob[a].id => Making!MadeBy(k)' = Making!MadeBy(k)
<1>1. /\ makingRow \in [Numbers -> 0..MaxCommands] /\ makingRow[c] = 0 /\ makingRow' = [makingRow EXCEPT ![c] = makingJob[a].id]
      /\ makingJob[a].id \in 1..makingCommand /\ makingCommand \in 0..MaxCommands /\ MaxCommands \in Nat
      /\ \A d \in Numbers : makingRow[d] <= makingCommand
  BY BatchUnderway DEF Making!Taken, Making!Inserted
<1>2. makingRow' \in [Numbers -> 0..MaxCommands] /\ makingRow'[c] = makingJob[a].id /\ \A d \in Numbers \ {c} : makingRow'[d] = makingRow[d]
  BY <1>1
<1>3. \A d \in Numbers : makingRow'[d] <= makingCommand
  BY <1>1, <1>2
<1>4. c \notin Making!MadeBy(makingJob[a].id)
  BY <1>1 DEF Making!MadeBy
<1>5. \A k \in Making!Commands : k # 0 /\ k \in Int
  BY <1>1 DEF Making!Commands
<1>6. ASSUME NEW i, i = makingJob[a].id PROVE Making!MadeBy(i)' = Making!MadeBy(i) \cup {c}
  BY <1>1, <1>2, <1>6 DEF Making!MadeBy
<1>7. ASSUME NEW k \in Making!Commands, k # makingJob[a].id PROVE Making!MadeBy(k)' = Making!MadeBy(k)
  BY <1>1, <1>2, <1>5, <1>7 DEF Making!MadeBy
<1> QED BY <1>2, <1>3, <1>4, <1>6, <1>7

(* One more code, perhaps the last.                                        *)
LEMMA CreateStep == ASSUME MakingInv, NEW a \in Admins, Making!Create(a) PROVE MakingInv'
<1>1. PICK c \in Numbers :
         /\ ~Making!Taken(c) /\ Making!Inserted(a, c)
         /\ makingJob' = [makingJob EXCEPT ![a] = [makingJob[a] EXCEPT !.made = makingJob[a].made \cup {c}, !.tries = 0,
                         !.pc = IF Making!Complete(a, makingJob[a].made \cup {c}) THEN "answer" ELSE "insert"]]
  BY DEF Making!Create, Making!Becomes
<1>2. makingJob[a].pc = "insert" /\ makingJob[a].pc # "idle" /\ UNCHANGED <<makingCommand, makingTold, makingCounted, makingExcused, makingFaults>>
  BY DEF Making!Create, Making!answers
<1>3. PICK g \in Making!Job : g = makingJob[a]
  BY <1>2, BatchUnderway
<1>4. PICK i \in 1..makingCommand : i = g.id /\ i \in Making!Commands /\ makingJob[a].id = i
  BY <1>2, <1>3, BatchUnderway
<1> DEFINE n == Cardinality(g.made)
<1>5. /\ makingRow' \in [Numbers -> 0..MaxCommands] /\ \A d \in Numbers : makingRow'[d] <= makingCommand
      /\ c \notin Making!MadeBy(i) /\ Making!MadeBy(i)' = Making!MadeBy(i) \cup {c}
      /\ \A k \in Making!Commands \ {i} : Making!MadeBy(k)' = Making!MadeBy(k)
  BY <1>1, <1>2, <1>4, InsertedRow
<1>6. Table(g) /\ g.made = Making!MadeBy(i) /\ n < g.want /\ makingTold[i] = {} /\ makingCounted[i] = Making!Unsaid
  BY <1>2, <1>3, <1>4, BatchUnderway DEF JobTrue, Running, Table
<1>7. n \in Nat /\ Cardinality(g.made \cup {c}) = n + 1 /\ g.want \in Nat
  <2>1. g.made \in SUBSET Numbers /\ n \in Nat /\ g.want \in Nat
    BY <1>2, <1>3, BatchUnderway
  <2>2. IsFiniteSet(Numbers)
    BY DEF MakingInv, MakingNumbers
  <2>3. IsFiniteSet(g.made)
    BY <2>1, <2>2, FS_Subset
  <2>4. c \notin g.made
    BY <1>5, <1>6
  <2>5. Cardinality(g.made \cup {c}) = n + 1
    BY <2>3, <2>4, FS_AddElement
  <2> QED BY <2>1, <2>5
<1>8. PICK j \in Making!Job :
         /\ makingJob' = [makingJob EXCEPT ![a] = j]
         /\ j.made = g.made \cup {c} /\ j.tries = 0 /\ j.id = i /\ j.want = g.want
         /\ j.pc = IF n + 1 = g.want THEN "answer" ELSE "insert"
  <2>1. Making!Complete(a, g.made \cup {c}) <=> n + 1 = g.want
    BY <1>3, <1>7, SameCount DEF Making!Complete
  <2>2. g.made \in SUBSET Numbers /\ 0 \in 0..Tries
    BY <1>2, <1>3, BatchUnderway
  <2> DEFINE j == [g EXCEPT !.made = g.made \cup {c}, !.tries = 0,
                     !.pc = IF n + 1 = g.want THEN "answer" ELSE "insert"]
  <2>3. j \in Making!Job /\ j.made = g.made \cup {c} /\ j.tries = 0 /\ j.id = i /\ j.want = g.want
        /\ j.pc = IF n + 1 = g.want THEN "answer" ELSE "insert"
    BY <1>4, <2>2 DEF Making!Job, Making!Pcs
  <2>4. makingJob' = [makingJob EXCEPT ![a] = j]
    BY <1>1, <1>3, <2>1
  <2> QED BY <2>3, <2>4
<1>10. JobTrue(j)'
  <2>1. Making!Unsaid' = Making!Unsaid
    BY DEF Making!Unsaid
  <2>2. j.pc = "insert" => Cardinality(j.made) < j.want /\ j.tries < Tries
    <3>1. Tries > 0
      BY <1>2, BatchUnderway
    <3>2. Cardinality(j.made) = n + 1 /\ n \in Nat /\ g.want \in Nat /\ n < g.want
      BY <1>6, <1>7, <1>8
    <3>3. n + 1 # g.want => n + 1 < g.want
      BY <3>2
    <3> QED BY <1>8, <3>1, <3>2, <3>3
  <2>3. j.made = Making!MadeBy(i)' /\ makingTold'[i] = {} /\ makingCounted'[i] = Making!Unsaid'
    BY <1>2, <1>5, <1>6, <1>8, <2>1
  <2>4. j.pc # "failed" /\ j.pc # "idle"
    BY <1>8
  <2>5. Table(j)'
    BY <1>8, <2>2, <2>3, <2>4 DEF Table
  <2> QED BY <1>2, <1>4, <1>8, <2>4, <2>5 DEF JobTrue
<1>11. Cardinality(j.made) <= j.want
  BY <1>6, <1>7, <1>8
<1>12. Running(j)
  BY <1>8 DEF Running
<1>13. /\ makingTold' \in [Making!Commands -> SUBSET Numbers]
       /\ makingCounted' \in [Making!Commands -> 0..(Cardinality(Numbers) + 1)]
       /\ makingExcused' \subseteq Making!Commands /\ makingFaults' \in 0..MaxFaults
       /\ makingTold'[i] = {} /\ makingCounted'[i] = Making!Unsaid
  BY <1>2, <1>6, BatchUnderway
<1>14. makingJob[a].pc # "idle" /\ makingJob[a].id = i /\ makingExcused \subseteq makingExcused' /\ j.id = i /\ makingCommand' = makingCommand
       /\ \A k \in Making!Commands \ {i} :
               Making!MadeBy(k)' = Making!MadeBy(k) /\ makingTold'[k] = makingTold[k] /\ makingCounted'[k] = makingCounted[k]
  BY <1>2, <1>4, <1>5, <1>8
<1>15. /\ makingTold'[i] \subseteq Making!MadeBy(i)'
       /\ makingCounted'[i] # Making!Unsaid => Cardinality(Making!MadeBy(i)') \in {makingCounted'[i], makingCounted'[i] + 1}
       /\ Running(j) \/ i \in makingExcused' \/ Making!MadeBy(i)' \subseteq makingTold'[i]
              \/ Cardinality(Making!MadeBy(i)') > Fits
  BY <1>12, <1>13
<1>16. makingRow' \in [Numbers -> 0..MaxCommands] /\ \A d \in Numbers : makingRow'[d] <= makingCommand
  BY <1>5
<1> HIDE DEF n
<1> QED BY <1>8, <1>10, <1>11, <1>13, <1>14, <1>15, <1>16, OneCommand

(* A number that is taken: another is tried, up to the last try.            *)
LEMMA TryAgainStep == ASSUME MakingInv, NEW a \in Admins, Making!TryAgain(a) PROVE MakingInv'
<1>1. /\ makingJob[a].pc = "insert" /\ makingJob[a].pc # "idle"
      /\ UNCHANGED <<makingRow, makingCommand, makingTold, makingCounted, makingFaults>>
      /\ \/ /\ makingJob[a].tries + 1 < Tries /\ UNCHANGED makingExcused
            /\ makingJob' = [makingJob EXCEPT ![a] = [makingJob[a] EXCEPT !.tries = makingJob[a].tries + 1]]
         \/ /\ ~(makingJob[a].tries + 1 < Tries) /\ makingExcused' = makingExcused \cup {makingJob[a].id}
            /\ makingJob' = [makingJob EXCEPT ![a] = [makingJob[a] EXCEPT !.tries = makingJob[a].tries + 1, !.pc = "failed"]]
  BY DEF Making!TryAgain, Making!Becomes, Making!Excuse, Making!answers
<1>2. PICK g \in Making!Job : g = makingJob[a]
  BY <1>1, BatchUnderway
<1>3. g.tries \in 0..Tries /\ g.tries < Tries /\ Tries \in Nat /\ g.pc = "insert" /\ makingFaults \in 0..MaxFaults
  BY <1>1, <1>2, BatchUnderway DEF JobTrue, Running, Table
<1>4. g.tries + 1 \in 0..Tries
  BY <1>3
<1>5. CASE /\ g.tries + 1 < Tries /\ UNCHANGED makingExcused
           /\ makingJob' = [makingJob EXCEPT ![a] = [g EXCEPT !.tries = g.tries + 1]]
  <2>1. PICK j \in Making!Job : j = [g EXCEPT !.tries = g.tries + 1]
    BY <1>4 DEF Making!Job
  <2>2. j.pc = "insert" /\ j.id = g.id /\ j.want = g.want /\ j.made = g.made /\ j.tries = g.tries + 1
    BY <1>3, <2>1 DEF Making!Job
  <2> QED BY <1>1, <1>2, <1>3, <1>5, <2>1, <2>2, NoRowWritten DEF Running
<1>6. CASE /\ makingExcused' = makingExcused \cup {g.id}
           /\ makingJob' = [makingJob EXCEPT ![a] = [g EXCEPT !.tries = g.tries + 1, !.pc = "failed"]]
  <2>1. PICK j \in Making!Job : j = [g EXCEPT !.tries = g.tries + 1, !.pc = "failed"]
    BY <1>4 DEF Making!Job, Making!Pcs
  <2>2. j.pc = "failed" /\ j.id = g.id /\ j.want = g.want /\ j.made = g.made
    BY <1>3, <2>1 DEF Making!Job
  <2> QED BY <1>1, <1>2, <1>3, <1>6, <2>1, <2>2, NoRowWritten DEF Running
<1> QED BY <1>1, <1>2, <1>5, <1>6
(* An admin may have no command under way.                                 *)
LEMMA IdleIsAJob ==
    ASSUME Tries \in Nat, MaxCommands \in Nat
    PROVE  Making!Idle \in Making!Job /\ Making!Idle.pc = "idle"
           /\ Cardinality(Making!Idle.made) = 0 /\ Making!Idle.want = 0
<1>1. 0 \in 0..Tries /\ 0 \in 0..MaxCommands /\ 0 \in Nat
  OBVIOUS
<1>2. Making!Idle \in Making!Job
  BY <1>1 DEF Making!Idle, Making!Job, Making!Pcs
<1> QED BY <1>2, FS_EmptySet DEF Making!Idle

(* After an answer the command is over, but for the callback of a button.  *)
LEMMA AfterAnAnswer ==
    ASSUME MakingInv, NEW a \in Admins, makingJob[a].pc # "idle"
    PROVE  /\ Making!After(a) \in Making!Job /\ ~Running(Making!After(a))
           /\ IF Making!After(a).pc = "idle" THEN Making!After(a) = Making!Idle
              ELSE /\ Making!After(a).id = makingJob[a].id /\ Making!After(a).want = makingJob[a].want
                   /\ Making!After(a).made = makingJob[a].made
           /\ Cardinality(Making!After(a).made) <= Making!After(a).want
<1>1. PICK g \in Making!Job : g = makingJob[a] /\ g.id \in 1..makingCommand /\ Cardinality(g.made) <= g.want
  BY BatchUnderway
<1>2. Tries \in Nat /\ MaxCommands \in Nat
  BY BatchUnderway
<1>3. Making!Idle \in Making!Job /\ Making!Idle.pc = "idle"
  BY <1>2, IdleIsAJob
<1>4. Cardinality(Making!Idle.made) <= Making!Idle.want
  BY <1>2, IdleIsAJob
<1>5. CASE makingJob[a].single
  <2>1. Making!After(a) = [g EXCEPT !.pc = "callback"]
    BY <1>1, <1>5 DEF Making!After
  <2>2. PICK j \in Making!Job : j = [g EXCEPT !.pc = "callback"]
    BY <1>1 DEF Making!Job, Making!Pcs
  <2>3. j.pc = "callback" /\ j.id = g.id /\ j.want = g.want /\ j.made = g.made
    BY <2>2 DEF Making!Job
  <2> QED BY <1>1, <2>1, <2>2, <2>3 DEF Running
<1>6. CASE ~makingJob[a].single
  <2>1. Making!After(a) = Making!Idle
    BY <1>6 DEF Making!After
  <2> QED BY <1>3, <1>4, <2>1 DEF Running
<1> QED BY <1>5, <1>6

(* A statement that fails, or was committed without an answer.             *)
LEMMA CreateFailsStep == ASSUME MakingInv, NEW a \in Admins, Making!CreateFails(a) PROVE MakingInv'
<1>1. /\ makingJob[a].pc = "insert" /\ makingJob[a].pc # "idle"
      /\ UNCHANGED <<makingCommand, makingTold, makingCounted>>
      /\ makingExcused' = makingExcused \cup {makingJob[a].id}
      /\ makingJob' = [makingJob EXCEPT ![a] = [makingJob[a] EXCEPT !.pc = "failed"]]
      /\ \/ UNCHANGED makingRow
         \/ \E c \in Numbers : ~Making!Taken(c) /\ Making!Inserted(a, c)
  BY DEF Making!CreateFails, Making!Becomes, Making!Excuse, Making!answers
<1>2. makingFaults' \in 0..MaxFaults
  BY MakingFaultCounts DEF Making!CreateFails, Making!FaultOrLate
<1>3. PICK g \in Making!Job : g = makingJob[a]
  BY <1>1, BatchUnderway
<1>4. PICK i \in 1..makingCommand : i = g.id /\ i \in Making!Commands /\ makingJob[a].id = i
  BY <1>1, <1>3, BatchUnderway
<1>5. PICK j \in Making!Job : j = [g EXCEPT !.pc = "failed"]
  BY DEF Making!Job, Making!Pcs
<1>6. /\ j.pc = "failed" /\ j.id = i /\ j.want = g.want /\ j.made = g.made
      /\ makingJob' = [makingJob EXCEPT ![a] = j]
  BY <1>1, <1>3, <1>4, <1>5 DEF Making!Job
<1>7. CASE UNCHANGED makingRow
  <2>1. /\ j.pc # "idle" /\ j.pc \notin {"insert", "answer"} /\ makingJob[a].id \in makingExcused' /\ j.id = makingJob[a].id
        /\ j.want = makingJob[a].want /\ j.made = makingJob[a].made
        /\ makingExcused \subseteq makingExcused' /\ makingExcused' \subseteq makingExcused \cup {makingJob[a].id}
    BY <1>1, <1>3, <1>4, <1>6
  <2> QED BY <1>1, <1>2, <1>6, <1>7, <2>1, NoRowWritten
<1>8. ASSUME NEW c \in Numbers, ~Making!Taken(c), Making!Inserted(a, c) PROVE MakingInv'
  <2> DEFINE n == Cardinality(g.made)
  <2>1. /\ makingRow' \in [Numbers -> 0..MaxCommands] /\ \A d \in Numbers : makingRow'[d] <= makingCommand
        /\ c \notin Making!MadeBy(i) /\ Making!MadeBy(i)' = Making!MadeBy(i) \cup {c}
        /\ \A k \in Making!Commands \ {i} : Making!MadeBy(k)' = Making!MadeBy(k)
    BY <1>1, <1>4, <1>8, InsertedRow
  <2>2. Table(g) /\ g.made = Making!MadeBy(i) /\ makingTold[i] = {} /\ makingCounted[i] = Making!Unsaid
    BY <1>1, <1>3, <1>4, BatchUnderway DEF JobTrue, Running, Table
  <2>3. Cardinality(Making!MadeBy(i)') = n + 1 /\ n <= g.want
    <3>1. g.made \in SUBSET Numbers /\ IsFiniteSet(Numbers) /\ n <= g.want
      BY <1>1, <1>3, BatchUnderway
    <3>2. IsFiniteSet(g.made)
      BY <3>1, FS_Subset
    <3>3. c \notin g.made
      BY <2>1, <2>2
    <3>4. Cardinality(g.made \cup {c}) = n + 1
      BY <3>2, <3>3, FS_AddElement
    <3> QED BY <2>1, <2>2, <3>1, <3>4
  <2>4. makingTold'[i] = {} /\ makingCounted'[i] = Making!Unsaid /\ Making!Unsaid' = Making!Unsaid /\ i \in makingExcused'
    BY <1>1, <1>4, <2>2 DEF Making!Unsaid
  <2>5. JobTrue(j)'
    <3>1. Table(j)'
      BY <1>6, <2>3, <2>4 DEF Table
    <3> QED BY <1>1, <1>4, <1>6, <3>1 DEF JobTrue
  <2>6. /\ makingTold' \in [Making!Commands -> SUBSET Numbers]
        /\ makingCounted' \in [Making!Commands -> 0..(Cardinality(Numbers) + 1)]
        /\ makingExcused' \subseteq Making!Commands
    BY <1>1, <1>4, BatchUnderway
  <2>7. makingJob[a].pc # "idle" /\ makingJob[a].id = i /\ makingExcused \subseteq makingExcused' /\ j.id = i /\ makingCommand' = makingCommand
        /\ Cardinality(j.made) <= j.want
        /\ \A k \in Making!Commands \ {i} :
               Making!MadeBy(k)' = Making!MadeBy(k) /\ makingTold'[k] = makingTold[k] /\ makingCounted'[k] = makingCounted[k]
    BY <1>1, <1>4, <1>6, <2>1, <2>3
  <2>8. /\ makingTold'[i] \subseteq Making!MadeBy(i)'
        /\ makingCounted'[i] # Making!Unsaid => Cardinality(Making!MadeBy(i)') \in {makingCounted'[i], makingCounted'[i] + 1}
        /\ Running(j) \/ i \in makingExcused' \/ Making!MadeBy(i)' \subseteq makingTold'[i]
               \/ Cardinality(Making!MadeBy(i)') > Fits
    BY <2>4
  <2>9. makingRow' \in [Numbers -> 0..MaxCommands] /\ \A d \in Numbers : makingRow'[d] <= makingCommand
    BY <2>1
  <2> QED BY <1>2, <1>6, <2>5, <2>6, <2>7, <2>8, <2>9, OneCommand
<1> QED BY <1>1, <1>7, <1>8

(* The deadline passes while the command is under way.                     *)
LEMMA DeadlineStep == ASSUME MakingInv, NEW a \in Admins, Making!Deadline(a) PROVE MakingInv'
<1>1. /\ makingJob[a].pc # "idle" /\ UNCHANGED <<makingRow, makingCommand, makingTold, makingCounted, makingFaults>>
      /\ makingExcused' = makingExcused \cup {makingJob[a].id}
      /\ makingJob' = [makingJob EXCEPT ![a] = [makingJob[a] EXCEPT !.late = TRUE]]
  BY DEF Making!Deadline, Making!Becomes, Making!Excuse, Making!answers
<1>2. PICK g \in Making!Job : g = makingJob[a]
  BY <1>1, BatchUnderway
<1>3. PICK j \in Making!Job : j = [g EXCEPT !.late = TRUE]
  BY DEF Making!Job
<1>4. j.pc = g.pc /\ j.id = g.id /\ j.want = g.want /\ j.made = g.made /\ j.tries = g.tries
  BY <1>3 DEF Making!Job
<1>5. makingFaults' \in 0..MaxFaults
  BY <1>1, BatchUnderway
<1>6. g.pc = "insert" => g.tries < Tries
  BY <1>1, <1>2, BatchUnderway DEF JobTrue, Running, Table
<1>7. g.pc = "failed" => g.id \in makingExcused'
  BY <1>1, <1>2
<1>8. makingJob' = [makingJob EXCEPT ![a] = j]
  BY <1>1, <1>2, <1>3
<1>9. /\ j.pc # "idle" /\ j.pc = makingJob[a].pc /\ makingJob[a].id \in makingExcused' /\ j.id = makingJob[a].id
      /\ j.want = makingJob[a].want /\ j.made = makingJob[a].made
      /\ makingExcused \subseteq makingExcused' /\ makingExcused' \subseteq makingExcused \cup {makingJob[a].id}
  BY <1>1, <1>2, <1>4
<1>10. (j.pc = "failed" => makingJob[a].pc \in {"insert", "failed"}) /\ (j.pc = "insert" => j.tries < Tries)
  BY <1>2, <1>4, <1>6, <1>9
<1> QED BY <1>1, <1>5, <1>8, <1>9, <1>10, NoRowWritten

(* An answer that does not arrive.                                         *)
LEMMA AnswerLostStep == ASSUME MakingInv, NEW a \in Admins, Making!AnswerLost(a) PROVE MakingInv'
<1>1. /\ makingJob[a].pc # "idle" /\ UNCHANGED <<makingRow, makingCommand, makingTold, makingCounted>>
      /\ makingExcused' = makingExcused \cup {makingJob[a].id}
      /\ makingJob' = [makingJob EXCEPT ![a] = Making!After(a)]
  BY DEF Making!AnswerLost, Making!Becomes, Making!Excuse, Making!answers
<1>2. makingFaults' \in 0..MaxFaults
  BY MakingFaultCounts DEF Making!AnswerLost, Making!FaultOrLate
<1>3. PICK j \in Making!Job : j = Making!After(a) /\ ~Running(j)
         /\ IF j.pc = "idle" THEN j = Making!Idle
            ELSE j.id = makingJob[a].id /\ j.want = makingJob[a].want /\ j.made = makingJob[a].made
  BY <1>1, AfterAnAnswer
<1>4. j.pc \notin {"insert", "answer", "failed"}
  BY <1>3 DEF Running
<1> QED BY <1>1, <1>2, <1>3, <1>4, NoRowWritten

(* The button is answered.                                                 *)
LEMMA CallbackStep ==
    ASSUME MakingInv, NEW a \in Admins, Making!AnswerCallbackQuery(a) PROVE MakingInv'
<1>1. /\ makingJob[a].pc = "callback" /\ makingJob[a].pc # "idle"
      /\ UNCHANGED <<makingRow, makingCommand, makingTold, makingCounted, makingExcused, makingFaults>>
      /\ makingJob' = [makingJob EXCEPT ![a] = Making!Idle]
  BY DEF Making!AnswerCallbackQuery, Making!Becomes
<1>2. makingFaults' \in 0..MaxFaults /\ Tries \in Nat /\ MaxCommands \in Nat
  BY <1>1, BatchUnderway
<1>3. PICK j \in Making!Job : j = Making!Idle /\ j.pc = "idle"
  BY <1>2, IdleIsAJob
<1>4. ~Running(makingJob[a])
  BY <1>1 DEF Running
<1> QED BY <1>1, <1>2, <1>3, <1>4, NoRowWritten

(* The codes are told.                                                     *)
LEMMA ToldStep == ASSUME MakingInv, NEW a \in Admins, Making!Answer(a) PROVE MakingInv'
<1>1. PICK s \in SUBSET makingJob[a].made :
         Making!Listed(makingJob[a].made, s) /\ makingTold' = [makingTold EXCEPT ![makingJob[a].id] = s]
  BY DEF Making!Answer
<1>2. /\ makingJob[a].pc = "answer" /\ makingJob[a].pc # "idle" /\ UNCHANGED <<makingRow, makingCommand, makingCounted, makingExcused, makingFaults>>
      /\ makingJob' = [makingJob EXCEPT ![a] = Making!After(a)]
  BY DEF Making!Answer, Making!Becomes
<1>3. PICK g \in Making!Job : g = makingJob[a]
  BY <1>2, BatchUnderway
<1>4. PICK i \in 1..makingCommand : i = g.id /\ i \in Making!Commands /\ makingJob[a].id = i
  BY <1>2, <1>3, BatchUnderway
<1>5. Table(g) /\ g.made = Making!MadeBy(i) /\ makingCounted[i] = Making!Unsaid
  BY <1>2, <1>3, <1>4, BatchUnderway DEF JobTrue, Running, Table
<1>6. PICK j \in Making!Job : j = Making!After(a) /\ ~Running(j) /\ Cardinality(j.made) <= j.want
         /\ IF j.pc = "idle" THEN j = Making!Idle ELSE j.id = i
  BY <1>2, <1>4, AfterAnAnswer
<1>7. \A k : Making!MadeBy(k)' = Making!MadeBy(k)
  BY <1>2 DEF Making!MadeBy
<1>8. /\ makingTold \in [Making!Commands -> SUBSET Numbers] /\ s \in SUBSET Numbers
      /\ g.made \in SUBSET Numbers /\ IsFiniteSet(Numbers) /\ Fits \in Nat
      /\ Cardinality(g.made) \in Nat
  BY <1>1, <1>2, <1>3, BatchUnderway
<1>9. /\ makingTold' \in [Making!Commands -> SUBSET Numbers] /\ makingTold'[i] = s
      /\ \A k \in Making!Commands \ {i} : makingTold'[k] = makingTold[k]
  BY <1>1, <1>4, <1>8
<1>10. Cardinality(g.made) > Fits \/ g.made = s
  <2> SUFFICES ASSUME ~(Cardinality(g.made) > Fits) PROVE g.made = s
    OBVIOUS
  <2>1. Cardinality(s) = Cardinality(g.made)
    BY <1>1, <1>3, SameCount DEF Making!Listed
  <2>2. s \subseteq g.made /\ IsFiniteSet(g.made)
    BY <1>1, <1>3, <1>8, FS_Subset
  <2> QED BY <2>1, <2>2, FS_Subset
<1>11. JobTrue(j)'
  BY <1>2, <1>4, <1>6 DEF JobTrue, Running
<1>12. /\ makingTold'[i] \subseteq Making!MadeBy(i)'
       /\ makingCounted'[i] # Making!Unsaid => Cardinality(Making!MadeBy(i)') \in {makingCounted'[i], makingCounted'[i] + 1}
       /\ Running(j) \/ i \in makingExcused' \/ Making!MadeBy(i)' \subseteq makingTold'[i]
              \/ Cardinality(Making!MadeBy(i)') > Fits
  <2>1. Making!MadeBy(i)' = g.made /\ makingCounted'[i] = Making!Unsaid
    BY <1>2, <1>5, <1>7
  <2> QED BY <1>1, <1>3, <1>9, <1>10, <2>1
<1>13. /\ makingRow' \in [Numbers -> 0..MaxCommands] /\ \A d \in Numbers : makingRow'[d] <= makingCommand
       /\ makingCounted' \in [Making!Commands -> 0..(Cardinality(Numbers) + 1)]
       /\ makingExcused' \subseteq Making!Commands /\ makingFaults' \in 0..MaxFaults
       /\ makingExcused \subseteq makingExcused' /\ makingCommand' = makingCommand
  BY <1>2, BatchUnderway
<1>14. \A k \in Making!Commands \ {i} :
               Making!MadeBy(k)' = Making!MadeBy(k) /\ makingTold'[k] = makingTold[k] /\ makingCounted'[k] = makingCounted[k]
  BY <1>2, <1>7, <1>9
<1>15. j.pc # "idle" => j.id = i
  BY <1>6
<1>16. makingJob' = [makingJob EXCEPT ![a] = j]
  BY <1>2, <1>6
<1> QED BY <1>2, <1>4, <1>6, <1>9, <1>11, <1>12, <1>13, <1>14, <1>15, <1>16, OneCommand

(* The answer of a failed batch says how many codes it made.               *)
LEMMA AnswerFailureStep == ASSUME MakingInv, NEW a \in Admins, Making!AnswerFailure(a) PROVE MakingInv'
<1>1. /\ makingJob[a].pc = "failed" /\ makingJob[a].pc # "idle" /\ UNCHANGED <<makingRow, makingCommand, makingTold, makingExcused, makingFaults>>
      /\ makingJob' = [makingJob EXCEPT ![a] = Making!After(a)]
      /\ \/ UNCHANGED makingCounted
         \/ makingCounted' = [makingCounted EXCEPT ![makingJob[a].id] = Cardinality(makingJob[a].made)]
  BY SameCount DEF Making!AnswerFailure, Making!Becomes, Making!Count
<1>2. PICK g \in Making!Job : g = makingJob[a]
  BY <1>1, BatchUnderway
<1>3. PICK i \in 1..makingCommand : i = g.id /\ i \in Making!Commands /\ makingJob[a].id = i
  BY <1>1, <1>2, BatchUnderway
<1>4. /\ i \in makingExcused /\ makingTold[i] = {} /\ makingCounted[i] = Making!Unsaid
      /\ Cardinality(Making!MadeBy(i)) \in {Cardinality(g.made), Cardinality(g.made) + 1}
  BY <1>1, <1>2, <1>3, BatchUnderway DEF JobTrue, Running, Table
<1>5. PICK j \in Making!Job : j = Making!After(a) /\ ~Running(j) /\ Cardinality(j.made) <= j.want
         /\ IF j.pc = "idle" THEN j = Making!Idle ELSE j.id = i
  BY <1>1, <1>3, AfterAnAnswer
<1>6. \A k : Making!MadeBy(k)' = Making!MadeBy(k)
  BY <1>1 DEF Making!MadeBy
<1>7. /\ makingCounted \in [Making!Commands -> 0..(Cardinality(Numbers) + 1)]
      /\ Cardinality(g.made) \in 0..(Cardinality(Numbers) + 1)
  BY <1>1, <1>2, BatchUnderway
<1>8. /\ makingCounted' \in [Making!Commands -> 0..(Cardinality(Numbers) + 1)]
      /\ makingCounted'[i] \in {Making!Unsaid, Cardinality(g.made)}
      /\ \A k \in Making!Commands \ {i} : makingCounted'[k] = makingCounted[k]
  BY <1>1, <1>2, <1>3, <1>4, <1>7
<1>9. JobTrue(j)'
  BY <1>1, <1>3, <1>5 DEF JobTrue, Running
<1>10. /\ makingTold'[i] \subseteq Making!MadeBy(i)'
       /\ makingCounted'[i] # Making!Unsaid => Cardinality(Making!MadeBy(i)') \in {makingCounted'[i], makingCounted'[i] + 1}
       /\ Running(j) \/ i \in makingExcused' \/ Making!MadeBy(i)' \subseteq makingTold'[i]
              \/ Cardinality(Making!MadeBy(i)') > Fits
  BY <1>1, <1>4, <1>6, <1>8
<1>11. /\ makingRow' \in [Numbers -> 0..MaxCommands] /\ \A d \in Numbers : makingRow'[d] <= makingCommand
       /\ makingTold' \in [Making!Commands -> SUBSET Numbers]
       /\ makingExcused' \subseteq Making!Commands /\ makingFaults' \in 0..MaxFaults
       /\ makingExcused \subseteq makingExcused' /\ makingCommand' = makingCommand
  BY <1>1, BatchUnderway
<1>12. \A k \in Making!Commands \ {i} :
               Making!MadeBy(k)' = Making!MadeBy(k) /\ makingTold'[k] = makingTold[k] /\ makingCounted'[k] = makingCounted[k]
  BY <1>1, <1>6, <1>8
<1>13. (j.pc # "idle" => j.id = i) /\ makingJob' = [makingJob EXCEPT ![a] = j]
  BY <1>1, <1>5
<1> QED BY <1>1, <1>3, <1>5, <1>8, <1>9, <1>10, <1>11, <1>12, <1>13, OneCommand

(* What is known between commands: the next number is unused.              *)
LEMMA NextNumber ==
    ASSUME MakingInv, makingCommand < MaxCommands, NEW i, i = makingCommand + 1
    PROVE  /\ makingCommand \in Nat /\ MaxCommands \in Nat /\ i \in 1..(makingCommand + 1) /\ i \in Making!Commands
           /\ Making!MadeBy(i) = {} /\ makingTold[i] = {} /\ makingCounted[i] = Making!Unsaid
           /\ \A b \in Admins : makingJob[b].id # i
           /\ makingRow \in [Numbers -> 0..MaxCommands] /\ \A c \in Numbers : makingRow[c] <= makingCommand /\ makingRow[c] # i
           /\ makingTold \in [Making!Commands -> SUBSET Numbers]
           /\ makingCounted \in [Making!Commands -> 0..(Cardinality(Numbers) + 1)]
           /\ makingExcused \subseteq Making!Commands /\ makingFaults \in 0..MaxFaults
<1>1. /\ makingCommand \in 0..MaxCommands /\ MaxCommands \in Nat /\ makingRow \in [Numbers -> 0..MaxCommands]
      /\ makingTold \in [Making!Commands -> SUBSET Numbers]
      /\ makingExcused \subseteq Making!Commands /\ makingFaults \in 0..MaxFaults
  BY DEF MakingInv, Making!TypeOK, MakingNumbers, Making!BoundsAreNat
<1>2. makingCounted \in [Making!Commands -> 0..(Cardinality(Numbers) + 1)]
  BY SameCount DEF MakingInv, Making!TypeOK
<1>3. i \in 1..(makingCommand + 1) /\ i \in Making!Commands
  BY <1>1 DEF Making!Commands
<1>4. \A c \in Numbers : makingRow[c] <= makingCommand /\ makingRow[c] # i
  BY <1>1 DEF MakingInv
<1>5. Making!MadeBy(i) = {}
  BY <1>4 DEF Making!MadeBy
<1>6. ToldTrue(i) /\ ~(i <= makingCommand)
  BY <1>1, <1>3 DEF MakingInv
<1>7. makingTold[i] = {} /\ makingCounted[i] = Making!Unsaid
  BY <1>5, <1>6 DEF ToldTrue
<1>8. ASSUME NEW b \in Admins PROVE makingJob[b].id # i
  <2>1. JobTrue(makingJob[b])
    BY DEF MakingInv
  <2>2. CASE makingJob[b].pc = "idle"
    BY <1>1, <2>1, <2>2 DEF JobTrue, Making!Idle
  <2>3. CASE makingJob[b].pc # "idle"
    BY <1>1, <2>1, <2>3 DEF JobTrue
  <2> QED BY <2>2, <2>3
<1> QED BY <1>1, <1>2, <1>3, <1>4, <1>5, <1>7, <1>8

(* A new command that is what j says, or none.                             *)
LEMMA NewCommand ==
    ASSUME MakingInv, makingCommand < MaxCommands, makingCommand' = makingCommand + 1, NEW i, i = makingCommand + 1,
           MakingNumbers', makingJob' \in [Admins -> Making!Job],
           \A b \in Admins : /\ Cardinality(makingJob'[b].made) <= makingJob'[b].want
                             /\ makingJob'[b] = makingJob[b] \/ (makingJob[b] = Making!Idle /\ makingJob'[b].id = i),
           \A b, d \in Admins : makingJob'[b].id = i /\ makingJob'[d].id = i => b = d,
           makingRow' \in [Numbers -> 0..MaxCommands], \A c \in Numbers : makingRow'[c] <= makingCommand + 1,
           makingTold' \in [Making!Commands -> SUBSET Numbers], UNCHANGED <<makingCounted, makingExcused, makingFaults>>,
           \A k \in Making!Commands \ {i} : Making!MadeBy(k)' = Making!MadeBy(k) /\ makingTold'[k] = makingTold[k],
           \A b \in Admins : makingJob'[b].id = i => JobTrue(makingJob[b])',
           makingTold'[i] \subseteq Making!MadeBy(i)',
           Making!MadeBy(i)' \subseteq makingTold'[i] \/ \E b \in Admins : Running(makingJob'[b]) /\ makingJob'[b].id = i
    PROVE  MakingInv'
<1>1. /\ makingCommand \in Nat /\ MaxCommands \in Nat /\ i \in Making!Commands /\ makingCounted[i] = Making!Unsaid
      /\ \A b \in Admins : makingJob[b].id # i
      /\ makingCounted \in [Making!Commands -> 0..(Cardinality(Numbers) + 1)]
      /\ makingExcused \subseteq Making!Commands /\ makingFaults \in 0..MaxFaults
  BY NextNumber
<1>2. Making!TypeOK'
  <2>1. makingCommand' \in 0..MaxCommands
    BY <1>1
  <2> QED BY <1>1, <2>1, SameCount DEF Making!TypeOK
<1>3. IdsApart'
  <2> SUFFICES ASSUME NEW b \in Admins, NEW d \in Admins, makingJob'[b].pc # "idle", makingJob'[b].id = makingJob'[d].id
               PROVE  b = d
    BY DEF IdsApart
  <2>1. CASE makingJob'[b].id = i
    BY <2>1
  <2>2. CASE makingJob'[b].id # i
    <3>1. makingJob'[b] = makingJob[b] /\ makingJob'[d] = makingJob[d]
      BY <2>2
    <3> QED BY <3>1 DEF MakingInv, IdsApart
  <2> QED BY <2>1, <2>2
<1>4. ASSUME NEW b \in Admins PROVE JobTrue(makingJob[b])'
  <2>1. CASE makingJob'[b].id = i
    BY <2>1
  <2>2. CASE makingJob'[b].id # i
    <3>1. PICK g \in Making!Job : g = makingJob[b] /\ g = makingJob'[b] /\ JobTrue(g)
      BY <2>2 DEF MakingInv
    <3>2. JobTrue(g)'
      <4>1. CASE g.pc = "idle"
        BY <3>1, <4>1 DEF JobTrue, Running
      <4>2. CASE g.pc # "idle"
        <5>1. g.id \in 1..makingCommand /\ g.id # i
          BY <1>1, <3>1, <4>2 DEF JobTrue
        <5>2. g.id \in Making!Commands \ {i} /\ g.id \in 1..(makingCommand + 1)
          <6>1. makingCommand \in 0..MaxCommands
            BY DEF MakingInv, Making!TypeOK
          <6> QED BY <1>1, <5>1, <6>1 DEF Making!Commands
        <5>3. Making!MadeBy(g.id)' = Making!MadeBy(g.id) /\ makingTold'[g.id] = makingTold[g.id] /\ makingCounted'[g.id] = makingCounted[g.id]
          BY <5>2
        <5>4. Table(g) => Table(g)'
          BY <5>3 DEF Table, Making!Unsaid
        <5> QED BY <3>1, <4>2, <5>2, <5>4 DEF JobTrue
      <4> QED BY <4>1, <4>2
    <3> QED BY <3>1, <3>2 DEF JobTrue, Table, Running, Making!MadeBy
  <2> QED BY <2>1, <2>2
<1>5. ASSUME NEW k \in Making!Commands PROVE ToldTrue(k)'
  <2>1. CASE k = i
    <3>1. ToldTrue(i)'
      BY <1>1 DEF ToldTrue, Making!Unsaid
    <3> QED BY <2>1, <3>1
  <2>2. CASE k # i
    <3>1. ToldTrue(k) /\ k \in Nat
      BY <1>1 DEF MakingInv, Making!Commands
    <3>2. Making!MadeBy(k)' = Making!MadeBy(k) /\ makingTold'[k] = makingTold[k] /\ makingCounted'[k] = makingCounted[k]
      BY <2>2
    <3>3. ASSUME NEW b \in Admins, Running(makingJob[b]), makingJob[b].id = k PROVE Running(makingJob'[b]) /\ makingJob'[b].id = k
      <4>1. makingJob[b] # Making!Idle
        BY <3>3 DEF Running, Making!Idle
      <4> QED BY <3>3, <4>1
    <3>4. (k > makingCommand => k > makingCommand') /\ (k <= makingCommand => k <= makingCommand')
      BY <1>1, <2>2, <3>1
    <3> QED BY <3>1, <3>2, <3>3, <3>4 DEF ToldTrue, Making!Unsaid
  <2> QED BY <2>1, <2>2
<1>6. \A c \in Numbers : makingRow'[c] <= makingCommand'
  OBVIOUS
<1> QED BY <1>2, <1>3, <1>4, <1>5, <1>6 DEF MakingInv

(* The numbers are constants.                                              *)
LEMMA MakingNumbersStay == ASSUME MakingInv PROVE MakingNumbers'
  BY DEF MakingInv, MakingNumbers, Making!SizesAreNat, Making!BoundsAreNat

(* What is known of every admin's command.                                 *)
LEMMA EveryJob ==
    ASSUME MakingInv
    PROVE  makingJob \in [Admins -> Making!Job] /\ \A b \in Admins : Cardinality(makingJob[b].made) <= makingJob[b].want
  BY SameCount DEF MakingInv, Making!TypeOK

(* An admin asks for codes.                                                *)
LEMMA BeginStep ==
    ASSUME MakingInv, NEW a \in Admins, NEW single \in BOOLEAN, NEW n \in Nat \ {0}, Making!Begin(a, single, n)
    PROVE  MakingInv'
<1>1. /\ makingJob[a] = Making!Idle /\ makingCommand < MaxCommands /\ makingCommand' = makingCommand + 1
      /\ makingJob' = [makingJob EXCEPT ![a] = [Making!Idle EXCEPT !.pc = "insert", !.id = makingCommand + 1,
                                            !.single = single, !.want = n]]
      /\ UNCHANGED <<makingRow, makingTold, makingCounted, makingExcused, makingFaults>>
  BY DEF Making!Begin, Making!Becomes, Making!answers
<1>2. PICK i : i = makingCommand + 1
  OBVIOUS
<1>3. /\ makingCommand \in Nat /\ MaxCommands \in Nat /\ i \in 1..(makingCommand + 1) /\ i \in Making!Commands
      /\ Making!MadeBy(i) = {} /\ makingTold[i] = {} /\ makingCounted[i] = Making!Unsaid
      /\ \A b \in Admins : makingJob[b].id # i
      /\ makingRow \in [Numbers -> 0..MaxCommands] /\ \A c \in Numbers : makingRow[c] <= makingCommand
      /\ makingTold \in [Making!Commands -> SUBSET Numbers]
  BY <1>1, <1>2, NextNumber
<1>4. Tries \in Nat /\ Tries > 0
  BY DEF MakingInv, MakingNumbers, Making!SizesAreNat
<1>5. PICK j \in Making!Job : /\ makingJob' = [makingJob EXCEPT ![a] = j]
         /\ j.pc = "insert" /\ j.id = i /\ j.want = n /\ j.made = {} /\ j.tries = 0
  <2> DEFINE j == [Making!Idle EXCEPT !.pc = "insert", !.id = i, !.single = single, !.want = n]
  <2>1. Making!Idle \in Making!Job /\ Making!Idle.made = {} /\ Making!Idle.tries = 0
    BY <1>3, <1>4, IdleIsAJob DEF Making!Idle
  <2>2. i \in 0..MaxCommands
    BY <1>3 DEF Making!Commands
  <2>3. j \in Making!Job /\ j.pc = "insert" /\ j.id = i /\ j.want = n /\ j.made = {} /\ j.tries = 0
    BY <2>1, <2>2 DEF Making!Job, Making!Pcs
  <2> QED BY <1>1, <1>2, <2>3
<1>6. /\ makingJob \in [Admins -> Making!Job] /\ makingJob' \in [Admins -> Making!Job] /\ makingJob'[a] = j
      /\ \A b \in Admins \ {a} : makingJob'[b] = makingJob[b]
  BY <1>5, EveryJob
<1>7. \A k : Making!MadeBy(k)' = Making!MadeBy(k)
  BY <1>1 DEF Making!MadeBy
<1>8. Cardinality(j.made) = 0
  BY <1>5, FS_EmptySet
<1>9. JobTrue(j)'
  <2>1. Table(j)'
    BY <1>1, <1>3, <1>4, <1>5, <1>7, <1>8 DEF Table, Making!Unsaid
  <2> QED BY <1>1, <1>2, <1>3, <1>5, <2>1 DEF JobTrue
<1>10. \A b \in Admins : /\ Cardinality(makingJob'[b].made) <= makingJob'[b].want
                         /\ makingJob'[b] = makingJob[b] \/ (makingJob[b] = Making!Idle /\ makingJob'[b].id = i)
  <2> SUFFICES ASSUME NEW b \in Admins
               PROVE  /\ Cardinality(makingJob'[b].made) <= makingJob'[b].want
                      /\ makingJob'[b] = makingJob[b] \/ (makingJob[b] = Making!Idle /\ makingJob'[b].id = i)
    OBVIOUS
  <2>1. CASE b = a
    <3>1. makingJob'[b] = j /\ makingJob[b] = Making!Idle
      BY <1>1, <1>6, <2>1
    <3>2. Cardinality(j.made) <= j.want
      BY <1>5, <1>8
    <3> QED BY <1>5, <3>1, <3>2
  <2>2. CASE b # a
    BY <1>6, <2>2, EveryJob
  <2> QED BY <2>1, <2>2
<1>11. \A b, d \in Admins : makingJob'[b].id = i /\ makingJob'[d].id = i => b = d
  BY <1>3, <1>6
<1>12. \A b \in Admins : makingJob'[b].id = i => JobTrue(makingJob[b])'
  <2> SUFFICES ASSUME NEW b \in Admins, makingJob'[b].id = i PROVE JobTrue(makingJob[b])'
    OBVIOUS
  <2>1. makingJob'[b] = j
    BY <1>3, <1>6
  <2> QED BY <1>9, <2>1 DEF JobTrue, Table, Running, Making!MadeBy
<1>13. \E b \in Admins : Running(makingJob'[b]) /\ makingJob'[b].id = i
  BY <1>5, <1>6 DEF Running
<1>14. /\ makingRow' \in [Numbers -> 0..MaxCommands] /\ \A c \in Numbers : makingRow'[c] <= makingCommand + 1
       /\ makingTold' \in [Making!Commands -> SUBSET Numbers]
  <2>1. \A c \in Numbers : makingRow[c] \in 0..MaxCommands /\ makingRow[c] <= makingCommand
    BY <1>3
  <2> QED BY <1>1, <1>3, <2>1
<1>15. /\ makingTold'[i] \subseteq Making!MadeBy(i)'
       /\ \A k \in Making!Commands \ {i} : Making!MadeBy(k)' = Making!MadeBy(k) /\ makingTold'[k] = makingTold[k]
  BY <1>1, <1>3, <1>7
<1> QED BY <1>1, <1>2, <1>6, <1>10, <1>11, <1>12, <1>13, <1>14, <1>15, MakingNumbersStay, NewCommand

(* The API makes one code and answers with it.                             *)
LEMMA ApiCreateStep == ASSUME MakingInv, Making!ApiCreate PROVE MakingInv'
<1>1. PICK c \in Numbers : /\ makingRow[c] = 0 /\ makingRow' = [makingRow EXCEPT ![c] = makingCommand + 1]
                         /\ makingTold' = [makingTold EXCEPT ![makingCommand + 1] = {c}]
  BY DEF Making!ApiCreate
<1>2. /\ makingCommand < MaxCommands /\ makingCommand' = makingCommand + 1
      /\ UNCHANGED <<makingJob, makingCounted, makingExcused, makingFaults>>
  BY DEF Making!ApiCreate
<1>3. PICK i : i = makingCommand + 1
  OBVIOUS
<1>4. /\ makingCommand \in Nat /\ MaxCommands \in Nat /\ i \in 1..(makingCommand + 1) /\ i \in Making!Commands
      /\ \A b \in Admins : makingJob[b].id # i
      /\ makingRow \in [Numbers -> 0..MaxCommands] /\ \A d \in Numbers : makingRow[d] <= makingCommand /\ makingRow[d] # i
      /\ makingTold \in [Making!Commands -> SUBSET Numbers]
  BY <1>2, <1>3, NextNumber
<1>5. makingRow' \in [Numbers -> 0..MaxCommands] /\ makingRow'[c] = i /\ \A d \in Numbers \ {c} : makingRow'[d] = makingRow[d]
  <2>1. i \in 0..MaxCommands
    BY <1>4 DEF Making!Commands
  <2> QED BY <1>1, <1>3, <1>4, <2>1
<1>6. \A d \in Numbers : makingRow'[d] <= makingCommand + 1
  <2>1. \A d \in Numbers : makingRow[d] \in 0..MaxCommands
    BY <1>4
  <2> QED BY <1>3, <1>4, <1>5, <2>1
<1>7. /\ makingTold' \in [Making!Commands -> SUBSET Numbers] /\ makingTold'[i] = {c}
      /\ \A k \in Making!Commands \ {i} : makingTold'[k] = makingTold[k]
  BY <1>1, <1>3, <1>4
<1>8. Making!MadeBy(i)' = {c}
  BY <1>4, <1>5 DEF Making!MadeBy
<1>9. ASSUME NEW k \in Making!Commands \ {i} PROVE Making!MadeBy(k)' = Making!MadeBy(k)
  <2>1. k # 0
    BY DEF Making!Commands
  <2> QED BY <1>1, <1>5, <2>1 DEF Making!MadeBy
<1>10. makingJob' \in [Admins -> Making!Job] /\ \A b \in Admins : Cardinality(makingJob'[b].made) <= makingJob'[b].want
  BY <1>2, EveryJob
<1>11. \A b \in Admins : makingJob'[b] = makingJob[b] /\ makingJob'[b].id # i
  BY <1>2, <1>4
<1>12. /\ makingTold'[i] \subseteq Making!MadeBy(i)' /\ Making!MadeBy(i)' \subseteq makingTold'[i]
       /\ \A k \in Making!Commands \ {i} : Making!MadeBy(k)' = Making!MadeBy(k) /\ makingTold'[k] = makingTold[k]
  BY <1>7, <1>8, <1>9
<1>13. UNCHANGED <<makingCounted, makingExcused, makingFaults>>
  BY <1>2
<1> QED BY <1>2, <1>3, <1>5, <1>6, <1>7, <1>10, <1>11, <1>12, <1>13, MakingNumbersStay, NewCommand

(* A restart forgets the commands under way.                               *)
LEMMA RestartStep == ASSUME MakingInv, Making!Restart PROVE MakingInv'
<1>1. /\ makingJob' = [a \in Admins |-> Making!Idle]
      /\ makingExcused' = makingExcused \cup {makingJob[a].id : a \in {b \in Admins : makingJob[b] # Making!Idle}}
      /\ UNCHANGED <<makingRow, makingCommand, makingTold, makingCounted>>
  BY DEF Making!Restart, Making!answers
<1>2. makingFaults' \in 0..MaxFaults
  BY MakingFaultCounts DEF Making!Restart
<1>3. /\ makingRow \in [Numbers -> 0..MaxCommands] /\ makingCommand \in 0..MaxCommands /\ MaxCommands \in Nat
      /\ makingTold \in [Making!Commands -> SUBSET Numbers] /\ makingExcused \subseteq Making!Commands
      /\ makingCounted \in [Making!Commands -> 0..(Cardinality(Numbers) + 1)]
      /\ Tries \in Nat
  BY SameCount DEF MakingInv, Making!TypeOK, MakingNumbers, Making!BoundsAreNat, Making!SizesAreNat
<1>4. /\ Making!Idle \in Making!Job /\ Making!Idle.pc = "idle"
      /\ Cardinality(Making!Idle.made) <= Making!Idle.want
  BY <1>3, IdleIsAJob
<1>5. ASSUME NEW b \in Admins, makingJob[b] # Making!Idle PROVE makingJob[b].id \in Making!Commands /\ makingJob[b].id \in makingExcused'
  <2>1. makingJob[b].id \in 1..makingCommand
    BY <1>5 DEF MakingInv, JobTrue
  <2> QED BY <1>1, <1>3, <1>5, <2>1 DEF Making!Commands
<1>6. Making!TypeOK'
  <2>1. makingExcused' \subseteq Making!Commands
    BY <1>1, <1>3, <1>5
  <2> QED BY <1>1, <1>2, <1>3, <1>4, <2>1, SameCount DEF Making!TypeOK
<1>7. makingJob' \in [Admins -> Making!Job] /\ \A b \in Admins : makingJob'[b] = Making!Idle
  BY <1>1, <1>4
<1>8. IdsApart'
  BY <1>4, <1>7 DEF IdsApart
<1>9. ASSUME NEW b \in Admins PROVE JobTrue(makingJob[b])'
  <2>1. JobTrue(Making!Idle)'
    BY <1>4 DEF JobTrue, Running, Making!Idle
  <2> QED BY <1>4, <1>7 DEF JobTrue, Running, Making!Idle
<1>10. ASSUME NEW k \in Making!Commands PROVE ToldTrue(k)'
  <2>1. ToldTrue(k)
    BY DEF MakingInv
  <2>2. Making!MadeBy(k)' = Making!MadeBy(k) /\ Making!Unsaid' = Making!Unsaid /\ makingExcused \subseteq makingExcused'
    BY <1>1 DEF Making!MadeBy, Making!Unsaid
  <2>3. ASSUME NEW b \in Admins, Running(makingJob[b]), makingJob[b].id = k PROVE k \in makingExcused'
    <3>1. makingJob[b] # Making!Idle
      BY <2>3 DEF Running, Making!Idle
    <3> QED BY <1>5, <2>3, <3>1
  <2> QED BY <1>1, <2>1, <2>2, <2>3 DEF ToldTrue
<1> QED BY <1>1, <1>6, <1>7, <1>8, <1>9, <1>10, MakingNumbersStay DEF MakingInv

(* There is nothing to begin with.                                         *)
LEMMA MakingInit == ASSUME MakingNumbers, Making!Init PROVE MakingInv
<1>1. /\ Tries \in Nat /\ MaxCommands \in Nat /\ MaxFaults \in Nat /\ IsFiniteSet(Numbers)
  BY DEF MakingNumbers, Making!SizesAreNat, Making!BoundsAreNat
<1>2. /\ Making!Idle \in Making!Job /\ Making!Idle.pc = "idle" /\ Making!Idle.made = {}
      /\ Cardinality(Making!Idle.made) <= Making!Idle.want
  BY <1>1, IdleIsAJob DEF Making!Idle
<1>3. Cardinality(Numbers) \in Nat
  BY <1>1, FS_CardinalityType
<1>4. /\ makingRow = [c \in Numbers |-> 0] /\ makingJob = [a \in Admins |-> Making!Idle] /\ makingCommand = 0
      /\ makingTold = [k \in Making!Commands |-> {}] /\ makingCounted = [k \in Making!Commands |-> Making!Unsaid]
      /\ makingExcused = {} /\ makingFaults = 0
  BY DEF Making!Init
<1>5. Making!Unsaid = Cardinality(Numbers) + 1
  BY SameCount DEF Making!Unsaid
<1>6. Making!Unsaid \in 0..(Cardinality(Numbers) + 1)
  BY <1>3, <1>5
<1>7. makingCounted \in [Making!Commands -> 0..(Cardinality(Numbers) + 1)]
  BY <1>4, <1>6
<1>8. Making!TypeOK /\ makingJob \in [Admins -> Making!Job]
  <2>1. makingJob \in [Admins -> Making!Job] /\ \A a \in Admins : makingJob[a] = Making!Idle
    BY <1>2, <1>4
  <2>2. \A a \in Admins : makingJob[a] \in Making!Job /\ Making!Cardinality(makingJob[a].made) <= makingJob[a].want
    BY <1>2, <2>1, SameCount
  <2>3. makingCounted \in [Making!Commands -> 0..(Making!Cardinality(Numbers) + 1)]
    BY <1>7, SameCount
  <2>4. /\ makingRow \in [Numbers -> 0..MaxCommands] /\ makingCommand \in 0..MaxCommands
        /\ makingTold \in [Making!Commands -> SUBSET Numbers]
        /\ makingExcused \subseteq Making!Commands /\ makingFaults \in 0..MaxFaults
    BY <1>1, <1>4
  <2> QED BY <2>1, <2>2, <2>3, <2>4 DEF Making!TypeOK
<1>9. \A k \in Making!Commands : ToldTrue(k)
  BY <1>1, <1>4 DEF ToldTrue, Making!Commands
<1>10. IdsApart /\ \A a \in Admins : JobTrue(makingJob[a])
  BY <1>2, <1>4 DEF IdsApart, JobTrue, Running
<1>11. \A c \in Numbers : makingRow[c] <= makingCommand
  BY <1>4
<1> QED BY <1>8, <1>9, <1>10, <1>11 DEF MakingInv

(* Every step keeps the invariant.                                         *)
LEMMA MakingStep == ASSUME MakingInv, [Making!Next]_Making!vars PROVE MakingInv'
<1>1. CASE UNCHANGED Making!vars
  <2>1. UNCHANGED <<makingRow, makingJob, makingCommand, makingTold, makingCounted, makingExcused, makingFaults>>
    BY <1>1 DEF Making!vars
  <2>2. Making!TypeOK'
    BY <2>1 DEF MakingInv, Making!TypeOK
  <2>3. IdsApart' /\ \A a \in Admins : JobTrue(makingJob[a])'
    BY <2>1 DEF MakingInv, IdsApart, JobTrue, Running, Table, Making!MadeBy
  <2>4. \A k \in Making!Commands : ToldTrue(k)'
    BY <2>1 DEF MakingInv, ToldTrue, Running, Making!MadeBy
  <2> QED BY <2>1, <2>2, <2>3, <2>4, MakingNumbersStay DEF MakingInv
<1>2. CASE Making!ApiCreate
  BY <1>2, ApiCreateStep
<1>3. CASE Making!Restart
  BY <1>3, RestartStep
<1>4. ASSUME NEW a \in Admins, Making!createSingleCode(a) PROVE MakingInv'
  <2>1. 1 \in Nat \ {0} /\ TRUE \in BOOLEAN
    OBVIOUS
  <2> QED BY <1>4, <2>1, BeginStep DEF Making!createSingleCode
<1>5. ASSUME NEW a \in Admins, Making!createBatchCodes(a) PROVE MakingInv'
  <2>1. PICK n \in Sizes : Making!Begin(a, FALSE, n)
    BY <1>5 DEF Making!createBatchCodes
  <2>2. n \in Nat \ {0} /\ FALSE \in BOOLEAN
    BY DEF MakingInv, MakingNumbers, Making!SizesAreNat
  <2> QED BY <2>1, <2>2, BeginStep
<1>6. ASSUME NEW a \in Admins, Making!Deadline(a) PROVE MakingInv'
  BY <1>6, DeadlineStep
<1>7. ASSUME NEW a \in Admins, Making!Step(a) PROVE MakingInv'
  BY <1>7, CreateStep, TryAgainStep, CreateFailsStep, ToldStep, AnswerFailureStep, AnswerLostStep, CallbackStep
     DEF Making!Step
<1> QED BY <1>1, <1>2, <1>3, <1>4, <1>5, <1>6, <1>7 DEF Making!Next

(* The invariant says that the codes are told.                             *)
LEMMA MakingSays == ASSUME MakingInv PROVE Making!CodesAreTold
<1>1. Making!TypeOK /\ \A k \in Making!Commands : ToldTrue(k)
  BY DEF MakingInv
<1>2. Making!NoCodeTwice
  <2>1. \A k, m \in Making!Commands : k # m => Making!MadeBy(k) \cap Making!MadeBy(m) = {}
    BY DEF Making!MadeBy
  <2> QED BY <1>1, <2>1 DEF Making!NoCodeTwice, ToldTrue
<1>3. Making!NoneHidden
  <2> SUFFICES ASSUME NEW k \in Making!Commands, Making!Done(k), k \notin makingExcused,
                      Making!Cardinality(Making!MadeBy(k)) <= Fits
               PROVE  Making!MadeBy(k) \subseteq makingTold[k]
    BY DEF Making!NoneHidden
  <2>1. k <= makingCommand /\ \A a \in Admins : makingJob[a].id # k
    BY DEF Making!Done
  <2>2. makingCommand \in Nat /\ k \in Nat /\ Fits \in Nat
    BY DEF MakingInv, Making!TypeOK, Making!Commands, MakingNumbers, Making!SizesAreNat
  <2>3. Cardinality(Making!MadeBy(k)) \in Nat /\ Cardinality(Making!MadeBy(k)) <= Fits
    <3>1. IsFiniteSet(Numbers)
      BY DEF MakingInv, MakingNumbers
    <3> QED BY <3>1, MadeFinite, MadeAre, SameCount
  <2> QED BY <1>1, <2>1, <2>2, <2>3 DEF ToldTrue
<1>4. Making!CountIsWithinOne
  BY <1>1, SameCount DEF Making!CountIsWithinOne, ToldTrue
<1> QED BY <1>1, <1>2, <1>3, <1>4 DEF Making!CodesAreTold

(* No code is ever handed out twice, a command that ran to its end told    *)
(* every code it made, and the number a failed batch reports is at most    *)
(* one short: for every number of codes, admins, tries and sizes, however  *)
(* the goroutines, deadlines, lost answers and restarts interleave.        *)
THEOREM CodesToldOnce == Making!Spec => []CodesAreTold
<1>1. Making!Init => MakingInv
  BY MakingInit, PartsAssume DEF MakingNumbers
<1>2. MakingInv /\ [Making!Next]_Making!vars => MakingInv'
  BY MakingStep
<1>3. MakingInv => CodesAreTold
  BY MakingSays DEF CodesAreTold
<1> QED BY <1>1, <1>2, <1>3, PTL DEF Making!Spec

================================================================================
