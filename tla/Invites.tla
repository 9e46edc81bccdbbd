-------------------------------- MODULE Invites --------------------------------
(***************************************************************************)
(* Invite codes and access grants: a user types a code, the dispatcher     *)
(* looks for an active grant and activates the code in one transaction     *)
(* that locks the code, and the bonus follows in a transaction of its own. *)
(* Admins make and revoke codes and revoke grants meanwhile.               *)
(*                                                                         *)
(* Abstractions.  The money of a user is a small number, one charge a unit *)
(* and the bonus Bonus of them; a grant lasts GrantTime, in the days of    *)
(* `now'.  The codes are those an admin has made or may make.  The         *)
(* connection the dispatcher sets up afterwards is AccessControl's.        *)
(***************************************************************************)
EXTENDS Integers, FiniteSets

CONSTANTS
    Users,
    Codes,
    Handlers,   \* updates that may be in the dispatcher
    None,
    MaxUses,    \* max_activations of each code
    Bonus,
    GrantTime,  \* 30 days
    MaxTime,    \* bound: days
    MaxDebt,    \* bound: how far a balance falls
    MaxGrants,  \* bound: grants of a user
    MaxFaults   \* bound: failing transactions and restarts

ASSUME NoneIsNoUser   == None \notin Users \cup Codes
ASSUME UsesArePositive == MaxUses \in [Codes -> Nat \ {0}]
ASSUME NumbersAreNat  == {Bonus, GrantTime, MaxTime, MaxDebt, MaxGrants, MaxFaults} \subseteq Nat

VARIABLES
    now,
    status,      \* invite_codes.status, or "none"
    uses,        \* invite_codes.current_activations
    ends,        \* invite_codes.expires_at, or Never
    activation,  \* invite_code_activations
    grants,      \* access_grants of each user
    balance,
    paid,        \* history: bonuses and repairs of each user
    flow,        \* the handler of each update
    credited,    \* history: [code, user] for which a bonus came
    faults       \* history: faults so far

vars == <<now, status, uses, ends, activation, grants, balance, paid, flow,
          credited, faults>>

Never == -1
Days  == 0..MaxTime
Pair  == [code: Codes, user: Users]
Grant == [code: Codes, status: {"active", "revoked"}, expires: Nat]
Flow  == [pc: {"idle", "lookup", "locked", "commit", "bonus", "check"},
          user: Users \cup {None}, code: Codes \cup {None}]
Idle  == [pc |-> "idle", user |-> None, code |-> None]

TypeOK ==
    /\ now \in Days
    /\ status \in [Codes -> {"none", "active", "exhausted", "revoked"}]
    /\ \A c \in Codes : uses[c] \in 0..MaxUses[c]
    /\ ends \in [Codes -> Days \cup {Never}]
    /\ activation \subseteq Pair
    /\ \A u \in Users : grants[u] \subseteq Grant
    /\ balance \in [Users -> Int]
    /\ paid \in [Users -> Nat]
    /\ flow \in [Handlers -> Flow]
    /\ credited \subseteq Pair
    /\ faults \in 0..MaxFaults

Init ==
    /\ now = 0
    /\ status = [c \in Codes |-> "none"]
    /\ uses = [c \in Codes |-> 0]
    /\ ends = [c \in Codes |-> Never]
    /\ activation = {}
    /\ grants = [u \in Users |-> {}]
    /\ balance = [u \in Users |-> 0]
    /\ paid = [u \in Users |-> 0]
    /\ flow = [h \in Handlers |-> Idle]
    /\ credited = {}
    /\ faults = 0

codes == <<status, uses, ends, activation>>
money == <<balance, paid, credited>>

Becomes(h, f) == flow' = [flow EXCEPT ![h] = f]
Pc(h, pc)     == Becomes(h, [flow[h] EXCEPT !.pc = pc])
--------------------------------------------------------------------------------
(***************************************************************************)
(* A typed code.                                                           *)
(***************************************************************************)
Active(u) == {g \in grants[u] : g.status = "active"}

(* Mutant: the updates of a user are not kept apart. *)
NotProcessingAlways(u) == TRUE

(* tryLockUser *)
NotProcessing(u) == \A h \in Handlers : flow[h].user # u

(* A user whose newest grant is active gets a connection and no more.      *)
(* Grants are only made when none is active, so the newest is the active   *)
(* one if there is one.                                                    *)
handleInviteCode(h, u, c) ==
    /\ flow[h] = Idle /\ NotProcessing(u)
    /\ Active(u) = {} /\ Cardinality(grants[u]) < MaxGrants
    /\ Becomes(h, [pc |-> "lookup", user |-> u, code |-> c])
    /\ UNCHANGED <<now, codes, grants, money, faults>>

Free(c) == \A h \in Handlers : ~(flow[h].code = c /\ flow[h].pc \in {"locked", "commit"})

GetByCodeForUpdate(h) ==
    /\ flow[h].pc = "lookup"
    /\ IF status[flow[h].code] = "none"
       THEN Becomes(h, Idle)
       ELSE Free(flow[h].code) /\ Pc(h, "locked")
    /\ UNCHANGED <<now, codes, grants, money, faults>>

HasActivationByUser(c, u) == [code |-> c, user |-> u] \in activation

Usable(c, u) ==
    /\ status[c] = "active"
    /\ ends[c] = Never \/ ends[c] >= now
    /\ uses[c] < MaxUses[c]
    /\ ~HasActivationByUser(c, u)

(* No active grant, and a code that can be used by this user. *)
Check(h) ==
    /\ flow[h].pc = "locked"
    /\ IF Active(flow[h].user) = {} /\ Usable(flow[h].code, flow[h].user)
       THEN Pc(h, "commit")
       ELSE Becomes(h, Idle)
    /\ UNCHANGED <<now, codes, grants, money, faults>>

MaybeExhaust(c) == IF uses[c] + 1 >= MaxUses[c] THEN "exhausted" ELSE status[c]

NewGrant(c) == [code |-> c, status |-> "active", expires |-> now + GrantTime]

CreateActivation(c, u) == activation' = activation \cup {[code |-> c, user |-> u]}

(* The activation, the grant and the use of the code are committed, and the*)
(* bonus follows. *)
Activate(h, pc) ==
    LET c == flow[h].code
        u == flow[h].user
    IN  /\ flow[h].pc = "commit"
        /\ CreateActivation(c, u)
        /\ grants' = [grants EXCEPT ![u] = @ \cup {NewGrant(c)}]
        /\ uses' = [uses EXCEPT ![c] = @ + 1]
        /\ status' = [status EXCEPT ![c] = MaybeExhaust(c)]
        /\ Pc(h, pc)
        /\ UNCHANGED <<now, ends, money, faults>>

Execute(h) == Activate(h, "bonus")

Credit(u, c) ==
    /\ balance' = [balance EXCEPT ![u] = @ + Bonus]
    /\ paid' = [paid EXCEPT ![u] = @ + 1]
    /\ credited' = credited \cup {[code |-> c, user |-> u]}

ApplyInviteBonus(h) ==
    /\ flow[h].pc = "bonus"
    /\ Credit(flow[h].user, flow[h].code)
    /\ Pc(h, "check")
    /\ UNCHANGED <<now, codes, grants, faults>>

NeedsRepair(u) == balance[u] <= 0

(* The dispatcher's repair of a bonus that did not come. *)
Repair(h) ==
    LET c == flow[h].code
        u == flow[h].user
    IN  /\ flow[h].pc = "check"
        /\ IF NeedsRepair(u)
           THEN Credit(u, c)
           ELSE UNCHANGED money
        /\ Becomes(h, Idle)
        /\ UNCHANGED <<now, codes, grants, faults>>
--------------------------------------------------------------------------------
(***************************************************************************)
(* Failures.                                                               *)
(***************************************************************************)
Fault == faults < MaxFaults /\ faults' = faults + 1

(* A statement of the activation fails: the transaction is undone. *)
ActivationFails(h) ==
    /\ flow[h].pc \in {"lookup", "locked", "commit"}
    /\ Becomes(h, Idle)
    /\ Fault
    /\ UNCHANGED <<now, codes, grants, money>>

(* The error of the bonus is logged. *)
BonusFails(h) ==
    /\ flow[h].pc = "bonus"
    /\ Pc(h, "check")
    /\ Fault
    /\ UNCHANGED <<now, codes, grants, money>>

RepairFails(h) ==
    /\ flow[h].pc = "check" /\ NeedsRepair(flow[h].user)
    /\ Becomes(h, Idle)
    /\ Fault
    /\ UNCHANGED <<now, codes, grants, money>>

Restart ==
    /\ \E h \in Handlers : flow[h] # Idle
    /\ flow' = [h \in Handlers |-> Idle]
    /\ Fault
    /\ UNCHANGED <<now, codes, grants, money>>
--------------------------------------------------------------------------------
(***************************************************************************)
(* Admins, time and charges.                                               *)
(***************************************************************************)
Create(c) ==
    /\ status[c] = "none"
    /\ status' = [status EXCEPT ![c] = "active"]
    /\ \E t \in {Never, now} : ends' = [ends EXCEPT ![c] = t]
    /\ UNCHANGED <<now, uses, activation, grants, money, flow, faults>>

(* The update waits for the lock of the row. *)
RevokeByID(c) ==
    /\ status[c] \notin {"none", "revoked"} /\ Free(c)
    /\ status' = [status EXCEPT ![c] = "revoked"]
    /\ UNCHANGED <<now, uses, ends, activation, grants, money, flow, faults>>

(* adminRevokeUser: the sender is locked, not the user. *)
RevokeActiveByUserID(u) ==
    /\ Active(u) # {}
    /\ grants' = [grants EXCEPT ![u] = {[g EXCEPT !.status = "revoked"] : g \in @}]
    /\ UNCHANGED <<now, codes, money, flow, faults>>

(* The daily charge and an admin's adjustments. *)
Spend(u) ==
    /\ balance[u] > -MaxDebt
    /\ balance' = [balance EXCEPT ![u] = @ - 1]
    /\ UNCHANGED <<now, codes, grants, paid, credited, flow, faults>>

NewDay ==
    /\ now < MaxTime
    /\ now' = now + 1
    /\ UNCHANGED <<codes, grants, money, flow, faults>>
--------------------------------------------------------------------------------
Step(h) ==
    \/ GetByCodeForUpdate(h) \/ Check(h) \/ Execute(h)
    \/ ApplyInviteBonus(h) \/ Repair(h)

Next ==
    \/ \E h \in Handlers :
          \/ \E u \in Users, c \in Codes : handleInviteCode(h, u, c)
          \/ Step(h)
          \/ ActivationFails(h) \/ BonusFails(h) \/ RepairFails(h)
    \/ \E c \in Codes : Create(c) \/ RevokeByID(c)
    \/ \E u \in Users : RevokeActiveByUserID(u) \/ Spend(u)
    \/ NewDay
    \/ Restart

Spec == Init /\ [][Next]_vars
--------------------------------------------------------------------------------
(***************************************************************************)
(* A code is used by as many users as its count says and by no more than it*)
(* allows, also when several type it at one moment, and it is exhausted    *)
(* with the last use.                                                      *)
(***************************************************************************)
UsesCounted ==
    \A c \in Codes :
        /\ uses[c] = Cardinality({a \in activation : a.code = c})
        /\ uses[c] <= MaxUses[c]
        /\ status[c] = "active" => uses[c] < MaxUses[c]

(***************************************************************************)
(* A user has at most one active grant.  The transaction locks the code and*)
(* not the user, so two codes at one moment are kept apart only by the     *)
(* dispatcher's lock of the sender.                                        *)
(***************************************************************************)
OneActiveGrant == \A u \in Users : Cardinality(Active(u)) <= 1

(***************************************************************************)
(* A revoked code stays revoked and is not used any more, not even by an   *)
(* activation that had begun.                                              *)
(***************************************************************************)
RevokedIsFinal ==
    [][\A c \in Codes : status[c] = "revoked" => status'[c] = "revoked" /\ uses'[c] = uses[c]]_vars

(***************************************************************************)
(* Without a fault every activation brings its bonus, also when an admin   *)
(* revokes the grant or the code, or changes the balance, before it does.  *)
(***************************************************************************)
Open(a) == \E h \in Handlers : flow[h].code = a.code /\ flow[h].user = a.user

BonusComes == faults = 0 => \A a \in activation : a \in credited \/ Open(a)

(* An activation is worth one bonus.                                       *)
OneBonusPerActivation ==
    \A u \in Users : paid[u] <= Cardinality({a \in activation : a.user = u})

(* Uses, grants and bonuses of all activations add up, whoever activates   *)
(* what at one moment.                                                     *)
ActivationsCounted ==
    /\ [](TypeOK /\ UsesCounted /\ OneActiveGrant /\ BonusComes)
    /\ RevokedIsFinal

================================================================================
