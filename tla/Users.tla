--------------------------------- MODULE Users ---------------------------------
(***************************************************************************)
(* The rows of users.  Every update first looks its sender up and makes a  *)
(* row when there is none, in two statements.  The row keeps the name the  *)
(* account had then; an account of Telegram may drop its name at any time, *)
(* and another may take it.  Admins name a user by its name or its number  *)
(* and change what they find.                                              *)
(*                                                                         *)
(* Updates are handled by goroutines, in any order; the lock of the sender,*)
(* in memory, lets one of them in and turns the others away.               *)
(*                                                                         *)
(* Abstractions.  Names are compared without case, as the query does.  The *)
(* kinds of admin commands are one: all of them find a user and then act   *)
(* on the row that was found; what they do to it is in Billing, Invites    *)
(* and AccessControl.                                                      *)
(***************************************************************************)
EXTENDS Naturals, FiniteSets

CONSTANTS
    Accounts,   \* accounts of Telegram, their ids
    Names,      \* user names
    NoName,     \* the account has none
    NoRow,
    Handlers,   \* goroutines
    MaxRenames, \* bound: changes of names
    MaxHits,    \* bound: commands that met someone
    MaxFaults   \* bound: failing statements and restarts

NoNameIsNoName == NoName \notin Names /\ NoRow \notin Names \cup {NoName}
BoundsAreNat   == {MaxRenames, MaxHits, MaxFaults} \subseteq Nat

VARIABLES
    name,     \* what Telegram says
    rows,     \* users.username, by telegram_id
    task,     \* what each goroutine is at
    locked,   \* processingUsers
    admin,    \* the command of an admin
    hits,     \* history: whom commands meant and whom they met
    givenUp,  \* history: names accounts have given up
    renames,  \* history
    faults    \* history

vars == <<name, rows, task, locked, admin, hits, givenUp, renames, faults>>

AnyName == Names \cup {NoName}
Task    == [pc: {"idle", "new", "look", "create", "serve"}, who: Accounts, name: AnyName]
Command == [pc: {"idle", "sent", "found"}, by: {"name", "id"}, mind: Accounts,
            token: AnyName, met: Accounts]
Hit     == [by: {"name", "id"}, mind: Accounts, token: AnyName, met: Accounts]

(* Every variable has its type. *)
TypeOK ==
    /\ name \in [Accounts -> AnyName]
    /\ rows \in [Accounts -> AnyName \cup {NoRow}]
    /\ task \in [Handlers -> Task]
    /\ locked \subseteq Accounts
    /\ admin \in Command
    /\ hits \subseteq Hit
    /\ givenUp \subseteq Accounts \X Names
    /\ renames \in 0..MaxRenames /\ faults \in 0..MaxFaults

Rest(a) == [pc |-> "idle", who |-> a, name |-> NoName]

Init ==
    /\ name \in [Accounts -> AnyName]
    /\ \A a, b \in Accounts : name[a] = name[b] /\ a # b => name[a] = NoName
    /\ rows = [a \in Accounts |-> NoRow]
    /\ \E a \in Accounts :
           /\ task = [h \in Handlers |-> Rest(a)]
           /\ admin = [pc |-> "idle", by |-> "id", mind |-> a, token |-> NoName, met |-> a]
    /\ locked = {} /\ hits = {} /\ givenUp = {}
    /\ renames = 0 /\ faults = 0

Fault == faults < MaxFaults /\ faults' = faults + 1
--------------------------------------------------------------------------------
(***************************************************************************)
(* Telegram: no two accounts have the same name at one time.               *)
(***************************************************************************)
Rename(a) ==
    /\ renames < MaxRenames /\ renames' = renames + 1
    /\ \E n \in AnyName :
           /\ n # name[a] /\ (n = NoName \/ \A b \in Accounts : name[b] # n)
           /\ name' = [name EXCEPT ![a] = n]
    /\ givenUp' = givenUp \cup ({<<a, name[a]>>} \cap (Accounts \X Names))
    /\ UNCHANGED <<rows, task, locked, admin, hits, faults>>

(* An update carries the name its sender has when it is sent. *)
Receive(h, a) ==
    /\ task[h].pc = "idle"
    /\ task' = [task EXCEPT ![h] = [pc |-> "new", who |-> a, name |-> name[a]]]
    /\ UNCHANGED <<name, rows, locked, admin, hits, givenUp, renames, faults>>
--------------------------------------------------------------------------------
(***************************************************************************)
(* Registration.                                                           *)
(***************************************************************************)
To(h, pc)  == task' = [task EXCEPT ![h].pc = pc]
End(h)     == task' = [task EXCEPT ![h] = Rest(@.who)]
Unlock(h)  == locked' = locked \ {task[h].who}

(* Mutant: the lock is not asked. *)
TryLockUserAlways(h) ==
    /\ task[h].pc = "new"
    /\ locked' = locked \cup {task[h].who} /\ To(h, "look")
    /\ UNCHANGED <<name, rows, admin, hits, givenUp, renames, faults>>

TryLockUser(h) ==
    /\ task[h].pc = "new"
    /\ IF task[h].who \in locked
       THEN End(h) /\ UNCHANGED locked
       ELSE locked' = locked \cup {task[h].who} /\ To(h, "look")
    /\ UNCHANGED <<name, rows, admin, hits, givenUp, renames, faults>>

GetByTelegramID(h) ==
    /\ task[h].pc = "look"
    /\ To(h, IF rows[task[h].who] = NoRow THEN "create" ELSE "serve")
    /\ UNCHANGED <<name, rows, locked, admin, hits, givenUp, renames, faults>>

(* A second row of an account is refused by the table, and its update is    *)
(* answered with an error. *)
Create(h) ==
    /\ task[h].pc = "create"
    /\ IF rows[task[h].who] = NoRow
       THEN /\ rows' = [rows EXCEPT ![task[h].who] = task[h].name]
            /\ To(h, "serve") /\ UNCHANGED locked
       ELSE End(h) /\ Unlock(h) /\ UNCHANGED rows
    /\ UNCHANGED <<name, admin, hits, givenUp, renames, faults>>

(* The rest of the handler, in the other modules. *)
Serve(h) ==
    /\ task[h].pc = "serve"
    /\ End(h) /\ Unlock(h)
    /\ UNCHANGED <<name, rows, admin, hits, givenUp, renames, faults>>

(* A statement fails, or takes effect and only its answer is lost. *)
StatementFails(h) ==
    /\ task[h].pc \in {"look", "create"} /\ Fault
    /\ End(h) /\ Unlock(h)
    /\ \/ UNCHANGED rows
       \/ /\ task[h].pc = "create" /\ rows[task[h].who] = NoRow
          /\ rows' = [rows EXCEPT ![task[h].who] = task[h].name]
    /\ UNCHANGED <<name, admin, hits, givenUp, renames>>

Restart ==
    /\ Fault
    /\ task' = [h \in Handlers |-> Rest(task[h].who)]
    /\ admin' = [admin EXCEPT !.pc = "idle"]
    /\ locked' = {}
    /\ UNCHANGED <<name, rows, hits, givenUp, renames>>
--------------------------------------------------------------------------------
(***************************************************************************)
(* Admins.  They mean the account that has the name, or the number.        *)
(***************************************************************************)
Ask(a) ==
    /\ admin.pc = "idle" /\ Cardinality(hits) < MaxHits
    /\ \E by \in {"name", "id"} :
           /\ by = "name" => name[a] # NoName
           /\ admin' = [pc |-> "sent", by |-> by, mind |-> a, token |-> name[a], met |-> a]
    /\ UNCHANGED <<name, rows, task, locked, hits, givenUp, renames, faults>>

(* Of several rows with the name the query returns any one. *)
Found ==
    IF admin.by = "id" THEN {a \in Accounts : a = admin.mind /\ rows[a] # NoRow}
    ELSE {a \in Accounts : rows[a] = admin.token}

FindUser ==
    /\ admin.pc = "sent"
    /\ \/ Found = {} /\ admin' = [admin EXCEPT !.pc = "idle"]
       \/ \E a \in Found : admin' = [admin EXCEPT !.pc = "found", !.met = a]
    /\ UNCHANGED <<name, rows, task, locked, hits, givenUp, renames, faults>>

Act ==
    /\ admin.pc = "found"
    /\ hits' = hits \cup {[by |-> admin.by, mind |-> admin.mind,
                           token |-> admin.token, met |-> admin.met]}
    /\ admin' = [admin EXCEPT !.pc = "idle"]
    /\ UNCHANGED <<name, rows, task, locked, givenUp, renames, faults>>
--------------------------------------------------------------------------------
Handle(h) == TryLockUser(h) \/ GetByTelegramID(h) \/ Create(h) \/ Serve(h)

Next ==
    \/ \E a \in Accounts : Rename(a) \/ Ask(a) \/ \E h \in Handlers : Receive(h, a)
    \/ \E h \in Handlers : Handle(h) \/ StatementFails(h)
    \/ FindUser \/ Act \/ Restart

Spec == Init /\ [][Next]_vars
--------------------------------------------------------------------------------
(***************************************************************************)
(* Properties.                                                             *)
(***************************************************************************)

(* Two updates of a new account never both find it unregistered: an insert *)
(* never meets the row of another, whatever fails or restarts in between.  *)
InsertsMeetNoRow ==
    \A h \in Handlers : task[h].pc = "create" => rows[task[h].who] = NoRow

(* An admin's command meets another account than the one that was meant    *)
(* only by name, and only after one of the two gave the name up.  By number*)
(* it always meets the one that was meant.                                 *)
MissesOnlyFormerHolders ==
    \A hit \in hits : hit.met # hit.mind =>
        hit.by = "name" /\ \E a \in {hit.met, hit.mind} : <<a, hit.token>> \in givenUp

(* Updates and commands meet the rows they mean.                           *)
UsersAreMet ==
    TypeOK /\ InsertsMeetNoRow /\ MissesOnlyFormerHolders

================================================================================
