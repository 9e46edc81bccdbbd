-------------------------------- MODULE Billing --------------------------------
(***************************************************************************)
(* The money of the users: payments, bonuses, adjustments and set balances *)
(* of the API and the bot, and the worker that takes the charge of a day.  *)
(* Each is a transaction that locks the row of the user, changes the       *)
(* balance, writes a row of user_ledger with the balance after it, and     *)
(* blocks or unblocks the user.  The worker first reads whom to charge and *)
(* for how many devices, then charges one after the other; an error ends   *)
(* its pass.                                                               *)
(*                                                                         *)
(* Abstractions.  Amounts are in charges of one device.  A user's devices  *)
(* are counted (AccessControl has their accesses).  A transaction's        *)
(* CURRENT_DATE is the day it began; the worker's own clock is `day'.      *)
(***************************************************************************)
EXTENDS Integers, Sequences, FiniteSets

CONSTANTS
    Users,
    NoUser,
    Clients,    \* requests of the API and the bot that may run side by side
    Worker,     \* the DailyChargeWorker
    Amounts,    \* payments, bonuses (positive) and adjustments
    Targets,    \* balances an admin sets
    MaxDevices, \* bound: billable devices of a user
    MaxDay,     \* bound: days
    MaxRows,    \* bound: rows at which a user's ledger gets no more requests
    MaxFaults   \* bound: failing transactions and restarts

ASSUME WorkerIsNoClient == Worker \notin Clients /\ NoUser \notin Users
ASSUME AmountsAreInt    == Amounts \subseteq Int /\ Targets \subseteq Int
ASSUME BoundsAreNat     == {MaxDevices, MaxDay, MaxRows, MaxFaults} \subseteq Nat

VARIABLES
    day,
    devices,   \* active devices with an active or suspended access
    balance,   \* users.balance_kopecks
    last,      \* users.last_charge_at
    blocked,   \* users.status is blocked_for_nonpayment
    ledger,    \* user_ledger, oldest first
    tx,        \* the transaction of each request and of the worker
    pass,      \* the worker's rows: whom it still has to charge, and for what
    passing,   \* the worker is in a pass
    faults     \* history: faults so far

vars == <<day, devices, balance, last, blocked, ledger, tx, pass, passing, faults>>

Never == -1
Procs == Clients \cup {Worker}
Row   == [op: {"credit", "set", "daily_charge"}, amount: Int, after: Int, date: 0..MaxDay]
Tx    == [pc: {"idle", "begun", "locked"}, op: {"credit", "set", "daily_charge"},
          user: Users \cup {NoUser}, arg: Int, date: 0..MaxDay, current: Int]
NoTx  == [pc |-> "idle", op |-> "credit", user |-> NoUser, arg |-> 0, date |-> 0, current |-> 0]

TypeOK ==
    /\ day \in 0..MaxDay
    /\ devices \in [Users -> 0..MaxDevices]
    /\ balance \in [Users -> Int]
    /\ last \in [Users -> 0..MaxDay \cup {Never}]
    /\ blocked \in [Users -> BOOLEAN]
    /\ ledger \in [Users -> Seq(Row)]
    /\ tx \in [Procs -> Tx]
    /\ pass \in [Users -> 0..MaxDevices]
    /\ passing \in BOOLEAN
    /\ faults \in 0..MaxFaults

Init ==
    /\ day = 0
    /\ devices = [u \in Users |-> 0]
    /\ balance = [u \in Users |-> 0]
    /\ last = [u \in Users |-> Never]
    /\ blocked = [u \in Users |-> FALSE]
    /\ ledger = [u \in Users |-> <<>>]
    /\ tx = [p \in Procs |-> NoTx]
    /\ pass = [u \in Users |-> 0]
    /\ passing = FALSE
    /\ faults = 0

money == <<balance, last, blocked, ledger>>
work  == <<pass, passing>>
--------------------------------------------------------------------------------
(***************************************************************************)
(* Transactions.                                                           *)
(***************************************************************************)
Begin(p, op, u, arg) ==
    /\ tx[p].pc = "idle"
    /\ tx' = [tx EXCEPT ![p] = [pc |-> "begun", op |-> op, user |-> u, arg |-> arg,
                                date |-> day, current |-> 0]]

(* Mutant: the row is read without FOR UPDATE. *)
FreeAlways(u) == TRUE

(* SELECT ... FOR UPDATE waits while another transaction holds the row. *)
Free(u) == \A p \in Procs : ~(tx[p].pc = "locked" /\ tx[p].user = u)

Lock(p) ==
    /\ tx[p].pc = "begun" /\ Free(tx[p].user)
    /\ tx' = [tx EXCEPT ![p].pc = "locked", ![p].current = balance[tx[p].user]]
    /\ UNCHANGED <<day, devices, money, work, faults>>

After(t) == CASE t.op = "set"          -> t.arg
              [] t.op = "credit"       -> t.current + t.arg
              [] t.op = "daily_charge" -> t.current - t.arg

Amount(t) == CASE t.op = "set"          -> t.arg - t.current
               [] t.op = "credit"       -> t.arg
               [] t.op = "daily_charge" -> -t.arg

MustBlock(b) == b <= 0

LastAfter(t) == IF t.op = "daily_charge" THEN [last EXCEPT ![t.user] = t.date] ELSE last

(* The worker's recheck with the date of its own clock. *)
Charged(t) == t.op = "daily_charge" /\ last[t.user] >= day

Commit(p) ==
    LET t == tx[p] IN
    /\ t.pc = "locked"
    /\ IF Charged(t)
       THEN UNCHANGED money
       ELSE /\ balance' = [balance EXCEPT ![t.user] = After(t)]
            /\ blocked' = [blocked EXCEPT ![t.user] = MustBlock(After(t))]
            /\ last' = LastAfter(t)
            /\ ledger' = [ledger EXCEPT ![t.user] =
                   Append(@, [op |-> t.op, amount |-> Amount(t), after |-> After(t), date |-> t.date])]
    /\ tx' = [tx EXCEPT ![p] = NoTx]
    /\ UNCHANGED <<day, devices, work, faults>>
--------------------------------------------------------------------------------
(***************************************************************************)
(* Requests.  /users/{id}/payment and /manual-adjustment, the bonus of an  *)
(* invite and the balance commands of an admin.                            *)
(***************************************************************************)
addLedgerEntry(p, u, amount) ==
    /\ Begin(p, "credit", u, amount)
    /\ UNCHANGED <<day, devices, money, work, faults>>

SetBalance(p, u, target) ==
    /\ Begin(p, "set", u, target)
    /\ UNCHANGED <<day, devices, money, work, faults>>
--------------------------------------------------------------------------------
(***************************************************************************)
(* The worker.                                                             *)
(***************************************************************************)
(* Mutant: users who were charged before are not chosen again. *)
DueOnce(u) == devices[u] > 0 /\ last[u] = Never

Due(u) == devices[u] > 0 /\ last[u] < day

(* charge: one query for whom to charge. *)
StartPass ==
    /\ ~passing
    /\ \E u \in Users : Due(u)
    /\ passing' = TRUE
    /\ pass' = [u \in Users |-> IF Due(u) THEN devices[u] ELSE 0]
    /\ UNCHANGED <<day, devices, money, tx, faults>>

chargeUser(u) ==
    /\ passing /\ pass[u] > 0
    /\ Begin(Worker, "daily_charge", u, pass[u])
    /\ pass' = [pass EXCEPT ![u] = 0]
    /\ UNCHANGED <<day, devices, money, passing, faults>>

EndPass ==
    /\ passing /\ tx[Worker] = NoTx /\ \A u \in Users : pass[u] = 0
    /\ passing' = FALSE
    /\ UNCHANGED <<day, devices, money, tx, pass, faults>>
--------------------------------------------------------------------------------
(***************************************************************************)
(* The environment.                                                        *)
(***************************************************************************)
NewDay ==
    /\ day < MaxDay
    /\ day' = day + 1
    /\ UNCHANGED <<devices, money, tx, work, faults>>

ChangeDevices(u) ==
    /\ \E n \in 0..MaxDevices : n # devices[u] /\ devices' = [devices EXCEPT ![u] = n]
    /\ UNCHANGED <<day, money, tx, work, faults>>

Fault == faults < MaxFaults /\ faults' = faults + 1

(* A statement or the commit fails: all of the transaction is undone.  In  *)
(* the worker the error ends the pass.                                     *)
TxFails(p) ==
    /\ tx[p].pc # "idle"
    /\ Fault
    /\ tx' = [tx EXCEPT ![p] = NoTx]
    /\ IF p = Worker
       THEN passing' = FALSE /\ pass' = [u \in Users |-> 0]
       ELSE UNCHANGED work
    /\ UNCHANGED <<day, devices, money>>

(* The process ends: all that was open is undone. *)
Restart ==
    /\ passing \/ \E p \in Procs : tx[p] # NoTx
    /\ Fault
    /\ tx' = [p \in Procs |-> NoTx]
    /\ passing' = FALSE
    /\ pass' = [u \in Users |-> 0]
    /\ UNCHANGED <<day, devices, money>>
--------------------------------------------------------------------------------
Requests ==
    \E p \in Clients, u \in Users :
        /\ Len(ledger[u]) + Cardinality({q \in Procs : tx[q].user = u}) < MaxRows
        /\ \/ \E a \in Amounts : addLedgerEntry(p, u, a)
           \/ \E b \in Targets : SetBalance(p, u, b)

WorkerStep == StartPass \/ (\E u \in Users : chargeUser(u)) \/ EndPass

TxStep(p) == Lock(p) \/ Commit(p)

Next ==
    \/ Requests
    \/ WorkerStep
    \/ \E p \in Procs : TxStep(p) \/ TxFails(p)
    \/ NewDay
    \/ \E u \in Users : ChangeDevices(u)
    \/ Restart

Spec == Init /\ [][Next]_vars

(* Fairness: the worker's ticker and the database go on. *)
Fairness ==
    /\ WF_vars(StartPass) /\ WF_vars(EndPass)
    /\ \A u \in Users : SF_vars(chargeUser(u))
    /\ \A p \in Procs : SF_vars(Lock(p)) /\ WF_vars(Commit(p))

FairSpec == Spec /\ Fairness
--------------------------------------------------------------------------------
Newest(u) == ledger[u][Len(ledger[u])].after

(***************************************************************************)
(* The ledger explains the balance: each row starts from the balance of the*)
(* row before it, and the newest is what the user has.  The row lock keeps *)
(* a payment and a charge at the same moment from losing one of the two.   *)
(***************************************************************************)
LedgerExplainsBalance ==
    \A u \in Users :
        /\ balance[u] = IF ledger[u] = <<>> THEN 0 ELSE Newest(u)
        /\ \A i \in DOMAIN ledger[u] :
              ledger[u][i].after = ledger[u][i].amount
                  + (IF i = 1 THEN 0 ELSE ledger[u][i - 1].after)

(***************************************************************************)
(* No user is charged twice for a day, whatever passes fail, restart or    *)
(* run over midnight, and the days of the charges only grow.               *)
(***************************************************************************)
OneChargePerDay ==
    \A u \in Users : \A i, j \in DOMAIN ledger[u] :
        i < j /\ ledger[u][i].op = "daily_charge" /\ ledger[u][j].op = "daily_charge"
            => ledger[u][i].date < ledger[u][j].date

(***************************************************************************)
(* From the first transaction on, a user is blocked exactly while the      *)
(* balance is not positive, whichever transactions meet or fail.           *)
(***************************************************************************)
BlockedWithoutMoney ==
    \A u \in Users : ledger[u] # <<>> => (blocked[u] <=> balance[u] <= 0)

(***************************************************************************)
(* A user who keeps a billable device is in the end charged for the day,   *)
(* although a pass that fails for one user leaves out those after it.      *)
(***************************************************************************)
ChargedInTheEnd ==
    \A u \in Users : <>[](devices[u] > 0) => <>[](last[u] = day)

(* Ledger, balance and status of a user agree after every transaction, and *)
(* no day is in the ledger twice.                                          *)
BooksBalance ==
    TypeOK /\ LedgerExplainsBalance /\ OneChargePerDay /\ BlockedWithoutMoney

================================================================================
