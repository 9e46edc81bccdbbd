----------------------------- MODULE BillingProofs -----------------------------
(***************************************************************************)
(* What the workers count is counted once: the books of Billing and, in the*)
(* second part, the tables of Traffic, each by itself.                     *)
(*                                                                         *)
(* That the books of Billing balance, for any users, requests, amounts and *)
(* number of days, devices and faults.  BooksBalance is not inductive: a   *)
(* commit writes what its transaction read when it locked the row, and the *)
(* worker charges for what it listed when its pass began.  IInv adds what  *)
(* keeps the two true until the commit.                                    *)
(***************************************************************************)
EXTENDS MCBilling, TLAPS

(* A transaction that holds a row holds it alone and knows its balance.    *)
RowsHeld ==
    /\ \A p \in Procs : tx[p].pc # "idle" => tx[p].user \in Users
    /\ \A p \in Procs : tx[p].pc = "locked" => tx[p].current = balance[tx[p].user]
    /\ \A p, q \in Procs :
           tx[p].pc = "locked" /\ tx[q].pc = "locked" /\ tx[p].user = tx[q].user => p = q

(* Only the worker charges, and whom it is charging or still has to charge *)
(* in its pass has not been charged for the day.                           *)
WorkerOnCourse ==
    /\ \A p \in Clients : tx[p].pc # "idle" => tx[p].op # "daily_charge"
    /\ tx[Worker].pc # "idle" => /\ passing
                                 /\ tx[Worker].op = "daily_charge"
                                 /\ pass[tx[Worker].user] = 0
                                 /\ last[tx[Worker].user] < tx[Worker].date
    /\ \A u \in Users : pass[u] > 0 => passing /\ last[u] < day

(* No transaction, charge or row is of a day to come.                      *)
DatesPast ==
    /\ \A p \in Procs : tx[p].date <= day
    /\ \A u \in Users : last[u] <= day
    /\ \A u \in Users : \A i \in DOMAIN ledger[u] :
           ledger[u][i].op = "daily_charge" => ledger[u][i].date <= last[u]

IInv == BooksBalance /\ RowsHeld /\ WorkerOnCourse /\ DatesPast

--------------------------------------------------------------------------------
LEMMA Bounds == /\ MaxDevices \in Nat /\ MaxDay \in Nat /\ MaxFaults \in Nat
                /\ Worker \in Procs /\ Clients \subseteq Procs
BY BoundsAreNat DEF Procs

LEMMA NoTxIsTx == NoTx \in Tx
BY Bounds DEF NoTx, Tx

LEMMA BaseCase == Init => IInv
<1> SUFFICES ASSUME Init PROVE IInv
  OBVIOUS
<1> USE Bounds
<1>1. TypeOK
  <2>1. /\ tx \in [Procs -> Tx] /\ ledger \in [Users -> Seq(Row)]
    BY NoTxIsTx DEF Init
  <2>2. day \in 0..MaxDay /\ faults \in 0..MaxFaults
    BY DEF Init
  <2>3. /\ devices \in [Users -> 0..MaxDevices] /\ pass \in [Users -> 0..MaxDevices]
        /\ balance \in [Users -> Int]
    BY DEF Init, Never
  <2>4. last \in [Users -> 0..MaxDay \cup {Never}]
    BY DEF Init, Never
  <2>5. blocked \in [Users -> BOOLEAN] /\ passing \in BOOLEAN
    BY Zenon DEF Init
  <2>6. QED
    BY <2>1, <2>2, <2>3, <2>4, <2>5 DEF TypeOK
<1>2. LedgerExplainsBalance /\ OneChargePerDay /\ BlockedWithoutMoney
  BY DEF Init, LedgerExplainsBalance, OneChargePerDay, BlockedWithoutMoney
<1>3. RowsHeld
  BY DEF Init, RowsHeld, NoTx
<1>4. WorkerOnCourse
  BY DEF Init, WorkerOnCourse, NoTx, Procs
<1>5. DatesPast
  BY DEF Init, DatesPast, NoTx, Never
<1>6. QED
  BY <1>1, <1>2, <1>3, <1>4, <1>5 DEF IInv, BooksBalance

(* Steps that leave the money alone keep what is said of it alone.         *)
LEMMA MoneyKept ==
    ASSUME IInv, UNCHANGED money
    PROVE  /\ LedgerExplainsBalance' /\ OneChargePerDay' /\ BlockedWithoutMoney'
           /\ \A u \in Users : \A i \in DOMAIN ledger'[u] :
                  ledger'[u][i].op = "daily_charge" => ledger'[u][i].date <= last'[u]
<1> USE DEF IInv, BooksBalance, money
<1>1. LedgerExplainsBalance'
  BY DEF LedgerExplainsBalance, Newest
<1>2. OneChargePerDay'
  BY DEF OneChargePerDay
<1>3. BlockedWithoutMoney'
  BY DEF BlockedWithoutMoney
<1>4. QED
  BY <1>1, <1>2, <1>3 DEF DatesPast

(* A transaction that begins, for a user and with a number.                *)
LEMMA BeginTx ==
    ASSUME IInv, NEW p \in Procs, NEW op \in {"credit", "set", "daily_charge"},
           NEW u \in Users, NEW arg \in Int, Begin(p, op, u, arg)
    PROVE  /\ tx' \in [Procs -> Tx]
           /\ tx[p].pc = "idle"
           /\ tx'[p].pc = "begun" /\ tx'[p].op = op /\ tx'[p].user = u
           /\ tx'[p].date = day
           /\ \A q \in Procs \ {p} : tx'[q] = tx[q]
<1> DEFINE t == [pc |-> "begun", op |-> op, user |-> u, arg |-> arg, date |-> day, current |-> 0]
<1>1. t \in Tx
  BY DEF IInv, BooksBalance, TypeOK, Tx
<1>2. t.pc = "begun" /\ t.op = op /\ t.user = u /\ t.date = day
  OBVIOUS
<1>3. tx \in [Procs -> Tx] /\ tx[p].pc = "idle" /\ tx' = [tx EXCEPT ![p] = t]
  BY DEF IInv, BooksBalance, TypeOK, Begin
<1> HIDE DEF t
<1>4. QED
  BY <1>1, <1>2, <1>3

LEMMA RequestStep ==
    ASSUME IInv, NEW p \in Clients, NEW u \in Users,
           \/ \E a \in Amounts : addLedgerEntry(p, u, a)
           \/ \E b \in Targets : SetBalance(p, u, b)
    PROVE  IInv'
<1>1. PICK op \in {"credit", "set"}, arg \in Int : Begin(p, op, u, arg)
  BY AmountsAreInt DEF addLedgerEntry, SetBalance
<1>2. UNCHANGED <<day, devices, money, work, faults>>
  BY DEF addLedgerEntry, SetBalance
<1>3. p \in Procs /\ p # Worker
  BY Bounds, WorkerIsNoClient
<1>4. /\ tx' \in [Procs -> Tx]
      /\ tx[p].pc = "idle"
      /\ tx'[p].pc = "begun" /\ tx'[p].op = op /\ tx'[p].user = u
      /\ tx'[p].date = day
      /\ \A q \in Procs \ {p} : tx'[q] = tx[q]
  BY <1>1, <1>3, BeginTx
<1>5. BooksBalance'
  BY <1>2, <1>4, MoneyKept DEF IInv, BooksBalance, TypeOK, money, work
<1>6. RowsHeld'
  BY <1>2, <1>4 DEF IInv, RowsHeld, money
<1>7. WorkerOnCourse'
  BY <1>2, <1>3, <1>4, Bounds DEF IInv, WorkerOnCourse, money, work
<1>8. DatesPast'
  <2>1. day \in Int
    BY Bounds DEF IInv, BooksBalance, TypeOK
  <2>2. \A q \in Procs : tx'[q].date <= day'
    BY <1>2, <1>3, <1>4, <2>1 DEF IInv, DatesPast
  <2>3. QED
    BY <1>2, <2>2, MoneyKept DEF IInv, DatesPast, money
<1>9. QED
  BY <1>5, <1>6, <1>7, <1>8 DEF IInv

LEMMA StartPassStep == ASSUME IInv, StartPass PROVE IInv'
<1>1. UNCHANGED <<day, devices, money, tx, faults>>
  BY DEF StartPass
<1>0. passing' \in BOOLEAN
  BY Zenon DEF StartPass
<1>2. pass' = [u \in Users |-> IF Due(u) THEN devices[u] ELSE 0]
  BY DEF StartPass
<1>3. tx[Worker].pc = "idle"
  BY DEF IInv, WorkerOnCourse, StartPass
<1>4. pass' \in [Users -> 0..MaxDevices]
  BY <1>2, Bounds DEF IInv, BooksBalance, TypeOK
<1>5. TypeOK'
  BY <1>0, <1>1, <1>4 DEF IInv, BooksBalance, TypeOK, money
<1>51. BooksBalance'
  BY <1>1, <1>5, MoneyKept DEF BooksBalance
<1>6. RowsHeld'
  BY <1>1 DEF IInv, RowsHeld, money
<1>7. WorkerOnCourse'
  BY <1>1, <1>2, <1>3 DEF IInv, WorkerOnCourse, money, Due, StartPass
<1>8. DatesPast'
  BY <1>1, MoneyKept DEF IInv, DatesPast, money
<1>9. QED
  BY <1>51, <1>6, <1>7, <1>8 DEF IInv

LEMMA ChargeStep == ASSUME IInv, NEW u \in Users, chargeUser(u) PROVE IInv'
<1>1. /\ UNCHANGED <<day, devices, money, passing, faults>>
      /\ passing /\ pass[u] > 0 /\ pass' = [pass EXCEPT ![u] = 0]
      /\ Begin(Worker, "daily_charge", u, pass[u])
  BY DEF chargeUser
<1>2. pass \in [Users -> 0..MaxDevices] /\ pass[u] \in Int
  BY Bounds DEF IInv, BooksBalance, TypeOK
<1>3. /\ tx' \in [Procs -> Tx]
      /\ tx'[Worker].pc = "begun" /\ tx'[Worker].op = "daily_charge" /\ tx'[Worker].user = u
      /\ tx'[Worker].date = day
      /\ \A q \in Procs \ {Worker} : tx'[q] = tx[q]
  BY <1>1, <1>2, Bounds, BeginTx
<1>4. pass' \in [Users -> 0..MaxDevices]
  BY <1>1, <1>2, Bounds
<1>5. BooksBalance'
  BY <1>1, <1>3, <1>4, MoneyKept DEF IInv, BooksBalance, TypeOK, money
<1>6. RowsHeld'
  BY <1>1, <1>3 DEF IInv, RowsHeld, money
<1>7. WorkerOnCourse'
  BY <1>1, <1>2, <1>3, Bounds, WorkerIsNoClient DEF IInv, WorkerOnCourse, money
<1>8. DatesPast'
  <2>1. day \in Int
    BY Bounds DEF IInv, BooksBalance, TypeOK
  <2>2. \A q \in Procs : tx'[q].date <= day'
    BY <1>1, <1>3, <2>1 DEF IInv, DatesPast
  <2>3. QED
    BY <1>1, <2>2, MoneyKept DEF IInv, DatesPast, money
<1>9. QED
  BY <1>5, <1>6, <1>7, <1>8 DEF IInv

LEMMA EndPassStep == ASSUME IInv, EndPass PROVE IInv'
<1>1. /\ UNCHANGED <<day, devices, money, tx, pass, faults>>
      /\ tx[Worker] = NoTx /\ \A u \in Users : pass[u] = 0
  BY DEF EndPass
<1>0. passing' \in BOOLEAN
  BY Zenon DEF EndPass
<1>2. TypeOK'
  BY <1>0, <1>1 DEF IInv, BooksBalance, TypeOK, money
<1>21. BooksBalance'
  BY <1>1, <1>2, MoneyKept DEF BooksBalance
<1>3. RowsHeld'
  BY <1>1 DEF IInv, RowsHeld, money
<1>4. WorkerOnCourse'
  BY <1>1 DEF IInv, WorkerOnCourse, money, NoTx
<1>5. DatesPast'
  BY <1>1, MoneyKept DEF IInv, DatesPast, money
<1>6. QED
  BY <1>21, <1>3, <1>4, <1>5 DEF IInv

LEMMA LockStep == ASSUME IInv, NEW p \in Procs, Lock(p) PROVE IInv'
<1> DEFINE t == [tx[p] EXCEPT !.pc = "locked", !.current = balance[tx[p].user]]
<1>1. /\ tx[p].pc = "begun" /\ Free(tx[p].user)
      /\ tx' = [tx EXCEPT ![p] = t]
      /\ UNCHANGED <<day, devices, money, work, faults>>
  BY DEF Lock, IInv, BooksBalance, TypeOK
<1>2. tx \in [Procs -> Tx] /\ tx[p] \in Tx /\ tx[p].user \in Users /\ balance \in [Users -> Int]
  BY <1>1 DEF IInv, BooksBalance, TypeOK, RowsHeld
<1>3. t \in Tx
  BY <1>2 DEF Tx
<1>4. /\ t.pc = "locked" /\ t.current = balance[t.user]
      /\ t.op = tx[p].op /\ t.user = tx[p].user /\ t.date = tx[p].date
  BY <1>2 DEF Tx
<1> HIDE DEF t
<1>5. /\ tx' \in [Procs -> Tx] /\ tx'[p] = t /\ \A q \in Procs \ {p} : tx'[q] = tx[q]
  BY <1>1, <1>2, <1>3
<1>6. BooksBalance'
  BY <1>1, <1>5, MoneyKept DEF IInv, BooksBalance, TypeOK, money, work
<1>7. RowsHeld'
  <2>1. \A q \in Procs : tx'[q].pc # "idle" => tx'[q].user \in Users
    BY <1>2, <1>4, <1>5 DEF IInv, RowsHeld
  <2>2. \A q \in Procs : tx'[q].pc = "locked" => tx'[q].current = balance'[tx'[q].user]
    BY <1>1, <1>4, <1>5 DEF IInv, RowsHeld, money
  <2>3. \A q \in Procs : ~(tx[q].pc = "locked" /\ tx[q].user = t.user)
    BY <1>1, <1>4 DEF Free
  <2>4. QED
    BY <2>1, <2>2, <2>3, <1>5 DEF IInv, RowsHeld
<1>8. WorkerOnCourse'
  BY <1>1, <1>4, <1>5, Bounds DEF IInv, WorkerOnCourse, money, work
<1>9. DatesPast'
  BY <1>1, <1>4, <1>5, MoneyKept DEF IInv, DatesPast, money
<1>10. QED
  BY <1>6, <1>7, <1>8, <1>9 DEF IInv

(* What ends a transaction, or all of them.                                *)
LEMMA TxEnds ==
    ASSUME IInv, UNCHANGED <<day, money>>, tx' \in [Procs -> Tx],
           \A q \in Procs : tx'[q] = tx[q] \/ tx'[q] = NoTx
    PROVE  RowsHeld' /\ DatesPast'
<1>1. RowsHeld'
  BY DEF IInv, RowsHeld, money, NoTx
<1>2. \A q \in Procs : tx'[q].date <= day'
  <2>1. 0 <= day /\ NoTx.date = 0
    BY Bounds DEF IInv, BooksBalance, TypeOK, NoTx
  <2>2. QED
    BY <2>1 DEF IInv, DatesPast
<1>3. QED
  BY <1>1, <1>2, MoneyKept DEF IInv, DatesPast, money

LEMMA FailStep == ASSUME IInv, NEW p \in Procs, TxFails(p) PROVE IInv'
<1>1. /\ tx[p].pc # "idle" /\ tx' = [tx EXCEPT ![p] = NoTx]
      /\ UNCHANGED <<day, devices, money>> /\ faults' \in 0..MaxFaults
  BY Bounds DEF TxFails, Fault, IInv, BooksBalance, TypeOK
<1>2. tx' \in [Procs -> Tx] /\ tx'[p] = NoTx /\ \A q \in Procs \ {p} : tx'[q] = tx[q]
  BY <1>1, NoTxIsTx DEF IInv, BooksBalance, TypeOK
<1>3. pass' \in [Users -> 0..MaxDevices]
  BY Bounds DEF TxFails, work, IInv, BooksBalance, TypeOK
<1>4. passing' \in BOOLEAN
  BY Zenon DEF TxFails, work, IInv, BooksBalance, TypeOK
<1>5. TypeOK'
  BY <1>1, <1>2, <1>3, <1>4 DEF IInv, BooksBalance, TypeOK, money
<1>6. BooksBalance'
  BY <1>1, <1>5, MoneyKept DEF BooksBalance
<1>7. WorkerOnCourse'
  <2>1. CASE p = Worker
    BY <1>1, <1>2, <2>1, Bounds DEF TxFails, IInv, WorkerOnCourse, money, NoTx
  <2>2. CASE p # Worker
    BY <1>1, <1>2, <2>2, Bounds DEF TxFails, IInv, WorkerOnCourse, money, work, NoTx
  <2>3. QED
    BY <2>1, <2>2
<1>8. QED
  BY <1>1, <1>2, <1>6, <1>7, TxEnds DEF IInv

LEMMA RestartStep == ASSUME IInv, Restart PROVE IInv'
<1>1. /\ UNCHANGED <<day, devices, money>> /\ faults' \in 0..MaxFaults
      /\ tx' = [p \in Procs |-> NoTx] /\ pass' = [u \in Users |-> 0]
  BY Bounds DEF Restart, Fault, IInv, BooksBalance, TypeOK
<1>2. tx' \in [Procs -> Tx] /\ \A q \in Procs : tx'[q] = NoTx
  BY <1>1, NoTxIsTx
<1>3. pass' \in [Users -> 0..MaxDevices]
  BY <1>1, Bounds
<1>4. passing' \in BOOLEAN
  BY Zenon DEF Restart
<1>5. TypeOK'
  BY <1>1, <1>2, <1>3, <1>4 DEF IInv, BooksBalance, TypeOK, money
<1>6. BooksBalance'
  BY <1>1, <1>5, MoneyKept DEF BooksBalance
<1>7. WorkerOnCourse'
  BY <1>1, <1>2, Bounds DEF WorkerOnCourse, NoTx
<1>8. QED
  BY <1>1, <1>2, <1>6, <1>7, TxEnds DEF IInv

LEMMA EnvironmentStep ==
    ASSUME IInv, NewDay \/ \E u \in Users : ChangeDevices(u)
    PROVE  IInv'
<1>1. UNCHANGED <<money, tx, work, faults>>
  BY DEF NewDay, ChangeDevices
<1>2. day' \in 0..MaxDay /\ day <= day'
  BY Bounds DEF NewDay, ChangeDevices, IInv, BooksBalance, TypeOK
<1>3. devices' \in [Users -> 0..MaxDevices]
  BY DEF NewDay, ChangeDevices, IInv, BooksBalance, TypeOK
<1>4. BooksBalance'
  BY <1>1, <1>2, <1>3, MoneyKept DEF IInv, BooksBalance, TypeOK, money, work
<1>5. RowsHeld'
  BY <1>1 DEF IInv, RowsHeld, money
<1>6. /\ day \in Int /\ day' \in Int /\ \A u \in Users : last[u] \in Int
      /\ \A p \in Procs : tx[p].date \in Int
  BY <1>2, Bounds DEF IInv, BooksBalance, TypeOK, Tx, Never
<1>7. WorkerOnCourse'
  BY <1>1, <1>2, <1>6 DEF IInv, WorkerOnCourse, money, work
<1>8. DatesPast'
  BY <1>1, <1>2, <1>6, MoneyKept DEF IInv, DatesPast, money
<1>9. QED
  BY <1>4, <1>5, <1>7, <1>8 DEF IInv

(* A ledger with one row more.                                             *)
LEMMA AppendRow ==
    ASSUME NEW s \in Seq(Row), NEW r \in Row
    PROVE  LET n == Len(s) IN
           /\ n \in Nat /\ DOMAIN s = 1..n /\ (s = <<>> <=> n = 0)
           /\ Append(s, r) \in Seq(Row) /\ Append(s, r) # <<>>
           /\ Len(Append(s, r)) = n + 1 /\ DOMAIN Append(s, r) = 1..(n + 1)
           /\ Append(s, r)[n + 1] = r
           /\ \A i \in 1..n : Append(s, r)[i] = s[i] /\ s[i].date \in Int
<1>1. \A i \in 1..Len(s) : s[i] \in Row
  OBVIOUS
<1>2. \A x \in Row : x.date \in Int
  BY Bounds DEF Row
<1>3. /\ Len(s) \in Nat /\ DOMAIN s = 1..Len(s) /\ (s = <<>> <=> Len(s) = 0)
  OBVIOUS
<1>4. /\ Append(s, r) \in Seq(Row) /\ Len(Append(s, r)) = Len(s) + 1
      /\ Append(s, r)[Len(s) + 1] = r
      /\ \A i \in 1..Len(s) : Append(s, r)[i] = s[i]
  OBVIOUS
<1>5. DOMAIN Append(s, r) = 1..(Len(s) + 1) /\ Append(s, r) # <<>>
  BY <1>3, <1>4
<1>6. QED
  BY <1>1, <1>2, <1>3, <1>4, <1>5

LEMMA LastOrBefore ==
    ASSUME NEW n \in Nat, NEW i \in 1..(n + 1)
    PROVE  i \in 1..n \/ i = n + 1
OBVIOUS

(* What a commit that charges or credits writes, of the transaction t.     *)
LEMMA CommitWrites ==
    ASSUME IInv, NEW p \in Procs, Commit(p), ~Charged(tx[p])
    PROVE  LET t == tx[p]
               r == [op |-> t.op, amount |-> Amount(t), after |-> After(t), date |-> t.date]
           IN  /\ t \in Tx /\ t.pc = "locked" /\ t.user \in Users /\ t.date <= day
               /\ t.current = balance[t.user]
               /\ r \in Row /\ r.after = After(t) /\ r.after = r.amount + balance[t.user]
               /\ r.op = t.op /\ r.date = t.date
               /\ balance' = [balance EXCEPT ![t.user] = r.after]
               /\ blocked' = [blocked EXCEPT ![t.user] = MustBlock(r.after)]
               /\ last' = LastAfter(t)
               /\ ledger' = [ledger EXCEPT ![t.user] = Append(@, r)]
<1> DEFINE t == tx[p]
           r == [op |-> t.op, amount |-> Amount(t), after |-> After(t), date |-> t.date]
<1>1. /\ t \in Tx /\ t.pc = "locked" /\ t.user \in Users /\ t.date <= day
      /\ t.current = balance[t.user]
  BY DEF Commit, IInv, BooksBalance, TypeOK, RowsHeld, DatesPast
<1>2. /\ t.op \in {"credit", "set", "daily_charge"} /\ t.arg \in Int /\ t.current \in Int
      /\ t.date \in 0..MaxDay
  BY <1>1 DEF Tx
<1>3. After(t) \in Int /\ Amount(t) \in Int /\ After(t) = Amount(t) + t.current
  BY <1>2 DEF After, Amount
<1>4. r \in Row /\ r.after = After(t) /\ r.amount = Amount(t) /\ r.op = t.op /\ r.date = t.date
  BY <1>2, <1>3 DEF Row
<1>5. /\ balance' = [balance EXCEPT ![t.user] = r.after]
      /\ last' = LastAfter(t)
      /\ ledger' = [ledger EXCEPT ![t.user] = Append(@, r)]
  BY DEF Commit
<1>6. blocked' = [blocked EXCEPT ![t.user] = MustBlock(r.after)]
  BY Zenon, <1>4 DEF Commit
<1>7. QED
  BY <1>1, <1>3, <1>4, <1>5, <1>6

LEMMA CommitStep == ASSUME IInv, NEW p \in Procs, Commit(p) PROVE IInv'
<1>1. /\ tx[p].pc = "locked" /\ tx' = [tx EXCEPT ![p] = NoTx]
      /\ UNCHANGED <<day, devices, work, faults>>
  BY DEF Commit
<1>2. tx' \in [Procs -> Tx] /\ tx'[p] = NoTx /\ \A q \in Procs \ {p} : tx'[q] = tx[q]
  BY <1>1, NoTxIsTx DEF IInv, BooksBalance, TypeOK
<1>3. CASE Charged(tx[p])
  <2>1. UNCHANGED money
    BY <1>3 DEF Commit
  <2>2. BooksBalance'
    BY <1>1, <1>2, <2>1, MoneyKept DEF IInv, BooksBalance, TypeOK, money, work
  <2>3. WorkerOnCourse'
    BY <1>1, <1>2, <2>1, Bounds DEF IInv, WorkerOnCourse, money, work, NoTx
  <2>4. QED
    BY <1>1, <1>2, <2>1, <2>2, <2>3, TxEnds DEF IInv
<1>4. CASE ~Charged(tx[p])
  <2> DEFINE t == tx[p]
             u == t.user
             r == [op |-> t.op, amount |-> Amount(t), after |-> After(t), date |-> t.date]
  <2>1. /\ t \in Tx /\ t.pc = "locked" /\ u \in Users /\ t.date <= day
        /\ t.current = balance[u]
        /\ r \in Row /\ r.after = r.amount + balance[u]
        /\ r.op = t.op /\ r.date = t.date
        /\ balance' = [balance EXCEPT ![u] = r.after]
        /\ blocked' = [blocked EXCEPT ![u] = MustBlock(r.after)]
        /\ last' = LastAfter(t)
        /\ ledger' = [ledger EXCEPT ![u] = Append(@, r)]
    BY <1>4, CommitWrites
  <2>2. /\ t.date \in 0..MaxDay /\ r.after \in Int /\ r.amount \in Int
        /\ t.op \in {"credit", "set", "daily_charge"}
    BY <2>1 DEF Tx, Row
  <2> HIDE DEF r
  <2>3. /\ day \in Int /\ 0 <= day
        /\ balance \in [Users -> Int] /\ last \in [Users -> 0..MaxDay \cup {Never}]
        /\ ledger \in [Users -> Seq(Row)]
        /\ \A v \in Users : last[v] \in Int
        /\ \A q \in Procs : tx[q].date \in Int
    BY Bounds DEF IInv, BooksBalance, TypeOK, Never, Tx
  <2>4. /\ last' \in [Users -> 0..MaxDay \cup {Never}]
        /\ \A v \in Users \ {u} : last'[v] = last[v]
        /\ last'[u] = IF t.op = "daily_charge" THEN t.date ELSE last[u]
    BY <2>1, <2>2, <2>3 DEF LastAfter
  <2>5. /\ ledger' \in [Users -> Seq(Row)]
        /\ \A v \in Users \ {u} : ledger'[v] = ledger[v]
        /\ ledger'[u] = Append(ledger[u], r)
    BY <2>1, <2>3
  <2>6. /\ balance' \in [Users -> Int] /\ balance'[u] = r.after
        /\ \A v \in Users \ {u} : balance'[v] = balance[v]
    BY <2>1, <2>2, <2>3
  <2>7. /\ Len(ledger[u]) \in Nat /\ DOMAIN ledger[u] = 1..Len(ledger[u])
        /\ Len(ledger'[u]) = Len(ledger[u]) + 1
        /\ DOMAIN ledger'[u] = 1..(Len(ledger[u]) + 1)
        /\ ledger'[u][Len(ledger[u]) + 1] = r
        /\ \A i \in DOMAIN ledger[u] : ledger'[u][i] = ledger[u][i] /\ ledger[u][i].date \in Int
        /\ ledger'[u] # <<>> /\ (ledger[u] = <<>> <=> Len(ledger[u]) = 0)
    <3>1. ledger[u] \in Seq(Row)
      BY <2>1, <2>3
    <3>2. QED
      BY <2>1, <2>5, <3>1, AppendRow
  <2>8. t.op = "daily_charge" => p = Worker /\ last[u] < t.date
    BY <2>1 DEF IInv, WorkerOnCourse, Procs
  <2>9. TypeOK'
    <3>1. blocked' \in [Users -> BOOLEAN]
      <4>1. blocked \in [Users -> BOOLEAN]
        BY DEF IInv, BooksBalance, TypeOK
      <4>2. MustBlock(r.after) \in BOOLEAN
        BY <2>2 DEF MustBlock
      <4>3. QED
        BY <2>1, <4>1, <4>2
    <3>2. QED
      BY <1>1, <1>2, <2>4, <2>5, <2>6, <3>1 DEF IInv, BooksBalance, TypeOK, work
  <2>10. LedgerExplainsBalance'
    <3>1. ASSUME NEW v \in Users \ {u}
          PROVE  /\ balance'[v] = IF ledger'[v] = <<>> THEN 0 ELSE ledger'[v][Len(ledger'[v])].after
                 /\ \A i \in DOMAIN ledger'[v] :
                       ledger'[v][i].after = ledger'[v][i].amount
                           + (IF i = 1 THEN 0 ELSE ledger'[v][i - 1].after)
      <4>1. ledger'[v] = ledger[v] /\ balance'[v] = balance[v] /\ v \in Users
        BY <2>5, <2>6
      <4>2. /\ balance[v] = IF ledger[v] = <<>> THEN 0 ELSE ledger[v][Len(ledger[v])].after
            /\ \A i \in DOMAIN ledger[v] :
                  ledger[v][i].after = ledger[v][i].amount
                      + (IF i = 1 THEN 0 ELSE ledger[v][i - 1].after)
        BY <4>1 DEF IInv, BooksBalance, LedgerExplainsBalance, Newest
      <4>3. QED
        BY Zenon, <4>1, <4>2
    <3>2. balance'[u] = ledger'[u][Len(ledger'[u])].after
      BY <2>6, <2>7
    <3>3. ASSUME NEW i \in DOMAIN ledger[u]
          PROVE  ledger'[u][i].after = ledger'[u][i].amount
                     + (IF i = 1 THEN 0 ELSE ledger'[u][i - 1].after)
      <4>1. ledger[u][i].after = ledger[u][i].amount
                     + (IF i = 1 THEN 0 ELSE ledger[u][i - 1].after)
        BY <2>1 DEF IInv, BooksBalance, LedgerExplainsBalance
      <4>2. i # 1 => i - 1 \in DOMAIN ledger[u]
        BY <2>7
      <4>3. QED
        BY <2>7, <4>1, <4>2
    <3>4. r.after = r.amount + (IF Len(ledger[u]) + 1 = 1 THEN 0 ELSE ledger'[u][Len(ledger[u])].after)
      <4>0. r.after = r.amount + balance[u]
        BY <2>1
      <4>1. balance[u] = IF ledger[u] = <<>> THEN 0 ELSE ledger[u][Len(ledger[u])].after
        BY <2>1 DEF IInv, BooksBalance, LedgerExplainsBalance, Newest
      <4>2. Len(ledger[u]) # 0 => ledger'[u][Len(ledger[u])] = ledger[u][Len(ledger[u])]
        BY <2>7
      <4>3. Len(ledger[u]) \in Nat /\ (Len(ledger[u]) = 0 <=> ledger[u] = <<>>)
        BY <2>7
      <4>4. CASE Len(ledger[u]) = 0
        <5>1. balance[u] = 0
          BY <4>1, <4>3, <4>4
        <5>2. Len(ledger[u]) + 1 = 1
          BY <4>4
        <5>3. r.after = r.amount + 0
          BY <4>0, <5>1
        <5>4. QED
          BY <5>2, <5>3
      <4>5. CASE Len(ledger[u]) # 0
        <5>1. Len(ledger[u]) + 1 # 1
          BY <4>3, <4>5
        <5>2. balance[u] = ledger'[u][Len(ledger[u])].after
          BY <4>1, <4>2, <4>3, <4>5
        <5>3. QED
          BY <4>0, <5>1, <5>2
      <4>6. QED
        BY <4>4, <4>5
    <3>5. ASSUME NEW i \in DOMAIN ledger'[u]
          PROVE  ledger'[u][i].after = ledger'[u][i].amount
                     + (IF i = 1 THEN 0 ELSE ledger'[u][i - 1].after)
      <4>1. CASE i \in DOMAIN ledger[u]
        BY <3>3, <4>1
      <4>2. CASE i = Len(ledger[u]) + 1
        BY <2>7, <3>4, <4>2
      <4>3. QED
        BY <2>7, <4>1, <4>2, LastOrBefore
    <3>6. QED
      BY ZenonT(30), <2>7, <3>1, <3>2, <3>5 DEF LedgerExplainsBalance, Newest
  <2>11. OneChargePerDay'
    <3>1. ASSUME NEW i \in DOMAIN ledger[u], ledger[u][i].op = "daily_charge",
                 t.op = "daily_charge"
          PROVE  ledger[u][i].date < r.date
      <4>1. ledger[u][i].date <= last[u]
        BY <2>1, <3>1 DEF IInv, DatesPast
      <4>2. ledger[u][i].date \in Int
        BY <2>7, <3>1
      <4>3. QED
        BY <2>1, <2>2, <2>3, <2>8, <3>1, <4>1, <4>2, SMTT(30)
    <3>2. ASSUME NEW i \in DOMAIN ledger'[u], NEW j \in DOMAIN ledger'[u], i < j,
                 ledger'[u][i].op = "daily_charge", ledger'[u][j].op = "daily_charge"
          PROVE  ledger'[u][i].date < ledger'[u][j].date
      <4>1. i \in DOMAIN ledger[u]
        BY <2>7, <3>2
      <4>2. CASE j \in DOMAIN ledger[u]
        BY <2>1, <2>7, <3>2, <4>1, <4>2 DEF IInv, BooksBalance, OneChargePerDay
      <4>3. CASE j = Len(ledger[u]) + 1
        BY <2>1, <2>7, <3>1, <3>2, <4>1, <4>3
      <4>4. QED
        BY <2>7, <4>2, <4>3, LastOrBefore
    <3>3. QED
      BY <2>5, <3>2 DEF OneChargePerDay, IInv, BooksBalance
  <2>12. BlockedWithoutMoney'
    <3>1. blocked'[u] <=> balance'[u] <= 0
      <4>1. blocked \in [Users -> BOOLEAN]
        BY DEF IInv, BooksBalance, TypeOK
      <4>2. blocked'[u] = MustBlock(r.after)
        BY Zenon, <2>1, <4>1
      <4>3. QED
        BY <2>6, <4>2 DEF MustBlock
    <3>2. \A v \in Users \ {u} : blocked'[v] = blocked[v]
      <4>1. blocked \in [Users -> BOOLEAN]
        BY DEF IInv, BooksBalance, TypeOK
      <4>2. QED
        BY Zenon, <2>1, <4>1
    <3>3. QED
      BY <2>5, <2>6, <3>1, <3>2 DEF IInv, BooksBalance, BlockedWithoutMoney
  <2>13. RowsHeld'
    <3>1. \A q \in Procs \ {p} : tx[q].pc = "locked" => tx[q].user # u /\ tx[q].user \in Users
      BY <2>1 DEF IInv, RowsHeld
    <3>2. QED
      BY <1>2, <2>6, <3>1 DEF IInv, RowsHeld, NoTx
  <2>14. WorkerOnCourse'
    <3>1. \A q \in Clients : tx'[q].pc # "idle" => tx'[q].op # "daily_charge"
      BY <1>2, Bounds DEF IInv, WorkerOnCourse, NoTx
    <3>2. \A v \in Users : pass[v] > 0 => passing /\ last'[v] < day
      BY <2>1, <2>4, <2>8 DEF IInv, WorkerOnCourse
    <3>3. CASE p = Worker
      BY <1>1, <1>2, <3>1, <3>2, <3>3 DEF WorkerOnCourse, NoTx, work
    <3>4. CASE p # Worker
      <4>1. t.op # "daily_charge"
        BY <2>8, <3>4
      <4>2. QED
        BY <1>1, <1>2, <2>4, <3>1, <3>2, <3>4, <4>1, Bounds DEF IInv, RowsHeld, WorkerOnCourse, work
    <3>5. QED
      BY <3>3, <3>4
  <2>15. DatesPast'
    <3>1. \A q \in Procs : tx'[q].date <= day'
      BY <1>1, <1>2, <2>3 DEF IInv, DatesPast, NoTx
    <3>2. \A v \in Users : last'[v] <= day'
      BY <1>1, <2>1, <2>4 DEF IInv, DatesPast
    <3>3. ASSUME NEW i \in DOMAIN ledger'[u], ledger'[u][i].op = "daily_charge"
          PROVE  ledger'[u][i].date <= last'[u]
      <4>1. CASE i \in DOMAIN ledger[u]
        <5>1. ledger[u][i].date <= last[u] /\ ledger'[u][i] = ledger[u][i]
          BY <2>1, <2>7, <3>3, <4>1 DEF IInv, DatesPast
        <5>2. ledger[u][i].date \in Int
          BY <2>7, <4>1
        <5>3. last[u] \in Int /\ t.date \in Int
          BY <2>1, <2>2, <2>3, Bounds
        <5>4. last[u] <= last'[u]
          BY <2>4, <2>8, <5>3
        <5>5. QED
          BY <2>4, <5>1, <5>2, <5>3, <5>4
      <4>2. CASE i = Len(ledger[u]) + 1
        BY <2>1, <2>2, <2>4, <2>7, <3>3, <4>2, Bounds
      <4>3. QED
        BY <2>7, <4>1, <4>2, LastOrBefore
    <3>4. QED
      BY <2>4, <2>5, <3>1, <3>2, <3>3 DEF IInv, DatesPast
  <2>16. QED
    BY <2>9, <2>10, <2>11, <2>12, <2>13, <2>14, <2>15 DEF IInv, BooksBalance
<1>5. QED
  BY <1>3, <1>4

LEMMA StutterStep == ASSUME IInv, UNCHANGED vars PROVE IInv'
<1>1. UNCHANGED <<day, devices, money, tx, pass, passing, faults>>
  BY DEF vars, money
<1>2. TypeOK'
  BY Zenon, <1>1 DEF IInv, BooksBalance, TypeOK, money
<1>3. RowsHeld' /\ WorkerOnCourse' /\ DatesPast'
  BY <1>1 DEF IInv, RowsHeld, WorkerOnCourse, DatesPast, money
<1>4. QED
  BY <1>1, <1>2, <1>3, MoneyKept DEF IInv, BooksBalance

LEMMA StepKeepsIInv == IInv /\ [Next]_vars => IInv'
<1> SUFFICES ASSUME IInv, [Next]_vars PROVE IInv'
  OBVIOUS
<1>1. CASE Requests
  BY <1>1, RequestStep DEF Requests
<1>2. CASE WorkerStep
  BY <1>2, StartPassStep, ChargeStep, EndPassStep DEF WorkerStep
<1>3. ASSUME NEW p \in Procs, TxStep(p) \/ TxFails(p) PROVE IInv'
  BY <1>3, LockStep, CommitStep, FailStep DEF TxStep
<1>4. CASE NewDay \/ \E u \in Users : ChangeDevices(u)
  BY <1>4, EnvironmentStep
<1>5. CASE Restart
  BY <1>5, RestartStep
<1>6. CASE UNCHANGED vars
  BY <1>6, StutterStep
<1>7. QED
  BY <1>1, <1>2, <1>3, <1>4, <1>5, <1>6 DEF Next

(***************************************************************************)
(* Whatever transactions meet, fail or are cut off, what a transaction     *)
(* writes is still right when it commits: a locked row is held by one      *)
(* transaction that knows its balance, and the worker charges only users   *)
(* who were not charged for the day of its transaction.                    *)
(***************************************************************************)
THEOREM InvariantHolds == Spec => []IInv
<1>1. Init => IInv
  BY BaseCase
<1>2. IInv /\ [Next]_vars => IInv'
  BY StepKeepsIInv
<1>3. QED
  BY <1>1, <1>2, PTL DEF Spec

(***************************************************************************)
(* The books balance: every row of a user's ledger explains the step from  *)
(* the balance before it to the one after it, the newest is the balance, no*)
(* day is charged twice, and a user is blocked exactly without money.      *)
(***************************************************************************)
THEOREM BooksBalanced == Spec => []BooksBalance
<1>1. IInv => BooksBalance
  BY DEF IInv
<1>2. QED
  BY <1>1, InvariantHolds, PTL

--------------------------------------------------------------------------------
(***************************************************************************)
(* What was transferred and what the tables show: Traffic, for any devices *)
(* and owners and however counters start again, where the Xray clients of  *)
(* the devices are not listed beside their WireGuard peers.                *)
(***************************************************************************)
TrafficAssumed ==
    Traffic!OwnerIsUser /\ Traffic!XrayAreDevices /\ Traffic!BoundsAreNat /\ XrayToo = {}

(* What a counter t is taken to have grown by since the snapshot s.        *)
Grew(t, s) == IF s # -1 /\ t >= s THEN t - s ELSE t

(* The snapshots the next pass measures from.                              *)
Base(S)   == IF S = {} THEN {-1} ELSE S
Latest(d) == IF trafficFresh[d] = {} THEN trafficLast[d] ELSE trafficFresh[d]

(* Where the pass is with a device.                                        *)
Stage(d) == IF trafficJob.dev = d THEN trafficJob.pc ELSE "out"

InPass ==
    /\ trafficJob.pc \in {"idle", "resolve"} <=> trafficJob.dev = NoDevice
    /\ trafficJob.total \in 0..MaxBytes
    /\ trafficJob.pc = "idle" => trafficTodo = {} /\ \A d \in Devices : trafficFresh[d] = {}

(* A counter that is still to be handled is the only one of its device,    *)
(* which the pass has not come to.                                         *)
Waits ==
    \A e \in trafficTodo :
        /\ e.proto = "wireguard" /\ e.total \in 0..MaxBytes
        /\ trafficFresh[e.dev] = {} /\ Stage(e.dev) = "out"
        /\ \A g \in trafficTodo : g.dev = e.dev => g = e

(* What is measured next, and what is being added, was transferred and is  *)
(* not in the table yet.                                                   *)
Backed(d) ==
    /\ trafficCounter[d] <= trafficReal[d] /\ trafficDaily[d] <= trafficReal[d]
    /\ \A s \in Base(Latest(d)) : trafficDaily[d] + Grew(trafficCounter[d], s) <= trafficReal[d]
    /\ \A e \in trafficTodo : e.dev = d =>
           \A s \in Base(trafficLast[d]) :
               trafficDaily[d] + Grew(e.total, s) + Grew(trafficCounter[d], e.total) <= trafficReal[d]
    /\ Stage(d) \in {"snapshot", "daily"} =>
           trafficDaily[d] + Grew(trafficJob.total, trafficJob.prev)
               + Grew(trafficCounter[d], trafficJob.total) <= trafficReal[d]

(* The snapshot is stored before anything is added, and the three tables   *)
(* follow each other.                                                      *)
InOrder(d) ==
    /\ Stage(d) = "snapshot" => trafficFresh[d] = {}
    /\ Stage(d) \in {"daily", "proto", "monthly"} => trafficFresh[d] = {trafficJob.total}
    /\ trafficByProto[d] + (IF Stage(d) = "proto" THEN Grew(trafficJob.total, trafficJob.prev) ELSE 0)
           <= trafficDaily[d]
    /\ trafficMonthly[d] + (IF Stage(d) = "monthly" THEN Grew(trafficJob.total, trafficJob.prev) ELSE 0)
           <= trafficByProto[d]

(* While nothing was lost, a table shows what the newest snapshot says, or *)
(* what the one before it said.                                            *)
Before == IF trafficJob.prev = -1 THEN 0 ELSE trafficJob.prev

Exact(d) ==
    /\ trafficCounter[d] = trafficReal[d]
    /\ \A e \in trafficTodo : e.dev = d => trafficDaily[d] <= e.total
    /\ Stage(d) \in {"out", "snapshot"} =>
           /\ (Latest(d) = {} /\ trafficDaily[d] = 0) \/ Latest(d) = {trafficDaily[d]}
           /\ trafficByProto[d] = trafficDaily[d] /\ trafficMonthly[d] = trafficDaily[d]
    /\ Stage(d) = "snapshot" => Before = trafficDaily[d]
    /\ Stage(d) # "out" => Before <= trafficJob.total
    /\ Stage(d) \in {"daily", "proto", "monthly"} =>
           /\ trafficDaily[d] = IF Stage(d) = "daily" THEN Before ELSE trafficJob.total
           /\ trafficByProto[d] = IF Stage(d) = "monthly" THEN trafficJob.total ELSE Before
           /\ trafficMonthly[d] = Before

TrafficOf(d) == Backed(d) /\ InOrder(d) /\ (~trafficLossy => Exact(d))

TrafficInv ==
    /\ TrafficAssumed /\ Traffic!TypeOK /\ InPass /\ Waits
    /\ \A d \in Devices : TrafficOf(d)

--------------------------------------------------------------------------------
(* The types of what a pass works on.                                      *)
LEMMA TrafficTypes ==
    ASSUME TrafficInv
    PROVE  /\ MaxBytes \in Nat /\ MaxResets \in Nat /\ MaxFaults \in Nat /\ NoDevice \notin Devices
           /\ trafficJob \in Traffic!Job /\ trafficJob.dev \in Devices \cup {NoDevice}
           /\ trafficJob.total \in 0..MaxBytes /\ trafficJob.prev \in Nat \cup {-1}
           /\ trafficJob.pc \in {"idle", "resolve", "snapshot", "daily", "proto", "monthly"}
           /\ \A d \in Devices :
                  /\ trafficReal[d] \in 0..MaxBytes /\ trafficCounter[d] \in 0..MaxBytes
                  /\ trafficDaily[d] \in Nat /\ trafficByProto[d] \in Nat /\ trafficMonthly[d] \in Nat
                  /\ trafficLast[d] \in SUBSET (0..MaxBytes) /\ trafficFresh[d] \in SUBSET (0..MaxBytes)
           /\ \A e \in trafficTodo : e.dev \in Devices /\ e.total \in 0..MaxBytes /\ e.proto = "wireguard"
<1>1. /\ MaxBytes \in Nat /\ MaxResets \in Nat /\ MaxFaults \in Nat /\ NoDevice \notin Devices
  BY DEF TrafficInv, TrafficAssumed, Traffic!BoundsAreNat, Traffic!OwnerIsUser
<1>2. /\ trafficJob \in Traffic!Job /\ trafficTodo \subseteq Traffic!Entry
  BY DEF TrafficInv, Traffic!TypeOK
<1>3. /\ trafficReal \in [Devices -> 0..MaxBytes] /\ trafficCounter \in [Devices -> 0..MaxBytes]
      /\ trafficDaily \in [Devices -> Nat] /\ trafficByProto \in [Devices -> Nat]
      /\ trafficMonthly \in [Devices -> Nat]
  BY DEF TrafficInv, Traffic!TypeOK
<1>4. /\ trafficLast \in [Devices -> SUBSET (0..MaxBytes)]
      /\ trafficFresh \in [Devices -> SUBSET (0..MaxBytes)]
  BY DEF TrafficInv, Traffic!TypeOK
<1>5. trafficJob.total \in 0..MaxBytes
  BY DEF TrafficInv, InPass
<1>6. \A e \in trafficTodo : e.dev \in Devices /\ e.total \in 0..MaxBytes /\ e.proto = "wireguard"
  BY <1>2 DEF TrafficInv, Waits, Traffic!Entry
<1>7. QED
  BY <1>1, <1>2, <1>3, <1>4, <1>5, <1>6 DEF Traffic!Job, Traffic!None

(* What a counter grew by is no more than it shows, and moves with it.     *)
LEMMA GrewIs ==
    \A t \in Nat, s \in Nat \cup {-1} :
        /\ Grew(t, s) \in Nat /\ Grew(t, s) <= t
        /\ Grew(t, t) = 0 /\ Grew(0, s) = 0
        /\ Grew(t + 1, s) <= Grew(t, s) + 1
        /\ s # -1 /\ s <= t => s + Grew(t, s) = t
        /\ s = -1 => Grew(t, s) = t
BY DEF Grew

LEMMA DeltaIsGrew ==
    ASSUME TrafficInv
    PROVE  Traffic!Delta(trafficJob) = Grew(trafficJob.total, trafficJob.prev)
BY DEF Traffic!Delta, Traffic!None, Grew

(* The snapshots the next pass measures from are totals or none.           *)
LEMMA BaseIs ==
    ASSUME TrafficInv, NEW d \in Devices
    PROVE  /\ \A s \in Base(Latest(d)) : s \in Nat \cup {-1}
           /\ \A s \in Base(trafficLast[d]) : s \in Nat \cup {-1}
           /\ Latest(d) \in SUBSET (0..MaxBytes)
           /\ Base(Latest(d)) # {}
BY TrafficTypes DEF Base, Latest

(* A device the step does not come to stays as it is.                      *)
SameFor(d) ==
    /\ trafficReal'[d] = trafficReal[d] /\ trafficCounter'[d] = trafficCounter[d]
    /\ trafficDaily'[d] = trafficDaily[d] /\ trafficByProto'[d] = trafficByProto[d]
    /\ trafficMonthly'[d] = trafficMonthly[d]

Untouched(d) ==
    /\ SameFor(d) /\ Latest(d)' = Latest(d)
    /\ trafficLast'[d] = trafficLast[d] \/ \A e \in trafficTodo' : e.dev # d
    /\ trafficFresh'[d] = trafficFresh[d] \/ Stage(d)' = "out"
    /\ \/ Stage(d)' = Stage(d)
       \/ Stage(d)' = "out" /\ (Stage(d) \in {"out", "snapshot"} \/ trafficLossy')
    /\ Stage(d)' # "out" => /\ trafficJob'.total = trafficJob.total
                            /\ trafficJob'.prev = trafficJob.prev
    /\ \A e \in trafficTodo' : e.dev = d => e \in trafficTodo
    /\ trafficLossy => trafficLossy'

LEMMA OthersStay ==
    ASSUME TrafficInv, NEW d \in Devices, Untouched(d),
           trafficLossy \in BOOLEAN, trafficLossy' \in BOOLEAN
    PROVE  TrafficOf(d)'
<1> USE TrafficTypes
<1>1. TrafficOf(d)
  BY DEF TrafficInv
<1>2. /\ Grew(trafficJob.total, trafficJob.prev) \in Nat
  <2>1. trafficJob.total \in Nat /\ trafficJob.prev \in Nat \cup {-1}
    OBVIOUS
  <2>2. QED
    BY <2>1, GrewIs
<1>3. Stage(d)' # "out" => trafficJob'.total = trafficJob.total /\ trafficJob'.prev = trafficJob.prev
  BY DEF Untouched
<1>4. Backed(d)'
  BY <1>1, <1>3 DEF TrafficOf, Backed, SameFor, Untouched
<1>5. InOrder(d)'
  BY <1>1, <1>2, <1>3 DEF TrafficOf, InOrder, SameFor, Untouched
<1>6. ASSUME ~trafficLossy' PROVE Exact(d)'
  <2>1. Exact(d) /\ ~trafficLossy
    BY <1>1, <1>6 DEF TrafficOf, Untouched
  <2>2. Stage(d)' # "out" => Before' = Before
    BY <1>3 DEF Before
  <2>3. \/ Stage(d)' = Stage(d)
        \/ Stage(d)' = "out" /\ Stage(d) \in {"out", "snapshot"}
    BY Zenon, <1>6 DEF Untouched
  <2>4. QED
    BY <2>1, <2>2, <2>3, <1>3 DEF Exact, SameFor, Untouched
<1>7. QED
  BY <1>4, <1>5, <1>6 DEF TrafficOf

(* What the tables say is never more than what was transferred.            *)
LEMMA OfDevice ==
    ASSUME TrafficInv, NEW d \in Devices
    PROVE  /\ Backed(d) /\ InOrder(d) /\ (~trafficLossy => Exact(d))
           /\ trafficLossy \in BOOLEAN
BY DEF TrafficInv, TrafficOf, Traffic!TypeOK

LEMMA TransferKeeps ==
    ASSUME TrafficInv, NEW d \in Devices, Traffic!Transfer(d)
    PROVE  TrafficInv'
<1> USE TrafficTypes
<1>1. /\ trafficReal[d] < MaxBytes
      /\ trafficReal' = [trafficReal EXCEPT ![d] = @ + 1]
      /\ trafficCounter' = [trafficCounter EXCEPT ![d] = @ + 1]
      /\ UNCHANGED <<trafficLast, trafficFresh, trafficDaily, trafficByProto,
                     trafficMonthly, trafficTodo, trafficJob, trafficResets,
                     trafficFaults, trafficLossy>>
  BY DEF Traffic!Transfer
<1>2. /\ trafficReal \in [Devices -> 0..MaxBytes] /\ trafficCounter \in [Devices -> 0..MaxBytes]
  BY DEF TrafficInv, Traffic!TypeOK
<1>3. /\ trafficReal'[d] = trafficReal[d] + 1 /\ trafficCounter'[d] = trafficCounter[d] + 1
  BY <1>1, <1>2
<1>4. /\ trafficCounter[d] <= trafficReal[d]
  BY OfDevice DEF Backed
<1>5. Traffic!TypeOK'
  <2>1. /\ trafficReal' \in [Devices -> 0..MaxBytes] /\ trafficCounter' \in [Devices -> 0..MaxBytes]
    BY <1>1, <1>2, <1>3, <1>4
  <2>2. QED
    BY Zenon, <1>1, <2>1 DEF TrafficInv, Traffic!TypeOK
<1>6. TrafficAssumed' /\ InPass' /\ Waits'
  BY <1>1 DEF TrafficInv, TrafficAssumed, InPass, Waits, Stage, Traffic!OwnerIsUser,
     Traffic!XrayAreDevices, Traffic!BoundsAreNat
<1>7. \A f \in Devices : Latest(f)' = Latest(f) /\ Stage(f)' = Stage(f)
  BY <1>1 DEF Latest, Stage
<1>8. ASSUME NEW f \in Devices, f # d PROVE TrafficOf(f)'
  <2>1. SameFor(f)
    BY <1>1, <1>2, <1>8 DEF SameFor
  <2>2. QED
    BY <2>1, <1>1, <1>7, OthersStay, OfDevice DEF Untouched
<1>9. TrafficOf(d)'
  <2>1. \A s \in Nat \cup {-1} :
           Grew(trafficCounter'[d], s) \in Nat /\ Grew(trafficCounter[d], s) \in Nat
           /\ Grew(trafficCounter'[d], s) <= Grew(trafficCounter[d], s) + 1
    <3>1. trafficCounter[d] \in Nat /\ trafficCounter[d] + 1 \in Nat
      OBVIOUS
    <3>2. QED
      BY <1>3, <3>1, GrewIs
  <2>2. Backed(d)'
    <3>1. trafficCounter'[d] <= trafficReal'[d] /\ trafficDaily'[d] <= trafficReal'[d]
      BY <1>1, <1>3, OfDevice DEF Backed
    <3>2. ASSUME NEW s \in Base(Latest(d))'
          PROVE  trafficDaily'[d] + Grew(trafficCounter'[d], s) <= trafficReal'[d]
      <4>1. s \in Base(Latest(d)) /\ s \in Nat \cup {-1}
        BY <1>7, <3>2, BaseIs DEF Base
      <4>2. trafficDaily[d] + Grew(trafficCounter[d], s) <= trafficReal[d]
        BY <4>1, OfDevice DEF Backed
      <4>3. Grew(trafficCounter'[d], s) \in Nat /\ Grew(trafficCounter[d], s) \in Nat
            /\ Grew(trafficCounter'[d], s) <= Grew(trafficCounter[d], s) + 1
        BY <2>1, <4>1
      <4>4. QED
        BY <1>1, <1>3, <4>2, <4>3
    <3>3. ASSUME NEW e \in trafficTodo', e.dev = d, NEW s \in Base(trafficLast[d])'
          PROVE  trafficDaily'[d] + Grew(e.total, s) + Grew(trafficCounter'[d], e.total)
                     <= trafficReal'[d]
      <4>1. e \in trafficTodo /\ e.total \in Nat
        BY <1>1, <3>3
      <4>2. s \in Base(trafficLast[d]) /\ s \in Nat \cup {-1}
        BY <1>1, <3>3, BaseIs DEF Base
      <4>3. trafficDaily[d] + Grew(e.total, s) + Grew(trafficCounter[d], e.total) <= trafficReal[d]
        BY <3>3, <4>1, <4>2, OfDevice DEF Backed
      <4>4. Grew(trafficCounter'[d], e.total) \in Nat /\ Grew(trafficCounter[d], e.total) \in Nat
            /\ Grew(trafficCounter'[d], e.total) <= Grew(trafficCounter[d], e.total) + 1
        BY <2>1, <4>1
      <4>5. Grew(e.total, s) \in Nat
        BY <4>1, <4>2, GrewIs
      <4>6. QED
        BY <1>1, <1>3, <4>3, <4>4, <4>5
    <3>4. ASSUME Stage(d)' \in {"snapshot", "daily"}
          PROVE  trafficDaily'[d] + Grew(trafficJob'.total, trafficJob'.prev)
                     + Grew(trafficCounter'[d], trafficJob'.total) <= trafficReal'[d]
      <4>1. trafficDaily[d] + Grew(trafficJob.total, trafficJob.prev)
                + Grew(trafficCounter[d], trafficJob.total) <= trafficReal[d]
        BY <1>7, <3>4, OfDevice DEF Backed
      <4>2. Grew(trafficCounter'[d], trafficJob.total) \in Nat
            /\ Grew(trafficCounter[d], trafficJob.total) \in Nat
            /\ Grew(trafficCounter'[d], trafficJob.total) <= Grew(trafficCounter[d], trafficJob.total) + 1
        BY <2>1
      <4>3. Grew(trafficJob.total, trafficJob.prev) \in Nat
        BY GrewIs
      <4>4. QED
        BY <1>1, <1>3, <4>1, <4>2, <4>3
    <3>5. QED
      BY <3>1, <3>2, <3>3, <3>4 DEF Backed
  <2>3. InOrder(d)'
    BY <1>1, <1>7, OfDevice DEF InOrder
  <2>4. ASSUME ~trafficLossy' PROVE Exact(d)'
    <3>1. Exact(d)
      BY <1>1, <2>4, OfDevice
    <3>2. Before' = Before
      BY <1>1 DEF Before
    <3>3. QED
      BY <1>1, <1>3, <1>7, <3>1, <3>2 DEF Exact
  <2>5. QED
    BY <2>2, <2>3, <2>4 DEF TrafficOf
<1>10. QED
  BY <1>5, <1>6, <1>8, <1>9 DEF TrafficInv

LEMMA ResetKeeps ==
    ASSUME TrafficInv, NEW S \in SUBSET Devices, Traffic!Reset(S)
    PROVE  TrafficInv'
<1> USE TrafficTypes
<1>1. /\ trafficResets < MaxResets /\ trafficResets' = trafficResets + 1
      /\ trafficCounter' = [d \in Devices |-> IF d \in S THEN 0 ELSE trafficCounter[d]]
      /\ trafficLossy' = TRUE
      /\ UNCHANGED <<trafficReal, trafficLast, trafficFresh, trafficDaily, trafficByProto,
                     trafficMonthly, trafficTodo, trafficJob, trafficFaults>>
  BY DEF Traffic!Reset
<1>2. Traffic!TypeOK'
  <2>1. trafficCounter' \in [Devices -> 0..MaxBytes]
    BY <1>1
  <2>2. trafficResets' \in 0..MaxResets /\ trafficLossy' \in BOOLEAN
    BY <1>1 DEF TrafficInv, Traffic!TypeOK
  <2>3. QED
    BY Zenon, <1>1, <2>1, <2>2 DEF TrafficInv, Traffic!TypeOK
<1>3. TrafficAssumed' /\ InPass' /\ Waits'
  BY <1>1 DEF TrafficInv, TrafficAssumed, InPass, Waits, Stage, Traffic!OwnerIsUser,
     Traffic!XrayAreDevices, Traffic!BoundsAreNat
<1>4. \A f \in Devices : Latest(f)' = Latest(f) /\ Stage(f)' = Stage(f)
  BY <1>1 DEF Latest, Stage
<1>5. ASSUME NEW d \in Devices PROVE TrafficOf(d)'
  <2>1. CASE d \notin S
    BY <1>1, <1>4, <2>1, OthersStay, OfDevice DEF SameFor, Untouched
  <2>2. CASE d \in S
    <3>1. trafficCounter'[d] = 0
      BY <1>1, <2>2
    <3>2. \A s \in Nat \cup {-1} :
             Grew(trafficCounter'[d], s) = 0 /\ Grew(trafficCounter[d], s) \in Nat
      BY <3>1, GrewIs
    <3>3. Backed(d)'
      <4>1. trafficCounter'[d] <= trafficReal'[d] /\ trafficDaily'[d] <= trafficReal'[d]
        BY <1>1, <3>1, OfDevice DEF Backed
      <4>2. ASSUME NEW s \in Base(Latest(d))'
            PROVE  trafficDaily'[d] + Grew(trafficCounter'[d], s) <= trafficReal'[d]
        <5>1. s \in Nat \cup {-1}
          BY <1>4, <4>2, BaseIs DEF Base
        <5>2. QED
          BY <1>1, <3>2, <4>1, <5>1
      <4>3. ASSUME NEW e \in trafficTodo', e.dev = d, NEW s \in Base(trafficLast[d])'
            PROVE  trafficDaily'[d] + Grew(e.total, s) + Grew(trafficCounter'[d], e.total)
                       <= trafficReal'[d]
        <5>1. e \in trafficTodo /\ e.total \in Nat
          BY <1>1, <4>3
        <5>2. s \in Base(trafficLast[d]) /\ s \in Nat \cup {-1}
          BY <1>1, <4>3, BaseIs DEF Base
        <5>3. trafficDaily[d] + Grew(e.total, s) + Grew(trafficCounter[d], e.total) <= trafficReal[d]
          BY <4>3, <5>1, <5>2, OfDevice DEF Backed
        <5>4. Grew(e.total, s) \in Nat /\ Grew(trafficCounter'[d], e.total) = 0
              /\ Grew(trafficCounter[d], e.total) \in Nat
          BY <3>2, <5>1, <5>2, GrewIs
        <5>5. QED
          BY <1>1, <5>3, <5>4
      <4>4. ASSUME Stage(d)' \in {"snapshot", "daily"}
            PROVE  trafficDaily'[d] + Grew(trafficJob'.total, trafficJob'.prev)
                       + Grew(trafficCounter'[d], trafficJob'.total) <= trafficReal'[d]
        <5>1. trafficDaily[d] + Grew(trafficJob.total, trafficJob.prev)
                  + Grew(trafficCounter[d], trafficJob.total) <= trafficReal[d]
          BY <1>4, <4>4, OfDevice DEF Backed
        <5>2. Grew(trafficCounter'[d], trafficJob.total) = 0
              /\ Grew(trafficCounter[d], trafficJob.total) \in Nat
              /\ Grew(trafficJob.total, trafficJob.prev) \in Nat
          <6>1. trafficJob.total \in Nat /\ trafficJob.prev \in Nat \cup {-1}
            OBVIOUS
          <6>2. QED
            BY <3>2, <6>1, GrewIs
        <5>3. QED
          BY <1>1, <5>1, <5>2
      <4>5. QED
        BY <4>1, <4>2, <4>3, <4>4 DEF Backed
    <3>4. InOrder(d)'
      BY <1>1, <1>4, OfDevice DEF InOrder
    <3>5. QED
      BY <1>1, <3>3, <3>4 DEF TrafficOf
  <2>3. QED
    BY <2>1, <2>2
<1>6. QED
  BY <1>2, <1>3, <1>5 DEF TrafficInv

LEMMA TrafficJobs ==
    ASSUME TrafficInv
    PROVE  LET next == [Traffic!NoJob EXCEPT !.pc = "resolve"]
           IN  /\ Traffic!NoJob \in Traffic!Job /\ next \in Traffic!Job
               /\ Traffic!NoJob.pc = "idle" /\ next.pc = "resolve"
               /\ Traffic!NoJob.dev = NoDevice /\ next.dev = NoDevice
               /\ Traffic!NoJob.total \in 0..MaxBytes /\ next.total \in 0..MaxBytes
               /\ \A pc \in {"daily", "proto", "monthly"} :
                      /\ [trafficJob EXCEPT !.pc = pc] \in Traffic!Job
                      /\ [trafficJob EXCEPT !.pc = pc].pc = pc
                      /\ [trafficJob EXCEPT !.pc = pc].dev = trafficJob.dev
                      /\ [trafficJob EXCEPT !.pc = pc].total = trafficJob.total
                      /\ [trafficJob EXCEPT !.pc = pc].prev = trafficJob.prev
BY TrafficTypes DEF Traffic!NoJob, Traffic!Job, Traffic!None

(* The bounds and the devices do not change.                               *)
LEMMA TrafficAssumedKept ==
    ASSUME TrafficAssumed
    PROVE  TrafficAssumed'
BY DEF TrafficAssumed, Traffic!OwnerIsUser, Traffic!XrayAreDevices, Traffic!BoundsAreNat

(* The fetched list has each device once.                                  *)
LEMMA CollectKeeps == ASSUME TrafficInv, Traffic!Collect PROVE TrafficInv'
<1> USE TrafficTypes
<1>1. /\ trafficJob.pc = "idle" /\ trafficTodo' = Traffic!Counters
      /\ trafficJob' = [Traffic!NoJob EXCEPT !.pc = "resolve"]
      /\ UNCHANGED <<trafficReal, trafficCounter, trafficResets, trafficLast, trafficFresh,
                     trafficDaily, trafficByProto, trafficMonthly, trafficFaults, trafficLossy>>
  BY DEF Traffic!Collect, Traffic!node
<1>2. trafficTodo' =
          {[dev |-> d, proto |-> "wireguard", total |-> trafficCounter[d]] : d \in Devices}
  BY <1>1 DEF Traffic!Counters, TrafficInv, TrafficAssumed
<1>3. /\ trafficJob' \in Traffic!Job /\ trafficJob'.pc = "resolve"
      /\ trafficJob'.dev = NoDevice /\ trafficJob'.total \in 0..MaxBytes
  BY <1>1, TrafficJobs
<1>4. trafficJob.dev = NoDevice /\ trafficTodo = {} /\ \A d \in Devices : trafficFresh[d] = {}
  BY <1>1 DEF TrafficInv, InPass
<1>5. Traffic!TypeOK'
  <2>1. trafficTodo' \subseteq Traffic!Entry
    BY <1>2 DEF Traffic!Entry
  <2>2. QED
    BY Zenon, <1>1, <1>3, <2>1 DEF TrafficInv, Traffic!TypeOK
<1>6. TrafficAssumed'
  BY TrafficAssumedKept DEF TrafficInv
<1>7. InPass'
  BY <1>3 DEF InPass
<1>8. \A d \in Devices : /\ Stage(d)' = "out" /\ Stage(d) = "out"
                         /\ Latest(d)' = trafficLast[d] /\ Latest(d) = trafficLast[d]
  BY <1>1, <1>3, <1>4 DEF Stage, Latest
<1>9. Waits'
  BY <1>1, <1>2, <1>4, <1>8 DEF Waits
<1>10. ASSUME NEW d \in Devices PROVE TrafficOf(d)'
  <2>1. \A e \in trafficTodo' : e.dev = d => e.total = trafficCounter[d]
    BY <1>2
  <2>2. Backed(d)'
    <3>1. ASSUME NEW e \in trafficTodo', e.dev = d, NEW s \in Base(trafficLast[d])
          PROVE  trafficDaily[d] + Grew(e.total, s) + Grew(trafficCounter[d], e.total)
                     <= trafficReal[d]
      <4>1. s \in Nat \cup {-1} /\ trafficCounter[d] \in Nat
        BY BaseIs
      <4>2. e.total = trafficCounter[d] /\ Grew(trafficCounter[d], e.total) = 0
            /\ Grew(trafficCounter[d], s) \in Nat
        BY <2>1, <3>1, <4>1, GrewIs
      <4>3. trafficDaily[d] + Grew(trafficCounter[d], s) <= trafficReal[d]
        BY <1>8, OfDevice DEF Backed
      <4>4. QED
        BY <4>2, <4>3
    <3>2. QED
      BY <1>1, <1>8, <3>1, OfDevice DEF Backed, Base
  <2>3. InOrder(d)'
    BY <1>1, <1>8, OfDevice DEF InOrder
  <2>4. ASSUME ~trafficLossy' PROVE Exact(d)'
    <3>1. Exact(d) /\ trafficDaily[d] <= trafficReal[d]
      BY <1>1, <2>4, OfDevice DEF Backed
    <3>2. QED
      BY <1>1, <1>8, <2>1, <3>1 DEF Exact
  <2>5. QED
    BY <2>2, <2>3, <2>4 DEF TrafficOf
<1>11. QED
  BY <1>5, <1>6, <1>7, <1>9, <1>10 DEF TrafficInv

(* What is measured is what the device's counter showed when the list was  *)
(* fetched, from one of its newest snapshots.                              *)
LEMMA ResolveKeeps == ASSUME TrafficInv, Traffic!Resolve PROVE TrafficInv'
<1> USE TrafficTypes
<1>a. PICK e \in Traffic!Heads : \E prev \in Traffic!Previous(e.dev) :
          /\ trafficTodo' = trafficTodo \ {e}
          /\ trafficJob' = [pc |-> "snapshot", dev |-> e.dev, total |-> e.total, prev |-> prev]
  BY DEF Traffic!Resolve
<1>1. PICK prev \in Traffic!Previous(e.dev) :
          /\ trafficTodo' = trafficTodo \ {e}
          /\ trafficJob' = [pc |-> "snapshot", dev |-> e.dev, total |-> e.total, prev |-> prev]
  BY <1>a
<1>2. /\ trafficJob.pc = "resolve"
      /\ UNCHANGED <<trafficReal, trafficCounter, trafficResets, trafficLast, trafficFresh,
                     trafficDaily, trafficByProto, trafficMonthly, trafficFaults, trafficLossy>>
  BY DEF Traffic!Resolve, Traffic!node
<1>3. e \in trafficTodo /\ e.dev \in Devices /\ e.total \in 0..MaxBytes
  BY <1>1 DEF Traffic!Heads
<1>4. /\ prev \in Base(trafficLast[e.dev]) /\ prev \in Nat \cup {-1}
      /\ trafficJob.dev = NoDevice
      /\ trafficFresh[e.dev] = {} /\ Latest(e.dev) = trafficLast[e.dev]
  <2>1. prev \in Base(trafficLast[e.dev])
    BY <1>1, <1>3 DEF Traffic!Previous, Base, Traffic!None
  <2>2. QED
    BY <1>2, <1>3, <2>1, BaseIs DEF TrafficInv, InPass, Waits, Latest
<1>5. /\ trafficJob' \in Traffic!Job /\ trafficJob'.pc = "snapshot" /\ trafficJob'.dev = e.dev
      /\ trafficJob'.total = e.total /\ trafficJob'.prev = prev
  BY <1>1, <1>3, <1>4 DEF Traffic!Job, Traffic!None
<1>6. Traffic!TypeOK'
  <2>1. trafficTodo' \subseteq Traffic!Entry
    BY <1>1 DEF TrafficInv, Traffic!TypeOK
  <2>2. QED
    BY Zenon, <1>2, <1>5, <2>1 DEF TrafficInv, Traffic!TypeOK
<1>7. TrafficAssumed'
  BY TrafficAssumedKept DEF TrafficInv
<1>8. InPass'
  BY <1>3, <1>5 DEF InPass
<1>9. \A d \in Devices : /\ Stage(d)' = IF d = e.dev THEN "snapshot" ELSE "out"
                         /\ Stage(d) = "out" /\ Latest(d)' = Latest(d)
  BY <1>2, <1>4, <1>5 DEF Stage, Latest
<1>10. Waits'
  BY <1>1, <1>2, <1>3, <1>9 DEF TrafficInv, Waits
<1>11. ASSUME NEW d \in Devices, d # e.dev PROVE TrafficOf(d)'
  BY <1>1, <1>2, <1>9, <1>11, OthersStay, OfDevice DEF Untouched, SameFor
<1>12. TrafficOf(e.dev)'
  <2>1. \A g \in trafficTodo' : g.dev # e.dev
    BY <1>1, <1>3 DEF TrafficInv, Waits
  <2>2. Backed(e.dev)'
    <3>1. trafficDaily[e.dev] + Grew(e.total, prev) + Grew(trafficCounter[e.dev], e.total)
              <= trafficReal[e.dev]
      BY <1>3, <1>4, OfDevice DEF Backed
    <3>2. QED
      BY <1>2, <1>3, <1>5, <1>9, <2>1, <3>1, OfDevice DEF Backed, Base
  <2>3. InOrder(e.dev)'
    BY <1>2, <1>3, <1>4, <1>9, OfDevice DEF InOrder
  <2>4. ASSUME ~trafficLossy' PROVE Exact(e.dev)'
    <3>1. Exact(e.dev)
      BY <1>2, <1>3, <2>4, OfDevice
    <3>2. Before' = trafficDaily[e.dev] /\ trafficDaily[e.dev] <= e.total
      BY <1>3, <1>4, <1>5, <1>9, <3>1 DEF Exact, Before, Base
    <3>3. QED
      BY <1>2, <1>3, <1>5, <1>9, <2>1, <3>1, <3>2 DEF Exact
  <2>5. QED
    BY <2>2, <2>3, <2>4 DEF TrafficOf
<1>13. QED
  BY <1>6, <1>7, <1>8, <1>10, <1>11, <1>12 DEF TrafficInv

(* The pass has one counter of a device: the one at hand.                  *)
LEMMA AtHand ==
    ASSUME TrafficInv, NEW d \in Devices, Stage(d) # "out"
    PROVE  \A e \in trafficTodo : e.dev # d
BY DEF TrafficInv, Waits

LEMMA SnapshotKeeps == ASSUME TrafficInv, Traffic!CreateSnapshot PROVE TrafficInv'
<1> USE TrafficTypes
<1>1. PICK d \in Devices : /\ trafficJob.dev = d /\ trafficJob.pc = "snapshot"
                          /\ Stage(d) = "snapshot" /\ d # NoDevice
  BY DEF Traffic!CreateSnapshot, TrafficInv, InPass, Stage
<1>2. /\ trafficJob' = [trafficJob EXCEPT !.pc = "daily"]
      /\ trafficFresh' = [trafficFresh EXCEPT ![d] = @ \cup {trafficJob.total}]
      /\ UNCHANGED <<trafficReal, trafficCounter, trafficResets, trafficLast, trafficDaily,
                     trafficByProto, trafficMonthly,
                     trafficTodo, trafficFaults, trafficLossy>>
  BY <1>1 DEF Traffic!CreateSnapshot, Traffic!node
<1>3. /\ trafficJob' \in Traffic!Job /\ trafficJob'.pc = "daily" /\ trafficJob'.dev = d
      /\ trafficJob'.total = trafficJob.total /\ trafficJob'.prev = trafficJob.prev
  BY <1>1, <1>2, TrafficJobs
<1>4. trafficFresh \in [Devices -> SUBSET (0..MaxBytes)]
  BY DEF TrafficInv, Traffic!TypeOK
<1>5. trafficFresh[d] = {}
  BY <1>1, OfDevice DEF InOrder
<1>6. /\ trafficFresh' \in [Devices -> SUBSET (0..MaxBytes)] /\ trafficFresh'[d] = {trafficJob.total}
      /\ \A f \in Devices \ {d} : trafficFresh'[f] = trafficFresh[f]
  BY <1>1, <1>2, <1>4, <1>5
<1>7. Traffic!TypeOK'
  BY Zenon, <1>2, <1>3, <1>6 DEF TrafficInv, Traffic!TypeOK
<1>8. TrafficAssumed'
  BY TrafficAssumedKept DEF TrafficInv
<1>9. InPass'
  BY <1>1, <1>3 DEF InPass
<1>10. /\ \A f \in Devices \ {d} : Stage(f)' = Stage(f) /\ Latest(f)' = Latest(f)
       /\ Stage(d)' = "daily" /\ Latest(d)' = {trafficJob.total} /\ Latest(d) = trafficLast[d]
       /\ \A f \in Devices : Stage(f) = "out" => Stage(f)' = "out"
  BY <1>1, <1>2, <1>3, <1>5, <1>6 DEF Stage, Latest
<1>11. \A e \in trafficTodo : e.dev # d
  BY <1>1, AtHand
<1>12. Waits'
  BY <1>2, <1>6, <1>10, <1>11 DEF TrafficInv, Waits
<1>13. ASSUME NEW f \in Devices, f # d PROVE TrafficOf(f)'
  BY <1>2, <1>3, <1>6, <1>10, <1>13, OthersStay, OfDevice DEF Untouched, SameFor
<1>14. TrafficOf(d)'
  <2>1. /\ trafficJob.total \in Nat /\ trafficJob.prev \in Nat \cup {-1}
        /\ trafficCounter[d] \in Nat /\ trafficDaily[d] \in Nat /\ trafficReal[d] \in Nat
    BY <1>1
  <2>2. /\ trafficDaily[d] + Grew(trafficJob.total, trafficJob.prev)
               + Grew(trafficCounter[d], trafficJob.total) <= trafficReal[d]
        /\ Grew(trafficJob.total, trafficJob.prev) \in Nat
        /\ Grew(trafficCounter[d], trafficJob.total) \in Nat
    BY <1>1, <2>1, OfDevice, GrewIs DEF Backed
  <2>3. Backed(d)'
    <3>1. trafficDaily[d] + Grew(trafficCounter[d], trafficJob.total) <= trafficReal[d]
      BY <2>1, <2>2
    <3>2. Base(Latest(d))' = {trafficJob.total}
      BY <1>10 DEF Base
    <3>3. QED
      BY <1>1, <1>2, <1>3, <1>10, <1>11, <2>2, <3>1, <3>2, OfDevice DEF Backed
  <2>4. InOrder(d)'
    BY <1>1, <1>2, <1>3, <1>6, <1>10, OfDevice DEF InOrder
  <2>5. ASSUME ~trafficLossy' PROVE Exact(d)'
    <3>1. Exact(d)
      BY <1>1, <1>2, <2>5, OfDevice
    <3>2. Before' = Before
      BY <1>3 DEF Before
    <3>3. QED
      BY <1>1, <1>2, <1>3, <1>10, <1>11, <3>1, <3>2 DEF Exact
  <2>6. QED
    BY <2>3, <2>4, <2>5 DEF TrafficOf
<1>15. QED
  BY <1>7, <1>8, <1>9, <1>12, <1>13, <1>14 DEF TrafficInv

(* The daily table is the first to grow.                                   *)
LEMMA DailyKeeps == ASSUME TrafficInv, Traffic!AddDaily PROVE TrafficInv'
<1> USE TrafficTypes
<1>1. PICK d \in Devices : /\ trafficJob.dev = d /\ trafficJob.pc = "daily"
                          /\ Stage(d) = "daily" /\ d # NoDevice
  BY DEF Traffic!AddDaily, TrafficInv, InPass, Stage
<1>2. /\ trafficJob' = [trafficJob EXCEPT !.pc = "proto"]
      /\ trafficDaily' = [trafficDaily EXCEPT ![d] = @ + Grew(trafficJob.total, trafficJob.prev)]
      /\ UNCHANGED <<trafficReal, trafficCounter, trafficResets, trafficLast, trafficFresh,
                     trafficByProto, trafficMonthly,
                     trafficTodo, trafficFaults, trafficLossy>>
  BY <1>1, DeltaIsGrew DEF Traffic!AddDaily, Traffic!node
<1>3. /\ trafficJob' \in Traffic!Job /\ trafficJob'.pc = "proto" /\ trafficJob'.dev = d
      /\ trafficJob'.total = trafficJob.total /\ trafficJob'.prev = trafficJob.prev
  BY <1>1, <1>2, TrafficJobs
<1>4. trafficDaily \in [Devices -> Nat]
  BY DEF TrafficInv, Traffic!TypeOK
<1>5. /\ trafficJob.total \in Nat /\ trafficJob.prev \in Nat \cup {-1} /\ Grew(trafficJob.total, trafficJob.prev) \in Nat
      /\ trafficCounter[d] \in Nat /\ trafficReal[d] \in Nat /\ trafficDaily[d] \in Nat
      /\ trafficByProto[d] \in Nat /\ trafficMonthly[d] \in Nat
  <2>1. trafficJob.total \in Nat /\ trafficJob.prev \in Nat \cup {-1}
    OBVIOUS
  <2>2. Grew(trafficJob.total, trafficJob.prev) \in Nat
    BY <2>1, GrewIs
  <2>3. QED
    BY <1>1, <2>1, <2>2
<1>6. /\ trafficDaily' \in [Devices -> Nat] /\ trafficDaily'[d] = trafficDaily[d] + Grew(trafficJob.total, trafficJob.prev)
      /\ \A f \in Devices \ {d} : trafficDaily'[f] = trafficDaily[f]
  BY <1>1, <1>2, <1>4, <1>5
<1>7. Traffic!TypeOK'
  BY Zenon, <1>2, <1>3, <1>6 DEF TrafficInv, Traffic!TypeOK
<1>8. TrafficAssumed'
  BY TrafficAssumedKept DEF TrafficInv
<1>9. InPass'
  BY <1>1, <1>3 DEF InPass
<1>10. /\ \A f \in Devices \ {d} : Stage(f)' = Stage(f)
       /\ \A f \in Devices : Latest(f)' = Latest(f)
       /\ Stage(d)' = "proto" /\ Latest(d) = {trafficJob.total}
       /\ \A f \in Devices : Stage(f) = "out" => Stage(f)' = "out"
       /\ trafficFresh[d] = {trafficJob.total}
  BY <1>1, <1>2, <1>3, OfDevice DEF Stage, Latest, InOrder
<1>11. \A e \in trafficTodo : e.dev # d
  BY <1>1, AtHand
<1>12. Waits'
  BY <1>2, <1>10, <1>11 DEF TrafficInv, Waits
<1>13. ASSUME NEW f \in Devices, f # d PROVE TrafficOf(f)'
  <2>1. SameFor(f) /\ Latest(f)' = Latest(f) /\ Stage(f)' = Stage(f)
    BY <1>2, <1>6, <1>10, <1>13 DEF SameFor
  <2>2. Stage(f)' = "out"
    BY <1>3, <1>13 DEF Stage
  <2>3. QED
    BY <1>2, <2>1, <2>2, OthersStay, OfDevice DEF Untouched
<1>14. TrafficOf(d)'
  <2>1. /\ trafficDaily[d] + Grew(trafficJob.total, trafficJob.prev)
               + Grew(trafficCounter[d], trafficJob.total) <= trafficReal[d]
        /\ Grew(trafficCounter[d], trafficJob.total) \in Nat
    BY <1>1, <1>5, OfDevice, GrewIs DEF Backed
  <2>2. Backed(d)'
    <3>1. /\ trafficDaily'[d] + Grew(trafficCounter[d], trafficJob.total) <= trafficReal[d]
          /\ trafficDaily'[d] <= trafficReal[d]
      BY <1>5, <1>6, <2>1
    <3>2. Base(Latest(d))' = {trafficJob.total}
      BY <1>10 DEF Base
    <3>3. QED
      BY <1>1, <1>2, <1>10, <1>11, <3>1, <3>2, OfDevice DEF Backed
  <2>3. InOrder(d)'
    <3>1. InOrder(d)
      BY <1>1, OfDevice
    <3>2. QED
      BY <1>1, <1>2, <1>3, <1>5, <1>6, <1>10, <3>1 DEF InOrder
  <2>4. ASSUME ~trafficLossy' PROVE Exact(d)'
    <3>1. Exact(d)
      BY <1>1, <1>2, <2>4, OfDevice
    <3>2. /\ Before \in Nat /\ Before <= trafficJob.total
          /\ Before + Grew(trafficJob.total, trafficJob.prev) = trafficJob.total
      <4>1. Before \in Nat /\ Before <= trafficJob.total
        BY <1>1, <1>5, <3>1 DEF Exact, Before
      <4>2. CASE trafficJob.prev = -1
        <5>1. Before = 0
          BY <4>2 DEF Before
        <5>2. Grew(trafficJob.total, trafficJob.prev) = trafficJob.total
          BY <1>5, <4>2, GrewIs
        <5>3. QED
          BY <1>5, <5>1, <5>2
      <4>3. CASE trafficJob.prev # -1
        BY <1>5, <4>1, <4>3, GrewIs DEF Before
      <4>4. QED
        BY <4>1, <4>2, <4>3
    <3>3. Before' = Before
      BY <1>3 DEF Before
    <3>4. QED
      BY <1>1, <1>2, <1>3, <1>5, <1>6, <1>10, <1>11, <3>1, <3>2, <3>3 DEF Exact
  <2>5. QED
    BY <2>2, <2>3, <2>4 DEF TrafficOf
<1>15. QED
  BY <1>7, <1>8, <1>9, <1>12, <1>13, <1>14 DEF TrafficInv

(* The other two follow by as much.                                        *)
LEMMA ProtocolKeeps == ASSUME TrafficInv, Traffic!AddProtocol PROVE TrafficInv'
<1> USE TrafficTypes
<1>1. PICK d \in Devices : /\ trafficJob.dev = d /\ trafficJob.pc = "proto"
                          /\ Stage(d) = "proto" /\ d # NoDevice
  BY DEF Traffic!AddProtocol, TrafficInv, InPass, Stage
<1>2. /\ trafficJob' = [trafficJob EXCEPT !.pc = "monthly"]
      /\ trafficByProto' = [trafficByProto EXCEPT ![d] = @ + Grew(trafficJob.total, trafficJob.prev)]
      /\ UNCHANGED <<trafficReal, trafficCounter, trafficResets, trafficLast, trafficFresh,
                     trafficDaily, trafficMonthly,
                     trafficTodo, trafficFaults, trafficLossy>>
  BY <1>1, DeltaIsGrew DEF Traffic!AddProtocol, Traffic!node
<1>3. /\ trafficJob' \in Traffic!Job /\ trafficJob'.pc = "monthly" /\ trafficJob'.dev = d
      /\ trafficJob'.total = trafficJob.total /\ trafficJob'.prev = trafficJob.prev
  BY <1>1, <1>2, TrafficJobs
<1>4. trafficByProto \in [Devices -> Nat]
  BY DEF TrafficInv, Traffic!TypeOK
<1>5. /\ trafficJob.total \in Nat /\ trafficJob.prev \in Nat \cup {-1} /\ Grew(trafficJob.total, trafficJob.prev) \in Nat
      /\ trafficCounter[d] \in Nat /\ trafficReal[d] \in Nat /\ trafficDaily[d] \in Nat
      /\ trafficByProto[d] \in Nat /\ trafficMonthly[d] \in Nat
  <2>1. trafficJob.total \in Nat /\ trafficJob.prev \in Nat \cup {-1}
    OBVIOUS
  <2>2. Grew(trafficJob.total, trafficJob.prev) \in Nat
    BY <2>1, GrewIs
  <2>3. QED
    BY <1>1, <2>1, <2>2
<1>6. /\ trafficByProto' \in [Devices -> Nat] /\ trafficByProto'[d] = trafficByProto[d] + Grew(trafficJob.total, trafficJob.prev)
      /\ \A f \in Devices \ {d} : trafficByProto'[f] = trafficByProto[f]
  BY <1>1, <1>2, <1>4, <1>5
<1>7. Traffic!TypeOK'
  BY Zenon, <1>2, <1>3, <1>6 DEF TrafficInv, Traffic!TypeOK
<1>8. TrafficAssumed'
  BY TrafficAssumedKept DEF TrafficInv
<1>9. InPass'
  BY <1>1, <1>3 DEF InPass
<1>10. /\ \A f \in Devices \ {d} : Stage(f)' = Stage(f)
       /\ \A f \in Devices : Latest(f)' = Latest(f)
       /\ Stage(d)' = "monthly" /\ Latest(d) = {trafficJob.total}
       /\ \A f \in Devices : Stage(f) = "out" => Stage(f)' = "out"
       /\ trafficFresh[d] = {trafficJob.total}
  BY <1>1, <1>2, <1>3, OfDevice DEF Stage, Latest, InOrder
<1>11. \A e \in trafficTodo : e.dev # d
  BY <1>1, AtHand
<1>12. Waits'
  BY <1>2, <1>10, <1>11 DEF TrafficInv, Waits
<1>13. ASSUME NEW f \in Devices, f # d PROVE TrafficOf(f)'
  <2>1. SameFor(f) /\ Latest(f)' = Latest(f) /\ Stage(f)' = Stage(f)
    BY <1>2, <1>6, <1>10, <1>13 DEF SameFor
  <2>2. Stage(f)' = "out"
    BY <1>3, <1>13 DEF Stage
  <2>3. QED
    BY <1>2, <2>1, <2>2, OthersStay, OfDevice DEF Untouched
<1>14. TrafficOf(d)'
  <2>2. Backed(d)'
    <3>1. Backed(d) /\ Base(Latest(d))' = Base(Latest(d))
      BY <1>1, <1>10, OfDevice DEF Base
    <3>2. QED
      BY <1>2, <1>10, <1>11, <3>1 DEF Backed
  <2>3. InOrder(d)'
    <3>1. InOrder(d)
      BY <1>1, OfDevice
    <3>2. QED
      BY <1>1, <1>2, <1>3, <1>5, <1>6, <1>10, <3>1 DEF InOrder
  <2>4. ASSUME ~trafficLossy' PROVE Exact(d)'
    <3>1. Exact(d)
      BY <1>1, <1>2, <2>4, OfDevice
    <3>2. /\ Before \in Nat /\ Before <= trafficJob.total
          /\ Before + Grew(trafficJob.total, trafficJob.prev) = trafficJob.total
      <4>1. Before \in Nat /\ Before <= trafficJob.total
        BY <1>1, <1>5, <3>1 DEF Exact, Before
      <4>2. CASE trafficJob.prev = -1
        <5>1. Before = 0
          BY <4>2 DEF Before
        <5>2. Grew(trafficJob.total, trafficJob.prev) = trafficJob.total
          BY <1>5, <4>2, GrewIs
        <5>3. QED
          BY <1>5, <5>1, <5>2
      <4>3. CASE trafficJob.prev # -1
        BY <1>5, <4>1, <4>3, GrewIs DEF Before
      <4>4. QED
        BY <4>1, <4>2, <4>3
    <3>3. Before' = Before
      BY <1>3 DEF Before
    <3>4. QED
      BY <1>1, <1>2, <1>3, <1>5, <1>6, <1>10, <1>11, <3>1, <3>2, <3>3 DEF Exact
  <2>5. QED
    BY <2>2, <2>3, <2>4 DEF TrafficOf
<1>15. QED
  BY <1>7, <1>8, <1>9, <1>12, <1>13, <1>14 DEF TrafficInv

(* With the last of them the three tables agree again.                     *)
LEMMA MonthlyKeeps == ASSUME TrafficInv, Traffic!AddMonthly PROVE TrafficInv'
<1> USE TrafficTypes
<1>1. PICK d \in Devices : /\ trafficJob.dev = d /\ trafficJob.pc = "monthly"
                          /\ Stage(d) = "monthly" /\ d # NoDevice
  BY DEF Traffic!AddMonthly, TrafficInv, InPass, Stage
<1>2. /\ trafficJob' = [Traffic!NoJob EXCEPT !.pc = "resolve"]
      /\ trafficMonthly' = [trafficMonthly EXCEPT ![d] = @ + Grew(trafficJob.total, trafficJob.prev)]
      /\ UNCHANGED <<trafficReal, trafficCounter, trafficResets, trafficLast, trafficFresh,
                     trafficDaily, trafficByProto,
                     trafficTodo, trafficFaults, trafficLossy>>
  BY <1>1, DeltaIsGrew DEF Traffic!AddMonthly, Traffic!node
<1>3. /\ trafficJob' \in Traffic!Job /\ trafficJob'.pc = "resolve" /\ trafficJob'.dev = NoDevice
      /\ trafficJob'.total \in 0..MaxBytes
  BY <1>2, TrafficJobs
<1>4. trafficMonthly \in [Devices -> Nat]
  BY DEF TrafficInv, Traffic!TypeOK
<1>5. /\ trafficJob.total \in Nat /\ trafficJob.prev \in Nat \cup {-1} /\ Grew(trafficJob.total, trafficJob.prev) \in Nat
      /\ trafficCounter[d] \in Nat /\ trafficReal[d] \in Nat /\ trafficDaily[d] \in Nat
      /\ trafficByProto[d] \in Nat /\ trafficMonthly[d] \in Nat
  <2>1. trafficJob.total \in Nat /\ trafficJob.prev \in Nat \cup {-1}
    OBVIOUS
  <2>2. Grew(trafficJob.total, trafficJob.prev) \in Nat
    BY <2>1, GrewIs
  <2>3. QED
    BY <1>1, <2>1, <2>2
<1>6. /\ trafficMonthly' \in [Devices -> Nat] /\ trafficMonthly'[d] = trafficMonthly[d] + Grew(trafficJob.total, trafficJob.prev)
      /\ \A f \in Devices \ {d} : trafficMonthly'[f] = trafficMonthly[f]
  BY <1>1, <1>2, <1>4, <1>5
<1>7. Traffic!TypeOK'
  BY Zenon, <1>2, <1>3, <1>6 DEF TrafficInv, Traffic!TypeOK
<1>8. TrafficAssumed'
  BY TrafficAssumedKept DEF TrafficInv
<1>9. InPass'
  BY <1>1, <1>3 DEF InPass
<1>10. /\ \A f \in Devices \ {d} : Stage(f)' = Stage(f)
       /\ \A f \in Devices : Latest(f)' = Latest(f)
       /\ Stage(d)' = "out" /\ Latest(d) = {trafficJob.total}
       /\ \A f \in Devices : Stage(f) = "out" => Stage(f)' = "out"
       /\ trafficFresh[d] = {trafficJob.total}
  BY <1>1, <1>2, <1>3, OfDevice DEF Stage, Latest, InOrder
<1>11. \A e \in trafficTodo : e.dev # d
  BY <1>1, AtHand
<1>12. Waits'
  BY <1>2, <1>10, <1>11 DEF TrafficInv, Waits
<1>13. ASSUME NEW f \in Devices, f # d PROVE TrafficOf(f)'
  <2>1. SameFor(f) /\ Latest(f)' = Latest(f) /\ Stage(f)' = Stage(f)
    BY <1>2, <1>6, <1>10, <1>13 DEF SameFor
  <2>2. Stage(f)' = "out"
    BY <1>3, <1>13 DEF Stage
  <2>3. QED
    BY <1>2, <2>1, <2>2, OthersStay, OfDevice DEF Untouched
<1>14. TrafficOf(d)'
  <2>2. Backed(d)'
    <3>1. Backed(d) /\ Base(Latest(d))' = Base(Latest(d))
      BY <1>1, <1>10, OfDevice DEF Base
    <3>2. QED
      BY <1>2, <1>10, <1>11, <3>1 DEF Backed
  <2>3. InOrder(d)'
    <3>1. InOrder(d)
      BY <1>1, OfDevice
    <3>2. QED
      BY <1>1, <1>2, <1>5, <1>6, <1>10, <3>1 DEF InOrder
  <2>4. ASSUME ~trafficLossy' PROVE Exact(d)'
    <3>1. Exact(d)
      BY <1>1, <1>2, <2>4, OfDevice
    <3>2. /\ Before \in Nat /\ Before <= trafficJob.total
          /\ Before + Grew(trafficJob.total, trafficJob.prev) = trafficJob.total
      <4>1. Before \in Nat /\ Before <= trafficJob.total
        BY <1>1, <1>5, <3>1 DEF Exact, Before
      <4>2. CASE trafficJob.prev = -1
        <5>1. Before = 0
          BY <4>2 DEF Before
        <5>2. Grew(trafficJob.total, trafficJob.prev) = trafficJob.total
          BY <1>5, <4>2, GrewIs
        <5>3. QED
          BY <1>5, <5>1, <5>2
      <4>3. CASE trafficJob.prev # -1
        BY <1>5, <4>1, <4>3, GrewIs DEF Before
      <4>4. QED
        BY <4>1, <4>2, <4>3
    <3>4. QED
      BY <1>1, <1>2, <1>3, <1>5, <1>6, <1>10, <1>11, <3>1, <3>2 DEF Exact
  <2>5. QED
    BY <2>2, <2>3, <2>4 DEF TrafficOf
<1>15. QED
  BY <1>7, <1>8, <1>9, <1>12, <1>13, <1>14 DEF TrafficInv

(* The snapshots of a pass that is over are the newest ones.               *)
LEMMA PassOver ==
    ASSUME TrafficInv,
           trafficLast' = Traffic!Newest, trafficFresh' = [d \in Devices |-> {}],
           trafficJob' = Traffic!NoJob, trafficTodo' = {},
           UNCHANGED <<trafficReal, trafficCounter, trafficResets, trafficDaily,
                       trafficByProto, trafficMonthly>>,
           trafficFaults' \in 0..MaxFaults, trafficLossy' \in BOOLEAN,
           trafficLossy => trafficLossy',
           trafficLossy' \/ trafficJob.pc \in {"idle", "resolve", "snapshot"}
    PROVE  TrafficInv'
<1> USE TrafficTypes
<1>1. /\ trafficLast' \in [Devices -> SUBSET (0..MaxBytes)]
      /\ trafficFresh' \in [Devices -> SUBSET (0..MaxBytes)]
      /\ \A d \in Devices : trafficFresh'[d] = {} /\ trafficLast'[d] = Latest(d)
  BY DEF Traffic!Newest, Latest
<1>2. /\ trafficJob' \in Traffic!Job /\ trafficJob'.pc = "idle" /\ trafficJob'.dev = NoDevice
      /\ trafficJob'.total \in 0..MaxBytes
  BY TrafficJobs
<1>3. Traffic!TypeOK'
  BY <1>1, <1>2 DEF TrafficInv, Traffic!TypeOK
<1>4. TrafficAssumed'
  BY TrafficAssumedKept DEF TrafficInv
<1>5. InPass' /\ Waits'
  BY <1>1, <1>2 DEF InPass, Waits
<1>6. ASSUME NEW d \in Devices PROVE TrafficOf(d)'
  <2>1. Stage(d)' = "out" /\ Latest(d)' = Latest(d)
    BY <1>1, <1>2 DEF Stage, Latest
  <2>2. Stage(d) \in {"out", "snapshot"} \/ trafficLossy'
    BY DEF Stage, TrafficInv, InPass
  <2>3. SameFor(d)
    BY DEF SameFor
  <2>4. QED
    BY <1>1, <2>1, <2>2, <2>3, OthersStay, OfDevice DEF Untouched
<1>7. QED
  BY <1>3, <1>4, <1>5, <1>6 DEF TrafficInv

LEMMA PassEnds == ASSUME TrafficInv, Traffic!EndPass PROVE TrafficInv'
BY PassOver, OfDevice, TrafficTypes DEF Traffic!EndPass, Traffic!node, TrafficInv, Traffic!TypeOK

LEMMA RestartKeeps == ASSUME TrafficInv, Traffic!Restart PROVE TrafficInv'
<1>1. trafficFaults' \in 0..MaxFaults /\ trafficLossy \in BOOLEAN /\ trafficLossy' \in BOOLEAN
  BY TrafficTypes DEF Traffic!Restart, Traffic!Fault, TrafficInv, Traffic!TypeOK, Traffic!Adding
<1>2. trafficLossy' \/ trafficJob.pc \in {"idle", "resolve", "snapshot"}
  BY <1>1, TrafficTypes DEF Traffic!Restart, Traffic!Adding
<1>3. QED
  BY <1>1, <1>2, PassOver DEF Traffic!Restart, Traffic!node

(* What is skipped is measured by the next pass.                           *)
LEMMA PassShrinks ==
    ASSUME TrafficInv, trafficTodo' \subseteq trafficTodo,
           UNCHANGED <<trafficReal, trafficCounter, trafficResets, trafficLast, trafficFresh,
                       trafficDaily, trafficByProto, trafficMonthly>>,
           trafficFaults' \in 0..MaxFaults, trafficLossy' \in BOOLEAN,
           trafficLossy => trafficLossy',
           \/ trafficJob' = trafficJob
           \/ /\ trafficJob' = [Traffic!NoJob EXCEPT !.pc = "resolve"]
              /\ trafficLossy' \/ trafficJob.pc \in {"idle", "resolve", "snapshot"}
    PROVE  TrafficInv'
<1> USE TrafficTypes
<1>1. /\ trafficJob' \in Traffic!Job /\ trafficJob'.total \in 0..MaxBytes
      /\ trafficJob' # trafficJob => trafficJob'.pc = "resolve" /\ trafficJob'.dev = NoDevice
  BY TrafficJobs
<1>2. Traffic!TypeOK'
  <2>1. trafficTodo' \subseteq Traffic!Entry
    BY DEF TrafficInv, Traffic!TypeOK
  <2>2. QED
    BY Zenon, <1>1, <2>1 DEF TrafficInv, Traffic!TypeOK
<1>3. TrafficAssumed'
  BY TrafficAssumedKept DEF TrafficInv
<1>4. InPass'
  BY <1>1 DEF TrafficInv, InPass
<1>5. \A d \in Devices : Latest(d)' = Latest(d) /\ (Stage(d)' = Stage(d) \/ Stage(d)' = "out")
  BY <1>1 DEF Latest, Stage
<1>6. Waits'
  BY <1>5 DEF TrafficInv, Waits
<1>7. ASSUME NEW d \in Devices PROVE TrafficOf(d)'
  <2>1. SameFor(d)
    BY DEF SameFor
  <2>2. \/ Stage(d)' = Stage(d)
        \/ Stage(d)' = "out" /\ (Stage(d) \in {"out", "snapshot"} \/ trafficLossy')
    <3>1. CASE trafficJob' = trafficJob
      <4>1. Stage(d)' = Stage(d)
        BY Zenon, <3>1 DEF Stage
      <4>2. QED
        BY Zenon, <4>1
    <3>2. CASE trafficJob' # trafficJob
      BY <1>1, <3>2 DEF Stage, TrafficInv, InPass
    <3>3. QED
      BY <3>1, <3>2
  <2>3. Stage(d)' # "out" => /\ trafficJob'.total = trafficJob.total
                             /\ trafficJob'.prev = trafficJob.prev
    BY <1>1 DEF Stage
  <2>4. QED
    BY <1>5, <2>1, <2>2, <2>3, OthersStay, OfDevice DEF Untouched
<1>8. QED
  BY <1>2, <1>3, <1>4, <1>6, <1>7 DEF TrafficInv

LEMMA FaultsInBounds ==
    ASSUME TrafficInv
    PROVE  /\ trafficFaults \in 0..MaxFaults /\ trafficLossy \in BOOLEAN
           /\ Traffic!Fault => trafficFaults' \in 0..MaxFaults
BY TrafficTypes DEF Traffic!Fault, TrafficInv, Traffic!TypeOK

LEMMA SkipKeeps ==
    ASSUME TrafficInv, Traffic!Skip \/ Traffic!FetchFails \/ Traffic!StatementFails
    PROVE  TrafficInv'
<1>1. CASE Traffic!Skip
  BY <1>1, PassShrinks, FaultsInBounds DEF Traffic!Skip, Traffic!node
<1>2. CASE Traffic!FetchFails
  BY <1>2, PassShrinks, FaultsInBounds DEF Traffic!FetchFails, Traffic!node
<1>3. CASE Traffic!StatementFails
  <2>1. /\ trafficFaults' \in 0..MaxFaults /\ trafficLossy' \in BOOLEAN
        /\ trafficLossy => trafficLossy'
    BY <1>3, FaultsInBounds DEF Traffic!StatementFails, Traffic!Adding
  <2>2. trafficLossy' \/ trafficJob.pc \in {"idle", "resolve", "snapshot"}
    BY <1>3, FaultsInBounds DEF Traffic!StatementFails, Traffic!Adding
  <2>3. QED
    BY <1>3, <2>1, <2>2, PassShrinks DEF Traffic!StatementFails, Traffic!node
<1>4. QED
  BY <1>1, <1>2, <1>3

LEMMA TrafficStart == TrafficAssumed /\ Traffic!Init => TrafficInv
<1> SUFFICES ASSUME TrafficAssumed, Traffic!Init PROVE TrafficInv
  OBVIOUS
<1>1. MaxBytes \in Nat /\ MaxResets \in Nat /\ MaxFaults \in Nat /\ NoDevice \notin Devices
  BY DEF TrafficAssumed, Traffic!BoundsAreNat, Traffic!OwnerIsUser
<1>2. /\ trafficJob \in Traffic!Job /\ trafficJob.pc = "idle" /\ trafficJob.dev = NoDevice
      /\ trafficJob.total = 0
  BY DEF Traffic!Init, Traffic!NoJob, Traffic!Job, Traffic!None
<1>3. Traffic!TypeOK
  <2>1. /\ trafficReal \in [Devices -> 0..MaxBytes] /\ trafficCounter \in [Devices -> 0..MaxBytes]
        /\ trafficDaily \in [Devices -> Nat] /\ trafficByProto \in [Devices -> Nat]
        /\ trafficMonthly \in [Devices -> Nat]
    BY <1>1 DEF Traffic!Init
  <2>2. /\ trafficLast \in [Devices -> SUBSET (0..MaxBytes)]
        /\ trafficFresh \in [Devices -> SUBSET (0..MaxBytes)]
        /\ trafficTodo \subseteq Traffic!Entry /\ trafficLossy \in BOOLEAN
    BY DEF Traffic!Init
  <2>3. trafficResets \in 0..MaxResets /\ trafficFaults \in 0..MaxFaults
    BY <1>1 DEF Traffic!Init
  <2>4. QED
    BY Zenon, <1>2, <2>1, <2>2, <2>3 DEF Traffic!TypeOK
<1>4. InPass /\ Waits
  BY <1>1, <1>2 DEF Traffic!Init, InPass, Waits
<1>5. ASSUME NEW d \in Devices PROVE TrafficOf(d)
  <2>1. /\ Stage(d) = "out" /\ Latest(d) = {} /\ trafficTodo = {}
        /\ trafficReal[d] = 0 /\ trafficCounter[d] = 0 /\ trafficDaily[d] = 0
        /\ trafficByProto[d] = 0 /\ trafficMonthly[d] = 0
    BY <1>1, <1>2 DEF Traffic!Init, Stage, Latest
  <2>2. Grew(0, -1) = 0 /\ Base(Latest(d)) = {-1}
    BY <2>1 DEF Grew, Base
  <2>3. Backed(d) /\ InOrder(d) /\ Exact(d)
    BY <2>1, <2>2 DEF Backed, InOrder, Exact
  <2>4. QED
    BY <2>3 DEF TrafficOf
<1>6. QED
  BY <1>3, <1>4, <1>5 DEF TrafficInv

LEMMA TrafficStep == TrafficInv /\ [Traffic!Next]_Traffic!vars => TrafficInv'
<1> SUFFICES ASSUME TrafficInv, [Traffic!Next]_Traffic!vars PROVE TrafficInv'
  OBVIOUS
<1>1. ASSUME NEW d \in Devices, Traffic!Transfer(d) PROVE TrafficInv'
  BY <1>1, TransferKeeps
<1>2. ASSUME NEW S \in SUBSET Devices, Traffic!Reset(S) PROVE TrafficInv'
  BY <1>2, ResetKeeps
<1>3. CASE Traffic!Pass
  BY <1>3, CollectKeeps, ResolveKeeps, SnapshotKeeps, DailyKeeps, ProtocolKeeps,
     MonthlyKeeps, PassEnds DEF Traffic!Pass
<1>4. CASE Traffic!Skip \/ Traffic!FetchFails \/ Traffic!StatementFails
  BY <1>4, SkipKeeps
<1>5. CASE Traffic!Restart
  BY <1>5, RestartKeeps
<1>6. CASE UNCHANGED Traffic!vars
  BY <1>6, PassShrinks, FaultsInBounds DEF Traffic!vars
<1>7. QED
  BY <1>1, <1>2, <1>3, <1>4, <1>5, <1>6 DEF Traffic!Next

(* As the tables of each device agree, so do the sums of each user.        *)
LEMMA TrafficFollows == TrafficInv => Traffic!TrafficIsCounted
<1> SUFFICES ASSUME TrafficInv PROVE Traffic!TrafficIsCounted
  OBVIOUS
<1> USE TrafficTypes
<1>1. Traffic!TypeOK
  BY DEF TrafficInv
<1>2. ASSUME NEW d \in Devices
      PROVE  /\ trafficDaily[d] <= trafficReal[d] /\ trafficByProto[d] <= trafficDaily[d]
             /\ trafficMonthly[d] <= trafficByProto[d]
  <2>1. trafficJob.total \in Nat /\ trafficJob.prev \in Nat \cup {-1}
    OBVIOUS
  <2>2. Grew(trafficJob.total, trafficJob.prev) \in Nat
    BY <2>1, GrewIs
  <2>3. QED
    BY <2>2, OfDevice DEF Backed, InOrder
<1>3. Traffic!NeverOvercounts /\ Traffic!TablesInOrder
  BY <1>2 DEF Traffic!NeverOvercounts, Traffic!TablesInOrder
<1>4. ASSUME ~trafficLossy, trafficJob.pc = "idle"
      PROVE  /\ \A d \in Devices : trafficLast[d] # {} => trafficLast[d] = {trafficDaily[d]}
             /\ \A u \in Payers : /\ Traffic!UserTotal(u) = Traffic!Breakdown(u)
                                  /\ Traffic!Breakdown(u) = Traffic!Months(u)
  <2>1. \A d \in Devices : Stage(d) = "out" /\ Latest(d) = trafficLast[d]
    BY <1>4 DEF TrafficInv, InPass, Stage, Latest
  <2>2. \A d \in Devices : /\ trafficLast[d] # {} => trafficLast[d] = {trafficDaily[d]}
                           /\ trafficByProto[d] = trafficDaily[d]
                           /\ trafficMonthly[d] = trafficDaily[d]
    BY <1>4, <2>1, OfDevice DEF Exact
  <2>3. trafficByProto = trafficDaily /\ trafficMonthly = trafficDaily
    <3>1. /\ trafficDaily \in [Devices -> Nat] /\ trafficByProto \in [Devices -> Nat]
          /\ trafficMonthly \in [Devices -> Nat]
      BY DEF TrafficInv, Traffic!TypeOK
    <3>2. QED
      BY <2>2, <3>1
  <2>4. QED
    BY <2>2, <2>3 DEF Traffic!UserTotal, Traffic!Breakdown, Traffic!Months
<1>5. Traffic!ExactWhenNothingLost
  BY <1>4 DEF Traffic!ExactWhenNothingLost
<1>6. QED
  BY <1>1, <1>3, <1>5 DEF Traffic!TrafficIsCounted

(***************************************************************************)
(* No traffic is counted twice and what is lost is lost in all tables from *)
(* the failed one on, whatever counters start again and whatever fails,    *)
(* where each device has one counter on the node.                          *)
(***************************************************************************)
THEOREM TrafficCountedOnce == XrayToo = {} /\ Traffic!Spec => []TrafficIsCounted
<1>1. XrayToo = {} => TrafficAssumed
  BY PartsAssume DEF TrafficAssumed
<1>2. TrafficInv => TrafficIsCounted
  BY TrafficFollows DEF TrafficIsCounted
<1>3. XrayToo = {} /\ Traffic!Spec => []TrafficInv
  <2>1. XrayToo = {} /\ Traffic!Init => TrafficInv
    BY <1>1, TrafficStart
  <2>2. QED
    BY <2>1, TrafficStep, PTL DEF Traffic!Spec
<1>4. QED
  BY <1>2, <1>3, PTL

================================================================================
