-------------------------------- MODULE Figures --------------------------------
(***************************************************************************)
(* The figures of a user: a page is made of several statements, one after  *)
(* the other and without a transaction, while the collector adds traffic   *)
(* to the day its pass began in, the worker takes the charge of the day,   *)
(* and money and devices come and go.  The overview, and what the bot      *)
(* tells of traffic, are made in the same way from the first two of them.  *)
(*                                                                         *)
(* Abstractions.  One user; money is in charges of one device.  A day of   *)
(* traffic is a number of additions.  Traffic has the collector, Billing   *)
(* the worker and the money.                                               *)
(***************************************************************************)
EXTENDS Integers, FiniteSets, FiniteSetsExt, Sequences

CONSTANTS
    Week, Month,   \* windows, 7 and 30 days
    Opening,       \* balances to begin with
    MaxDevices,    \* bound: billable devices
    MaxDay,        \* bound: days
    MaxAdded,      \* bound: additions of a day
    MaxChanges,    \* bound: payments and devices made or deleted
    MaxFaults      \* bound: failing statements

WindowsAreOrdered == Week \in Nat /\ Month \in Nat /\ 2 <= Week /\ Week <= Month
BoundsAreNat ==
    Opening \subseteq Int /\ {MaxDevices, MaxDay, MaxAdded, MaxChanges, MaxFaults} \subseteq Nat

VARIABLES
    day,
    usage,      \* traffic_usage_daily of the user's devices, of each date
    newest,     \* the date of the newest snapshot, or Never
    pass,       \* the collector's counter at hand
    balance, devices, charged,  \* the user, and users.last_charge_at
    charging,   \* the worker's row for the user
    page,       \* the page that is being made or was made last
    changes, faults  \* history

vars == <<day, usage, newest, pass, balance, devices, charged, charging, page, changes, faults>>

Never == -1
NoDays  == -1
Dates == 0..MaxDay

(* The statements of the page of a user, of the overview, and of the       *)
(* traffic the bot tells a user or, of a user, an administrator.           *)
Statements(form) ==
    IF form = "user" THEN <<"total", "month", "today", "week", "balance", "billable", "activity">>
    ELSE <<"total", "month">>

Forms == {"user", "overview", "bot"}

NoPage == [form |-> "none", left |-> <<>>, done |-> FALSE,
           total |-> 0, month |-> 0, today |-> 0, week |-> 0,
           bal |-> 0, bill |-> 0, activity |-> Never, est |-> NoDays,
           since |-> 0,         \* history: the day "today" was read in
           nights |-> 0,        \* history: midnights while the page was made
           added |-> FALSE,     \* history: traffic came while it was made
           dropped |-> FALSE,   \* history: an error of it was dropped
           charges |-> 0,       \* history: charges since the balance was read
           quiet |-> FALSE]     \* history: no money, device or older count since then

(* Every variable has its type. *)
TypeOK ==
    /\ day \in Dates /\ usage \in [Dates -> 0..MaxAdded]
    /\ newest \in Dates \cup {Never}
    /\ pass \in [pc: {"idle", "snapshot", "add"}, date: Dates]
    /\ balance \in Int /\ devices \in 0..MaxDevices /\ charged \in Dates \cup {Never}
    /\ charging \in [pc: {"idle", "charge"}, count: 0..MaxDevices, old: BOOLEAN]
    /\ DOMAIN page = DOMAIN NoPage /\ page.charges \in Nat
    /\ \A f \in {"total", "month", "today", "week"} : page[f] \in 0..(MaxAdded * (MaxDay + 1))
    /\ changes \in 0..MaxChanges /\ faults \in 0..MaxFaults

NoPass   == [pc |-> "idle", date |-> 0]
NoCharge == [pc |-> "idle", count |-> 0, old |-> FALSE]

Init ==
    /\ day = 0 /\ usage = [d \in Dates |-> 0] /\ newest = Never /\ pass = NoPass
    /\ balance \in Opening /\ devices \in 0..MaxDevices /\ charged = Never
    /\ charging = NoCharge /\ page = NoPage
    /\ changes = 0 /\ faults = 0

traffic == <<usage, newest, pass>>
money   == <<balance, devices, charged, charging>>
bounds  == <<changes, faults>>

Making == page.left # <<>>
Fault  == faults < MaxFaults /\ faults' = faults + 1
--------------------------------------------------------------------------------
(***************************************************************************)
(* What goes on around a page.                                             *)
(***************************************************************************)
(* A page does not take a day: at most one midnight passes. *)
Midnight ==
    /\ day < MaxDay /\ (Making => page.nights = 0)
    /\ day' = day + 1
    /\ page' = IF Making THEN [page EXCEPT !.nights = @ + 1] ELSE page
    /\ UNCHANGED <<traffic, money, bounds>>

Collect ==
    /\ pass.pc = "idle"
    /\ pass' = [pc |-> "snapshot", date |-> day]
    /\ UNCHANGED <<day, usage, newest, money, page, bounds>>

(* The snapshot, without which nothing is added, ... *)
CreateSnapshot ==
    /\ pass.pc = "snapshot"
    /\ \/ newest' = Max({newest, pass.date}) /\ pass' = [pass EXCEPT !.pc = "add"]
          /\ UNCHANGED faults
       \/ Fault /\ pass' = NoPass /\ UNCHANGED newest
    /\ UNCHANGED <<day, usage, money, page, changes>>

Adds == {"add"}

(* ... and the traffic of the date of the pass. *)
AddDailyUsageDelta ==
    /\ pass.pc \in Adds
    /\ \/ /\ usage[pass.date] < MaxAdded
          /\ usage' = [usage EXCEPT ![pass.date] = @ + 1]
          /\ page' = IF Making THEN [page EXCEPT !.added = TRUE] ELSE page
          /\ UNCHANGED faults
       \/ Fault /\ UNCHANGED <<usage, page>>
    /\ pass' = NoPass
    /\ UNCHANGED <<day, newest, money, changes>>

(* Money and devices. *)
Changed ==
    /\ changes < MaxChanges /\ changes' = changes + 1
    /\ page' = [page EXCEPT !.quiet = FALSE]
    /\ UNCHANGED <<day, traffic, charged, faults>>

Pay == Changed /\ balance' = balance + 1 /\ UNCHANGED <<devices, charging>>

(* A device is made or deleted. *)
ChangeDevices ==
    /\ Changed
    /\ devices' \in {devices - 1, devices + 1} \cap 0..MaxDevices
    /\ charging' = [charging EXCEPT !.old = (charging.pc = "charge")]
    /\ UNCHANGED balance

Billable == devices

(* The worker reads whom to charge for how many devices, ... *)
ListBillable ==
    /\ charging.pc = "idle" /\ devices > 0 /\ charged < day
    /\ charging' = [pc |-> "charge", count |-> Billable, old |-> FALSE]
    /\ UNCHANGED <<day, traffic, balance, devices, charged, page, bounds>>

(* ... and takes it, once a day. *)
chargeUser ==
    /\ charging.pc = "charge"
    /\ charging' = NoCharge
    /\ IF charged = day
       THEN UNCHANGED <<balance, charged, page>>
       ELSE /\ balance' = balance - charging.count
            /\ charged' = day
            /\ page' = [page EXCEPT !.charges = @ + 1, !.quiet = @ /\ ~charging.old]
    /\ UNCHANGED <<day, traffic, devices, bounds>>
--------------------------------------------------------------------------------
(***************************************************************************)
(* A page.                                                                 *)
(***************************************************************************)
Last(n) == MapThenSumSet(LAMBDA d : usage[d], {d \in Dates : d >= day - (n - 1)})
All     == MapThenSumSet(LAMBDA d : usage[d], Dates)

Ask(form) ==
    /\ ~Making
    /\ page' = [NoPage EXCEPT !.form = form, !.left = Statements(form)]
    /\ UNCHANGED <<day, traffic, money, bounds>>

(* The charges that leave something of a balance: the quotient of           *)
(* estimateDaysRemaining, rounded up and less one. *)
estimateDaysRemaining(bal, bill) ==
    IF bal <= 0 \/ bill <= 0 THEN NoDays ELSE (bal - 1) \div bill

(* Mutant: the month is that of the calendar. *)
CalendarMonth ==
    MapThenSumSet(LAMBDA d : usage[d], {d \in Dates : d \div Month = day \div Month})

SumOfWeek  == Last(Week)
SumOfMonth == Last(Month)

Read(f) ==
    CASE f = "total"    -> [page EXCEPT !.total = All]
      [] f = "month"    -> [page EXCEPT !.month = SumOfMonth]
      [] f = "today"    -> [page EXCEPT !.today = usage[day], !.since = day]
      [] f = "week"     -> [page EXCEPT !.week = SumOfWeek]
      [] f = "balance"  -> [page EXCEPT !.bal = balance, !.quiet = TRUE, !.charges = 0]
      [] f = "billable" -> [page EXCEPT !.bill = devices]
      [] f = "activity" -> [page EXCEPT !.activity = newest,
                                        !.est = estimateDaysRemaining(page.bal, page.bill)]

Done(p) == [p EXCEPT !.left = Tail(@), !.done = (Len(page.left) = 1)]

Statement ==
    /\ Making
    /\ page' = Done(Read(Head(page.left)))
    /\ UNCHANGED <<day, traffic, money, bounds>>

(* An error ends a page of the API, but for the last two statements of the *)
(* page of a user; the bot goes on with nothing in its place.              *)
StatementFails ==
    /\ Making /\ Fault
    /\ page' = CASE page.form = "bot" \/ Head(page.left) = "billable" ->
                       Done([page EXCEPT !.dropped = TRUE])
                 [] page.form # "bot" /\ Head(page.left) = "activity" ->
                       Done([page EXCEPT !.dropped = TRUE,
                                         !.est = estimateDaysRemaining(page.bal, page.bill)])
                 [] OTHER -> NoPage
    /\ UNCHANGED <<day, traffic, money, changes>>
--------------------------------------------------------------------------------
Next ==
    \/ Midnight \/ Collect \/ CreateSnapshot \/ AddDailyUsageDelta
    \/ Pay \/ ChangeDevices \/ ListBillable \/ chargeUser
    \/ (\E form \in Forms : Ask(form)) \/ Statement \/ StatementFails

Spec == Init /\ [][Next]_vars
--------------------------------------------------------------------------------
(***************************************************************************)
(* Properties.                                                             *)
(***************************************************************************)
(* The figures of a page are read one by one, and still fit together when  *)
(* neither midnight nor traffic comes between them and no error is         *)
(* dropped: today is part of the week, the week of the month, the month of *)
(* the total.                                                              *)
PageIsConsistent ==
    page.done /\ ~page.added /\ ~page.dropped /\ page.nights = 0 =>
        page.today <= page.week /\ page.week <= page.month /\ page.month <= page.total

(* Today's traffic is never more than the week's, also when traffic and    *)
(* midnight come in between: the week is read after it.                    *)
DayWithinWeek == page.done /\ page.today > 0 => page.today <= page.week

(* A page with traffic of a day shows an activity that is not older, if    *)
(* the activity could be read.                                             *)
ActivityCoversToday ==
    page.done /\ page.today > 0 /\ ~page.dropped => page.activity >= page.since

(* As long as the user pays nothing and has the same devices, the balance  *)
(* lasts for the estimated number of charges, and is used up by one more.  *)
EstimateHolds ==
    page.done /\ page.est # NoDays /\ page.quiet =>
        (page.charges <= page.est <=> balance > 0)

(* The figures of a page do not contradict each other, and the balance     *)
(* lasts for the estimated number of charges.                              *)
FiguresAgree ==
    TypeOK /\ PageIsConsistent /\ DayWithinWeek /\ ActivityCoversToday /\ EstimateHolds

================================================================================
