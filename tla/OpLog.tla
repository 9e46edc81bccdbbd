--------------------------------- MODULE OpLog ---------------------------------
(***************************************************************************)
(* The operations log: one file per day, to which the middleware appends a *)
(* record after each request.  Every write first compresses the files that *)
(* were not written to for 24 hours and removes the compressed ones older  *)
(* than the retention.  A record goes to the file of the day its request   *)
(* began, also when that file has been compressed already.                 *)
(*                                                                         *)
(* Write and Export run under a mutex, so a write is one step here, and a  *)
(* crash in the middle of it another.                                      *)
(*                                                                         *)
(* Abstractions.  Time is counted in ticks, Day of them to 24 hours; a     *)
(* request lasts at most until the next tick.  A record is its request.    *)
(* Export is what its files hold: the filter and the limit are left out.   *)
(***************************************************************************)
EXTENDS Integers, FiniteSets

CONSTANTS
    Requests,
    Day,         \* ticks in 24 hours
    Retention,   \* OPS_LOG_RETENTION, in ticks
    MaxTime,     \* bound: ticks
    MaxFaults    \* bound: crashes, failing compressions and failing writes

TimesArePositive == {Day, Retention} \subseteq Nat \ {0}
BoundsAreNat     == {MaxTime, MaxFaults} \subseteq Nat

VARIABLES
    now,
    req,      \* when each request began and was recorded
    plain,    \* ops-<day>.ndjson
    gz,       \* ops-<day>.ndjson.gz
    faults,   \* history: faults so far
    late      \* history: days appended to after they were compressed

vars == <<now, req, plain, gz, faults, late>>

Times   == 0..MaxTime
Never   == -1
Days    == 0..MaxTime \div Day
DayOf(t) == t \div Day
File    == [recs: SUBSET Requests, mtime: Times]
Absent  == [recs |-> {}, mtime |-> Never]
Request == [began: Times \cup {Never}, written: Times \cup {Never}, open: BOOLEAN]

TypeOK ==
    /\ now \in Times
    /\ req \in [Requests -> Request]
    /\ plain \in [Days -> File \cup {Absent}]
    /\ gz \in [Days -> File \cup {Absent}]
    /\ faults \in 0..MaxFaults
    /\ late \subseteq Days

Init ==
    /\ now = 0
    /\ req = [r \in Requests |-> [began |-> Never, written |-> Never, open |-> FALSE]]
    /\ plain = [d \in Days |-> Absent]
    /\ gz = [d \in Days |-> Absent]
    /\ faults = 0
    /\ late = {}

Fault == faults < MaxFaults /\ faults' = faults + 1
--------------------------------------------------------------------------------
Old(d)     == plain[d] # Absent /\ now - plain[d].mtime >= Day

Expired(d) == gz[d] # Absent /\ now - gz[d].mtime > Retention

CompressedFile(d) == [recs |-> plain[d].recs, mtime |-> now]

(* Mutant: a compression that failed is followed by the removal too. *)
PlainAfterAll(bad) == [d \in Days |-> IF Old(d) THEN Absent ELSE plain[d]]

(* compressAndCleanupLocked: the files that are left after it, and the     *)
(* compressed ones, when the compression of those in bad failed half-way.  *)
PlainAfter(bad) == [d \in Days |-> IF Old(d) /\ d \notin bad THEN Absent ELSE plain[d]]

GzAfter(bad, part) ==
    [d \in Days |-> CASE Old(d) /\ d \notin bad -> CompressedFile(d)
                      [] Old(d) /\ d \in bad    -> [recs |-> part, mtime |-> now]
                      [] ~Old(d) /\ Expired(d)  -> Absent
                      [] OTHER                  -> gz[d]]

(* At most one compression fails in a write, leaving any part of the file. *)
Failing == {{}} \cup {{d} : d \in {e \in Days : Old(e)}}
Parts(bad) == SUBSET UNION {plain[d].recs : d \in bad}
--------------------------------------------------------------------------------
Begin(r) ==
    /\ req[r].began = Never
    /\ req' = [req EXCEPT ![r].began = now, ![r].open = TRUE]
    /\ UNCHANGED <<now, plain, gz, faults, late>>

Appended(file, r) == [recs |-> file.recs \cup {r}, mtime |-> now]

Write(r) ==
    /\ req[r].open
    /\ \E bad \in Failing : \E part \in Parts(bad) :
        /\ IF bad = {} THEN UNCHANGED faults ELSE Fault
        /\ LET d == DayOf(req[r].began)
           IN  /\ plain' = [PlainAfter(bad) EXCEPT ![d] = Appended(@, r)]
               /\ gz' = GzAfter(bad, part)
               /\ late' = IF gz'[d] # Absent THEN late \cup {d} ELSE late
    /\ req' = [req EXCEPT ![r].written = now, ![r].open = FALSE]
    /\ UNCHANGED now

(* The file cannot be opened: the middleware does not look at the error.   *)
WriteFails(r) ==
    /\ req[r].open
    /\ Fault
    /\ plain' = PlainAfter({})
    /\ gz' = GzAfter({}, {})
    /\ req' = [req EXCEPT ![r].open = FALSE]
    /\ UNCHANGED <<now, late>>

(* A crash while a write compresses the file of day d: the earlier ones    *)
(* are done, this one is there in both forms, and no request is recorded.  *)
Crash(d) ==
    /\ \E r \in Requests : req[r].open
    /\ Old(d)
    /\ \E part \in SUBSET plain[d].recs :
        LET Done(e) == Old(e) /\ e < d
        IN  /\ plain' = [e \in Days |-> IF Done(e) THEN Absent ELSE plain[e]]
            /\ gz' = [e \in Days |-> CASE Done(e) -> CompressedFile(e)
                                       [] e = d   -> [recs |-> part, mtime |-> now]
                                       [] OTHER   -> gz[e]]
    /\ req' = [r \in Requests |-> [req[r] EXCEPT !.open = FALSE]]
    /\ Fault
    /\ UNCHANGED <<now, late>>

(* Time passes; a request does not outlast two ticks. *)
Tick ==
    /\ now < MaxTime
    /\ \A r \in Requests : req[r].open => req[r].began = now
    /\ now' = now + 1
    /\ UNCHANGED <<req, plain, gz, faults, late>>

Next ==
    \/ \E r \in Requests : Begin(r) \/ Write(r) \/ WriteFails(r)
    \/ \E d \in Days : Crash(d)
    \/ Tick

Spec == Init /\ [][Next]_vars
--------------------------------------------------------------------------------
(* What Export reads. *)
Readable == UNION {plain[d].recs \cup gz[d].recs : d \in Days}

Due(r) == req[r].written # Never /\ now - req[r].written <= Retention

(***************************************************************************)
(* A record can be exported until its retention is over, through           *)
(* compressions, failures and crashes in the middle of them; the days to   *)
(* which a record came after their compression are the only exception.     *)
(***************************************************************************)
KeptUnlessLate == \A r \in Requests : Due(r) /\ DayOf(req[r].began) \notin late => r \in Readable

(***************************************************************************)
(* A write whose compressions all succeed leaves no record in two files:   *)
(* what a crash or a failure left in both forms is made good, so that an   *)
(* export lists it once (but for the days with a late record).             *)
(***************************************************************************)
WriteLeavesOneCopy ==
    [][(\E r \in Requests : Write(r)) /\ faults' = faults
        => \A d \in Days \ late' : plain'[d].recs \cap gz'[d].recs = {}]_vars

(* Records are there until their time, and there once.                     *)
LogKeepsRecords ==
    [](TypeOK /\ KeptUnlessLate) /\ WriteLeavesOneCopy

================================================================================
