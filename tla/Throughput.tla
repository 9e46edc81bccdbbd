------------------------------- MODULE Throughput -------------------------------
(***************************************************************************)
(* The throughput samples of a node.  Every step a pass of the collector   *)
(* reads the counters and stores what they grew by since the last snapshot *)
(* as the sample of the step the pass began in, divided by the length of a *)
(* step, whatever time it really took.  The pages of the metrics read the  *)
(* newest sample and those of the last day; the end of a pass removes the  *)
(* ones that are too old.                                                  *)
(*                                                                         *)
(* Abstractions.  One node, whose counters never start again (Traffic has  *)
(* those cases); the other nodes of a pass are the time it takes.  A rate  *)
(* is the bytes of its sample.  The median and the 95th percentile of the  *)
(* last hour lie between samples and are left out.                         *)
(***************************************************************************)
EXTENDS Naturals, FiniteSets, FiniteSetsExt

CONSTANTS
    Interval,   \* NODE_THROUGHPUT_SAMPLE_STEP: length of a sample and interval of passes
    Day,        \* what the pages look back
    Retention,  \* NODE_THROUGHPUT_RETENTION
    Link,       \* bytes the node can transfer in a unit of time
    Horizon,    \* bound: time
    MaxFaults   \* bound: failing requests and statements, stops

StepIsPositive == Interval \in Nat \ {0} /\ Link \in Nat \ {0}
KeptForADay    == Day \in Nat /\ Retention \in Nat /\ Day <= Retention
BoundsAreNat   == Horizon \in Nat /\ Interval <= Horizon /\ MaxFaults \in Nat

VARIABLES
    now, sent,  \* time, and bytes the node has transferred
    counted,    \* total of the last snapshot
    samples,    \* node_throughput_samples of the node
    job,        \* the pass
    running, due, nextTick,  \* the worker and its ticker
    late,       \* history: a tick found a pass at work
    overwritten,\* history: a sample took the place of another
    stops,      \* history: stops of the process
    faults      \* history

clock  == <<now, sent>>
worker == <<running, due, nextTick, late, stops>>
vars   == <<clock, counted, samples, job, worker, overwritten, faults>>

Buckets == 0..(Horizon \div Interval)
Idle    == [pc |-> "idle", at |-> 0, got |-> 0, grown |-> 0]
Job     == [pc: {"idle", "fetch", "snapshot", "sample", "clean"}, at: Nat, got: Nat, grown: Nat]

(* Every variable has its type. *)
TypeOK ==
    /\ now \in 0..Horizon /\ sent \in 0..(Link * Horizon) /\ counted \in 0..sent
    /\ DOMAIN samples \subseteq Buckets /\ \A b \in DOMAIN samples : samples[b] \in Nat
    /\ job \in Job
    /\ running \in BOOLEAN /\ due \in BOOLEAN /\ nextTick \in Nat
    /\ late \in BOOLEAN /\ overwritten \in BOOLEAN
    /\ stops \in 0..MaxFaults /\ faults \in 0..MaxFaults

Init ==
    /\ now \in 0..(Interval - 1) /\ sent = 0 /\ counted = 0
    /\ samples = [b \in {} |-> 0]
    /\ job = Idle
    /\ running = TRUE /\ due = TRUE /\ nextTick = now + Interval
    /\ late = FALSE /\ overwritten = FALSE /\ stops = 0 /\ faults = 0

Fault == faults < MaxFaults /\ faults' = faults + 1
--------------------------------------------------------------------------------
(***************************************************************************)
(* Time and the ticker, which holds one tick for a worker that is late.    *)
(***************************************************************************)
Clock ==
    /\ now < Horizon /\ ~(running /\ job.pc = "idle" /\ due)
    /\ now' = now + 1
    /\ \E n \in 0..Link : sent' = sent + n
    /\ IF running /\ now' = nextTick
       THEN due' = TRUE /\ nextTick' = nextTick + Interval /\ late' = (late \/ job.pc # "idle")
       ELSE UNCHANGED <<due, nextTick, late>>
    /\ UNCHANGED <<counted, samples, job, running, stops, overwritten, faults>>

Stop ==
    /\ running /\ Fault
    /\ running' = FALSE /\ due' = FALSE /\ job' = Idle /\ stops' = stops + 1
    /\ UNCHANGED <<clock, counted, samples, nextTick, late, overwritten>>

(* The first pass does not wait for a tick. *)
Start ==
    /\ ~running
    /\ running' = TRUE /\ due' = TRUE /\ nextTick' = now + Interval
    /\ UNCHANGED <<clock, counted, samples, job, late, stops, overwritten, faults>>
--------------------------------------------------------------------------------
(***************************************************************************)
(* A pass.                                                                 *)
(***************************************************************************)
Collect ==
    /\ running /\ job.pc = "idle" /\ due
    /\ due' = FALSE
    /\ job' = [Idle EXCEPT !.pc = "fetch", !.at = now]
    /\ UNCHANGED <<clock, counted, samples, running, nextTick, late, stops, overwritten, faults>>

Fetch ==
    /\ job.pc = "fetch"
    /\ \/ job' = [job EXCEPT !.pc = "snapshot", !.got = sent] /\ UNCHANGED faults
       \/ job' = [job EXCEPT !.pc = "clean"] /\ Fault
    /\ UNCHANGED <<clock, counted, samples, worker, overwritten>>

CreateSnapshot ==
    /\ job.pc = "snapshot"
    /\ counted' = job.got
    /\ job' = [job EXCEPT !.pc = "sample", !.grown = job.got - counted]
    /\ UNCHANGED <<clock, samples, worker, overwritten, faults>>

(* Mutant: what the counter grew by is counted before the snapshot is there.*)
SnapshotFailsCounted ==
    /\ job.pc = "snapshot" /\ Fault
    /\ job' = [job EXCEPT !.pc = "sample", !.grown = job.got - counted]
    /\ UNCHANGED <<clock, counted, samples, worker, overwritten>>

(* The counter is skipped, and the node has a sample without it. *)
SnapshotFails ==
    /\ job.pc = "snapshot" /\ Fault
    /\ job' = [job EXCEPT !.pc = "sample"]
    /\ UNCHANGED <<clock, counted, samples, worker, overwritten>>

Bucket(t) == t \div Interval

AddSample ==
    /\ job.pc = "sample"
    /\ job' = [job EXCEPT !.pc = "clean"]
    /\ LET b == Bucket(job.at)
       IN  \/ /\ samples' = [c \in DOMAIN samples \cup {b} |->
                                 IF c = b THEN job.grown ELSE samples[c]]
              /\ overwritten' = (overwritten \/ b \in DOMAIN samples)
              /\ UNCHANGED faults
           \/ Fault /\ UNCHANGED <<samples, overwritten>>
    /\ UNCHANGED <<clock, counted, worker>>

Old(b) == b * Interval + Retention < job.at

Cleanup ==
    /\ job.pc = "clean"
    /\ job' = Idle
    /\ \/ samples' = [b \in {c \in DOMAIN samples : ~Old(c)} |-> samples[b]] /\ UNCHANGED faults
       \/ Fault /\ UNCHANGED samples
    /\ UNCHANGED <<clock, counted, worker, overwritten>>
--------------------------------------------------------------------------------
Pass == Collect \/ Fetch \/ CreateSnapshot \/ SnapshotFails \/ AddSample \/ Cleanup

Next == Clock \/ Stop \/ Start \/ Pass

Spec == Init /\ [][Next]_vars
--------------------------------------------------------------------------------
(***************************************************************************)
(* What the pages show.                                                    *)
(***************************************************************************)
OfTheDay    == {b \in DOMAIN samples : b * Interval + Day >= now}
Sampled     == MapThenSumSet(LAMBDA b : samples[b], DOMAIN samples)
--------------------------------------------------------------------------------
(***************************************************************************)
(* Properties.                                                             *)
(***************************************************************************)

(* Whatever fails and restarts, the samples together never show more than  *)
(* the node transferred: no byte is in two of them.                        *)
NoByteTwice == Sampled <= counted

(* A sample takes the place of another one, whose bytes no page then shows,*)
(* only after a pass that was still at work when the next one was due, or  *)
(* after a restart. *)
OverwritesOnlyIfLate == overwritten => late \/ stops > 0

(* No sample of the day that the pages look back is ever removed.          *)
DayIsKept ==
    [][\A b \in OfTheDay : b \in DOMAIN samples']_vars

(* Samples hold every byte once at most, and are there for the pages that  *)
(* add them up.                                                            *)
SamplesAddUp ==
    [](TypeOK /\ NoByteTwice /\ OverwritesOnlyIfLate) /\ DayIsKept

================================================================================
