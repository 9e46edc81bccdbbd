------------------------------ MODULE IPAllocator ------------------------------
(***************************************************************************)
(* RedisIPAllocator: the address of a new device.  A call increments a     *)
(* shared counter, maps the number to a host of the subnet and adds it to a*)
(* shared set; a host that was in the set already costs one of the call's  *)
(* Capacity tries.  Calls of several creations run side by side on the two *)
(* keys, and nothing ever removes a host from the set.                     *)
(*                                                                         *)
(* Abstractions.  Hosts are 1..Capacity (the code's 3, 4, ...); a host the *)
(* subnet does not contain, or above 255, is one outside Usable.  The      *)
(* counter is kept modulo Capacity, which is all a call looks at.  One     *)
(* node: each has keys of its own.  Redis is there, as main sets it up.    *)
(***************************************************************************)
EXTENDS Integers, FiniteSets

CONSTANTS
    Calls,       \* creations that may be in Allocate
    Capacity,    \* hostCapacity of the subnet
    Usable,      \* hosts hostIP has an address for
    MaxAsked,    \* bound: calls of Allocate
    MaxForgets,  \* bound: restarts of Redis, which keeps nothing on disk
    MaxFaults    \* bound: failing commands, expiries of the counter

CapacityIsPositive == Capacity \in Nat \ {0}
UsableAreHosts     == Usable \subseteq 1..Capacity
BoundsAreNat       == {MaxAsked, MaxForgets, MaxFaults} \subseteq Nat

VARIABLES
    counter,  \* ipalloc:<node>, modulo Capacity
    used,     \* ipalloc:used:<node>
    call,     \* where each call is
    given,    \* history: how often each host was handed out
    asked,    \* history: calls so far
    forgets,  \* history: restarts of Redis
    faults,   \* history: failing commands
    steady    \* history: calls since whose start no command failed and no key went

vars == <<counter, used, call, given, asked, forgets, faults, steady>>

Hosts == 1..Capacity
Call  == [pc: {"idle", "incr", "sadd"}, host: 0..Capacity, tries: 0..Capacity]
Idle  == [pc |-> "idle", host |-> 0, tries |-> 0]

TypeOK ==
    /\ counter \in 0..Capacity - 1
    /\ used \subseteq Usable
    /\ call \in [Calls -> Call]
    /\ given \in [Hosts -> Nat]
    /\ asked \in 0..MaxAsked
    /\ forgets \in 0..MaxForgets
    /\ faults \in 0..MaxFaults
    /\ steady \subseteq Calls

Init ==
    /\ counter = 0
    /\ used = {}
    /\ call = [c \in Calls |-> Idle]
    /\ given = [h \in Hosts |-> 0]
    /\ asked = 0
    /\ forgets = 0
    /\ faults = 0
    /\ steady = {}

Becomes(c, f) == call' = [call EXCEPT ![c] = f]

(* Mutant: a host that is in the set already costs no try. *)
NextTryFree(c) == [pc |-> "incr", host |-> 0, tries |-> call[c].tries]

NextTry(c) == [pc |-> "incr", host |-> 0, tries |-> call[c].tries + 1]
--------------------------------------------------------------------------------
Allocate(c) ==
    /\ call[c].pc = "idle" /\ asked < MaxAsked
    /\ Becomes(c, [Idle EXCEPT !.pc = "incr"])
    /\ asked' = asked + 1
    /\ steady' = steady \cup {c}
    /\ UNCHANGED <<counter, used, given, forgets, faults>>

MoreTries(c) == call[c].tries < Capacity

Host(n) == n + 1

Incr(c) ==
    /\ call[c].pc = "incr" /\ MoreTries(c)
    /\ counter' = (counter + 1) % Capacity
    /\ LET h == Host(counter)
       IN  Becomes(c, IF h \in Usable THEN [call[c] EXCEPT !.pc = "sadd", !.host = h]
                                      ELSE NextTry(c))
    /\ UNCHANGED <<used, given, asked, forgets, faults, steady>>

(* Mutant: the answer of SADD is not looked at. *)
SAddBlind(c) ==
    /\ call[c].pc = "sadd"
    /\ used' = used \cup {call[c].host}
    /\ given' = [given EXCEPT ![call[c].host] = @ + 1]
    /\ Becomes(c, Idle)
    /\ UNCHANGED <<counter, asked, forgets, faults, steady>>

SAdd(c) ==
    /\ call[c].pc = "sadd"
    /\ used' = used \cup {call[c].host}
    /\ IF call[c].host \in used
       THEN /\ Becomes(c, NextTry(c))
            /\ UNCHANGED given
       ELSE /\ given' = [given EXCEPT ![call[c].host] = @ + 1]
            /\ Becomes(c, Idle)
    /\ UNCHANGED <<counter, asked, forgets, faults, steady>>

Exhausted(c) ==
    /\ call[c].pc = "incr" /\ ~MoreTries(c)
    /\ Becomes(c, Idle)
    /\ UNCHANGED <<counter, used, given, asked, forgets, faults, steady>>
--------------------------------------------------------------------------------
(***************************************************************************)
(* Faults.  A command fails, executed or not, and the call returns the     *)
(* error; the client repeats a command whose answer was lost, and the      *)
(* second SADD finds the host in the set.                                  *)
(***************************************************************************)
Fault == faults < MaxFaults /\ faults' = faults + 1 /\ steady' = {}

CommandFails(c) ==
    /\ \/ call[c].pc = "incr" /\ MoreTries(c)
          /\ counter' \in {counter, (counter + 1) % Capacity} /\ UNCHANGED used
       \/ call[c].pc = "sadd"
          /\ used' \in {used, used \cup {call[c].host}} /\ UNCHANGED counter
    /\ Becomes(c, Idle)
    /\ Fault
    /\ UNCHANGED <<given, asked, forgets>>

AnswerLost(c) ==
    /\ call[c].pc = "sadd"
    /\ used' = used \cup {call[c].host}
    /\ Becomes(c, NextTry(c))
    /\ Fault
    /\ UNCHANGED <<counter, given, asked, forgets>>

(* The counter expires a year after it was made, the set only a year after *)
(* the last allocation.                                                    *)
CounterExpires ==
    /\ counter' = 0
    /\ Fault
    /\ UNCHANGED <<used, call, given, asked, forgets>>

(* docker-compose runs Redis without a snapshot and without a log. *)
RedisForgets ==
    /\ forgets < MaxForgets
    /\ forgets' = forgets + 1
    /\ counter' = 0
    /\ used' = {}
    /\ steady' = {}
    /\ UNCHANGED <<call, given, asked, faults>>
--------------------------------------------------------------------------------
Step(c) == Incr(c) \/ SAdd(c) \/ Exhausted(c)

Next ==
    \/ \E c \in Calls : Allocate(c) \/ Step(c) \/ CommandFails(c) \/ AnswerLost(c)
    \/ CounterExpires
    \/ RedisForgets

Spec == Init /\ [][Next]_vars

(* Fairness: a call that is under way is a goroutine that goes on. *)
Fairness == \A c \in Calls : WF_vars(Step(c))
FairSpec == Spec /\ Fairness
--------------------------------------------------------------------------------
(***************************************************************************)
(* A host is handed out at most once between two restarts of Redis, however*)
(* calls interleave and commands fail: SADD's answer decides.  Each restart*)
(* makes one more holder possible, since no one looks at the addresses in  *)
(* device_accesses.                                                        *)
(***************************************************************************)
OneHolderPerMemory == \A h \in Hosts : given[h] <= forgets + 1

(***************************************************************************)
(* A creation is refused for want of an address only when every usable host*)
(* is in the set or at the hands of another call: concurrent calls share   *)
(* the counter, and what one skips another has tried.  Only a command that *)
(* fails, or a key that goes, while it runs can make a call miss a host.   *)
(***************************************************************************)
RefusedMeansTaken ==
    [][\A c \in Calls :
          Exhausted(c) /\ c \in steady
            => Usable \subseteq used \cup {call[d].host : d \in Calls}]_vars

(* Every call comes to an end, with an address, a refusal or an error, also*)
(* when the subnet has hosts without an address and others take the free   *)
(* ones: each round costs one of its tries.                                *)
CallsEnd == \A c \in Calls : call[c].pc = "incr" ~> call[c].pc = "idle"

(* Addresses are handed out once, and refused only when there is none.     *)
AddressesHold ==
    [](TypeOK /\ OneHolderPerMemory) /\ RefusedMeansTaken

================================================================================
