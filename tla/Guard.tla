---------------------------------- MODULE Guard ----------------------------------
(***************************************************************************)
(* What a request of a node passes before the control plane handles it: a  *)
(* limiter that counts in windows, the age of the request, and a mark in   *)
(* Redis that makes a request delivered twice be handled once.             *)
(*                                                                         *)
(* Abstractions.  One node, hence one key of the limiter; identity and     *)
(* signature are right.  Times are whole seconds.  A request carries the   *)
(* second it was made in, cut off, and arrives later than that, so a mark  *)
(* made in its first second still stands in the last one it is young       *)
(* enough: a mark is there through the second it ends in.                  *)
(***************************************************************************)
EXTENDS Integers, Sequences

CONSTANTS
    Requests,
    Copies,     \* deliveries
    None,
    Limit, Window,  \* NODE_RATE_LIMIT_PER_MINUTE
    MaxSkew, MarkTTL,   \* five minutes each
    Ahead,      \* how far the clock of the node is ahead
    MaxStall,   \* time between the check of the age and the mark
    MaxTime     \* bound

NumbersAreNat == {Limit, Window, MaxSkew, MarkTTL, Ahead, MaxStall, MaxTime} \subseteq Nat
LimitPositive == Limit > 0
MarkCoversSkew == MarkTTL >= MaxSkew
NoneIsOutside == None \notin Requests

VARIABLES
    now,
    bucket,     \* the counter of the node
    stamp,      \* the time each request was made at, or -1
    copy,       \* the deliveries
    mark,       \* until when the mark of each request is in Redis, or -1
    taken,      \* history: the times at which a request was let in, in order
    refused,    \* history: times at which a request was refused by the limiter
    handled     \* history: the times at which each request was handled, in order

vars == <<now, bucket, stamp, copy, mark, taken, refused, handled>>

Times  == 0..MaxTime
Copy   == [pc: {"none", "travel", "checked", "done"}, req: Requests \cup {None}, at: Times]
NoCopy == [pc |-> "none", req |-> None, at |-> 0]

TypeOK ==
    /\ now \in Times
    /\ bucket \in [count: 0..Limit, reset: -1..MaxTime + Window]
    /\ stamp \in [Requests -> -1..MaxTime + Ahead]
    /\ copy \in [Copies -> Copy]
    /\ mark \in [Requests -> -1..MaxTime + MarkTTL]
    /\ taken \in Seq(Times)
    /\ refused \subseteq Times
    /\ handled \in [Requests -> Seq(Times)]

Init ==
    /\ now = 0
    /\ bucket = [count |-> 0, reset |-> -1]
    /\ stamp = [r \in Requests |-> -1]
    /\ copy = [c \in Copies |-> NoCopy]
    /\ mark = [r \in Requests |-> -1]
    /\ taken = <<>>
    /\ refused = {}
    /\ handled = [r \in Requests |-> <<>>]

(* The node makes a request, or the network delivers one again. *)
post(c, r) ==
    /\ copy[c] = NoCopy
    /\ stamp' = [stamp EXCEPT ![r] = IF @ = -1 THEN now + Ahead ELSE @]
    /\ copy' = [copy EXCEPT ![c] = [pc |-> "travel", req |-> r, at |-> now]]
    /\ UNCHANGED <<now, bucket, mark, taken, refused, handled>>

Full == bucket.count >= Limit

AfterRefusal == bucket

WindowEnd == now + Window

allow(ok) ==
    \/ /\ now > bucket.reset
       /\ ok
       /\ bucket' = [count |-> 1, reset |-> WindowEnd]
    \/ /\ now <= bucket.reset
       /\ ok = ~Full
       /\ bucket' = IF ok THEN [bucket EXCEPT !.count = @ + 1] ELSE AfterRefusal

Young(r) == stamp[r] \in now - MaxSkew .. now + MaxSkew

(* Limiter and age. *)
Arrive(c) ==
    /\ copy[c].pc = "travel"
    /\ \E ok \in BOOLEAN :
          /\ allow(ok)
          /\ taken' = IF ok THEN Append(taken, now) ELSE taken
          /\ refused' = IF ok THEN refused ELSE refused \cup {now}
          /\ copy' = [copy EXCEPT ![c] =
                [@ EXCEPT !.pc = IF ok /\ Young(copy[c].req) THEN "checked" ELSE "done",
                          !.at = now]]
    /\ UNCHANGED <<now, stamp, mark, handled>>

(* Mutant: the mark is gone before the request is too old. *)
MarkEndShort == now + MarkTTL - 1

MarkEnd == now + MarkTTL

Marked(r) == now <= mark[r]

(* SETNX, and the handler. *)
SetNX(c) ==
    LET r == copy[c].req
    IN  /\ copy[c].pc = "checked"
        /\ IF Marked(r)
           THEN UNCHANGED <<mark, handled>>
           ELSE /\ mark' = [mark EXCEPT ![r] = MarkEnd]
                /\ handled' = [handled EXCEPT ![r] = Append(@, now)]
        /\ copy' = [copy EXCEPT ![c].pc = "done"]
        /\ UNCHANGED <<now, bucket, stamp, taken, refused>>

Tick ==
    /\ now < MaxTime
    /\ \A c \in Copies : copy[c].pc = "checked" => now - copy[c].at < MaxStall
    /\ now' = now + 1
    /\ UNCHANGED <<bucket, stamp, copy, mark, taken, refused, handled>>

Next ==
    \/ \E c \in Copies :
          \/ \E r \in Requests : post(c, r)
          \/ Arrive(c) \/ SetNX(c)
    \/ Tick

Spec == Init /\ [][Next]_vars
--------------------------------------------------------------------------------
(***************************************************************************)
(* However requests fall around the ends of the windows, no time as long as*)
(* a window sees more than twice the limit.                                *)
(***************************************************************************)
TwiceTheLimit ==
    \A i \in DOMAIN taken :
        i + 2 * Limit \in DOMAIN taken => taken[i + 2 * Limit] - taken[i] > Window

(***************************************************************************)
(* A node is refused only when it had its share within the window before:  *)
(* refusals do not prolong themselves.                                     *)
(***************************************************************************)
RefusedOnlyWhenBusy ==
    \A t \in refused : \E i \in DOMAIN taken :
        /\ i + Limit - 1 \in DOMAIN taken
        /\ t - Window <= taken[i] /\ taken[i + Limit - 1] <= t

(***************************************************************************)
(* With a clock that is not ahead and a mark that follows the check at once*)
(* a request delivered several times is handled once, also when the last   *)
(* delivery comes just before the request is too old.                      *)
(***************************************************************************)
OnTime == Ahead = 0 /\ MaxStall = 0

HandledOnce == OnTime => \A r \in Requests : Len(handled[r]) <= 1

(***************************************************************************)
(* With any clock and any delay before the mark, a request is handled again*)
(* only after its mark has ended.                                          *)
(***************************************************************************)
HandledApart ==
    \A r \in Requests : \A i, j \in DOMAIN handled[r] :
        i < j => handled[r][j] - handled[r][i] > MarkTTL

(* The limiter lets in no more than twice its limit in a window and refuses*)
(* only the busy; a request is handled once, and again only with a clock   *)
(* that is ahead or a late mark, and after the mark has ended.             *)
RequestsAreGuarded ==
    TypeOK /\ TwiceTheLimit /\ RefusedOnlyWhenBusy /\ HandledOnce /\ HandledApart
================================================================================
