---------------------------------- MODULE Pool ----------------------------------
(***************************************************************************)
(* The connections to the database, shared by requests, updates of the bot *)
(* and workers, and the end of the control plane.  The page of the nodes   *)
(* and the worker that takes the charges keep the connection of their list *)
(* while they ask for another one for each of its rows.                    *)
(*                                                                         *)
(* Abstractions.  What the statements do is in the other modules.  Users   *)
(* that hold at most one connection at a time are the updates; those of    *)
(* requests end with the request instead of a deadline.                    *)
(***************************************************************************)
EXTENDS Integers, FiniteSets, FiniteSetsExt

CONSTANTS
    Pages,       \* requests of the page of the nodes at a time
    Updates,     \* updates of the bot at a time
    Charge,      \* the worker that takes the charges
    Size,        \* connections, 20
    Rows,        \* rows of a list
    Statements   \* statements of an update

Holders == Pages \cup Updates \cup {Charge}

SizesArePos == {Size, Rows, Statements} \subseteq Nat \ {0}
UsersDiffer == Pages \cap Updates = {} /\ Charge \notin Pages \cup Updates

VARIABLES
    pc,     \* where a user is
    held,   \* the connections it holds
    left,   \* rows or statements it has left
    main,   \* main
    cut     \* history: users that had a statement in progress when the process ended

vars == <<pc, held, left, main, cut>>

(* Every variable has its type, and the pool its size. *)
TypeOK ==
    /\ pc \in [Holders -> {"idle", "list", "rows", "nested", "between", "statement"}]
    /\ held \in [Holders -> 0..2] /\ MapThenSumSet(LAMBDA u : held[u], Holders) <= Size
    /\ left \in [Holders -> 0..Max({Rows, Statements})]
    /\ main \in {"serve", "drain", "close", "exit"}
    /\ cut \subseteq Holders

Init ==
    /\ pc = [u \in Holders |-> "idle"] /\ held = [u \in Holders |-> 0]
    /\ left = [u \in Holders |-> 0] /\ main = "serve" /\ cut = {}

Running == main # "exit"
Free    == Size - MapThenSumSet(LAMBDA u : held[u], Holders)

(* A connection can be had; not any more once the pool is being closed. *)
Available == Free > 0 /\ main \in {"serve", "drain"}

Go(u, to, connections, rest) ==
    /\ pc'   = [pc EXCEPT ![u] = to]
    /\ held' = [held EXCEPT ![u] = connections]
    /\ left' = [left EXCEPT ![u] = rest]
    /\ UNCHANGED <<main, cut>>
--------------------------------------------------------------------------------
(***************************************************************************)
(* Lists whose rows are read while other statements are made.              *)
(***************************************************************************)
Listers == Pages \cup {Charge}

Begin(u) == main = "serve" /\ pc[u] = "idle" /\ Go(u, "list", 0, 0)

Query(u) == pc[u] = "list" /\ Available /\ \E n \in 0..Rows : Go(u, "rows", 1, n)

(* The list is kept open while a connection for the row is waited for. *)
QueryRow(u) ==
    pc[u] = "rows" /\ left[u] > 0 /\ Available /\ Go(u, "nested", held[u] + 1, left[u])

RowDone(u) == Running /\ pc[u] = "nested" /\ Go(u, "rows", held[u] - 1, left[u] - 1)

(* The last row releases the connection of the list. *)
Respond(u) == Running /\ pc[u] = "rows" /\ left[u] = 0 /\ Go(u, "idle", 0, 0)

AfterEnd(u) == 0

(* The context has ended, or a statement failed: the deferred Close        *)
(* releases what is held.                                                  *)
EndEarly(u) == Running /\ pc[u] # "idle" /\ Go(u, "idle", AfterEnd(u), 0)

(* Mutant: requests that are left after the timeout are not closed. *)
StaysOpen(u) == u = Charge /\ main # "serve"

(* main ends the worker first, and then the requests that are left. *)
Cancelled(u) == IF u = Charge THEN main # "serve" ELSE main = "close"
--------------------------------------------------------------------------------
(***************************************************************************)
(* Updates of the bot, which are answered before they begin.               *)
(***************************************************************************)
Receive(u) ==
    main = "serve" /\ pc[u] = "idle" /\ \E n \in 1..Statements : Go(u, "between", 0, n)

Statement(u) ==
    pc[u] = "between" /\ left[u] > 0 /\ Available /\ Go(u, "statement", 1, left[u])

StatementDone(u) ==
    /\ Running /\ pc[u] = "statement"
    /\ Go(u, IF left[u] = 1 THEN "idle" ELSE "between", 0, left[u] - 1)

HasDeadline(u) == pc[u] # "idle"

(* The deadline ends it wherever it is; so does a pool that is closed.     *)
TimeOut(u) == Running /\ HasDeadline(u) /\ EndEarly(u)
--------------------------------------------------------------------------------
(***************************************************************************)
(* The end.                                                                *)
(***************************************************************************)
(* The workers are cancelled, and no request is taken any more. *)
Signal ==
    /\ main = "serve"
    /\ main' = "drain"
    /\ UNCHANGED <<pc, held, left, cut>>

(* The requests have ended, or the timeout has and they are closed.        *)
Shutdown ==
    /\ main = "drain"
    /\ main' = "close"
    /\ UNCHANGED <<pc, held, left, cut>>

(* The deferred pg.Close waits for all connections. *)
Closed == Free = Size

Exit ==
    /\ main = "close" /\ Closed
    /\ main' = "exit"
    /\ cut' = {u \in Holders : held[u] > 0}
    /\ UNCHANGED <<pc, held, left>>
--------------------------------------------------------------------------------
Next ==
    \/ \E u \in Listers :
          \/ Begin(u) \/ Query(u) \/ QueryRow(u) \/ RowDone(u) \/ Respond(u) \/ EndEarly(u)
    \/ \E u \in Updates : Receive(u) \/ Statement(u) \/ StatementDone(u) \/ TimeOut(u)
    \/ Signal \/ Shutdown \/ Exit

(* The pool serves those who wait in turn, and statements end; what is     *)
(* cancelled or past its deadline ends; the shutdown has a timeout.  That  *)
(* a client gives up, a worker ticks or a signal comes is nobody's duty.   *)
Acquire(u) == Query(u) \/ QueryRow(u)
Release(u) == RowDone(u) \/ Respond(u) \/ (Cancelled(u) /\ EndEarly(u))

Fairness ==
    /\ \A u \in Listers : SF_vars(Acquire(u)) /\ WF_vars(Release(u))
    /\ \A u \in Updates : WF_vars(TimeOut(u))
    /\ WF_vars(Shutdown) /\ WF_vars(Exit)

Spec     == Init /\ [][Next]_vars
FairSpec == Spec /\ Fairness
--------------------------------------------------------------------------------
(***************************************************************************)
(* Properties.                                                             *)
(***************************************************************************)
(* The end of the control plane cuts no statement in the middle: only      *)
(* between its statements is an update lost.                               *)
NoStatementIsCut == cut = {}

(* With fewer lists open than connections, a request for the page of the   *)
(* nodes ends, however many updates come.                                  *)
PageEnds == \A u \in Pages : pc[u] # "idle" ~> pc[u] = "idle" \/ main = "exit"

(* An update ends, also when no connection is to be had.                   *)
UpdateEnds == \A u \in Updates : pc[u] # "idle" ~> pc[u] = "idle" \/ main = "exit"

(* Once it is told to, the control plane ends, whoever waits for whom.     *)
StopEnds == main = "drain" ~> main = "exit"
================================================================================
