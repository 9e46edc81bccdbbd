------------------------------ MODULE ClientStore ------------------------------
(***************************************************************************)
(* What the Xray half of the runtime promises: a set of clients that       *)
(* concurrent callers change one client at a time.  A job is pending until *)
(* its change takes effect, atomically and at most once, and only a job    *)
(* whose change took effect is acknowledged.  A job may be given up, with  *)
(* or without effect, and a crash gives up all of them.                    *)
(***************************************************************************)
CONSTANTS Clients, Callers

VARIABLES
    clients,  \* the set that is kept
    job       \* what each caller has asked for, and how far it is

svars == <<clients, job>>

Job == [phase: {"pending", "committed"}, action: {"apply", "revoke"},
        key: Clients]
None == [phase |-> "none"]

Changed(j) ==
    IF j.action = "apply" THEN clients \cup {j.key} ELSE clients \ {j.key}

StoreTypeOK ==
    /\ clients \subseteq Clients
    /\ job \in [Callers -> Job \cup {None}]

StoreInit ==
    /\ clients = {}
    /\ job = [c \in Callers |-> None]

Ask(c) ==
    /\ job[c] = None
    /\ \E j \in Job : /\ j.phase = "pending"
                      /\ job' = [job EXCEPT ![c] = j]
    /\ UNCHANGED clients

Commit(c) ==
    /\ job[c] # None
    /\ job[c].phase = "pending"
    /\ clients' = Changed(job[c])
    /\ job' = [job EXCEPT ![c].phase = "committed"]

Acknowledge(c) ==
    /\ job[c] # None
    /\ job[c].phase = "committed"
    /\ job' = [job EXCEPT ![c] = None]
    /\ UNCHANGED clients

GiveUp(c) ==
    /\ job[c] # None
    /\ \/ UNCHANGED clients
       \/ job[c].phase = "pending" /\ clients' = Changed(job[c])
    /\ job' = [job EXCEPT ![c] = None]

Crash ==
    /\ job' = [c \in Callers |-> None]
    /\ UNCHANGED clients

StoreNext ==
    \/ \E c \in Callers : Ask(c) \/ Commit(c) \/ Acknowledge(c) \/ GiveUp(c)
    \/ Crash

StoreSpec == StoreInit /\ [][StoreNext]_svars
================================================================================
