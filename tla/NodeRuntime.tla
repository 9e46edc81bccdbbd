------------------------------ MODULE NodeRuntime ------------------------------
(***************************************************************************)
(* The runtime adapter of the node agent, AmneziaDockerRuntime: ApplyPeer  *)
(* and RevokePeer for WireGuard peers (an `awg set` in the Amnezia         *)
(* container) and for Xray clients (a rewrite of the container's           *)
(* config.json followed by a container restart).                           *)
(*                                                                         *)
(* A call is a goroutine: an HTTP handler serving one request of the       *)
(* control plane, or the reconcile loop.  Calls interleave at the points   *)
(* where the code holds no lock: `mu` is held only around map accesses,    *)
(* never across an `awg` command, while `xrayMu` is held across the whole  *)
(* read-modify-write-restart of the Xray configuration.                    *)
(*                                                                         *)
(* Abstractions.  A device access and its peer key stand for each other    *)
(* (a WireGuard access is identified on the node by its device's public    *)
(* key, an Xray access by the uuid derived from the access id), so a key   *)
(* plays both parts.  The address, the keepalive and the preshared key of  *)
(* a key never change and are left out, and so is pskByPeer.               *)
(***************************************************************************)
EXTENDS Naturals

CONSTANTS
    WgKeys,      \* public keys of WireGuard peers
    XrayKeys,    \* uuids of Xray clients
    OpIds,       \* operation ids a caller may send more than once
    FreshOp,     \* stands for an operation id that is never sent again
    Callers,     \* goroutines inside the runtime
    Nobody,      \* not a caller: the free mutex
    NoReq,       \* not a request: a caller with nothing to do
    MaxFaults,   \* bound: failing commands and container losses
    MaxRestarts  \* bound: restarts of the agent process

ASSUME KeysDisjoint == WgKeys \cap XrayKeys = {}
ASSUME FreshOpIsNew == FreshOp \notin OpIds
ASSUME NobodyIsNoCaller == Nobody \notin Callers
ASSUME BoundsAreNat == MaxFaults \in Nat /\ MaxRestarts \in Nat

VARIABLES
    operations,  \* requests whose operation id is recorded (map operations)
    peersByKey,  \* keys with an entry in the map peersByKey
    awg,         \* peers configured on the AmneziaWG interface
    xrayConf,    \* clients in the Xray container's configuration file
    xrayRun,     \* clients served by the running Xray process
    xrayMu,      \* holder of xrayMu, or Nobody
    call,        \* what each caller is doing
    ran,         \* history: how the awg command of an operation id went
    faults,      \* history: faults so far
    restarts     \* history: agent restarts so far

vars == <<operations, peersByKey, awg, xrayConf, xrayRun, xrayMu, call, ran,
          faults, restarts>>

Keys     == WgKeys \cup XrayKeys

(* The operation id of an Xray request is never looked at. *)
Requests == [op: OpIds \cup {FreshOp}, action: {"apply", "revoke"}, key: WgKeys]
                \cup [op: {FreshOp}, action: {"apply", "revoke"}, key: XrayKeys]

WgPcs   == {"exec", "record"}
XrayPcs == {"xlock", "xread", "xwrite", "xrestart", "xdone"}
Locked  == XrayPcs \ {"xlock"}
Replies == {"none", "applied", "idempotent", "conflict", "error"}

Call == [pc: {"idle", "done"} \cup WgPcs \cup XrayPcs,
         req: Requests \cup {NoReq}, cfg: SUBSET XrayKeys, reply: Replies]

IdleCall == [pc |-> "idle", req |-> NoReq, cfg |-> {}, reply |-> "none"]

(* The set S after request r: the peer or client added or removed. *)
After(r, S) == IF r.action = "apply" THEN S \cup {r.key} ELSE S \ {r.key}

Idle(c)     == call[c].pc = "idle"
Goto(c, pc) == call' = [call EXCEPT ![c].pc = pc]
Answer(c, reply) ==
    call' = [call EXCEPT ![c].pc = "done", ![c].reply = reply, ![c].cfg = {}]

Fault == faults < MaxFaults /\ faults' = faults + 1

Init ==
    /\ operations = {}
    /\ peersByKey = {}
    /\ awg = {}
    /\ xrayConf = {}
    /\ xrayRun = {}
    /\ xrayMu = Nobody
    /\ call = [c \in Callers |-> IdleCall]
    /\ ran = [o \in OpIds |-> "no"]
    /\ faults = 0
    /\ restarts = 0
--------------------------------------------------------------------------------
(***************************************************************************)
(* WireGuard peers.                                                        *)
(***************************************************************************)

Recorded(op) == \E r \in operations : r.op = op

(* Mutant: the id is looked up but recorded only by RecordWg. *)
AdmitWgLate(c, r) ==
    /\ Idle(c)
    /\ r.key \in WgKeys
    /\ ~Recorded(r.op)
    /\ call' = [call EXCEPT ![c].pc = "exec", ![c].req = r]
    /\ UNCHANGED <<operations, peersByKey, awg, xrayConf, xrayRun, xrayMu, ran,
                   faults, restarts>>

(* Mutant: the protocol of the request is not looked at. *)
AdmitWgAnyKey(c, r) ==
    /\ Idle(c)
    /\ ~Recorded(r.op)
    /\ operations' = IF r.op \in OpIds THEN operations \cup {r} ELSE operations
    /\ call' = [call EXCEPT ![c].pc = "exec", ![c].req = r]
    /\ UNCHANGED <<peersByKey, awg, xrayConf, xrayRun, xrayMu, ran, faults,
                   restarts>>

(* The operation id is new: it is recorded, under mu, before the command   *)
(* runs.                                                                   *)
AdmitWg(c, r) ==
    /\ Idle(c)
    /\ r.key \in WgKeys
    /\ ~Recorded(r.op)
    /\ operations' = IF r.op \in OpIds THEN operations \cup {r} ELSE operations
    /\ call' = [call EXCEPT ![c].pc = "exec", ![c].req = r]
    /\ UNCHANGED <<peersByKey, awg, xrayConf, xrayRun, xrayMu, ran, faults,
                   restarts>>

(* The operation id is recorded: the same action on the same access is     *)
(* answered as applied without running anything, another one is refused.   *)
ReplayWg(c, r) ==
    /\ Idle(c)
    /\ r.key \in WgKeys
    /\ Recorded(r.op)
    /\ call' = [call EXCEPT ![c].pc = "done", ![c].req = r,
                ![c].reply = IF r \in operations THEN "idempotent" ELSE "conflict"]
    /\ UNCHANGED <<operations, peersByKey, awg, xrayConf, xrayRun, xrayMu, ran,
                   faults, restarts>>

(* docker exec ... awg set ... peer K [remove] succeeds. *)
AwgSet(c) ==
    /\ call[c].pc = "exec"
    /\ awg' = After(call[c].req, awg)
    /\ ran' = [o \in OpIds |-> IF o = call[c].req.op THEN "ok" ELSE ran[o]]
    /\ Goto(c, "record")
    /\ UNCHANGED <<operations, peersByKey, xrayConf, xrayRun, xrayMu, faults,
                   restarts>>

(* It fails or times out; a command that timed out may have taken effect.  *)
(* The preparation of the preshared key file fails the same way.           *)
AwgSetFails(c) ==
    /\ Fault
    /\ call[c].pc = "exec"
    /\ awg' \in {awg, After(call[c].req, awg)}
    /\ ran' = [o \in OpIds |-> IF o = call[c].req.op THEN "failed" ELSE ran[o]]
    /\ Answer(c, "error")
    /\ UNCHANGED <<operations, peersByKey, xrayConf, xrayRun, xrayMu, restarts>>

(* peersByKey is updated, under mu, in a second critical section. *)
RecordWg(c) ==
    /\ call[c].pc = "record"
    /\ peersByKey' = After(call[c].req, peersByKey)
    /\ Answer(c, "applied")
    /\ UNCHANGED <<operations, awg, xrayConf, xrayRun, xrayMu, ran, faults,
                   restarts>>
--------------------------------------------------------------------------------
(***************************************************************************)
(* Xray clients.  No operation id is recorded for them: a repeated request *)
(* finds the configuration as it wants it and restarts nothing.            *)
(***************************************************************************)

AdmitXray(c, r) ==
    /\ Idle(c)
    /\ r.key \in XrayKeys
    /\ call' = [call EXCEPT ![c].pc = "xlock", ![c].req = r]
    /\ UNCHANGED <<operations, peersByKey, awg, xrayConf, xrayRun, xrayMu, ran,
                   faults, restarts>>

(* Mutant: the read-modify-write is not mutually exclusive. *)
LockXrayUnguarded(c) ==
    /\ call[c].pc = "xlock"
    /\ xrayMu' = c
    /\ Goto(c, "xread")
    /\ UNCHANGED <<operations, peersByKey, awg, xrayConf, xrayRun, ran, faults,
                   restarts>>

LockXray(c) ==
    /\ call[c].pc = "xlock"
    /\ xrayMu = Nobody
    /\ xrayMu' = c
    /\ Goto(c, "xread")
    /\ UNCHANGED <<operations, peersByKey, awg, xrayConf, xrayRun, ran, faults,
                   restarts>>

(* docker exec ... cat config.json; the clients read stay in the caller.   *)
(* Nothing is written when the client is already there (or not there).     *)
ReadXray(c) ==
    /\ call[c].pc = "xread"
    /\ call' = [call EXCEPT ![c].cfg = xrayConf,
                ![c].pc = IF After(call[c].req, xrayConf) = xrayConf
                          THEN "xdone" ELSE "xwrite"]
    /\ UNCHANGED <<operations, peersByKey, awg, xrayConf, xrayRun, xrayMu, ran,
                   faults, restarts>>

(* docker cp of the whole file, built from the clients that were read. *)
WriteXray(c) ==
    /\ call[c].pc = "xwrite"
    /\ xrayConf' = After(call[c].req, call[c].cfg)
    /\ Goto(c, "xrestart")
    /\ UNCHANGED <<operations, peersByKey, awg, xrayRun, xrayMu, ran, faults,
                   restarts>>

(* docker restart: the process comes back with the file's clients. *)
RestartXray(c) ==
    /\ call[c].pc = "xrestart"
    /\ xrayRun' = xrayConf
    /\ Goto(c, "xdone")
    /\ UNCHANGED <<operations, peersByKey, awg, xrayConf, xrayMu, ran, faults,
                   restarts>>

(* Mutant: a revoke leaves the entry of the map. *)
FinishXrayKeeps(c) ==
    /\ call[c].pc = "xdone"
    /\ peersByKey' = peersByKey \cup {call[c].req.key}
    /\ xrayMu' = Nobody
    /\ Answer(c, "applied")
    /\ UNCHANGED <<operations, awg, xrayConf, xrayRun, ran, faults, restarts>>

FinishXray(c) ==
    /\ call[c].pc = "xdone"
    /\ peersByKey' = After(call[c].req, peersByKey)
    /\ xrayMu' = Nobody
    /\ Answer(c, "applied")
    /\ UNCHANGED <<operations, awg, xrayConf, xrayRun, ran, faults, restarts>>

(* One of the three commands fails: the mutex is released, nothing that    *)
(* was done is undone and peersByKey keeps what it had.  A docker cp or    *)
(* restart reported as failed may have taken effect; a failed restart may  *)
(* also leave the container stopped.                                       *)
XrayFails(c) ==
    /\ Fault
    /\ \/ /\ call[c].pc = "xread"
          /\ UNCHANGED <<xrayConf, xrayRun>>
       \/ /\ call[c].pc = "xwrite"
          /\ xrayConf' \in {xrayConf, After(call[c].req, call[c].cfg)}
          /\ UNCHANGED xrayRun
       \/ /\ call[c].pc = "xrestart"
          /\ xrayRun' \in {xrayRun, xrayConf, {}}
          /\ UNCHANGED xrayConf
    /\ xrayMu' = Nobody
    /\ Answer(c, "error")
    /\ UNCHANGED <<operations, peersByKey, awg, ran, restarts>>
--------------------------------------------------------------------------------
(***************************************************************************)
(* The environment: callers, containers, the agent process.                *)
(***************************************************************************)

(* The caller gets its answer and may call again. *)
Return(c) ==
    /\ call[c].pc = "done"
    /\ call' = [call EXCEPT ![c] = IdleCall]
    /\ UNCHANGED <<operations, peersByKey, awg, xrayConf, xrayRun, xrayMu, ran,
                   faults, restarts>>

(* The agent process restarts: every map and every call is gone, the       *)
(* containers keep what they have.                                         *)
AgentRestart ==
    /\ restarts < MaxRestarts
    /\ restarts' = restarts + 1
    /\ operations' = {}
    /\ peersByKey' = {}
    /\ xrayMu' = Nobody
    /\ call' = [c \in Callers |-> IdleCall]
    /\ ran' = [o \in OpIds |-> "no"]
    /\ UNCHANGED <<awg, xrayConf, xrayRun, faults>>

(* The Amnezia container restarts from its start configuration: peers set  *)
(* with `awg set` are gone.                                                *)
AwgLost ==
    /\ Fault
    /\ awg # {}
    /\ awg' = {}
    /\ UNCHANGED <<operations, peersByKey, xrayConf, xrayRun, xrayMu, call, ran,
                   restarts>>

(* The Xray container is restarted from outside and reads its file. *)
XrayBounced ==
    /\ xrayRun # xrayConf
    /\ xrayRun' = xrayConf
    /\ UNCHANGED <<operations, peersByKey, awg, xrayConf, xrayMu, call, ran,
                   faults, restarts>>

Submit(c, r) == AdmitWg(c, r) \/ ReplayWg(c, r) \/ AdmitXray(c, r)

(* The steps a call takes by itself once it is in the runtime. *)
Progress(c) ==
    \/ AwgSet(c) \/ RecordWg(c)
    \/ LockXray(c) \/ ReadXray(c) \/ WriteXray(c) \/ RestartXray(c)
    \/ FinishXray(c)

CommandFails(c) == AwgSetFails(c) \/ XrayFails(c)

Containers == AwgLost \/ XrayBounced

Next ==
    \/ \E c \in Callers : \/ \E r \in Requests : Submit(c, r)
                          \/ Progress(c)
                          \/ CommandFails(c)
                          \/ Return(c)
    \/ AgentRestart
    \/ Containers

Spec == Init /\ [][Next]_vars
--------------------------------------------------------------------------------
(***************************************************************************)
(* Properties.                                                             *)
(***************************************************************************)

(* Every variable has its type. *)
TypeOK ==
    /\ operations \subseteq Requests
    /\ peersByKey \subseteq Keys
    /\ awg \subseteq WgKeys
    /\ xrayConf \subseteq XrayKeys
    /\ xrayRun \subseteq XrayKeys
    /\ xrayMu \in Callers \cup {Nobody}
    /\ call \in [Callers -> Call]
    /\ ran \in [OpIds -> {"no", "ok", "failed"}]
    /\ faults \in 0..MaxFaults
    /\ restarts \in 0..MaxRestarts

(* As long as no command failed and the agent did not restart, whenever no *)
(* caller is inside the critical section of xrayMu the running Xray process*)
(* serves exactly the clients of its file, and the agent's map knows       *)
(* exactly these clients: concurrent applies and revokes lose no update.   *)
XraySettled ==
    faults = 0 /\ restarts = 0 /\ xrayMu = Nobody
        => /\ xrayRun = xrayConf
           /\ peersByKey \cap XrayKeys = xrayConf

(* During one life of the agent the awg command of an operation id is run  *)
(* at most once, however often and by however many callers the request is  *)
(* repeated (the control plane repeats it on a timeout, a 5xx or a 429): a *)
(* call about to run it is the only one, and nobody ran it before.         *)
AtMostOncePerOp ==
    \A c \in Callers :
        call[c].pc = "exec" /\ call[c].req.op \in OpIds
        => /\ ran[call[c].req.op] = "no"
           /\ \A d \in Callers : call[d].pc = "exec"
                                  /\ call[d].req.op = call[c].req.op => d = c

(* An operation id names one request: what is recorded under it never      *)
(* changes, and a call that runs a command or has run it has it recorded.  *)
OpNamesOneRequest ==
    /\ \A r, s \in operations : r.op = s.op => r = s
    /\ \A c \in Callers : call[c].pc \in WgPcs /\ call[c].req.op # FreshOp
                            => call[c].req \in operations

(* A request is not answered as applied when the only run of its command   *)
(* failed: OperationResult.Applied says what was done, and a client that   *)
(* retries a 5xx takes the 200 that follows for success.  The code records *)
(* the id before it runs the command and never forgets it.                 *)
NoAckOfFailedOp ==
    \A c \in Callers :
        /\ call[c].reply \in {"applied", "idempotent"}
        /\ call[c].req.op \in OpIds
        => ran[call[c].req.op] # "failed"

(* The Xray configuration file, rewritten as a whole by every call, is an  *)
(* atomic set of clients: each call adds or removes its own client, at     *)
(* most once, and is answered as applied only after its change took effect.*)
JobOf(c) ==
    IF call[c].pc \in XrayPcs
    THEN [phase  |-> IF call[c].pc \in {"xrestart", "xdone"}
                     THEN "committed" ELSE "pending",
          action |-> call[c].req.action,
          key    |-> call[c].req.key]
    ELSE [phase |-> "none"]

Store == INSTANCE ClientStore WITH
            Clients <- XrayKeys, clients <- xrayConf,
            job <- [c \in Callers |-> JobOf(c)]

XrayStoreSpec == Store!StoreSpec
================================================================================
