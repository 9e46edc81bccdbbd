----------------------------- MODULE ReconcileLoop -----------------------------
(***************************************************************************)
(* The control loop of the node agent on top of its runtime: every tick it *)
(* fetches the desired state from the control plane, lists what the        *)
(* runtime has, applies what is desired and revokes what is not.           *)
(*                                                                         *)
(* The loop is one of the callers of NodeRuntime.  The other callers are   *)
(* the HTTP handlers, which serve the operations the control plane pushes. *)
(* The control plane itself is abstract: the desired state it serves       *)
(* changes by one key at a time, and pushes come with any request.  A push *)
(* and the change of the desired state that goes with it are not atomic in *)
(* the control plane, so the two are independent here.                     *)
(*                                                                         *)
(* Abstractions.  Heartbeats, registration and the apply report change     *)
(* nothing the loop reads: a failed fetch only skips the tick, because the *)
(* loop re-registers and fetches again on the next one.                    *)
(***************************************************************************)
EXTENDS NodeRuntime

CONSTANTS
    Loop,        \* the caller that is the control loop
    NoopKeys,    \* WireGuard keys whose desired address is spelled as in the dump
    MaxChanges,  \* bound: changes of the desired state
    MaxPushes    \* bound: operations pushed over HTTP

ASSUME LoopIsCaller   == Loop \in Callers
ASSUME NoopKeysAreWg  == NoopKeys \subseteq WgKeys
ASSUME LoopBoundsAreNat == MaxChanges \in Nat /\ MaxPushes \in Nat

VARIABLES
    desired,  \* keys the control plane wants on the node
    loop,     \* the pass of the control loop in progress
    calm,     \* history: nothing but the loop moved since the pass began
    changes,  \* history: changes of the desired state so far
    pushes    \* history: pushes so far

lvars == <<vars, desired, loop, calm, changes, pushes>>

Handlers == Callers \ {Loop}

Phases == {"wait", "list", "attach", "apply", "revoke", "orphans", "report"}

(* want: desired state fetched; dump: peers of the awg dump; known, orphan:*)
(* what the runtime listed, with and without an access id; todo: the keys  *)
(* the phase still has to visit.                                           *)
Pass == [phase: Phases, want: SUBSET Keys, dump: SUBSET WgKeys,
         known: SUBSET Keys, orphan: SUBSET Keys, todo: SUBSET Keys]

NoPass == [phase |-> "wait", want |-> {}, dump |-> {}, known |-> {},
           orphan |-> {}, todo |-> {}]

LoopReq(action, k) == [op |-> FreshOp, action |-> action, key |-> k]

LoopInit ==
    /\ Init
    /\ desired = {}
    /\ loop = NoPass
    /\ calm = FALSE
    /\ changes = 0
    /\ pushes = 0
--------------------------------------------------------------------------------
(***************************************************************************)
(* One pass of the loop.                                                   *)
(***************************************************************************)

LoopFetch ==
    /\ loop.phase = "wait"
    /\ loop' = [NoPass EXCEPT !.phase = "list", !.want = desired]
    /\ calm' = \A c \in Handlers : Idle(c)
    /\ UNCHANGED <<vars, desired, changes, pushes>>

(* awg show dump *)
LoopDump ==
    /\ loop.phase = "list"
    /\ loop' = [loop EXCEPT !.phase = "attach", !.dump = awg]
    /\ UNCHANGED <<vars, desired, calm, changes, pushes>>

(* The dump fails: the Xray entries of peersByKey are listed, and when     *)
(* there is none the pass ends with an error.                              *)
LoopDumpFails ==
    LET rest == peersByKey \cap XrayKeys IN
    /\ Fault
    /\ loop.phase = "list"
    /\ calm' = FALSE
    /\ loop' = IF rest = {}
               THEN [loop EXCEPT !.phase = "report"]
               ELSE [loop EXCEPT !.phase = "apply", !.known = rest,
                                 !.todo = loop.want]
    /\ UNCHANGED <<operations, peersByKey, awg, xrayConf, xrayRun, xrayMu, call,
                   ran, restarts, desired, changes, pushes>>

Listed(listed) ==
    loop' = [loop EXCEPT !.phase  = "apply",
                         !.known  = listed \cap peersByKey,
                         !.orphan = listed \ peersByKey,
                         !.todo   = loop.want]

(* The dumped peers get their access ids and the Xray file is read, all    *)
(* under mu.                                                               *)
LoopAttach ==
    /\ loop.phase = "attach"
    /\ Listed(loop.dump \cup xrayConf)
    /\ UNCHANGED <<vars, desired, calm, changes, pushes>>

(* The Xray file cannot be read: only the WireGuard peers are listed. *)
LoopAttachFails ==
    /\ Fault
    /\ loop.phase = "attach"
    /\ calm' = FALSE
    /\ Listed(loop.dump)
    /\ UNCHANGED <<operations, peersByKey, awg, xrayConf, xrayRun, xrayMu, call,
                   ran, restarts, desired, changes, pushes>>

Visit(k) == loop' = [loop EXCEPT !.todo = @ \ {k}]

(* Mutant: the agent's own map is taken for what the container has. *)
IsNoopByMap(k) == k \in peersByKey \cap (NoopKeys \cup XrayKeys)

(* A listed WireGuard peer with the desired address is left alone. *)
IsNoop(k) == k \in loop.known /\ k \in NoopKeys

LoopSkip(k) ==
    /\ loop.phase = "apply"
    /\ Idle(Loop)
    /\ k \in loop.todo
    /\ IsNoop(k)
    /\ Visit(k)
    /\ UNCHANGED <<vars, desired, calm, changes, pushes>>

LoopApply(k) ==
    /\ loop.phase = "apply"
    /\ k \in loop.todo
    /\ ~IsNoop(k)
    /\ Submit(Loop, LoopReq("apply", k))
    /\ Visit(k)
    /\ UNCHANGED <<desired, calm, changes, pushes>>

LoopRevoke(k) ==
    /\ loop.phase \in {"revoke", "orphans"}
    /\ k \in loop.todo
    /\ Submit(Loop, LoopReq("revoke", k))
    /\ Visit(k)
    /\ UNCHANGED <<desired, calm, changes, pushes>>

(* Mutant: known peers are taken for strays, orphans are left alone. *)
StraysKnown == (loop.known \ loop.want) \ XrayKeys

(* Unwanted orphans are revoked, except Xray clients: without an access id *)
(* the runtime cannot be asked to.                                         *)
Extra   == loop.known \ loop.want
Strays  == (loop.orphan \ loop.want) \ XrayKeys

(* The last call of a phase has returned: on to the next one. *)
LoopAdvance ==
    /\ Idle(Loop)
    /\ loop.todo = {}
    /\ \/ /\ loop.phase = "apply"
          /\ loop' = [loop EXCEPT !.phase = "revoke", !.todo = Extra]
       \/ /\ loop.phase = "revoke"
          /\ loop' = [loop EXCEPT !.phase = "orphans", !.todo = Strays]
       \/ /\ loop.phase = "orphans"
          /\ loop' = [loop EXCEPT !.phase = "report"]
    /\ UNCHANGED <<vars, desired, calm, changes, pushes>>

(* The apply report is posted; the loop sleeps until the next tick. *)
LoopReport ==
    /\ loop.phase = "report"
    /\ loop' = NoPass
    /\ calm' = FALSE
    /\ UNCHANGED <<vars, desired, changes, pushes>>

LoopStep ==
    \/ LoopFetch \/ LoopDump \/ LoopAttach \/ LoopAdvance \/ LoopReport
    \/ \E k \in Keys : LoopSkip(k) \/ LoopApply(k) \/ LoopRevoke(k)
--------------------------------------------------------------------------------
(***************************************************************************)
(* The rest of the agent, the control plane and the containers.            *)
(***************************************************************************)

(* A call moves on, the loop's or a handler's. *)
CallStep ==
    /\ \E c \in Callers : Progress(c) \/ Return(c)
    /\ UNCHANGED <<desired, loop, calm, changes, pushes>>

(* The control plane pushes an operation over HTTP. *)
Push(c) ==
    /\ pushes < MaxPushes
    /\ pushes' = pushes + 1
    /\ \E r \in Requests : Submit(c, r)
    /\ calm' = FALSE
    /\ UNCHANGED <<desired, loop, changes>>

(* An access becomes active or stops being so in the control plane. *)
DesiredChanges(k) ==
    /\ changes < MaxChanges
    /\ changes' = changes + 1
    /\ desired' = IF k \in desired THEN desired \ {k} ELSE desired \cup {k}
    /\ calm' = FALSE
    /\ UNCHANGED <<vars, loop, pushes>>

(* A command fails, or a container is lost or bounced. *)
Disturbed ==
    /\ (\E c \in Callers : CommandFails(c)) \/ Containers
    /\ calm' = FALSE
    /\ UNCHANGED <<desired, loop, changes, pushes>>

Crash ==
    /\ AgentRestart
    /\ loop' = NoPass
    /\ calm' = FALSE
    /\ UNCHANGED <<desired, changes, pushes>>

LoopNext ==
    \/ LoopStep \/ LoopDumpFails \/ LoopAttachFails
    \/ CallStep \/ Disturbed \/ Crash
    \/ \E c \in Handlers : Push(c)
    \/ \E k \in Keys : DesiredChanges(k)

LoopSpec == LoopInit /\ [][LoopNext]_lvars

(* The goroutines are scheduled and the commands end: each has a timeout.  *)
(* Nothing is assumed of the environment.                                  *)
Fairness ==
    /\ WF_lvars(LoopStep)
    /\ \A c \in Callers :
          WF_lvars((Progress(c) \/ Return(c))
                   /\ UNCHANGED <<desired, loop, calm, changes, pushes>>)

FairLoopSpec == LoopSpec /\ Fairness
--------------------------------------------------------------------------------
(***************************************************************************)
(* Properties.                                                             *)
(***************************************************************************)

LoopTypeOK ==
    /\ TypeOK
    /\ desired \subseteq Keys
    /\ loop \in Pass
    /\ calm \in BOOLEAN
    /\ changes \in 0..MaxChanges
    /\ pushes \in 0..MaxPushes

(* A pass during which nothing else happened leaves the WireGuard peers    *)
(* exactly as desired and every desired Xray client in the file, and keeps *)
(* no undesired Xray client the agent knows the access of, whatever the    *)
(* passes, pushes, faults and restarts before it left behind.              *)
OnePassConverges ==
    calm /\ loop.phase = "report"
        => /\ awg = desired \cap WgKeys
           /\ desired \cap XrayKeys \subseteq xrayConf
           /\ xrayConf \cap peersByKey \subseteq desired

(* When faults, pushes and changes have stopped, the WireGuard peers become*)
(* the desired ones for good, although the loop works on a fetched copy and*)
(* pushes race it.                                                         *)
WgConverges == <>[](awg = desired \cap WgKeys)

(* And every desired Xray client gets into the configuration file. *)
XrayDesiredConfigured == <>[](desired \cap XrayKeys \subseteq xrayConf)

(* Once faults, pushes and changes are over the loop brings both halves of *)
(* the node to where they are wanted.                                      *)
RuntimeConverges ==
    WgConverges /\ XrayDesiredConfigured

================================================================================
