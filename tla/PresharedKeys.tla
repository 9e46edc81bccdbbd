----------------------------- MODULE PresharedKeys -----------------------------
(***************************************************************************)
(* The preshared keys of WireGuard peers: made with the access and kept in *)
(* its row, sent in the operation that creates the peer and in the desired *)
(* state, handed to the command in a file of the container, and remembered *)
(* by the agent for requests without one.  NodeRuntime leaves them out.    *)
(*                                                                         *)
(* Abstractions.  The key of an access is the access.  Accesses made       *)
(* before the column existed have no key in their row, only in the user's  *)
(* text and where their peer was applied.  A lost answer, and the ids of   *)
(* operations, are in NodeRuntime and NodeOperations: here a push may end  *)
(* either way whatever the agent did.                                      *)
(***************************************************************************)
EXTENDS Naturals, FiniteSets

CONSTANTS
    Accesses,     \* WireGuard accesses, each with a peer of its own
    Old,          \* those made before migration 16
    Pushers,      \* operations of the control plane that run at a time
    Loop,         \* the agent's loop
    MaxFiles,     \* bound: files made
    MaxFaults,    \* bound: failing commands
    MaxRestarts   \* bound: restarts of the agent and of the container

OldAreAccesses == Old \subseteq Accesses
LoopIsNoPusher == Loop \notin Pushers
BoundsAreNat == {MaxFiles, MaxFaults, MaxRestarts} \subseteq Nat

NoKey  == "nokey"
Absent == "absent"

(* A key is not taken for a missing one, nor for a missing peer. *)
AccessesAreKeys == {NoKey, Absent} \cap Accesses = {}

VARIABLES
    status,     \* device_accesses.status
    row,        \* device_accesses.preshared_key
    call,       \* the calls of ApplyPeer
    pskByPeer,  \* the agent's memory of keys ...
    peersByKey, \* ... and of peers
    awg,        \* the interface
    files,      \* the key files in the container
    made, faults, restarts,
    excused,    \* history: files a fault kept from being removed
    lost        \* history: old accesses whose key neither the agent nor the interface has

vars == <<status, row, call, pskByPeer, peersByKey, awg, files, made, faults, restarts, excused, lost>>

Actors == Pushers \cup {Loop}
Keys   == Accesses
NoFile  == 0

Idle == [pc |-> "idle", key |-> NoKey, file |-> NoFile]

(* Every variable has its type. *)
TypeOK ==
    /\ status \in [Accesses -> {"none", "pending", "active", "inactive"}]
    /\ row \in [Accesses -> Keys \cup {NoKey}]
    /\ \A c \in Actors :
          \/ call[c] = Idle
          \/ /\ call[c].pc \in {"file", "set", "end"} /\ call[c].acc \in Accesses
             /\ call[c].key \in Keys \cup {NoKey} /\ call[c].file \in 0..MaxFiles
    /\ pskByPeer \in [Accesses -> Keys \cup {NoKey}]
    /\ peersByKey \subseteq Accesses
    /\ awg \in [Accesses -> Keys \cup {NoKey, Absent}]
    /\ files \subseteq 1..MaxFiles /\ excused \subseteq 1..MaxFiles
    /\ made \in 0..MaxFiles /\ faults \in 0..MaxFaults /\ restarts \in 0..MaxRestarts
    /\ lost \subseteq Old

Init ==
    /\ status = [a \in Accesses |-> IF a \in Old THEN "active" ELSE "none"]
    /\ row = [a \in Accesses |-> NoKey]
    /\ call = [c \in Actors |-> Idle]
    /\ pskByPeer = [a \in Accesses |-> IF a \in Old THEN a ELSE NoKey]
    /\ peersByKey = Old
    /\ awg = [a \in Accesses |-> IF a \in Old THEN a ELSE Absent]
    /\ files = {} /\ made = 0 /\ faults = 0 /\ restarts = 0
    /\ excused = {} /\ lost = {}

control == <<status, row>>
agent   == <<pskByPeer, peersByKey>>

Fault == faults < MaxFaults /\ faults' = faults + 1

(* The old accesses whose key is nowhere but in the text. *)
LostBy(memory, interface) == lost \cup {a \in Old : a # memory[a] /\ a # interface[a]}
--------------------------------------------------------------------------------
(***************************************************************************)
(* The control plane.                                                      *)
(***************************************************************************)
(* The key of the payload, plain or encrypted, ends as the key. *)
resolvePresharedKey(payload) ==
    IF payload.key # NoKey /\ payload.form \in {"plain", "enc:v1:"} THEN payload.key ELSE NoKey

(* The row is made with its key, and the operation with the key encrypted, *)
(* from which the push starts.                                             *)
CreateAccess(p, a) ==
    /\ status[a] = "none" /\ call[p].pc = "idle"
    /\ status' = [status EXCEPT ![a] = "pending"]
    /\ row' = [row EXCEPT ![a] = a]
    /\ call' = [call EXCEPT ![p] = [pc |-> "file", acc |-> a, file |-> NoFile,
                                    key |-> resolvePresharedKey([form |-> "enc:v1:", key |-> a])]]
    /\ UNCHANGED <<agent, awg, files, made, faults, restarts, excused, lost>>

(* The access is suspended and resumed, or ends. *)
SwitchAccess(a) ==
    /\ status[a] \in {"active", "inactive"}
    /\ status' = [status EXCEPT ![a] = IF @ = "active" THEN "inactive" ELSE "active"]
    /\ UNCHANGED <<row, call, agent, awg, files, made, faults, restarts, excused, lost>>

(* Mutant: the desired state goes without keys, as its field of that name. *)
NoKeyDesired(a) == NoKey

(* The key is in the parameters of an entry if the row has one. *)
DesiredKey(a) == row[a]
--------------------------------------------------------------------------------
(***************************************************************************)
(* The agent.                                                              *)
(***************************************************************************)
Known(a) == a \in peersByKey /\ awg[a] # Absent

(* The loop applies what it does not find; it does not compare keys. *)
Reconcile(a) ==
    /\ status[a] = "active" /\ call[Loop].pc = "idle" /\ ~Known(a)
    /\ call' = [call EXCEPT ![Loop] = [pc |-> "file", acc |-> a, file |-> NoFile,
                                       key |-> DesiredKey(a)]]
    /\ UNCHANGED <<control, agent, awg, files, made, faults, restarts, excused, lost>>

(* The loop revokes a peer that is not desired; the key is remembered. *)
RevokePeer(a) ==
    /\ status[a] # "active" /\ awg[a] # Absent /\ call[Loop].pc = "idle"
    /\ awg' = [awg EXCEPT ![a] = Absent]
    /\ peersByKey' = peersByKey \ {a}
    /\ lost' = LostBy(pskByPeer, awg')
    /\ UNCHANGED <<control, call, pskByPeer, files, made, faults, restarts, excused>>

(* The key of the request, or the one remembered. *)
KeyOf(c) == IF call[c].key # NoKey THEN call[c].key ELSE pskByPeer[call[c].acc]

NoFileNeeded(c) ==
    /\ call[c].pc = "file" /\ KeyOf(c) = NoKey
    /\ call' = [call EXCEPT ![c].pc = "set"]
    /\ UNCHANGED <<control, agent, awg, files, made, faults, restarts, excused, lost>>

(* The file is written under a random name, and the key remembered. *)
writePresharedKeyFile(c) ==
    /\ call[c].pc = "file" /\ KeyOf(c) # NoKey /\ made < MaxFiles
    /\ made' = made + 1
    /\ files' = files \cup {made'}
    /\ call' = [call EXCEPT ![c] = [@ EXCEPT !.pc = "set", !.file = made', !.key = KeyOf(c)]]
    /\ pskByPeer' = [pskByPeer EXCEPT ![call[c].acc] = KeyOf(c)]
    /\ UNCHANGED <<control, peersByKey, awg, faults, restarts, excused, lost>>

(* An error ends the call; one that comes late left the file. *)
WriteFails(c) ==
    /\ call[c].pc = "file" /\ KeyOf(c) # NoKey /\ Fault
    /\ \/ UNCHANGED <<files, made, excused>>
       \/ /\ made < MaxFiles /\ made' = made + 1
          /\ files' = files \cup {made'} /\ excused' = excused \cup {made'}
    /\ call' = [call EXCEPT ![c] = [@ EXCEPT !.pc = "end"]]
    /\ UNCHANGED <<control, agent, awg, restarts, lost>>

(* awg set gives a peer the key of the file; without a file an existing    *)
(* peer keeps the key it has.                                              *)
AfterSet(c) ==
    LET a == call[c].acc IN
    IF call[c].file # NoFile THEN call[c].key
    ELSE IF awg[a] = Absent THEN NoKey ELSE awg[a]

SetPeer(c) ==
    /\ call[c].pc = "set"
    /\ awg' = [awg EXCEPT ![call[c].acc] = AfterSet(c)]
    /\ peersByKey' = peersByKey \cup {call[c].acc}
    /\ call' = [call EXCEPT ![c].pc = "end"]
    /\ lost' = LostBy(pskByPeer, awg')
    /\ UNCHANGED <<control, pskByPeer, files, made, faults, restarts, excused>>

FailedSet(c) == [call EXCEPT ![c].pc = "end"]

SetFails(c) ==
    /\ call[c].pc = "set" /\ Fault
    /\ call' = FailedSet(c)
    /\ UNCHANGED <<control, agent, awg, files, made, restarts, excused, lost>>

(* What the operation makes of the access of a push, however it ended. *)
Ended(c) ==
    IF c \in Pushers /\ status[call[c].acc] = "pending"
    THEN {[status EXCEPT ![call[c].acc] = s] : s \in {"active", "inactive"}}
    ELSE {status}

(* The file is removed whatever happened, and the call ends; an error of   *)
(* the removal is dropped.                                                 *)
removeContainerFile(c) ==
    /\ call[c].pc = "end"
    /\ \/ files' = files \ {call[c].file} /\ UNCHANGED <<faults, excused>>
       \/ /\ call[c].file # NoFile /\ Fault
          /\ excused' = excused \cup {call[c].file} /\ UNCHANGED files
    /\ call' = [call EXCEPT ![c] = Idle]
    /\ status' \in Ended(c)
    /\ UNCHANGED <<row, agent, awg, made, restarts, lost>>

(* A restart of the agent forgets, and ends its calls in the middle. *)
AgentRestarts ==
    /\ restarts < MaxRestarts /\ restarts' = restarts + 1
    /\ pskByPeer' = [a \in Accesses |-> NoKey]
    /\ peersByKey' = {}
    /\ excused' = excused \cup ({call[c].file : c \in Actors} \ {NoFile})
    /\ call' = [c \in Actors |-> Idle]
    /\ \E s \in {"active", "inactive"} :
          status' = [a \in Accesses |-> IF status[a] = "pending" THEN s ELSE status[a]]
    /\ lost' = LostBy(pskByPeer', awg)
    /\ UNCHANGED <<row, awg, files, made, faults>>

(* One of the container keeps its files and has no peers. *)
ContainerRestarts ==
    /\ restarts < MaxRestarts /\ restarts' = restarts + 1
    /\ awg' = [a \in Accesses |-> Absent]
    /\ lost' = LostBy(pskByPeer, awg')
    /\ UNCHANGED <<control, call, agent, files, made, faults, excused>>
--------------------------------------------------------------------------------
Apply(c) ==
    \/ NoFileNeeded(c) \/ writePresharedKeyFile(c) \/ WriteFails(c)
    \/ SetPeer(c) \/ SetFails(c) \/ removeContainerFile(c)

Next ==
    \/ \E a \in Accesses :
          \/ \E p \in Pushers : CreateAccess(p, a)
          \/ SwitchAccess(a) \/ Reconcile(a) \/ RevokePeer(a)
    \/ \E c \in Actors : Apply(c)
    \/ AgentRestarts \/ ContainerRestarts

Spec == Init /\ [][Next]_vars
--------------------------------------------------------------------------------
(***************************************************************************)
(* Properties.                                                             *)
(***************************************************************************)
(* A peer on the interface has the key of the user's text, from the        *)
(* operation, the desired state or the agent's memory, whatever was        *)
(* restarted; only an old access can lose its key, when neither the        *)
(* memory nor the interface has it any more.                               *)
PeerHasKeyOfText == \A a \in Accesses \ lost : awg[a] \in {Absent, a}

(* No step takes the key from a peer that stays: a call without a key does *)
(* not clear the one the interface has.                                    *)
KeyIsNeverTaken ==
    [][\A a \in Accesses : awg[a] = a /\ awg'[a] # Absent => awg'[a] = a]_vars

(* No key file stays in the container without a call that will remove it,  *)
(* unless a command failed or the agent was restarted.                     *)
FilesAreOfCalls == files \subseteq excused \cup {call[c].file : c \in Actors}

(* The keys on the interface, and the files they came in, follow what the  *)
(* users were given, through faults and restarts.                          *)
KeysFollowText ==
    /\ [](TypeOK /\ PeerHasKeyOfText /\ FilesAreOfCalls)
    /\ KeyIsNeverTaken

================================================================================
