------------------------------ MODULE ConfigTokens ------------------------------
(***************************************************************************)
(* The WireGuard config of an access, from the moment it is rendered and   *)
(* stored to the moment it is handed out: by the bot, which compares its   *)
(* server key with the node's, or through a link with a token that is good *)
(* for one download.  A revocation closes tokens and config; a start of    *)
(* the control plane may bring another NODE_ID and another server key.     *)
(*                                                                         *)
(* Abstractions.  One user, whose updates the dispatcher takes one at a    *)
(* time, and an admin who may revoke meanwhile.  A config is the server    *)
(* key it names; the key of the device never changes and is left out.      *)
(* Rendering fails when there is no server key and otherwise succeeds.     *)
(***************************************************************************)
EXTENDS Integers, FiniteSets

CONSTANTS
    Accesses,   \* accesses the user may be given, each with a device of its own
    Tokens,
    Downloads,  \* requests to /download/config
    Nodes, Keys,
    None,       \* no row, no blob, no token
    NoKey,      \* the empty server key
    FirstNode, FirstKey,  \* NODE_ID and VPN_SERVER_PUBLIC_KEY at the first start
    Handlers,   \* who revokes: "user" and perhaps "admin"
    MaxStarts,  \* bound: further starts of the control plane
    MaxFaults   \* bound: failing calls

ASSUME FirstConfig  == FirstNode \in Nodes /\ FirstKey \in Keys
ASSUME NoneIsNoKey  == {None, NoKey} \cap (Keys \cup Tokens \cup Accesses) = {} /\ None # NoKey
ASSUME UserHandles  == "user" \in Handlers /\ Handlers \subseteq {"user", "admin"}
ASSUME BoundsAreNat == {MaxStarts, MaxFaults} \subseteq Nat

VARIABLES
    envKey,     \* VPN_SERVER_PUBLIC_KEY
    key,        \* vpn_nodes.server_public_key, or None when there is no row
    up,         \* nodes with status 'active'
    acc,        \* device_accesses, with the status of the device
    tok,        \* config_download_tokens
    flow,       \* what each handler is doing
    down,       \* the download requests
    refused,    \* history: the key of the last config refused for its server key
    starts,     \* history: further starts
    faults      \* history: failing calls

vars == <<envKey, key, up, acc, tok, flow, down, refused, starts, faults>>

Access == [st: {"none", "pending", "active", "revoked"},
           dev: {"none", "active", "revoked"},
           node: Nodes \cup {None}, blob: Keys \cup {None}]
Token  == [acc: Accesses \cup {None}, st: {"none", "issued", "used", "revoked"},
           expired: BOOLEAN, served: Nat]
Flow   == [pc: {"idle", "peer", "blob", "token",
                "revokePeer", "revokeTokens", "clearBlob", "revokeDevice"},
           acc: Accesses \cup {None}]
Down   == [pc: {"idle", "access", "mark", "done"}, tok: Tokens \cup {None}, before: Nat]

Idle   == [pc |-> "idle", acc |-> None]

TypeOK ==
    /\ envKey \in Keys \cup {NoKey}
    /\ key \in [Nodes -> Keys \cup {NoKey, None}]
    /\ up \subseteq {n \in Nodes : key[n] # None}
    /\ acc \in [Accesses -> Access]
    /\ \A t \in Tokens : tok[t] \in Token
    /\ flow \in [Handlers -> Flow]
    /\ \A d \in Downloads : down[d] \in Down
    /\ refused \in Keys \cup {None}
    /\ starts \in 0..MaxStarts
    /\ faults \in 0..MaxFaults

(* The first start has put the row of its node, unless the agent was there *)
(* before it. *)
Init ==
    /\ envKey = FirstKey
    /\ \E k \in {FirstKey, NoKey} :
           key = [n \in Nodes |-> IF n = FirstNode THEN k ELSE None]
    /\ up = {FirstNode}
    /\ acc = [a \in Accesses |-> [st |-> "none", dev |-> "none", node |-> None, blob |-> None]]
    /\ tok = [t \in Tokens |-> [acc |-> None, st |-> "none", expired |-> FALSE, served |-> 0]]
    /\ flow = [h \in Handlers |-> Idle]
    /\ down = [d \in Downloads |-> [pc |-> "idle", tok |-> None, before |-> 0]]
    /\ refused = None
    /\ starts = 0 /\ faults = 0

config  == <<envKey, key, up, starts>>

Becomes(h, f) == flow' = [flow EXCEPT ![h] = f]
Pc(h, pc)     == Becomes(h, [flow[h] EXCEPT !.pc = pc])
At(h, pc)     == flow[h].pc = pc
Fault         == faults < MaxFaults /\ faults' = faults + 1

Device == {a \in Accesses : acc[a].dev = "active"}
--------------------------------------------------------------------------------
(***************************************************************************)
(* A new device and its config.                                            *)
(***************************************************************************)
CreateDevice(a, n) ==
    /\ flow["user"] = Idle /\ Device = {}
    /\ acc[a].st = "none" /\ n \in up
    /\ acc' = [acc EXCEPT ![a] = [st |-> "pending", dev |-> "active", node |-> n, blob |-> None]]
    /\ Becomes("user", [pc |-> "peer", acc |-> a])
    /\ UNCHANGED <<config, tok, down, refused, faults>>

(* A peer that could not be made is logged and the flow goes on. *)
CreatePeer ==
    /\ At("user", "peer")
    /\ Pc("user", "blob")
    /\ \/ /\ acc' = [acc EXCEPT ![flow["user"].acc].st = IF @ = "pending" THEN "active" ELSE @]
          /\ UNCHANGED faults
       \/ Fault /\ UNCHANGED acc
    /\ UNCHANGED <<config, tok, down, refused>>

SetBlob(a, k) == acc' = [acc EXCEPT ![a].blob = k]

(* The configured key goes before the one of the node. *)
ServerKey(a) == IF envKey # NoKey THEN envKey ELSE key[acc[a].node]

SetConfigBlobEncrypted ==
    LET a == flow["user"].acc
    IN  /\ At("user", "blob")
        /\ IF ServerKey(a) = NoKey
           THEN Becomes("user", Idle) /\ UNCHANGED acc
           ELSE /\ SetBlob(a, ServerKey(a))
                /\ Pc("user", "token")
        /\ UNCHANGED <<config, tok, down, refused, faults>>

CreateToken(t, a) ==
    /\ tok[t].st = "none"
    /\ tok' = [tok EXCEPT ![t] = [acc |-> a, st |-> "issued", expired |-> FALSE, served |-> 0]]

IssueToken(t) ==
    /\ At("user", "token")
    /\ CreateToken(t, flow["user"].acc)
    /\ Becomes("user", Idle)
    /\ UNCHANGED <<config, acc, down, refused, faults>>

(* A statement fails and the flow returns. *)
IssueFails ==
    /\ flow["user"].pc \in {"blob", "token"}
    /\ Becomes("user", Idle)
    /\ Fault
    /\ UNCHANGED <<config, acc, tok, down, refused>>
--------------------------------------------------------------------------------
(***************************************************************************)
(* The bot hands the config out.                                           *)
(***************************************************************************)
Ready(a) == flow["user"] = Idle /\ acc[a].st = "active" /\ acc[a].blob # None

(* validateWireguardConfigServerKey *)
Current(a) == key[acc[a].node] \in {acc[a].blob, NoKey}

(* A config whose server key is not the node's is thrown away. *)
loadConfigPlaintext(a) ==
    IF Current(a)
    THEN UNCHANGED <<acc, refused>>
    ELSE /\ acc' = [acc EXCEPT ![a].blob = None]
         /\ refused' = acc[a].blob

SendConfig(a) ==
    /\ Ready(a) /\ acc[a].dev = "active"
    /\ loadConfigPlaintext(a)
    /\ UNCHANGED <<config, tok, flow, down, faults>>

(* The button of the device's card: it sends the config there is, and says *)
(* that it has been reissued. *)
Reissue(a) ==
    /\ flow["user"] = Idle /\ acc[a].st = "active"
    /\ IF acc[a].blob # None
       THEN loadConfigPlaintext(a)
       ELSE UNCHANGED <<acc, refused>>
    /\ UNCHANGED <<config, tok, flow, down, faults>>

(* A link for a config that could not be made into a key. *)
issueDownloadToken(a, t) ==
    /\ Ready(a)
    /\ CreateToken(t, a)
    /\ UNCHANGED <<config, acc, flow, down, refused, faults>>
--------------------------------------------------------------------------------
(***************************************************************************)
(* The link.                                                               *)
(***************************************************************************)
(* Time and use count, the status does not. *)
Good(t) == tok[t].st # "none" /\ ~tok[t].expired /\ tok[t].served = 0

GetByTokenHash(d, t) ==
    /\ down[d].pc = "idle"
    /\ Good(t)
    /\ down' = [down EXCEPT ![d] = [pc |-> "access", tok |-> t, before |-> tok[t].served]]
    /\ UNCHANGED <<config, acc, tok, flow, refused, faults>>

LoadBlob(d) ==
    /\ down[d].pc = "access"
    /\ down' = [down EXCEPT ![d].pc =
           IF acc[tok[down[d].tok].acc].blob # None THEN "mark" ELSE "done"]
    /\ UNCHANGED <<config, acc, tok, flow, refused, faults>>

(* Whatever the row says, the update succeeds and the config is sent. *)
MarkUsed(d) ==
    /\ down[d].pc = "mark"
    /\ tok' = [tok EXCEPT ![down[d].tok].st = "used", ![down[d].tok].served = @ + 1]
    /\ down' = [down EXCEPT ![d].pc = "done"]
    /\ UNCHANGED <<config, acc, flow, refused, faults>>

Expire(t) ==
    /\ tok[t].st # "none" /\ ~tok[t].expired
    /\ tok' = [tok EXCEPT ![t].expired = TRUE]
    /\ UNCHANGED <<config, acc, flow, down, refused, faults>>
--------------------------------------------------------------------------------
(***************************************************************************)
(* RevokeDeviceAccess, for the user who deletes the device and for the     *)
(* admin who revokes the user's access.                                    *)
(***************************************************************************)
DeleteDevice(h, a) ==
    /\ flow[h] = Idle /\ a \in Device
    /\ Becomes(h, [pc |-> IF acc[a].st = "active" THEN "revokePeer" ELSE "revokeDevice",
                   acc |-> a])
    /\ UNCHANGED <<config, acc, tok, down, refused, faults>>

(* When the peer cannot be removed nothing else is undone. *)
RevokePeer(h) ==
    /\ At(h, "revokePeer")
    /\ \/ /\ acc' = [acc EXCEPT ![flow[h].acc].st = "revoked"]
          /\ Pc(h, "revokeTokens")
          /\ UNCHANGED faults
       \/ /\ Pc(h, "revokeDevice")
          /\ Fault
          /\ UNCHANGED acc
    /\ UNCHANGED <<config, tok, down, refused>>

Issued(t, a) == tok[t].acc = a /\ tok[t].st = "issued" /\ ~tok[t].expired

RevokeIssuedByAccessID(h) ==
    /\ At(h, "revokeTokens")
    /\ tok' = [t \in Tokens |->
           IF Issued(t, flow[h].acc) THEN [tok[t] EXCEPT !.st = "revoked"] ELSE tok[t]]
    /\ Pc(h, "clearBlob")
    /\ UNCHANGED <<config, acc, down, refused, faults>>

(* Mutant: the config is kept. *)
KeepConfigBlob(h) ==
    /\ At(h, "clearBlob")
    /\ Pc(h, "revokeDevice")
    /\ UNCHANGED <<config, acc, tok, down, refused, faults>>

ClearConfigBlobEncrypted(h) ==
    /\ At(h, "clearBlob")
    /\ acc' = [acc EXCEPT ![flow[h].acc].blob = None]
    /\ Pc(h, "revokeDevice")
    /\ UNCHANGED <<config, tok, down, refused, faults>>

RevokeDevice(h) ==
    /\ At(h, "revokeDevice")
    /\ acc' = [acc EXCEPT ![flow[h].acc].dev = "revoked"]
    /\ Becomes(h, Idle)
    /\ UNCHANGED <<config, tok, down, refused, faults>>
--------------------------------------------------------------------------------
(***************************************************************************)
(* Starts and nodes.                                                       *)
(***************************************************************************)
(* ensureSingleNode: the row of the node is made, or keeps its server key; *)
(* the other nodes go down and their accesses move here.  Without a server *)
(* key it does nothing. *)
Start(n, k) ==
    /\ starts < MaxStarts
    /\ starts' = starts + 1
    /\ envKey' = k
    /\ flow' = [h \in Handlers |-> Idle]
    /\ down' = [d \in Downloads |->
           IF down[d].pc \in {"access", "mark"} THEN [down[d] EXCEPT !.pc = "done"] ELSE down[d]]
    /\ IF k = NoKey
       THEN UNCHANGED <<key, up, acc>>
       ELSE /\ key' = [key EXCEPT ![n] = IF @ = None THEN k ELSE @]
            /\ up' = {n}
            /\ acc' = [a \in Accesses |->
                   IF acc[a].st \in {"pending", "active"} THEN [acc[a] EXCEPT !.node = n]
                                                          ELSE acc[a]]
    /\ UNCHANGED <<tok, refused, faults>>

(* An agent registers: a new row has no server key. *)
Register(n) ==
    /\ n \notin up
    /\ up' = up \cup {n}
    /\ key' = [key EXCEPT ![n] = IF @ = None THEN NoKey ELSE @]
    /\ UNCHANGED <<envKey, starts, acc, tok, flow, down, refused, faults>>
--------------------------------------------------------------------------------
Next ==
    \/ \E a \in Accesses, n \in Nodes : CreateDevice(a, n)
    \/ CreatePeer \/ SetConfigBlobEncrypted \/ IssueFails
    \/ \E t \in Tokens : IssueToken(t) \/ Expire(t)
    \/ \E a \in Accesses :
          \/ SendConfig(a) \/ Reissue(a)
          \/ \E t \in Tokens : issueDownloadToken(a, t)
    \/ \E d \in Downloads :
          \/ \E t \in Tokens : GetByTokenHash(d, t)
          \/ LoadBlob(d) \/ MarkUsed(d)
    \/ \E h \in Handlers :
          \/ \E a \in Accesses : DeleteDevice(h, a)
          \/ RevokePeer(h) \/ RevokeIssuedByAccessID(h)
          \/ ClearConfigBlobEncrypted(h) \/ RevokeDevice(h)
    \/ \E n \in Nodes : Register(n) \/ \E k \in Keys \cup {NoKey} : Start(n, k)

Spec == Init /\ [][Next]_vars
--------------------------------------------------------------------------------
(***************************************************************************)
(* A token that serves again had been looked up by the second request      *)
(* before the first one was served: a request that comes after a download  *)
(* gets nothing.                                                           *)
(***************************************************************************)
ServedAgainOverlapped == \A d \in Downloads : down[d].pc # "idle" => down[d].before = 0

(***************************************************************************)
(* The config of an access its user has deleted is gone, however the       *)
(* downloads and the links interleave with the deletion; no new link can   *)
(* be opened on it.  Unless the control plane stops between the statements:*)
(* nobody takes the deletion up again.                                     *)
(***************************************************************************)
Closing(a) == \E h \in Handlers : flow[h].acc = a

RevokedIsClosed ==
    starts = 0 => \A a \in Accesses : acc[a].st = "revoked" => acc[a].blob = None \/ Closing(a)

(***************************************************************************)
(* As long as the configuration does not change, the bot never refuses a   *)
(* config for its server key, whichever node is chosen and whoever made    *)
(* the row of that node.                                                   *)
(***************************************************************************)
AcceptedUntilChanged == starts = 0 => refused = None

(* A link serves once, a deleted access serves nobody, and a good config   *)
(* is not refused.                                                         *)
TokensClose ==
    TypeOK /\ ServedAgainOverlapped /\ RevokedIsClosed /\ AcceptedUntilChanged

================================================================================
