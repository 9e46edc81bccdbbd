------------------------------- MODULE MCNodeRuntime -------------------------------
(* What the agent keeps on a node: NodeRuntime, and beside it the document of  *)
(* XrayConfig and the keys of PresharedKeys, which look closer at what         *)
(* NodeRuntime abstracts from. One of them moves in a behaviour, the others    *)
(* stay as they began.                                                         *)
EXTENDS NodeRuntime, TLC

CONSTANTS
    Scenes,  \* the components that may move, one in a behaviour
    Uuids, NoId, Nil, Missing, NoArray, Docs, Agents, MaxCalls,
    MaxDocChanges,            \* those of XrayConfig
    Accesses, Old, Pushers, PskLoop, MaxFiles,
    MaxPskRestarts            \* those of PresharedKeys

VARIABLES
    scene,  \* the component that moves
    docFile, docAgent, docKnown, docLast, docDone, docCalls, docChanges,
    pskStatus, pskRow, pskCall, pskPskByPeer, pskPeersByKey, pskAwg, pskFiles,
    pskMade, pskFaults, pskRestarts, pskExcused, pskLost

docVars == <<docFile, docAgent, docKnown, docLast, docDone, docCalls, docChanges>>
pskVars == <<pskStatus, pskRow, pskCall, pskPskByPeer, pskPeersByKey, pskAwg,
             pskFiles, pskMade, pskFaults, pskRestarts, pskExcused, pskLost>>
allVars == <<scene, vars, docVars, pskVars>>

(* The peers of WireGuard and the clients of Xray share nothing but the container. *)
OnlyFor(K) == {call'[c].req : c \in Callers} \subseteq {r \in Requests : r.key \in K} \cup {NoReq}

(* Documents a node may have: as the bootstrap writes it, under another tag, with *)
(* duplicates and entries made by hand, without clients, incomplete, and with two *)
(* VLESS inbounds. *)
Entry(u, f, form)       == [id |-> u, flow |-> f, form |-> form]
Inbound(t, p, s, cs)    == [tag |-> t, proto |-> p, sound |-> s, clients |-> cs]
Ours(cs)                == Inbound("vless-reality", "vless", TRUE, cs)
Other(cs)               == Inbound("custom", "vless", TRUE, cs)
Api                     == Inbound("api", "other", FALSE, Missing)

Lists ==
    {<<>>, <<Entry("u1", "vision", "exact"), Entry("", "", "exact")>>,
     <<Entry("u1", "", "capitals"), Nil, Entry("u1", "vision", "fields")>>,
     <<Entry("u2", "vision", "fields"), Entry("u1", "vision", "capitals"), Entry("u2", "", "exact")>>}

MCDocs ==
    {<<Api, Ours(cs)>> : cs \in Lists}
    \cup {<<Other(cs)>> : cs \in Lists \cup {Missing, NoArray}}
    \cup {<<Other(cs), Ours(ds)>> : cs, ds \in Lists}
    \cup {<<Inbound("vless-reality", "vless", FALSE, cs)>> : cs \in Lists}
    \cup {<<Inbound("vless-reality", "other", TRUE, cs)>> : cs \in Lists}
    \cup {<<Other(Missing), Ours(cs)>> : cs \in Lists}
    \cup {<<Api>>, <<>>}

MCAgents ==
    {[tag |-> "vless-reality", flow |-> "vision"], [tag |-> "custom", flow |-> "vision"],
     [tag |-> "vless-reality", flow |-> "own"]}

Xray == INSTANCE XrayConfig WITH
    Junk <- Nil, MaxChanges <- MaxDocChanges,
    file <- docFile, agent <- docAgent, known <- docKnown, last <- docLast,
    done <- docDone, calls <- docCalls, changes <- docChanges

Psk == INSTANCE PresharedKeys WITH
    Loop <- PskLoop, MaxRestarts <- MaxPskRestarts,
    status <- pskStatus, row <- pskRow, call <- pskCall, pskByPeer <- pskPskByPeer,
    peersByKey <- pskPeersByKey, awg <- pskAwg, files <- pskFiles, made <- pskMade,
    faults <- pskFaults, restarts <- pskRestarts, excused <- pskExcused,
    lost <- pskLost

ASSUME PartsAssume ==
    /\ Xray!AgentsAreTyped
    /\ Xray!DocsAreTyped
    /\ Xray!NoneIsEntry
    /\ Xray!NoneIsList
    /\ Xray!CallsAreNat
    /\ Psk!OldAreAccesses
    /\ Psk!LoopIsNoPusher
    /\ Psk!AccessesAreKeys
    /\ Psk!BoundsAreNat

AllInit ==
    /\ scene \in Scenes
    /\ Init
    /\ Xray!Init
    /\ scene = "document" \/ (docFile = <<>> /\ docAgent = [tag |-> "custom", flow |-> "vision"])
    /\ Psk!Init

AllNext ==
    \/ /\ scene = "wireguard"
       /\ Next /\ OnlyFor(WgKeys)
       /\ UNCHANGED <<scene, docVars, pskVars>>
    \/ /\ scene = "xray"
       /\ Next /\ OnlyFor(XrayKeys)
       /\ UNCHANGED <<scene, docVars, pskVars>>
    \/ scene = "document" /\ Xray!Next /\ UNCHANGED <<scene, vars, pskVars>>
    \/ scene = "keys" /\ Psk!Next /\ UNCHANGED <<scene, vars, docVars>>

AllSpec == AllInit /\ [][AllNext]_allVars

------------------------------------------------------------------------------------
(* The document is what the acknowledged calls make of it: their own ids come  *)
(* and go, what others wrote stays, and the container can start from it.       *)
DocumentFollowsCalls == Xray!DocumentFollowsCalls

(* The keys on the interface, and the files they came in, follow what the      *)
(* users were given, through faults and restarts.                              *)
KeysFollowText == Psk!KeysFollowText

====================================================================================
