------------------------------- MODULE XrayConfig -------------------------------
(***************************************************************************)
(* The Xray configuration as a document: which of its inbounds a call of   *)
(* the agent changes, what the change does to the entries of the others,   *)
(* and what the listing makes of it.  NodeRuntime takes the file for a set *)
(* of clients; here is under which documents that is true.                 *)
(*                                                                         *)
(* Abstractions.  A call is one step: it holds xrayMu throughout, and its  *)
(* commands, their failures and the restart are in NodeRuntime.  Of an     *)
(* inbound everything but tag, protocol and clients that the validation    *)
(* asks for is one Boolean; an entry is well formed, spelled with capitals *)
(* or has further fields; letters of tags and protocols do not matter.     *)
(***************************************************************************)
EXTENDS Integers, Sequences, FiniteSets, SequencesExt

CONSTANTS
    Uuids,
    NoId,        \* the id of an entry that has none
    Junk,        \* a client that is no object
    Missing,     \* an inbound without clients
    NoArray,     \* an inbound whose clients are no array
    Docs,        \* documents an operator or the bootstrap may leave
    Agents,      \* settings an agent may start with
    MaxCalls,    \* bound: requests
    MaxChanges   \* bound: edits by hand and restarts of the agent

Flows == {"vision", "own", ""}
Tags  == {"vless-reality", "custom", "api"}

Entry   == [id: Uuids \cup {NoId}, flow: Flows, form: {"exact", "capitals", "fields"}]
Client  == Entry \cup {Junk}
NoList  == {Missing, NoArray}
Inbound == [tag: Tags, proto: {"vless", "other"}, sound: BOOLEAN, clients: NoList \cup Seq(Client)]

(* XRAY_API_INBOUND_TAG and XRAY_CLIENT_FLOW; an empty one has a default.   *)
Agent == [tag: Tags, flow: Flows \ {""}]

AgentsAreTyped == Agents \subseteq Agent
DocsAreTyped   == Docs \subseteq Seq(Inbound)
NoneIsEntry    == NoId \notin Uuids /\ Junk \notin Entry
NoneIsList     == Missing # NoArray /\ NoList \cap Seq(Client) = {}
CallsAreNat    == MaxCalls \in Nat /\ MaxChanges \in Nat

VARIABLES
    file,     \* the document: a sequence of inbounds
    agent,    \* settings of the agent that runs
    known,    \* peersByKey, its Xray entries
    last,     \* history: what was last acknowledged for an id
    done,     \* history: the last call
    calls,    \* history: requests so far
    changes   \* history: edits and restarts so far

vars == <<file, agent, known, last, done, calls, changes>>

IsList(c)  == c \notin NoList
IsEntry(e) == e # Junk

NothingDone == [action |-> "none"]

Init ==
    /\ file \in Docs /\ agent \in Agents
    /\ known = {}
    /\ last = [u \in Uuids |-> "none"]
    /\ done = NothingDone
    /\ calls = 0 /\ changes = 0
--------------------------------------------------------------------------------
(***************************************************************************)
(* Reading the document.                                                   *)
(***************************************************************************)
Vless(doc) == {i \in DOMAIN doc : doc[i].proto = "vless"}

(* The inbound with the tag, whatever its protocol; without one the VLESS   *)
(* inbound, if it is the only one.  0 is an error. *)
SelectXrayVLESSInbound(doc) ==
    LET tagged == {i \in DOMAIN doc : doc[i].tag = agent.tag}
    IN  IF tagged # {} THEN Min(tagged)
        ELSE IF Cardinality(Vless(doc)) = 1 THEN Min(Vless(doc)) ELSE 0

(* The inbounds that listing and validation look at: by protocol, or by a   *)
(* tag that is not the one of the settings. *)
Looked(doc) == Vless(doc) \cup {i \in DOMAIN doc : doc[i].tag = "vless-reality"}

IdsIn(inbound) ==
    IF IsList(inbound.clients)
    THEN {e.id : e \in {f \in Range(inbound.clients) : IsEntry(f)}} \ {NoId} ELSE {}

ListXrayClientStats(doc) == UNION {IdsIn(doc[i]) : i \in Looked(doc)}

(* Only the first inbound of the listing is looked at. *)
ValidateXrayConfig(doc) ==
    /\ Looked(doc) # {}
    /\ LET i == Min(Looked(doc)) IN doc[i].sound /\ IsList(doc[i].clients)
--------------------------------------------------------------------------------
(***************************************************************************)
(* Changing it.                                                            *)
(***************************************************************************)
Names(e, u) == IsEntry(e) /\ e.id = u

Positions(cs, u) == {i \in DOMAIN cs : Names(cs[i], u)}

(* What next holds after n of the clients, and in the end. *)
Kept(cs, u) ==
    LET next[n \in 0..Len(cs)] ==
            IF n = 0 THEN <<>>
            ELSE IF Names(cs[n], u) THEN next[n - 1] ELSE Append(next[n - 1], cs[n])
    IN  next

Without(cs, u) == Kept(cs, u)[Len(cs)]

Fresh(u) == [id |-> u, flow |-> agent.flow, form |-> "exact"]

SameXrayClient(e, u) == e.flow = agent.flow /\ e.form # "fields"

Failed       == [ok |-> FALSE]
Result(doc)  == [ok |-> TRUE, doc |-> doc]
With(doc, i, cs) == [doc EXCEPT ![i].clients = cs]

(* The first entry of the id is made what it has to be, further ones stay   *)
(* as they are; without one it goes to the end. *)
EnsureXrayClientInConfig(doc, u) ==
    LET i == SelectXrayVLESSInbound(doc)
        cs == IF doc[i].clients = Missing THEN <<>> ELSE doc[i].clients
        at == Positions(cs, u)
    IN  IF i = 0 \/ doc[i].clients = NoArray THEN Failed
        ELSE IF at = {} THEN Result(With(doc, i, Append(cs, Fresh(u))))
        ELSE IF SameXrayClient(cs[Min(at)], u) THEN Result(doc)
        ELSE Result(With(doc, i, [cs EXCEPT ![Min(at)] = Fresh(u)]))

(* Mutant: the first entry is the one that is taken out. *)
RemoveFirstEntry(doc, u) ==
    LET i == SelectXrayVLESSInbound(doc)
        cs == doc[i].clients
    IN  IF i = 0 \/ cs = NoArray THEN Failed
        ELSE IF cs = Missing \/ Positions(cs, u) = {} THEN Result(doc)
        ELSE Result(With(doc, i, RemoveAt(cs, Min(Positions(cs, u)))))

RemoveXrayClientFromConfig(doc, u) ==
    LET i == SelectXrayVLESSInbound(doc)
        cs == doc[i].clients
    IN  IF i = 0 \/ cs = NoArray THEN Failed
        ELSE IF cs = Missing \/ Positions(cs, u) = {} THEN Result(doc)
        ELSE Result(With(doc, i, Without(cs, u)))

(* Nothing is written when nothing changes, and then nothing is validated.  *)
Accepted(r) == r.ok /\ (r.doc = file \/ ValidateXrayConfig(r.doc))

Answer(action, u, r) ==
    /\ calls < MaxCalls
    /\ calls' = calls + 1
    /\ done' = [action |-> action, uuid |-> u, ok |-> Accepted(r)]
    /\ file' = IF Accepted(r) THEN r.doc ELSE file
    /\ last' = IF Accepted(r) THEN [last EXCEPT ![u] = action] ELSE last
    /\ UNCHANGED <<agent, changes>>

ApplyXrayClient(u) ==
    LET r == EnsureXrayClientInConfig(file, u)
    IN  /\ Answer("apply", u, r)
        /\ known' = IF Accepted(r) THEN known \cup {u} ELSE known

RevokeXrayClient(u) ==
    LET r == RemoveXrayClientFromConfig(file, u)
    IN  /\ Answer("revoke", u, r)
        /\ known' = IF Accepted(r) THEN known \ {u} ELSE known
--------------------------------------------------------------------------------
Change == /\ changes < MaxChanges /\ changes' = changes + 1
          /\ last' = [u \in Uuids |-> "none"]
          /\ done' = NothingDone
          /\ UNCHANGED calls

(* The operator edits the file. *)
EditByHand == Change /\ file' \in Docs /\ UNCHANGED <<agent, known>>

(* The agent restarts, perhaps with other settings. *)
RestartAgent == Change /\ agent' \in Agents /\ known' = {} /\ UNCHANGED file

Next ==
    \/ \E u \in Uuids : ApplyXrayClient(u) \/ RevokeXrayClient(u)
    \/ EditByHand \/ RestartAgent

Spec == Init /\ [][Next]_vars
--------------------------------------------------------------------------------
(***************************************************************************)
(* Properties.                                                             *)
(***************************************************************************)

(* Every variable has its type. *)
TypeOK ==
    /\ file \in Seq(Inbound)
    /\ agent \in Agents
    /\ known \subseteq Uuids
    /\ last \in [Uuids -> {"none", "apply", "revoke"}]
    /\ calls \in 0..MaxCalls /\ changes \in 0..MaxChanges

(* In a document whose only inbound of the listing is the one the calls go  *)
(* to, the file is the set of clients the control loop takes it for: an     *)
(* acknowledged call changes the listing by its own id and by nothing else, *)
(* whatever entries, duplicates and spellings the document holds.           *)
ListingFollowsCalls ==
    [][/\ done'.action # "none" /\ calls' # calls
       /\ Looked(file) = {SelectXrayVLESSInbound(file)}
       => LET seen == ListXrayClientStats(file)
              now  == ListXrayClientStats(file')
          IN  now = IF ~done'.ok THEN seen
                    ELSE IF done'.action = "apply" THEN seen \cup {done'.uuid}
                    ELSE seen \ {done'.uuid}]_vars

(* Until somebody else touches the file, an id whose last acknowledged call *)
(* was an apply has an entry, and the first of them, which is the one a     *)
(* repeated apply looks at, has the flow of the settings and nothing else;  *)
(* calls for other ids do not disturb it. *)
AppliedStays ==
    \A u \in Uuids : last[u] = "apply" =>
        LET cs == file[SelectXrayVLESSInbound(file)].clients
            at == Positions(cs, u)
        IN  at # {} /\ LET e == cs[Min(at)] IN e.flow = agent.flow /\ e.form # "fields"

(* And one whose last acknowledged call was a revoke has none left, also    *)
(* when the file had several of them or spelled with capitals. *)
RevokedIsGone ==
    \A u \in Uuids : last[u] = "revoke" =>
        u \notin IdsIn(file[SelectXrayVLESSInbound(file)])

(* A call leaves alone what it is not about: no inbound is added or lost,   *)
(* and of all inbounds the clients that do not name its id stay, in their   *)
(* order, entries the agent cannot read included. *)
OthersKept ==
    [][calls' # calls
       => /\ DOMAIN file' = DOMAIN file
          /\ \A i \in DOMAIN file :
                 LET others(cs) == IF IsList(cs) THEN Without(cs, done'.uuid) ELSE <<>>
                 IN  others(file'[i].clients) = others(file[i].clients)]_vars

(* A file the agent wrote can be started from: the VLESS inbound that comes *)
(* first in it is complete, even if the calls go to another one. *)
WrittenIsComplete ==
    [][calls' # calls /\ file' # file
       => \A i \in Looked(file) :
              (\A j \in Looked(file) : i <= j)
              => file'[i].sound /\ IsList(file'[i].clients)]_vars

(* The file is what the acknowledged calls make of it: their own ids come  *)
(* and go, what others wrote stays, and the container can start from it.   *)
DocumentFollowsCalls ==
    /\ [](TypeOK /\ AppliedStays /\ RevokedIsGone)
    /\ ListingFollowsCalls /\ OthersKept /\ WrittenIsComplete

================================================================================
