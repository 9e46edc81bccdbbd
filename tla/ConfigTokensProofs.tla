-------------------------- MODULE ConfigTokensProofs ---------------------------
(***************************************************************************)
(* That links close, for any accesses, tokens, downloads, nodes and keys   *)
(* and any failing calls.  What a token serves and what the bot refuses is *)
(* so whoever revokes; that a deleted access keeps no config is so when    *)
(* the only one who revokes is the user, whose updates come one by one: an *)
(* admin who revokes between the peer and the config of a new device       *)
(* leaves the config behind, which the dispatcher does not prevent.        *)
(*                                                                         *)
(* Then, for what MCConfigTokens puts beside ConfigTokens and for any      *)
(* values of its constants: Users, Panel, Dialogue, AuditTrail, Figures    *)
(* and ConfigExport.                                                       *)
(***************************************************************************)
EXTENDS MCConfigTokens, Sequences, FiniteSetTheorems, WellFoundedInduction, TLAPS

(* The functions have the domains TypeOK reads them on.                    *)
Shapes == tok \in [Tokens -> Token] /\ down \in [Downloads -> Down]

(* A handler in the middle of something has an access, a download a token. *)
OnSomething ==
    /\ \A h \in Handlers : flow[h].pc # "idle" => flow[h].acc \in Accesses
    /\ \A d \in Downloads : down[d].pc \in {"access", "mark"} => down[d].tok \in Tokens

(* The node of an access has a row, before and after any start.            *)
OnARow == \A a \in Accesses : acc[a].st # "none" => acc[a].node \in Nodes /\ key[acc[a].node] # None

(* What a handler makes, or is about to revoke, is there.                  *)
Ahead(f) == f.pc \in {"peer", "blob", "token", "revokePeer"}

MakingIsOpen == \A h \in Handlers : Ahead(flow[h]) => acc[flow[h].acc].st # "none"

(* No other server key is known before a further start.                    *)
FirstKeyOnly ==
    starts = 0 =>
        /\ envKey = FirstKey
        /\ \A n \in Nodes : key[n] \in {FirstKey, NoKey, None}
        /\ \A a \in Accesses : acc[a].blob \in {FirstKey, None}

(* The user's handler alone: what it is making is not revoked, and what is *)
(* revoked has no config or is about to lose it.                           *)
ClosedInTurn ==
    Handlers = {"user"} /\ starts = 0 =>
        /\ flow["user"].pc \in {"peer", "blob", "token"} => acc[flow["user"].acc].st # "revoked"
        /\ \A a \in Accesses : acc[a].st = "revoked" =>
              \/ acc[a].blob = None
              \/ flow["user"].pc \in {"revokeTokens", "clearBlob"} /\ flow["user"].acc = a

IInv == /\ TypeOK /\ Shapes /\ OnSomething /\ OnARow /\ MakingIsOpen /\ FirstKeyOnly
        /\ ClosedInTurn /\ ServedAgainOverlapped /\ AcceptedUntilChanged

--------------------------------------------------------------------------------
(***************************************************************************)
(* What a step of one handler that writes at most one access has to keep.  *)
(***************************************************************************)
LEMMA FlowFields ==
    ASSUME NEW f \in Flow,
           NEW pc \in {"idle", "peer", "blob", "token",
                       "revokePeer", "revokeTokens", "clearBlob", "revokeDevice"}
    PROVE  /\ [f EXCEPT !.pc = pc] \in Flow
           /\ [f EXCEPT !.pc = pc].pc = pc
           /\ [f EXCEPT !.pc = pc].acc = f.acc
BY DEF Flow

LEMMA IdleFields == Idle \in Flow /\ Idle.pc = "idle" /\ Idle.acc = None
BY DEF Flow, Idle

LEMMA FaultCounts ==
    ASSUME TypeOK, Fault
    PROVE  faults' \in 0..MaxFaults
BY BoundsAreNat DEF TypeOK, Fault

(* A handler moves to f. *)
LEMMA HandlerAt ==
    ASSUME IInv, NEW h \in Handlers, NEW f \in Flow, Becomes(h, f)
    PROVE  /\ flow' \in [Handlers -> Flow] /\ flow'[h] = f
           /\ \A k \in Handlers \ {h} : flow'[k] = flow[k]
BY DEF IInv, TypeOK, Becomes

(* The row of an access becomes r. *)
LEMMA RowAt ==
    ASSUME IInv, NEW a \in Accesses, NEW r \in Access, acc' = [acc EXCEPT ![a] = r]
    PROVE  /\ acc' \in [Accesses -> Access] /\ acc'[a] = r
           /\ \A b \in Accesses \ {a} : acc'[b] = acc[b]
BY DEF IInv, TypeOK

LEMMA HandlerMoves ==
    ASSUME IInv, NEW h \in Handlers, NEW a \in Accesses,
           flow' \in [Handlers -> Flow], \A k \in Handlers \ {h} : flow'[k] = flow[k],
           acc' \in [Accesses -> Access], \A b \in Accesses \ {a} : acc'[b] = acc[b],
           UNCHANGED <<config, down>>,
           tok' \in [Tokens -> Token], faults' \in 0..MaxFaults,
           refused' \in Keys \cup {None}, starts = 0 => refused' = None,
           flow'[h].pc # "idle" => flow'[h].acc \in Accesses,
           acc[a].st # "none" => acc'[a].st # "none",
           acc'[a].st # "none" => acc'[a].node \in Nodes /\ key[acc'[a].node] # None,
           Ahead(flow'[h]) => acc'[flow'[h].acc].st # "none",
           starts = 0 => acc'[a].blob \in {FirstKey, None},
           ClosedInTurn'
    PROVE  IInv'
<1>1. UNCHANGED <<envKey, key, up, starts, down>>
  BY DEF config
<1>2. TypeOK' /\ Shapes'
  BY <1>1 DEF IInv, TypeOK, Shapes
<1>3. OnSomething'
  BY <1>1 DEF IInv, OnSomething
<1>4. OnARow'
  <2>1. ASSUME NEW b \in Accesses, acc'[b].st # "none"
        PROVE  acc'[b].node \in Nodes /\ key[acc'[b].node] # None
    BY <2>1 DEF IInv, OnARow
  <2> QED BY <1>1, <2>1 DEF OnARow
<1>5. MakingIsOpen'
  <2> SUFFICES ASSUME NEW k \in Handlers \ {h}, Ahead(flow'[k])
               PROVE  acc'[flow'[k].acc].st # "none"
    BY DEF MakingIsOpen
  <2>1. flow[k].acc \in Accesses /\ acc[flow[k].acc].st # "none" /\ flow'[k] = flow[k]
    BY DEF IInv, OnSomething, MakingIsOpen, Ahead
  <2> QED BY <2>1
<1>6. FirstKeyOnly'
  <2>1. ASSUME starts = 0, NEW b \in Accesses PROVE acc'[b].blob \in {FirstKey, None}
    BY <2>1 DEF IInv, FirstKeyOnly
  <2> QED BY <1>1, <2>1 DEF IInv, FirstKeyOnly
<1>7. ServedAgainOverlapped' /\ AcceptedUntilChanged'
  BY <1>1 DEF IInv, ServedAgainOverlapped, AcceptedUntilChanged
<1> QED BY <1>2, <1>3, <1>4, <1>5, <1>6, <1>7 DEF IInv

(* What is so of a handler in the middle of something, and of its access.  *)
LEMMA Underway ==
    ASSUME IInv
    PROVE  /\ \A h \in Handlers : flow[h] \in Flow /\ (flow[h].pc # "idle" => flow[h].acc \in Accesses)
           /\ flow \in [Handlers -> Flow] /\ acc \in [Accesses -> Access] /\ tok \in [Tokens -> Token]
           /\ \A a \in Accesses : /\ acc[a] \in Access
                                  /\ acc[a].st # "none" => acc[a].node \in Nodes /\ key[acc[a].node] # None
                                  /\ starts = 0 => acc[a].blob \in {FirstKey, None}
           /\ refused \in Keys \cup {None} /\ (starts = 0 => refused = None)
           /\ faults \in 0..MaxFaults /\ TypeOK /\ "user" \in Handlers
BY UserHandles DEF IInv, TypeOK, Shapes, OnSomething, OnARow, FirstKeyOnly, AcceptedUntilChanged

(* A step that leaves the accesses alone. *)
LEMMA OnlyTheHandler ==
    ASSUME IInv, NEW h \in Handlers, NEW f \in Flow, Becomes(h, f),
           UNCHANGED <<config, acc, down, refused>>,
           tok' \in [Tokens -> Token], faults' \in 0..MaxFaults,
           f.pc # "idle" => f.acc \in Accesses,
           flow[h].pc = "idle" => f.acc \in Accesses,
           f.pc \in {"peer", "blob", "token"} =>
               flow[h].pc \in {"peer", "blob", "token"} /\ f.acc = flow[h].acc,
           f.pc = "revokePeer" => acc[f.acc].st # "none",
           flow[h].pc \in {"revokeTokens", "clearBlob"} =>
               f.pc \in {"revokeTokens", "clearBlob"} /\ f.acc = flow[h].acc
    PROVE  IInv'
<1>1. /\ flow' \in [Handlers -> Flow] /\ flow'[h] = f
      /\ \A k \in Handlers \ {h} : flow'[k] = flow[k]
  BY HandlerAt
<1>2. PICK a : a \in Accesses
  BY Underway
<1>3. ClosedInTurn'
  <2>1. UNCHANGED <<starts, acc>>
    BY DEF config
  <2>2. Handlers = {"user"} => h = "user"
    OBVIOUS
  <2> QED BY <1>1, <2>1, <2>2 DEF IInv, ClosedInTurn
<1>4. Ahead(flow'[h]) => acc'[flow'[h].acc].st # "none"
  BY <1>1 DEF IInv, MakingIsOpen, Ahead
<1>5. /\ acc' \in [Accesses -> Access] /\ \A b \in Accesses \ {a} : acc'[b] = acc[b]
      /\ acc[a].st # "none" => acc'[a].st # "none"
      /\ acc'[a].st # "none" => acc'[a].node \in Nodes /\ key[acc'[a].node] # None
      /\ starts = 0 => acc'[a].blob \in {FirstKey, None}
      /\ refused' \in Keys \cup {None} /\ (starts = 0 => refused' = None)
  BY Underway, <1>2
<1> QED BY <1>1, <1>2, <1>3, <1>4, <1>5, HandlerMoves
--------------------------------------------------------------------------------
(***************************************************************************)
(* A new device and its config.                                            *)
(***************************************************************************)
LEMMA DeviceCreated ==
    ASSUME IInv, NEW a \in Accesses, NEW n \in Nodes, CreateDevice(a, n)
    PROVE  IInv'
<1> DEFINE f == [pc |-> "peer", acc |-> a]
<1> DEFINE r == [st |-> "pending", dev |-> "active", node |-> n, blob |-> None]
<1>1. f \in Flow /\ f.pc = "peer" /\ f.acc = a
  BY DEF Flow
<1>2. r \in Access /\ r.st = "pending" /\ r.blob = None /\ r.node = n
  BY DEF Access
<1>3. /\ flow["user"] = Idle /\ acc[a].st = "none" /\ n \in up
      /\ acc' = [acc EXCEPT ![a] = r] /\ Becomes("user", f)
      /\ UNCHANGED <<config, tok, down, refused, faults>>
  BY DEF CreateDevice
<1> HIDE DEF f, r
<1>4. /\ flow' \in [Handlers -> Flow] /\ flow'["user"] = f
      /\ \A k \in Handlers \ {"user"} : flow'[k] = flow[k]
  BY <1>1, <1>3, Underway, HandlerAt
<1>5. acc' \in [Accesses -> Access] /\ acc'[a] = r /\ \A b \in Accesses \ {a} : acc'[b] = acc[b]
  BY <1>2, <1>3, RowAt
<1>6. key[n] # None
  BY <1>3 DEF IInv, TypeOK
<1>7. UNCHANGED starts /\ flow["user"].pc = "idle"
  BY <1>3, IdleFields DEF config
<1>8. ClosedInTurn'
  BY <1>1, <1>2, <1>4, <1>5, <1>7 DEF IInv, ClosedInTurn
<1> QED BY <1>1, <1>2, <1>3, <1>4, <1>5, <1>6, <1>8, Underway, HandlerMoves DEF Ahead

LEMMA PeerCreated ==
    ASSUME IInv, CreatePeer
    PROVE  IInv'
<1> DEFINE f == [flow["user"] EXCEPT !.pc = "blob"]
<1> DEFINE a == flow["user"].acc
<1> DEFINE r == [acc[a] EXCEPT !.st = IF @ = "pending" THEN "active" ELSE @]
<1>1. /\ flow["user"].pc = "peer" /\ a \in Accesses
      /\ f \in Flow /\ f.pc = "blob" /\ f.acc = a
  BY Underway, FlowFields DEF CreatePeer, At
<1>2. Becomes("user", f) /\ UNCHANGED <<config, tok, down, refused>>
  BY DEF CreatePeer, Pc
<1>3. CASE Fault /\ UNCHANGED acc
  BY <1>1, <1>2, <1>3, Underway, FaultCounts, OnlyTheHandler
<1>4. CASE acc' = [acc EXCEPT ![a].st = IF @ = "pending" THEN "active" ELSE @] /\ UNCHANGED faults
  <2>1. /\ r \in Access /\ r.blob = acc[a].blob /\ r.node = acc[a].node
        /\ r.st \in {acc[a].st, "active"} /\ acc[a].st # "none"
    <3>1. acc[a] \in Access
      BY <1>1, Underway
    <3>2. acc[a].st # "none"
      BY <1>1, UserHandles DEF IInv, MakingIsOpen, Ahead
    <3> QED BY <3>1, <3>2 DEF Access
  <2>2. acc' = [acc EXCEPT ![a] = r]
    BY <1>4
  <2> HIDE DEF f, a, r
  <2>3. /\ flow' \in [Handlers -> Flow] /\ flow'["user"] = f
        /\ \A k \in Handlers \ {"user"} : flow'[k] = flow[k]
    BY <1>1, <1>2, Underway, HandlerAt
  <2>4. acc' \in [Accesses -> Access] /\ acc'[a] = r /\ \A b \in Accesses \ {a} : acc'[b] = acc[b]
    BY <1>1, <2>1, <2>2, RowAt
  <2>5. ClosedInTurn'
    <3>1. UNCHANGED starts
      BY <1>2 DEF config
    <3> QED BY <1>1, <2>1, <2>3, <2>4, <3>1 DEF IInv, ClosedInTurn, a
  <2> QED BY <1>1, <1>2, <1>4, <2>1, <2>3, <2>4, <2>5, Underway, HandlerMoves DEF Ahead
<1> QED BY <1>3, <1>4 DEF CreatePeer

(* The server key of a config is one there is. *)
LEMMA ServerKeyIsOne ==
    ASSUME IInv, NEW a \in Accesses, acc[a].st # "none", ServerKey(a) # NoKey
    PROVE  ServerKey(a) \in Keys /\ (starts = 0 => ServerKey(a) = FirstKey)
<1>1. acc[a].node \in Nodes /\ key[acc[a].node] # None
  BY Underway
<1>2. key[acc[a].node] \in Keys \cup {NoKey} /\ envKey \in Keys \cup {NoKey}
  BY <1>1 DEF IInv, TypeOK
<1>3. starts = 0 => envKey = FirstKey
  BY DEF IInv, FirstKeyOnly
<1>4. FirstKey # NoKey
  BY FirstConfig, NoneIsNoKey
<1> QED BY <1>1, <1>2, <1>3, <1>4 DEF ServerKey

LEMMA BlobSet ==
    ASSUME IInv, SetConfigBlobEncrypted
    PROVE  IInv'
<1> DEFINE f == [flow["user"] EXCEPT !.pc = "token"]
<1> DEFINE a == flow["user"].acc
<1> DEFINE r == [acc[a] EXCEPT !.blob = ServerKey(a)]
<1>1. /\ flow["user"].pc = "blob" /\ a \in Accesses
      /\ f \in Flow /\ f.pc = "token" /\ f.acc = a
  BY Underway, FlowFields DEF SetConfigBlobEncrypted, At
<1>2. UNCHANGED <<config, tok, down, refused, faults>>
  BY DEF SetConfigBlobEncrypted
<1>3. CASE ServerKey(a) = NoKey
  <2>1. Becomes("user", Idle) /\ UNCHANGED acc
    BY <1>3 DEF SetConfigBlobEncrypted
  <2> QED BY <1>1, <1>2, <2>1, IdleFields, Underway, OnlyTheHandler
<1>4. CASE ServerKey(a) # NoKey
  <2>1. acc' = [acc EXCEPT ![a] = r] /\ Becomes("user", f)
    BY <1>4 DEF SetConfigBlobEncrypted, SetBlob, Pc
  <2>2. acc[a].st # "none"
    BY <1>1, UserHandles DEF IInv, MakingIsOpen, Ahead
  <2>3. /\ r \in Access /\ r.blob = ServerKey(a) /\ r.node = acc[a].node /\ r.st = acc[a].st
        /\ (starts = 0 => r.blob = FirstKey)
    <3>1. ServerKey(a) \in Keys /\ (starts = 0 => ServerKey(a) = FirstKey)
      BY <1>1, <1>4, <2>2, ServerKeyIsOne
    <3>2. acc[a] \in Access
      BY <1>1, Underway
    <3> QED BY <3>1, <3>2 DEF Access
  <2> HIDE DEF f, a, r
  <2>4. /\ flow' \in [Handlers -> Flow] /\ flow'["user"] = f
        /\ \A k \in Handlers \ {"user"} : flow'[k] = flow[k]
    BY <1>1, <2>1, Underway, HandlerAt
  <2>5. acc' \in [Accesses -> Access] /\ acc'[a] = r /\ \A b \in Accesses \ {a} : acc'[b] = acc[b]
    BY <1>1, <2>1, <2>3, RowAt
  <2>6. ClosedInTurn'
    <3>1. UNCHANGED starts
      BY <1>2 DEF config
    <3> QED BY <1>1, <2>3, <2>4, <2>5, <3>1 DEF IInv, ClosedInTurn, a
  <2> QED BY <1>1, <1>2, <2>2, <2>3, <2>4, <2>5, <2>6, Underway, HandlerMoves DEF Ahead
<1> QED BY <1>3, <1>4

(* A token row is written whole. *)
LEMMA TokenCreated ==
    ASSUME IInv, NEW t \in Tokens, NEW a \in Accesses, CreateToken(t, a)
    PROVE  tok' \in [Tokens -> Token]
<1>1. [acc |-> a, st |-> "issued", expired |-> FALSE, served |-> 0] \in Token
  BY DEF Token
<1> QED BY <1>1, Underway DEF CreateToken

LEMMA IssueEnds ==
    ASSUME IInv, (\E t \in Tokens : IssueToken(t)) \/ IssueFails
    PROVE  IInv'
<1>1. CASE \E t \in Tokens : IssueToken(t)
  <2>1. PICK t \in Tokens : IssueToken(t)
    BY <1>1
  <2>2. flow["user"].pc = "token" /\ flow["user"].acc \in Accesses
    BY <2>1, Underway DEF IssueToken, At
  <2>3. tok' \in [Tokens -> Token]
    BY <2>1, <2>2, TokenCreated DEF IssueToken
  <2> QED BY <2>1, <2>2, <2>3, IdleFields, Underway, OnlyTheHandler DEF IssueToken
<1>2. CASE IssueFails
  BY <1>2, IdleFields, Underway, FaultCounts, OnlyTheHandler DEF IssueFails
<1> QED BY <1>1, <1>2
--------------------------------------------------------------------------------
(***************************************************************************)
(* The bot and the link.                                                   *)
(***************************************************************************)
(* A config without its key. *)
LEMMA BlobCleared ==
    ASSUME NEW x \in Access
    PROVE  /\ [x EXCEPT !.blob = None] \in Access
           /\ [x EXCEPT !.blob = None].blob = None
           /\ [x EXCEPT !.blob = None].st = x.st
           /\ [x EXCEPT !.blob = None].node = x.node
BY DEF Access

(* Before a further start no config differs from its node. *)
LEMMA CurrentAtFirst ==
    ASSUME IInv, starts = 0, NEW a \in Accesses, acc[a].st # "none", acc[a].blob # None
    PROVE  Current(a)
<1>1. acc[a].node \in Nodes /\ key[acc[a].node] # None /\ acc[a].blob = FirstKey
  BY Underway
<1>2. key[acc[a].node] \in {FirstKey, NoKey}
  BY <1>1 DEF IInv, FirstKeyOnly
<1> QED BY <1>1, <1>2 DEF Current

LEMMA ConfigLoaded ==
    ASSUME IInv, NEW a \in Accesses, acc[a].st = "active", acc[a].blob # None,
           loadConfigPlaintext(a), UNCHANGED <<config, tok, flow, down, faults>>
    PROVE  IInv'
<1>1. CASE Current(a)
  <2>1. UNCHANGED <<acc, refused>>
    BY <1>1 DEF loadConfigPlaintext
  <2>2. ClosedInTurn' /\ MakingIsOpen'
    BY <2>1 DEF IInv, ClosedInTurn, MakingIsOpen, config
  <2> QED BY <2>1, <2>2, Underway, HandlerMoves DEF MakingIsOpen
<1>2. CASE ~Current(a)
  <2> DEFINE r == [acc[a] EXCEPT !.blob = None]
  <2>1. r \in Access /\ r.blob = None /\ r.st = acc[a].st /\ r.node = acc[a].node
    BY Underway, BlobCleared
  <2>2. acc' = [acc EXCEPT ![a] = r] /\ refused' = acc[a].blob
    BY <1>2 DEF loadConfigPlaintext
  <2> HIDE DEF r
  <2>3. acc' \in [Accesses -> Access] /\ acc'[a] = r /\ \A b \in Accesses \ {a} : acc'[b] = acc[b]
    BY <2>1, <2>2, RowAt
  <2>4. starts # 0
    BY <1>2, CurrentAtFirst
  <2>5. refused' \in Keys \cup {None}
    <3>1. acc[a] \in Access
      BY Underway
    <3> QED BY <2>2, <3>1 DEF Access
  <2>6. ClosedInTurn' /\ UNCHANGED starts
    BY <2>4 DEF ClosedInTurn, config
  <2>7. Ahead(flow'["user"]) => acc'[flow'["user"].acc].st # "none"
    <3>1. Ahead(flow["user"]) =>
              flow["user"].acc \in Accesses /\ acc[flow["user"].acc].st # "none"
      BY Underway DEF IInv, MakingIsOpen, Ahead
    <3> QED BY <3>1, <2>1, <2>3
  <2> QED BY <2>1, <2>3, <2>4, <2>5, <2>6, <2>7, Underway, HandlerMoves DEF Ahead
<1> QED BY <1>1, <1>2

(* A step that leaves handlers and accesses alone. *)
LEMMA OnlyTheTokens ==
    ASSUME IInv, UNCHANGED <<config, acc, flow, refused, faults>>,
           tok' \in [Tokens -> Token], down' \in [Downloads -> Down],
           \A d \in Downloads :
               /\ down'[d].pc \in {"access", "mark"} => down'[d].tok \in Tokens
               /\ down'[d].pc # "idle" => down'[d].before = 0
    PROVE  IInv'
<1>1. UNCHANGED <<envKey, key, up, starts, acc, flow, refused, faults>>
  BY DEF config
<1>2. TypeOK' /\ Shapes'
  BY <1>1 DEF IInv, TypeOK, Shapes
<1>3. OnSomething'
  BY <1>1 DEF IInv, OnSomething
<1>4. OnARow' /\ MakingIsOpen' /\ FirstKeyOnly' /\ AcceptedUntilChanged'
  BY <1>1 DEF IInv, OnARow, MakingIsOpen, FirstKeyOnly, AcceptedUntilChanged
<1>5. ClosedInTurn'
  BY <1>1 DEF IInv, ClosedInTurn
<1>6. ServedAgainOverlapped'
  BY DEF ServedAgainOverlapped
<1> QED BY <1>2, <1>3, <1>4, <1>5, <1>6 DEF IInv

(* The downloads as they are. *)
LEMMA DownsAre ==
    ASSUME IInv
    PROVE  /\ down \in [Downloads -> Down] /\ tok \in [Tokens -> Token]
           /\ \A d \in Downloads :
                 /\ down[d].pc \in {"access", "mark"} => down[d].tok \in Tokens
                 /\ down[d].pc # "idle" => down[d].before = 0
BY DEF IInv, Shapes, OnSomething, ServedAgainOverlapped

LEMMA LinkOpened ==
    ASSUME IInv, NEW t \in Tokens,
           (\E a \in Accesses : issueDownloadToken(a, t)) \/ Expire(t)
    PROVE  IInv'
<1>1. CASE \E a \in Accesses : issueDownloadToken(a, t)
  <2>1. PICK a \in Accesses : issueDownloadToken(a, t)
    BY <1>1
  <2>2. tok' \in [Tokens -> Token] /\ UNCHANGED <<config, acc, flow, down, refused, faults>>
    BY <2>1, TokenCreated DEF issueDownloadToken
  <2> QED BY <2>2, DownsAre, OnlyTheTokens
<1>2. CASE Expire(t)
  <2>1. [tok[t] EXCEPT !.expired = TRUE] \in Token
    BY DownsAre DEF Token
  <2>2. tok' \in [Tokens -> Token] /\ UNCHANGED <<config, acc, flow, down, refused, faults>>
    BY <1>2, <2>1, DownsAre DEF Expire
  <2> QED BY <2>2, DownsAre, OnlyTheTokens
<1> QED BY <1>1, <1>2

LEMMA Downloading ==
    ASSUME IInv, NEW d \in Downloads,
           (\E t \in Tokens : GetByTokenHash(d, t)) \/ LoadBlob(d) \/ MarkUsed(d)
    PROVE  IInv'
<1>1. CASE \E t \in Tokens : GetByTokenHash(d, t)
  <2>1. PICK t \in Tokens : GetByTokenHash(d, t)
    BY <1>1
  <2> DEFINE x == [pc |-> "access", tok |-> t, before |-> tok[t].served]
  <2>2. x \in Down /\ x.pc = "access" /\ x.tok = t /\ x.before = 0
    BY <2>1 DEF Down, GetByTokenHash, Good
  <2>3. down' = [down EXCEPT ![d] = x] /\ UNCHANGED <<config, acc, tok, flow, refused, faults>>
    BY <2>1 DEF GetByTokenHash
  <2> HIDE DEF x
  <2>4. down' \in [Downloads -> Down] /\ down'[d] = x /\ \A e \in Downloads \ {d} : down'[e] = down[e]
    BY <2>2, <2>3, DownsAre
  <2> QED BY <2>2, <2>3, <2>4, DownsAre, OnlyTheTokens
<1>2. CASE LoadBlob(d) \/ MarkUsed(d)
  <2>1. PICK pc \in {"mark", "done"} :
            /\ down' = [down EXCEPT ![d].pc = pc]
            /\ down[d].pc \in {"access", "mark"}
    BY <1>2 DEF LoadBlob, MarkUsed
  <2> DEFINE x == [down[d] EXCEPT !.pc = pc]
  <2>2. x \in Down /\ x.pc = pc /\ x.tok = down[d].tok /\ x.before = down[d].before
    BY DownsAre DEF Down
  <2>3. down' = [down EXCEPT ![d] = x]
    BY <2>1
  <2> HIDE DEF x
  <2>4. down' \in [Downloads -> Down] /\ down'[d] = x /\ \A e \in Downloads \ {d} : down'[e] = down[e]
    BY <2>2, <2>3, DownsAre
  <2>5. tok' \in [Tokens -> Token]
    <3>1. CASE LoadBlob(d)
      BY <3>1, DownsAre DEF LoadBlob
    <3>2. CASE MarkUsed(d)
      <4> DEFINE t == down[d].tok
      <4>1. t \in Tokens /\ tok[t] \in Token
        BY <2>1, DownsAre
      <4>2. [tok[t] EXCEPT !.st = "used", !.served = @ + 1] \in Token
        <5>1. tok[t].served + 1 \in Nat
          BY <4>1 DEF Token
        <5>2. ASSUME NEW y \in Token, NEW n \in Nat
              PROVE  [y EXCEPT !.st = "used", !.served = n] \in Token
          BY DEF Token
        <5> QED BY <4>1, <5>1, <5>2
      <4>3. tok' = [tok EXCEPT ![t].st = "used", ![t].served = @ + 1]
        BY <3>2 DEF MarkUsed
      <4> HIDE DEF t
      <4>4. tok' = [tok EXCEPT ![t] = [tok[t] EXCEPT !.st = "used", !.served = @ + 1]]
        BY <4>1, <4>3, DownsAre
      <4> QED BY <4>1, <4>2, <4>4, DownsAre
    <3> QED BY <1>2, <3>1, <3>2
  <2>6. UNCHANGED <<config, acc, flow, refused, faults>>
    BY <1>2 DEF LoadBlob, MarkUsed
  <2>7. \A e \in Downloads :
            /\ down'[e].pc \in {"access", "mark"} => down'[e].tok \in Tokens
            /\ down'[e].pc # "idle" => down'[e].before = 0
    BY <2>1, <2>2, <2>4, DownsAre
  <2> QED BY <2>4, <2>5, <2>6, <2>7, OnlyTheTokens
<1> QED BY <1>1, <1>2
--------------------------------------------------------------------------------
(***************************************************************************)
(* The deletion.                                                           *)
(***************************************************************************)
LEMMA DeletionBegins ==
    ASSUME IInv, NEW h \in Handlers, NEW a \in Accesses, DeleteDevice(h, a)
    PROVE  IInv'
<1> DEFINE f == [pc |-> IF acc[a].st = "active" THEN "revokePeer" ELSE "revokeDevice", acc |-> a]
<1>1. /\ f \in Flow /\ f.pc \in {"revokePeer", "revokeDevice"} /\ f.acc = a
      /\ f.pc = "revokePeer" => acc[a].st = "active"
  BY DEF Flow
<1>2. Becomes(h, f) /\ flow[h].pc = "idle" /\ UNCHANGED <<config, acc, tok, down, refused, faults>>
  BY IdleFields DEF DeleteDevice
<1> HIDE DEF f
<1> QED BY <1>1, <1>2, Underway, OnlyTheHandler

LEMMA PeerRevoked ==
    ASSUME IInv, NEW h \in Handlers, RevokePeer(h)
    PROVE  IInv'
<1> DEFINE a == flow[h].acc
<1>1. flow[h].pc = "revokePeer" /\ a \in Accesses /\ UNCHANGED <<config, tok, down, refused>>
  BY Underway DEF RevokePeer, At
<1>2. CASE Pc(h, "revokeDevice") /\ Fault /\ UNCHANGED acc
  <2> DEFINE f == [flow[h] EXCEPT !.pc = "revokeDevice"]
  <2>1. f \in Flow /\ f.pc = "revokeDevice" /\ f.acc = a /\ Becomes(h, f)
    BY <1>2, Underway, FlowFields DEF Pc
  <2> HIDE DEF f
  <2> QED BY <1>1, <1>2, <2>1, Underway, FaultCounts, OnlyTheHandler
<1>3. CASE /\ acc' = [acc EXCEPT ![flow[h].acc].st = "revoked"]
           /\ Pc(h, "revokeTokens") /\ UNCHANGED faults
  <2> DEFINE f == [flow[h] EXCEPT !.pc = "revokeTokens"]
  <2> DEFINE r == [acc[a] EXCEPT !.st = "revoked"]
  <2>1. f \in Flow /\ f.pc = "revokeTokens" /\ f.acc = a /\ Becomes(h, f)
    BY <1>3, Underway, FlowFields DEF Pc
  <2>2. r \in Access /\ r.st = "revoked" /\ r.blob = acc[a].blob /\ r.node = acc[a].node
    BY <1>1, Underway DEF Access
  <2>3. acc' = [acc EXCEPT ![a] = r]
    BY <1>3
  <2>4. acc[a].st # "none" => r.node \in Nodes /\ key[r.node] # None
    BY <1>1, <2>2, Underway
  <2> HIDE DEF f, r
  <2>5. /\ flow' \in [Handlers -> Flow] /\ flow'[h] = f
        /\ \A k \in Handlers \ {h} : flow'[k] = flow[k]
    BY <2>1, HandlerAt
  <2>6. acc' \in [Accesses -> Access] /\ acc'[a] = r /\ \A b \in Accesses \ {a} : acc'[b] = acc[b]
    BY <1>1, <2>2, <2>3, RowAt
  <2>7. acc[a].st # "none"
    BY <1>1 DEF IInv, MakingIsOpen, Ahead
  <2>8. ClosedInTurn'
    <3>1. UNCHANGED starts /\ (Handlers = {"user"} => h = "user")
      BY <1>1 DEF config
    <3> QED BY <1>1, <2>1, <2>2, <2>5, <2>6, <3>1 DEF IInv, ClosedInTurn
  <2> QED BY <1>1, <1>3, <2>1, <2>2, <2>4, <2>5, <2>6, <2>7, <2>8, Underway, HandlerMoves DEF Ahead
<1> QED BY <1>2, <1>3 DEF RevokePeer

LEMMA TokensRevoked ==
    ASSUME IInv, NEW h \in Handlers, RevokeIssuedByAccessID(h)
    PROVE  IInv'
<1> DEFINE f == [flow[h] EXCEPT !.pc = "clearBlob"]
<1>1. /\ f \in Flow /\ f.pc = "clearBlob" /\ f.acc = flow[h].acc /\ Becomes(h, f)
      /\ flow[h].pc = "revokeTokens" /\ UNCHANGED <<config, acc, down, refused, faults>>
  BY Underway, FlowFields DEF RevokeIssuedByAccessID, Pc, At
<1>2. tok' \in [Tokens -> Token]
  <2>1. \A t \in Tokens : tok[t] \in Token /\ [tok[t] EXCEPT !.st = "revoked"] \in Token
    BY DownsAre DEF Token
  <2> QED BY <2>1 DEF RevokeIssuedByAccessID
<1> HIDE DEF f
<1> QED BY <1>1, <1>2, Underway, OnlyTheHandler

(* The last two statements: the config goes, then the device. *)
LEMMA DeletionEnds ==
    ASSUME IInv, NEW h \in Handlers, ClearConfigBlobEncrypted(h) \/ RevokeDevice(h)
    PROVE  IInv'
<1> DEFINE a == flow[h].acc
<1>1. a \in Accesses /\ UNCHANGED <<config, tok, down, refused, faults>>
  BY Underway DEF ClearConfigBlobEncrypted, RevokeDevice, At
<1>2. UNCHANGED starts /\ (Handlers = {"user"} => h = "user")
  BY <1>1 DEF config
<1>3. CASE ClearConfigBlobEncrypted(h)
  <2> DEFINE f == [flow[h] EXCEPT !.pc = "revokeDevice"]
  <2> DEFINE r == [acc[a] EXCEPT !.blob = None]
  <2>1. f \in Flow /\ f.pc = "revokeDevice" /\ f.acc = a /\ Becomes(h, f)
    BY <1>3, Underway, FlowFields DEF ClearConfigBlobEncrypted, Pc
  <2>2. r \in Access /\ r.st = acc[a].st /\ r.blob = None /\ r.node = acc[a].node
    BY <1>1, Underway, BlobCleared
  <2>3. acc' = [acc EXCEPT ![a] = r] /\ flow[h].pc = "clearBlob"
    BY <1>3 DEF ClearConfigBlobEncrypted, At
  <2>4. r.st # "none" => r.node \in Nodes /\ key[r.node] # None
    BY <1>1, <2>2, Underway
  <2> HIDE DEF f, r
  <2>5. /\ flow' \in [Handlers -> Flow] /\ flow'[h] = f
        /\ \A k \in Handlers \ {h} : flow'[k] = flow[k]
    BY <2>1, HandlerAt
  <2>6. acc' \in [Accesses -> Access] /\ acc'[a] = r /\ \A b \in Accesses \ {a} : acc'[b] = acc[b]
    BY <1>1, <2>2, <2>3, RowAt
  <2>7. ClosedInTurn'
    BY <1>1, <1>2, <2>1, <2>2, <2>3, <2>5, <2>6 DEF IInv, ClosedInTurn
  <2> QED BY <1>1, <2>1, <2>2, <2>4, <2>5, <2>6, <2>7, Underway, HandlerMoves DEF Ahead
<1>4. CASE RevokeDevice(h)
  <2> DEFINE r == [acc[a] EXCEPT !.dev = "revoked"]
  <2>1. r \in Access /\ r.st = acc[a].st /\ r.blob = acc[a].blob /\ r.node = acc[a].node
    BY <1>1, Underway DEF Access
  <2>2. acc' = [acc EXCEPT ![a] = r] /\ flow[h].pc = "revokeDevice" /\ Becomes(h, Idle)
    BY <1>4 DEF RevokeDevice, At
  <2>3. /\ r.st # "none" => r.node \in Nodes /\ key[r.node] # None
        /\ starts = 0 => r.blob \in {FirstKey, None}
    BY <1>1, <2>1, Underway
  <2> HIDE DEF r
  <2>4. /\ flow' \in [Handlers -> Flow] /\ flow'[h] = Idle
        /\ \A k \in Handlers \ {h} : flow'[k] = flow[k]
    BY <2>2, IdleFields, HandlerAt
  <2>5. acc' \in [Accesses -> Access] /\ acc'[a] = r /\ \A b \in Accesses \ {a} : acc'[b] = acc[b]
    BY <1>1, <2>1, <2>2, RowAt
  <2>6. ClosedInTurn'
    BY <1>1, <1>2, <2>1, <2>2, <2>4, <2>5, IdleFields DEF IInv, ClosedInTurn
  <2> QED BY <1>1, <2>1, <2>3, <2>4, <2>5, <2>6, IdleFields, Underway, HandlerMoves DEF Ahead
<1> QED BY <1>3, <1>4
--------------------------------------------------------------------------------
(***************************************************************************)
(* Starts and nodes.                                                       *)
(***************************************************************************)
LEMMA Started ==
    ASSUME IInv, NEW n \in Nodes, NEW k \in Keys \cup {NoKey}, Start(n, k)
    PROVE  IInv'
<1>1. /\ starts' \in 0..MaxStarts /\ starts' # 0
      /\ UNCHANGED <<tok, refused, faults>> /\ envKey' = k
      /\ flow' = [h \in Handlers |-> Idle]
  BY BoundsAreNat DEF Start, IInv, TypeOK
<1>2. /\ key' \in [Nodes -> Keys \cup {NoKey, None}]
      /\ \A m \in Nodes : key[m] # None => key'[m] # None
      /\ up' \subseteq {m \in Nodes : key'[m] # None}
  <2>1. CASE k = NoKey
    BY <2>1 DEF Start, IInv, TypeOK
  <2>2. CASE k # NoKey
    <3>1. k \in Keys /\ k # None
      BY <2>2, NoneIsNoKey
    <3> QED BY <2>2, <3>1 DEF Start, IInv, TypeOK
  <2> QED BY <2>1, <2>2
<1>3. /\ acc' \in [Accesses -> Access]
      /\ \A a \in Accesses : acc'[a].st # "none" =>
             acc'[a].node \in Nodes /\ key'[acc'[a].node] # None
  <2>1. CASE k = NoKey
    <3>1. UNCHANGED <<acc, key>>
      BY <2>1 DEF Start
    <3> QED BY <3>1, Underway
  <2>2. CASE k # NoKey
    <3>1. key'[n] # None
      BY <2>2, NoneIsNoKey DEF Start, IInv, TypeOK
    <3>2. \A a \in Accesses : /\ acc[a] \in Access
                              /\ acc[a].st # "none" => acc[a].node \in Nodes /\ key[acc[a].node] # None
      BY Underway
    <3> DEFINE Here(x) == [x EXCEPT !.node = n]
    <3>3. \A x \in Access : Here(x) \in Access /\ Here(x).node = n /\ Here(x).st = x.st
      BY DEF Access
    <3>4. acc' = [a \in Accesses |->
              IF acc[a].st \in {"pending", "active"} THEN Here(acc[a]) ELSE acc[a]]
      BY <2>2 DEF Start
    <3> HIDE DEF Here
    <3> QED BY <1>2, <3>1, <3>2, <3>3, <3>4
  <2> QED BY <2>1, <2>2
<1>4. /\ down' \in [Downloads -> Down]
      /\ \A d \in Downloads : /\ down'[d].pc \notin {"access", "mark"}
                              /\ down'[d].pc # "idle" => down'[d].before = 0
  <2>1. \A d \in Downloads : down[d] \in Down /\ (down[d].pc # "idle" => down[d].before = 0)
    BY DownsAre
  <2> DEFINE Over(x) == [x EXCEPT !.pc = "done"]
  <2>2. \A x \in Down : Over(x) \in Down /\ Over(x).pc = "done" /\ Over(x).before = x.before
    BY DEF Down
  <2>3. down' = [d \in Downloads |->
            IF down[d].pc \in {"access", "mark"} THEN Over(down[d]) ELSE down[d]]
    BY DEF Start
  <2> HIDE DEF Over
  <2> QED BY <2>1, <2>2, <2>3
<1>5. TypeOK' /\ Shapes'
  BY <1>1, <1>2, <1>3, <1>4, IdleFields DEF IInv, TypeOK, Shapes
<1>6. OnSomething' /\ MakingIsOpen' /\ OnARow' /\ ServedAgainOverlapped'
  BY <1>1, <1>3, <1>4, IdleFields
  DEF OnSomething, MakingIsOpen, Ahead, OnARow, ServedAgainOverlapped
<1>7. FirstKeyOnly' /\ ClosedInTurn' /\ AcceptedUntilChanged'
  BY <1>1 DEF FirstKeyOnly, ClosedInTurn, AcceptedUntilChanged
<1> QED BY <1>5, <1>6, <1>7 DEF IInv

LEMMA Registered ==
    ASSUME IInv, NEW n \in Nodes, Register(n)
    PROVE  IInv'
<1>1. UNCHANGED <<envKey, starts, acc, tok, flow, down, refused, faults>>
  BY DEF Register
<1>2. /\ key' \in [Nodes -> Keys \cup {NoKey, None}]
      /\ \A m \in Nodes : key[m] # None => key'[m] = key[m]
      /\ \A m \in Nodes : key[m] = None => key'[m] \in {NoKey, None}
      /\ up' \subseteq {m \in Nodes : key'[m] # None}
  BY NoneIsNoKey DEF Register, IInv, TypeOK
<1>3. TypeOK' /\ Shapes'
  BY <1>1, <1>2 DEF IInv, TypeOK, Shapes
<1>4. OnARow'
  BY <1>1, <1>2 DEF IInv, OnARow
<1>5. FirstKeyOnly'
  BY <1>1, <1>2 DEF IInv, FirstKeyOnly
<1>6. OnSomething' /\ MakingIsOpen' /\ ServedAgainOverlapped' /\ AcceptedUntilChanged'
  BY <1>1 DEF IInv, OnSomething, MakingIsOpen, ServedAgainOverlapped, AcceptedUntilChanged
<1>7. ClosedInTurn'
  BY <1>1 DEF IInv, ClosedInTurn
<1> QED BY <1>3, <1>4, <1>5, <1>6, <1>7 DEF IInv
--------------------------------------------------------------------------------
(***************************************************************************)
(* The theorems.                                                           *)
(***************************************************************************)
LEMMA Starts == Init => IInv
<1> SUFFICES ASSUME Init PROVE IInv
  OBVIOUS
<1>1. /\ key \in [Nodes -> {FirstKey, NoKey, None}] /\ key[FirstNode] # None
      /\ envKey = FirstKey /\ up = {FirstNode}
  <2>1. FirstKey # None /\ NoKey # None
    BY FirstConfig, NoneIsNoKey
  <2> QED BY <2>1, FirstConfig DEF Init
<1>2. acc \in [Accesses -> Access] /\ \A a \in Accesses : acc[a].st = "none" /\ acc[a].blob = None
  BY DEF Init, Access
<1>3. tok \in [Tokens -> Token]
  BY DEF Init, Token
<1>4. /\ down \in [Downloads -> Down] /\ \A d \in Downloads : down[d].pc = "idle"
      /\ flow \in [Handlers -> Flow] /\ \A h \in Handlers : flow[h].pc = "idle"
  BY IdleFields DEF Init, Down
<1>5. TypeOK /\ Shapes
  <2>1. key \in [Nodes -> Keys \cup {NoKey, None}] /\ up \subseteq {n \in Nodes : key[n] # None}
    BY <1>1, FirstConfig
  <2>2. starts \in 0..MaxStarts /\ faults \in 0..MaxFaults
    BY BoundsAreNat DEF Init
  <2>3. envKey \in Keys \cup {NoKey} /\ refused \in Keys \cup {None}
    BY FirstConfig DEF Init
  <2> QED BY <1>2, <1>3, <1>4, <2>1, <2>2, <2>3 DEF TypeOK, Shapes
<1>6. OnSomething /\ OnARow /\ MakingIsOpen /\ FirstKeyOnly
  BY <1>1, <1>2, <1>4 DEF OnSomething, OnARow, MakingIsOpen, Ahead, FirstKeyOnly
<1>7. ClosedInTurn /\ ServedAgainOverlapped /\ AcceptedUntilChanged
  BY <1>2, <1>4, UserHandles DEF Init, ClosedInTurn, ServedAgainOverlapped, AcceptedUntilChanged
<1> QED BY <1>5, <1>6, <1>7 DEF IInv

LEMMA Inductive == IInv /\ [Next]_vars => IInv'
<1> SUFFICES ASSUME IInv, [Next]_vars PROVE IInv'
  OBVIOUS
<1>1. CASE \E a \in Accesses, n \in Nodes : CreateDevice(a, n)
  BY <1>1, DeviceCreated
<1>2. CASE CreatePeer \/ SetConfigBlobEncrypted \/ IssueFails \/ \E t \in Tokens : IssueToken(t)
  BY <1>2, PeerCreated, BlobSet, IssueEnds
<1>3. CASE \E a \in Accesses : SendConfig(a) \/ Reissue(a)
  <2>1. PICK a \in Accesses : SendConfig(a) \/ Reissue(a)
    BY <1>3
  <2>2. acc[a].st = "active" /\ UNCHANGED <<config, tok, flow, down, faults>>
    BY <2>1 DEF SendConfig, Reissue, Ready
  <2>3. CASE acc[a].blob # None /\ loadConfigPlaintext(a)
    BY <2>2, <2>3, ConfigLoaded
  <2>4. CASE UNCHANGED <<acc, refused>>
    BY <2>2, <2>4, DownsAre, OnlyTheTokens
  <2> QED BY <2>1, <2>3, <2>4 DEF SendConfig, Reissue, Ready
<1>4. CASE \E t \in Tokens : Expire(t) \/ \E a \in Accesses : issueDownloadToken(a, t)
  BY <1>4, LinkOpened
<1>5. CASE \E d \in Downloads :
              (\E t \in Tokens : GetByTokenHash(d, t)) \/ LoadBlob(d) \/ MarkUsed(d)
  BY <1>5, Downloading
<1>6. CASE \E h \in Handlers :
              \/ \E a \in Accesses : DeleteDevice(h, a)
              \/ RevokePeer(h) \/ RevokeIssuedByAccessID(h)
              \/ ClearConfigBlobEncrypted(h) \/ RevokeDevice(h)
  BY <1>6, DeletionBegins, PeerRevoked, TokensRevoked, DeletionEnds
<1>7. CASE \E n \in Nodes : Register(n) \/ \E k \in Keys \cup {NoKey} : Start(n, k)
  BY <1>7, Registered, Started
<1>8. CASE UNCHANGED vars
  BY <1>8, DownsAre, OnlyTheTokens DEF vars, config
<1> QED BY <1>1, <1>2, <1>3, <1>4, <1>5, <1>6, <1>7, <1>8 DEF Next

(* Whoever revokes, and whatever fails or starts anew: a token serves again*)
(* only to a request that overlapped the first, and no config is refused   *)
(* for its server key before the configuration changes.                    *)
THEOREM ServedAndAccepted == Spec => [](ServedAgainOverlapped /\ AcceptedUntilChanged)
<1>1. IInv => ServedAgainOverlapped /\ AcceptedUntilChanged
  BY DEF IInv
<1> QED BY <1>1, Starts, Inductive, PTL DEF Spec

(* Where the user is the only one who revokes, a deleted access moreover   *)
(* keeps no config.                                                        *)
THEOREM LinksClose == Spec /\ Handlers = {"user"} => []TokensClose
<1> DEFINE Alone == IInv /\ Handlers = {"user"}
<1>1. Init /\ Handlers = {"user"} => Alone
  BY Starts
<1>2. Alone /\ [Next]_vars => Alone'
  BY Inductive
<1>3. Alone => TokensClose
  <2> SUFFICES ASSUME Alone PROVE RevokedIsClosed
    BY DEF IInv, TokensClose
  <2> QED BY DEF IInv, ClosedInTurn, RevokedIsClosed, Closing
<1> HIDE DEF Alone
<1> QED BY <1>1, <1>2, <1>3, PTL DEF Spec

--------------------------------------------------------------------------------
(***************************************************************************)
(* The rows of the users, which ConfigTokens takes as they are: Users,     *)
(* with the variables MCConfigTokens gives it.                           *)
(***************************************************************************)
InHandler(t) == t.pc \in {"look", "create", "serve"}

(* Who is in a handler has the lock of its sender, alone. *)
SendersLocked ==
    \A h \in Goroutines : InHandler(usersTask[h]) =>
        /\ usersTask[h].who \in usersLocked
        /\ \A k \in Goroutines : InHandler(usersTask[k]) /\ usersTask[k].who = usersTask[h].who => k = h

(* An account has a name, or had it. *)
Bore(a, n) == n \in Names => usersName[a] = n \/ <<a, n>> \in usersGivenUp

NamesApart == \A a, b \in Accounts : a # b /\ usersName[a] = usersName[b] => usersName[a] = NoName

(* Updates and rows tell names their accounts bore. *)
NamesBorne ==
    /\ \A h \in Goroutines : Bore(usersTask[h].who, usersTask[h].name)
    /\ \A a \in Accounts : Bore(a, usersRows[a])

(* A command tells a name too, and met a row with that name or number. *)
CommandOf(c) ==
    /\ Bore(c.mind, c.token)
    /\ c.pc # "idle" /\ c.by = "name" => c.token \in Names
    /\ c.pc = "found" => IF c.by = "id" THEN c.met = c.mind ELSE usersRows[c.met] = c.token

RegistryInv ==
    /\ Registry!NoNameIsNoName /\ Registry!BoundsAreNat /\ Registry!TypeOK
    /\ SendersLocked /\ Registry!InsertsMeetNoRow
    /\ NamesApart /\ NamesBorne /\ CommandOf(usersAdmin)
    /\ Registry!MissesOnlyFormerHolders

(* A handler's record, and what is left of it when it ends.                *)
LEMMA TaskFields ==
    ASSUME NEW h \in Goroutines, usersTask \in [Goroutines -> Registry!Task]
    PROVE  /\ usersTask[h] \in Registry!Task
           /\ usersTask[h].pc \in {"idle", "new", "look", "create", "serve"}
           /\ usersTask[h].who \in Accounts /\ usersTask[h].name \in Registry!AnyName
           /\ Registry!Rest(usersTask[h].who) \in Registry!Task
           /\ Registry!Rest(usersTask[h].who).pc = "idle" /\ Registry!Rest(usersTask[h].who).name = NoName
           /\ Registry!Rest(usersTask[h].who).who = usersTask[h].who
           /\ \A pc \in {"idle", "new", "look", "create", "serve"} :
                 [usersTask[h] EXCEPT !.pc = pc] \in Registry!Task
  BY DEF Registry!Task, Registry!Rest, Registry!AnyName

(* What a handler's step leaves as it is. *)
LEMMA HandlerGoes ==
    ASSUME RegistryInv, NEW h \in Goroutines, NEW t \in Registry!Task,
           usersTask' = [usersTask EXCEPT ![h] = t],
           t.who = usersTask[h].who, t.name = usersTask[h].name \/ t.name = NoName,
           usersLocked' \subseteq Accounts,
           InHandler(usersTask[h]) => usersLocked' = IF InHandler(t) THEN usersLocked ELSE usersLocked \ {usersTask[h].who},
           ~InHandler(usersTask[h]) => IF InHandler(t) THEN /\ usersTask[h].who \notin usersLocked
                                                        /\ usersLocked' = usersLocked \cup {usersTask[h].who}
                                       ELSE usersLocked' = usersLocked,
           usersRows' = usersRows \/ /\ usersTask[h].pc = "create" /\ usersRows[usersTask[h].who] = NoRow
                                     /\ usersRows' = [usersRows EXCEPT ![usersTask[h].who] = usersTask[h].name],
           t.pc = "create" => usersRows'[t.who] = NoRow,
           usersFaults' \in 0..MaxFaults,
           UNCHANGED <<usersName, usersAdmin, usersHits, usersGivenUp, usersRenames>>
    PROVE  RegistryInv'
<1> USE DEF RegistryInv
<1>1. /\ usersTask \in [Goroutines -> Registry!Task] /\ usersTask' \in [Goroutines -> Registry!Task]
      /\ usersTask'[h] = t /\ \A k \in Goroutines \ {h} : usersTask'[k] = usersTask[k]
      /\ usersTask[h].who \in Accounts
  BY TaskFields DEF Registry!TypeOK
<1>2. usersRows' \in [Accounts -> Registry!AnyName \cup {NoRow}]
  BY TaskFields DEF Registry!TypeOK
<1>3. Registry!TypeOK'
  BY <1>1, <1>2 DEF Registry!TypeOK
<1>4. SendersLocked'
  <2> SUFFICES ASSUME NEW k \in Goroutines, InHandler(usersTask'[k])
               PROVE  /\ usersTask'[k].who \in usersLocked'
                      /\ \A j \in Goroutines : InHandler(usersTask'[j]) /\ usersTask'[j].who = usersTask'[k].who => j = k
    BY DEF SendersLocked
  <2>1. CASE k = h
    BY <1>1, <2>1 DEF SendersLocked
  <2>2. CASE k # h
    <3>1. usersTask'[k] = usersTask[k] /\ usersTask[k].who \in usersLocked
      BY <1>1, <2>2 DEF SendersLocked
    <3>2. usersTask[k].who # usersTask[h].who \/ ~InHandler(t)
      BY <1>1, <2>2, <3>1 DEF SendersLocked
    <3>3. usersTask[k].who \in usersLocked'
      <4>1. CASE InHandler(usersTask[h])
        BY <3>1, <4>1, <2>2 DEF SendersLocked
      <4>2. CASE ~InHandler(usersTask[h])
        BY <3>1, <4>2
      <4> QED BY <4>1, <4>2
    <3> QED BY <1>1, <2>2, <3>1, <3>2, <3>3 DEF SendersLocked
  <2> QED BY <2>1, <2>2
<1>5. Registry!InsertsMeetNoRow'
  <2> SUFFICES ASSUME NEW k \in Goroutines, usersTask'[k].pc = "create"
               PROVE  usersRows'[usersTask'[k].who] = NoRow
    BY DEF Registry!InsertsMeetNoRow
  <2>1. CASE k = h
    BY <1>1, <2>1
  <2>2. CASE k # h
    <3>1. usersTask'[k] = usersTask[k] /\ usersRows[usersTask[k].who] = NoRow
      BY <1>1, <2>2 DEF Registry!InsertsMeetNoRow
    <3>2. usersTask[h].pc = "create" => usersTask[k].who # usersTask[h].who
      BY <1>1, <2>2, <3>1 DEF SendersLocked, InHandler
    <3>3. usersTask[k].who \in Accounts
      BY <1>1, <3>1 DEF Registry!Task
    <3> QED BY <3>1, <3>2, <3>3 DEF Registry!TypeOK
  <2> QED BY <2>1, <2>2
<1>6. \A a \in Accounts : usersRows'[a] # usersRows[a] => usersRows[a] = NoRow /\ Bore(a, usersRows'[a])
  BY <1>1 DEF NamesBorne, Registry!TypeOK
<1>7. NamesBorne'
  <2>1. \A a, n : Bore(a, n)' <=> Bore(a, n)
    BY DEF Bore
  <2>2. ASSUME NEW k \in Goroutines PROVE Bore(usersTask'[k].who, usersTask'[k].name)
    BY <1>1 DEF NamesBorne, Bore, Registry!NoNameIsNoName
  <2>3. ASSUME NEW a \in Accounts PROVE Bore(a, usersRows'[a])
    BY <1>6 DEF NamesBorne
  <2> QED BY <2>1, <2>2, <2>3 DEF NamesBorne
<1>8. CommandOf(usersAdmin)'
  <2>1. usersAdmin.token \in Registry!AnyName /\ usersAdmin.met \in Accounts
    BY DEF Registry!TypeOK, Registry!Command
  <2> QED BY <1>6, <2>1 DEF CommandOf, Bore, Registry!NoNameIsNoName, Registry!AnyName
<1>9. NamesApart' /\ Registry!MissesOnlyFormerHolders'
  BY DEF NamesApart, Registry!MissesOnlyFormerHolders
<1> QED BY <1>3, <1>4, <1>5, <1>7, <1>8, <1>9 DEF Registry!NoNameIsNoName, Registry!BoundsAreNat

(* Every step of an update keeps the locks and the rows apart.             *)
LEMMA HandlerSteps ==
    ASSUME RegistryInv, NEW h \in Goroutines, Registry!Handle(h) \/ Registry!StatementFails(h)
    PROVE  RegistryInv'
<1> DEFINE who == usersTask[h].who
           rest == Registry!Rest(who)
<1>1. /\ usersTask \in [Goroutines -> Registry!Task] /\ usersFaults \in 0..MaxFaults
      /\ usersLocked \subseteq Accounts /\ who \in Accounts
  BY TaskFields DEF RegistryInv, Registry!TypeOK
<1>2. /\ rest \in Registry!Task /\ rest.who = who /\ rest.name = NoName /\ ~InHandler(rest)
      /\ rest.pc # "create"
  BY <1>1, TaskFields DEF InHandler
<1>3. ASSUME NEW pc \in {"look", "create", "serve"}
      PROVE  LET t == [usersTask[h] EXCEPT !.pc = pc]
             IN  /\ t \in Registry!Task /\ t.who = who /\ t.name = usersTask[h].name
                 /\ t.pc = pc /\ InHandler(t)
  BY <1>1 DEF Registry!Task, InHandler
<1>4. Registry!End(h) => usersTask' = [usersTask EXCEPT ![h] = rest]
  BY DEF Registry!End
<1>5. \A pc \in {"look", "create", "serve"} :
          Registry!To(h, pc) => usersTask' = [usersTask EXCEPT ![h] = [usersTask[h] EXCEPT !.pc = pc]]
  BY DEF Registry!To
<1> HIDE DEF rest
<1>6. CASE Registry!TryLockUser(h)
  <2>1. ~InHandler(usersTask[h]) /\ usersTask[h].pc = "new"
    BY <1>6 DEF Registry!TryLockUser, InHandler
  <2>2. CASE who \in usersLocked
    BY <1>1, <1>2, <1>4, <1>6, <2>1, <2>2, HandlerGoes DEF Registry!TryLockUser
  <2>3. CASE who \notin usersLocked
    <3> DEFINE t == [usersTask[h] EXCEPT !.pc = "look"]
    <3>1. /\ t \in Registry!Task /\ t.who = who /\ t.name = usersTask[h].name
          /\ t.pc = "look" /\ InHandler(t) /\ usersTask' = [usersTask EXCEPT ![h] = t]
      BY <1>3, <1>5, <1>6, <2>3 DEF Registry!TryLockUser
    <3> HIDE DEF t
    <3> QED BY <1>1, <1>6, <2>1, <2>3, <3>1, HandlerGoes DEF Registry!TryLockUser
  <2> QED BY <2>2, <2>3
<1>7. CASE Registry!GetByTelegramID(h)
  <2>1. PICK pc \in {"create", "serve"} : Registry!To(h, pc) /\ (pc = "create" => usersRows[who] = NoRow)
    BY <1>7 DEF Registry!GetByTelegramID
  <2> DEFINE t == [usersTask[h] EXCEPT !.pc = pc]
  <2>2. /\ t \in Registry!Task /\ t.who = who /\ t.name = usersTask[h].name
        /\ t.pc = pc /\ InHandler(t) /\ usersTask' = [usersTask EXCEPT ![h] = t] /\ InHandler(usersTask[h])
    BY <1>3, <1>5, <1>7, <2>1 DEF Registry!GetByTelegramID, InHandler
  <2> HIDE DEF t
  <2> QED BY <1>1, <1>7, <2>1, <2>2, HandlerGoes DEF Registry!GetByTelegramID
<1>8. CASE Registry!Create(h)
  <2>1. InHandler(usersTask[h]) /\ usersTask[h].pc = "create"
    BY <1>8 DEF Registry!Create, InHandler
  <2>2. CASE usersRows[who] = NoRow
    <3> DEFINE t == [usersTask[h] EXCEPT !.pc = "serve"]
    <3>1. /\ t \in Registry!Task /\ t.who = who /\ t.name = usersTask[h].name
          /\ t.pc = "serve" /\ InHandler(t) /\ usersTask' = [usersTask EXCEPT ![h] = t]
      BY <1>3, <1>5, <1>8, <2>2 DEF Registry!Create
    <3> HIDE DEF t
    <3> QED BY <1>1, <1>8, <2>1, <2>2, <3>1, HandlerGoes DEF Registry!Create
  <2>3. CASE usersRows[who] # NoRow
    BY <1>1, <1>2, <1>4, <1>8, <2>1, <2>3, HandlerGoes DEF Registry!Create, Registry!Unlock
  <2> QED BY <2>2, <2>3
<1>9. CASE Registry!Serve(h)
  <2>1. InHandler(usersTask[h])
    BY <1>9 DEF Registry!Serve, InHandler
  <2> QED BY <1>1, <1>2, <1>4, <1>9, <2>1, HandlerGoes DEF Registry!Serve, Registry!Unlock
<1>10. CASE Registry!StatementFails(h)
  <2>1. InHandler(usersTask[h])
    BY <1>10 DEF Registry!StatementFails, InHandler
  <2>2. usersFaults' \in 0..MaxFaults
    BY <1>1, <1>10 DEF Registry!StatementFails, Registry!Fault, RegistryInv, Registry!BoundsAreNat
  <2> QED BY <1>1, <1>2, <1>4, <1>10, <2>1, <2>2, HandlerGoes DEF Registry!StatementFails, Registry!Unlock
<1> QED BY <1>6, <1>7, <1>8, <1>9, <1>10 DEF Registry!Handle

(* A name that is taken was given up before. *)
LEMMA RenameStep == ASSUME RegistryInv, NEW a \in Accounts, Registry!Rename(a) PROVE RegistryInv'
<1> USE DEF RegistryInv
<1>1. PICK n \in Registry!AnyName :
          /\ n = NoName \/ \A b \in Accounts : usersName[b] # n
          /\ usersName' = [usersName EXCEPT ![a] = n]
  BY DEF Registry!Rename
<1>2. /\ usersGivenUp' = usersGivenUp \cup ({<<a, usersName[a]>>} \cap (Accounts \X Names))
      /\ usersRenames' \in 0..MaxRenames
      /\ UNCHANGED <<usersRows, usersTask, usersLocked, usersAdmin, usersHits, usersFaults>>
  BY DEF Registry!Rename, Registry!TypeOK, Registry!BoundsAreNat
<1>3. usersName' \in [Accounts -> Registry!AnyName] /\ usersGivenUp \subseteq usersGivenUp' /\ usersGivenUp' \subseteq Accounts \X Names
  BY <1>1, <1>2 DEF Registry!TypeOK
<1>4. Registry!TypeOK'
  BY <1>2, <1>3 DEF Registry!TypeOK
<1>5. NamesApart'
  BY <1>1 DEF NamesApart, Registry!TypeOK
<1>6. \A b \in Accounts : \A m : Bore(b, m) => Bore(b, m)'
  <2> SUFFICES ASSUME NEW b \in Accounts, NEW m \in Names, Bore(b, m)
               PROVE  usersName'[b] = m \/ <<b, m>> \in usersGivenUp'
    BY DEF Bore
  <2>1. CASE b = a /\ usersName[b] = m
    BY <1>2, <2>1
  <2>2. CASE b # a \/ usersName[b] # m
    BY <1>1, <1>2, <2>2 DEF Bore, Registry!TypeOK
  <2> QED BY <2>1, <2>2
<1>7. NamesBorne' /\ CommandOf(usersAdmin)'
  <2>1. usersAdmin.mind \in Accounts /\ \A h \in Goroutines : usersTask[h].who \in Accounts
    BY DEF Registry!TypeOK, Registry!Command, Registry!Task
  <2> QED BY <1>2, <1>6, <2>1 DEF NamesBorne, CommandOf
<1>8. SendersLocked' /\ Registry!InsertsMeetNoRow'
  BY <1>2 DEF SendersLocked, Registry!InsertsMeetNoRow, InHandler
<1>9. Registry!MissesOnlyFormerHolders'
  BY <1>2, <1>3 DEF Registry!MissesOnlyFormerHolders
<1> QED BY <1>4, <1>5, <1>7, <1>8, <1>9 DEF Registry!NoNameIsNoName, Registry!BoundsAreNat

(* An update tells the name its sender has.                                *)
LEMMA ReceiveStep ==
    ASSUME RegistryInv, NEW h \in Goroutines, NEW a \in Accounts, Registry!Receive(h, a)
    PROVE  RegistryInv'
<1> USE DEF RegistryInv
<1> DEFINE t == [pc |-> "new", who |-> a, name |-> usersName[a]]
<1>1. t \in Registry!Task /\ ~InHandler(t) /\ t.pc # "create" /\ t.who = a /\ t.name = usersName[a]
  BY DEF Registry!Task, Registry!TypeOK, InHandler
<1>2. usersTask' = [usersTask EXCEPT ![h] = t] /\ usersTask[h].pc = "idle"
  BY DEF Registry!Receive
<1> HIDE DEF t
<1>3. usersTask' \in [Goroutines -> Registry!Task] /\ usersTask'[h] = t /\ \A k \in Goroutines \ {h} : usersTask'[k] = usersTask[k]
  BY <1>1, <1>2 DEF Registry!TypeOK
<1>4. UNCHANGED <<usersName, usersRows, usersLocked, usersAdmin, usersHits, usersGivenUp, usersRenames, usersFaults>>
  BY DEF Registry!Receive
<1>5. Registry!TypeOK'
  BY <1>3, <1>4 DEF Registry!TypeOK
<1>6. SendersLocked' /\ Registry!InsertsMeetNoRow'
  BY <1>1, <1>3, <1>4 DEF SendersLocked, Registry!InsertsMeetNoRow, InHandler
<1>7. NamesBorne' /\ CommandOf(usersAdmin)'
  BY <1>1, <1>3, <1>4 DEF NamesBorne, CommandOf, Bore
<1>8. NamesApart' /\ Registry!MissesOnlyFormerHolders'
  BY <1>4 DEF NamesApart, Registry!MissesOnlyFormerHolders
<1> QED BY <1>5, <1>6, <1>7, <1>8 DEF Registry!NoNameIsNoName, Registry!BoundsAreNat

(* A restart ends every handler, and its locks with them.                  *)
LEMMA UsersRestart == ASSUME RegistryInv, Registry!Restart PROVE RegistryInv'
<1> USE DEF RegistryInv
<1>1. /\ usersTask' = [h \in Goroutines |-> Registry!Rest(usersTask[h].who)]
      /\ usersAdmin' = [usersAdmin EXCEPT !.pc = "idle"] /\ usersLocked' = {}
      /\ UNCHANGED <<usersName, usersRows, usersHits, usersGivenUp, usersRenames>> /\ usersFaults' \in 0..MaxFaults
  BY DEF Registry!Restart, Registry!Fault, Registry!TypeOK, Registry!BoundsAreNat
<1>2. /\ usersTask' \in [Goroutines -> Registry!Task]
      /\ \A h \in Goroutines : usersTask'[h].pc = "idle" /\ usersTask'[h].name = NoName
  BY <1>1, TaskFields DEF Registry!TypeOK
<1>3. /\ usersAdmin' \in Registry!Command /\ usersAdmin'.pc = "idle" /\ usersAdmin'.mind = usersAdmin.mind
      /\ usersAdmin'.token = usersAdmin.token
  BY <1>1 DEF Registry!TypeOK, Registry!Command
<1>4. Registry!TypeOK'
  BY <1>1, <1>2, <1>3 DEF Registry!TypeOK
<1>5. SendersLocked' /\ Registry!InsertsMeetNoRow'
  BY <1>2 DEF SendersLocked, Registry!InsertsMeetNoRow, InHandler
<1>6. NamesBorne' /\ CommandOf(usersAdmin)'
  BY <1>1, <1>2, <1>3 DEF NamesBorne, CommandOf, Bore, Registry!NoNameIsNoName
<1>7. NamesApart' /\ Registry!MissesOnlyFormerHolders'
  BY <1>1 DEF NamesApart, Registry!MissesOnlyFormerHolders
<1> QED BY <1>4, <1>5, <1>6, <1>7 DEF Registry!NoNameIsNoName, Registry!BoundsAreNat

(* What a command meets bore the name, as did who was meant: if they are   *)
(* two, one of them has given it up.                                       *)
LEMMA AdminCommands ==
    ASSUME RegistryInv,
           (\E a \in Accounts : Registry!Ask(a)) \/ Registry!FindUser \/ Registry!Act
    PROVE  RegistryInv'
<1> USE DEF RegistryInv
<1>1. UNCHANGED <<usersName, usersRows, usersTask, usersLocked, usersGivenUp, usersRenames, usersFaults>>
  BY DEF Registry!Ask, Registry!FindUser, Registry!Act
<1>2. SUFFICES usersAdmin' \in Registry!Command /\ usersHits' \subseteq Registry!Hit /\ CommandOf(usersAdmin)'
               /\ Registry!MissesOnlyFormerHolders'
  BY <1>1, <1>2 DEF Registry!TypeOK, SendersLocked, Registry!InsertsMeetNoRow, NamesApart, NamesBorne,
     Bore, InHandler, Registry!NoNameIsNoName, Registry!BoundsAreNat
<1>3. CASE \E a \in Accounts : Registry!Ask(a)
  <2>1. PICK a \in Accounts, by \in {"name", "id"} :
            /\ by = "name" => usersName[a] # NoName
            /\ usersAdmin' = [pc |-> "sent", by |-> by, mind |-> a, token |-> usersName[a], met |-> a]
    BY <1>3 DEF Registry!Ask
  <2>2. usersHits' = usersHits
    BY <1>3 DEF Registry!Ask
  <2>3. usersName[a] \in Registry!AnyName
    BY DEF Registry!TypeOK
  <2>4. usersAdmin' \in Registry!Command /\ usersAdmin'.mind = a /\ usersAdmin'.token = usersName[a] /\ usersAdmin'.pc = "sent" /\ usersAdmin'.by = by
    BY <2>1, <2>3 DEF Registry!Command
  <2> QED BY <1>1, <2>1, <2>2, <2>3, <2>4 DEF CommandOf, Bore, Registry!MissesOnlyFormerHolders, Registry!TypeOK, Registry!AnyName
<1>4. CASE Registry!FindUser
  <2>1. usersHits' = usersHits /\ usersAdmin.pc = "sent" /\ usersAdmin \in Registry!Command
    BY <1>4 DEF Registry!FindUser, Registry!TypeOK
  <2>2. CASE usersAdmin' = [usersAdmin EXCEPT !.pc = "idle"]
    <3>1. usersAdmin' \in Registry!Command /\ usersAdmin'.mind = usersAdmin.mind /\ usersAdmin'.token = usersAdmin.token /\ usersAdmin'.pc = "idle"
      BY <2>1, <2>2 DEF Registry!Command
    <3> QED BY <1>1, <2>1, <3>1 DEF CommandOf, Bore, Registry!MissesOnlyFormerHolders, Registry!TypeOK
  <2>3. CASE \E a \in Registry!Found : usersAdmin' = [usersAdmin EXCEPT !.pc = "found", !.met = a]
    <3>1. PICK a \in Registry!Found : usersAdmin' = [usersAdmin EXCEPT !.pc = "found", !.met = a]
      BY <2>3
    <3>2. a \in Accounts /\ IF usersAdmin.by = "id" THEN a = usersAdmin.mind ELSE usersRows[a] = usersAdmin.token
      BY <3>1 DEF Registry!Found
    <3>3. /\ usersAdmin' \in Registry!Command /\ usersAdmin'.mind = usersAdmin.mind /\ usersAdmin'.token = usersAdmin.token
          /\ usersAdmin'.pc = "found" /\ usersAdmin'.met = a /\ usersAdmin'.by = usersAdmin.by
      BY <2>1, <3>1, <3>2 DEF Registry!Command
    <3> QED BY <1>1, <2>1, <3>2, <3>3 DEF CommandOf, Bore, Registry!MissesOnlyFormerHolders, Registry!TypeOK
  <2> QED BY <1>4, <2>2, <2>3 DEF Registry!FindUser
<1>5. CASE Registry!Act
  <2>1. usersAdmin.pc = "found" /\ usersAdmin' = [usersAdmin EXCEPT !.pc = "idle"] /\ usersAdmin \in Registry!Command
    BY <1>5 DEF Registry!Act, Registry!TypeOK
  <2>2. usersAdmin' \in Registry!Command /\ usersAdmin'.mind = usersAdmin.mind /\ usersAdmin'.token = usersAdmin.token /\ usersAdmin'.pc = "idle"
    BY <2>1 DEF Registry!Command
  <2>3. CommandOf(usersAdmin)'
    BY <1>1, <2>1, <2>2 DEF CommandOf, Bore
  <2> DEFINE hit == [by |-> usersAdmin.by, mind |-> usersAdmin.mind, token |-> usersAdmin.token, met |-> usersAdmin.met]
  <2>4. usersHits' = usersHits \cup {hit}
    BY <1>5 DEF Registry!Act
  <2>5. hit \in Registry!Hit /\ hit.by = usersAdmin.by /\ hit.mind = usersAdmin.mind /\ hit.token = usersAdmin.token /\ hit.met = usersAdmin.met
    BY <2>1 DEF Registry!Hit, Registry!Command
  <2> HIDE DEF hit
  <2>6. ASSUME hit.met # hit.mind
        PROVE  hit.by = "name" /\ \E a \in {hit.met, hit.mind} : <<a, hit.token>> \in usersGivenUp
    <3>1. usersAdmin.by = "name" /\ usersAdmin.token \in Names /\ usersRows[usersAdmin.met] = usersAdmin.token
      BY <2>1, <2>5, <2>6 DEF CommandOf, Registry!Command
    <3>2. usersAdmin.met \in Accounts /\ usersAdmin.mind \in Accounts
      BY <2>1 DEF Registry!Command
    <3>3. Bore(usersAdmin.met, usersAdmin.token) /\ Bore(usersAdmin.mind, usersAdmin.token)
      BY <3>1, <3>2 DEF NamesBorne, CommandOf
    <3>4. ~(usersName[usersAdmin.met] = usersAdmin.token /\ usersName[usersAdmin.mind] = usersAdmin.token)
      BY <2>5, <2>6, <3>1, <3>2 DEF NamesApart, Registry!NoNameIsNoName
    <3> QED BY <2>5, <3>1, <3>3, <3>4 DEF Bore
  <2>7. Registry!MissesOnlyFormerHolders'
    BY <1>1, <2>4, <2>6 DEF Registry!MissesOnlyFormerHolders
  <2> QED BY <2>2, <2>3, <2>4, <2>5, <2>7 DEF Registry!TypeOK
<1> QED BY <1>3, <1>4, <1>5

(* No one has a row, and no two have a name.                               *)
LEMMA RegistryStarts == Registry!NoNameIsNoName /\ Registry!BoundsAreNat /\ Registry!Init => RegistryInv
<1> SUFFICES ASSUME Registry!NoNameIsNoName, Registry!BoundsAreNat, Registry!Init PROVE RegistryInv
  OBVIOUS
<1>1. PICK a \in Accounts :
          /\ usersTask = [h \in Goroutines |-> Registry!Rest(a)]
          /\ usersAdmin = [pc |-> "idle", by |-> "id", mind |-> a, token |-> NoName, met |-> a]
  BY DEF Registry!Init
<1>2. /\ Registry!Rest(a) \in Registry!Task /\ Registry!Rest(a).pc = "idle" /\ Registry!Rest(a).name = NoName
  BY DEF Registry!Rest, Registry!Task, Registry!AnyName
<1>3. usersAdmin \in Registry!Command /\ usersAdmin.pc = "idle" /\ usersAdmin.token = NoName
  BY <1>1 DEF Registry!Command, Registry!AnyName
<1>4. Registry!TypeOK
  BY <1>1, <1>2, <1>3 DEF Registry!Init, Registry!TypeOK, Registry!BoundsAreNat
<1>5. SendersLocked /\ Registry!InsertsMeetNoRow
  BY <1>1, <1>2 DEF SendersLocked, Registry!InsertsMeetNoRow, InHandler
<1>6. NamesBorne /\ CommandOf(usersAdmin)
  BY <1>1, <1>2, <1>3 DEF NamesBorne, CommandOf, Bore, Registry!NoNameIsNoName, Registry!Init
<1>7. NamesApart /\ Registry!MissesOnlyFormerHolders
  BY DEF NamesApart, Registry!MissesOnlyFormerHolders, Registry!Init
<1> QED BY <1>4, <1>5, <1>6, <1>7 DEF RegistryInv

(* Every step, of any of the actors.                                       *)
LEMMA RegistryGoesOn == RegistryInv /\ [Registry!Next]_(Registry!vars) => RegistryInv'
<1> SUFFICES ASSUME RegistryInv, [Registry!Next]_(Registry!vars) PROVE RegistryInv'
  OBVIOUS
<1>1. CASE UNCHANGED Registry!vars
  BY <1>1 DEF RegistryInv, Registry!vars, Registry!TypeOK, SendersLocked, InHandler, Registry!InsertsMeetNoRow,
     NamesApart, NamesBorne, Bore, CommandOf, Registry!MissesOnlyFormerHolders,
     Registry!NoNameIsNoName, Registry!BoundsAreNat
<1>2. CASE Registry!Next
  BY <1>2, HandlerSteps, RenameStep, ReceiveStep, UsersRestart, AdminCommands DEF Registry!Next
<1> QED BY <1>1, <1>2

(* For any accounts, names and goroutines, any failing statements and      *)
(* restarts: an insert never meets the row of another update of the same   *)
(* account, and a command of an admin meets another account than the one   *)
(* that was meant only by name, after one of the two gave the name up.     *)
THEOREM UsersMeetTheirRows == Registry!Spec => []UsersAreMet
<1>1. RegistryInv => UsersAreMet
  BY DEF RegistryInv, UsersAreMet, Registry!UsersAreMet
<1>2. Registry!NoNameIsNoName /\ Registry!BoundsAreNat
  BY PartsAssume
<1> QED BY <1>1, <1>2, RegistryStarts, RegistryGoesOn, PTL DEF Registry!Spec

--------------------------------------------------------------------------------
(***************************************************************************)
(* What the bot shows of devices: Panel, with the variables MCConfigTokens *)
(* gives it.                                                               *)
(***************************************************************************)

(* A button that is being served is on the card of a device that was made. *)
OnADevice ==
    panelJob.pc \in {"device", "accesses", "link", "linkAccess", "linkDevice", "revoke"} =>
        /\ panelJob.on \in Devices /\ panelDev[panelJob.on] # "none"
        /\ panelJob.what \in Panel!Buttons

OneDevice == \A d, e \in Devices : panelDev[d] = "active" /\ panelDev[e] = "active" => d = e

(* A device that was read as deleted stays deleted. *)
DeletedForGood ==
    /\ panelJob.pc = "accesses" /\ ~panelJob.active => panelDev[panelJob.on] = "deleted"
    /\ panelSaid.what = "card" /\ ~panelSaid.billed =>
           panelSaid.on \in Devices /\ panelDev[panelSaid.on] = "deleted"

(* Accesses outlive their device only where outlived says so. *)
Left(d) == \E p \in Panel!Protocols : panelAcc[d][p] \in {"active", "suspended"}

LeftIsKnown == \A d \in Devices : panelDev[d] = "deleted" /\ Left(d) => d \in panelOutlived

(* The link is that of the device of the card, or the device was outlived. *)
LinkIsMeant ==
    panelJob.on \notin panelOutlived =>
        /\ panelJob.pc = "link" => \A d \in Devices : panelDev[d] = "active" => d = panelJob.on
        /\ panelJob.pc \in {"linkAccess", "linkDevice"} => panelJob.of = panelJob.on

PanelInv ==
    /\ Panel!NoDeviceIsNone /\ Panel!BoundsAreNat /\ Panel!TypeOK
    /\ OnADevice /\ OneDevice /\ DeletedForGood /\ LeftIsKnown /\ LinkIsMeant
    /\ Panel!OthersOnlyIfOutlived

Counts == panelChanges' \in 0..MaxChanges /\ panelFaults' \in 0..MaxFaults

(* An answer is given, to rows as they are. *)
LEMMA PanelAnswers ==
    ASSUME PanelInv, Counts, UNCHANGED Panel!rows, NEW s \in Panel!Said, Panel!Say(s),
           s.what = "card" /\ ~s.billed => s.on \in Devices /\ panelDev[s.on] = "deleted",
           s.what \in {"config", "link"} /\ s.of # s.on => s.on \in panelOutlived
    PROVE  PanelInv'
<1>1. panelSaid' = s /\ panelJob' = Panel!Idle /\ UNCHANGED <<panelDev, panelAcc, panelGrant, panelOutlived>>
  BY DEF Panel!Say, Panel!rows
<1>2. Panel!Idle \in Panel!Job /\ Panel!Idle.pc = "idle"
  BY DEF Panel!Idle, Panel!Job, Panel!Buttons
<1>3. Panel!TypeOK'
  BY <1>1, <1>2 DEF PanelInv, Panel!TypeOK, Counts
<1>4. OnADevice' /\ LinkIsMeant'
  BY <1>1, <1>2 DEF OnADevice, LinkIsMeant
<1>5. OneDevice' /\ LeftIsKnown'
  BY <1>1 DEF PanelInv, OneDevice, LeftIsKnown, Left
<1>6. DeletedForGood' /\ Panel!OthersOnlyIfOutlived'
  BY <1>1, <1>2 DEF DeletedForGood, Panel!OthersOnlyIfOutlived
<1> QED BY <1>3, <1>4, <1>5, <1>6 DEF PanelInv

(* An update goes on to its next read or write. *)
LEMMA PanelReads ==
    ASSUME PanelInv, Counts, UNCHANGED <<Panel!rows, panelSaid>>, panelJob' \in Panel!Job,
           OnADevice', LinkIsMeant',
           panelJob'.pc = "accesses" /\ ~panelJob'.active => panelDev[panelJob'.on] = "deleted"
    PROVE  PanelInv'
<1>1. UNCHANGED <<panelDev, panelAcc, panelGrant, panelOutlived, panelSaid>>
  BY DEF Panel!rows
<1>2. Panel!TypeOK'
  BY <1>1 DEF PanelInv, Panel!TypeOK, Counts
<1>3. OneDevice' /\ LeftIsKnown'
  BY <1>1 DEF PanelInv, OneDevice, LeftIsKnown, Left
<1>4. DeletedForGood' /\ Panel!OthersOnlyIfOutlived'
  BY <1>1 DEF PanelInv, DeletedForGood, Panel!OthersOnlyIfOutlived
<1> QED BY <1>2, <1>3, <1>4 DEF PanelInv

(* Rows change under an update, or between updates. *)
LEMMA PanelRowsChange ==
    ASSUME PanelInv, Counts, UNCHANGED panelSaid, panelJob' \in Panel!Job,
           panelJob' = panelJob \/ /\ panelJob.pc = "revoke" /\ panelJob'.pc = "revoke"
                                   /\ panelJob'.on = panelJob.on /\ panelJob'.what = panelJob.what,
           panelDev' \in [Devices -> {"none", "active", "deleted"}],
           panelAcc' \in [Devices -> [Panel!Protocols -> {"none", "active", "suspended", "revoked"}]],
           panelGrant' \in {"none", "active", "revoked"},
           panelOutlived \subseteq panelOutlived', panelOutlived' \subseteq Devices,
           \A d \in Devices : /\ panelDev[d] = "deleted" => panelDev'[d] = "deleted"
                              /\ panelDev[d] # "none" => panelDev'[d] # "none",
           panelJob.pc # "idle" => \A d \in Devices : panelDev'[d] = "active" => panelDev[d] = "active",
           OneDevice', LeftIsKnown'
    PROVE  PanelInv'
<1>1. Panel!TypeOK'
  BY DEF PanelInv, Panel!TypeOK, Counts
<1>2. OnADevice'
  BY DEF PanelInv, OnADevice
<1>3. DeletedForGood'
  <2>1. panelJob'.pc = "accesses" /\ ~panelJob'.active => panelJob.on \in Devices /\ panelDev[panelJob.on] = "deleted"
    BY DEF PanelInv, OnADevice, DeletedForGood
  <2>2. panelSaid.what = "card" /\ ~panelSaid.billed => panelSaid.on \in Devices /\ panelDev[panelSaid.on] = "deleted"
    BY DEF PanelInv, DeletedForGood
  <2> QED BY <2>1, <2>2 DEF DeletedForGood
<1>4. LinkIsMeant'
  BY DEF PanelInv, LinkIsMeant
<1>5. Panel!OthersOnlyIfOutlived'
  BY DEF PanelInv, Panel!OthersOnlyIfOutlived
<1> QED BY <1>1, <1>2, <1>3, <1>4, <1>5 DEF PanelInv

(* A device is marked deleted: what is left of it is known. *)
LEMMA MarkedDeleted ==
    ASSUME PanelInv, NEW d \in Devices, Panel!MarkDeleted(d), panelDev[d] # "none",
           panelAcc' \in [Devices -> [Panel!Protocols -> {"none", "active", "suspended", "revoked"}]],
           \A e \in Devices \ {d} : panelAcc'[e] = panelAcc[e]
    PROVE  /\ panelDev' \in [Devices -> {"none", "active", "deleted"}]
           /\ panelOutlived \subseteq panelOutlived' /\ panelOutlived' \subseteq Devices
           /\ \A e \in Devices : /\ panelDev[e] = "deleted" => panelDev'[e] = "deleted"
                                 /\ panelDev[e] # "none" => panelDev'[e] # "none"
                                 /\ panelDev'[e] = "active" => panelDev[e] = "active"
           /\ OneDevice' /\ LeftIsKnown'
<1>1. panelDev \in [Devices -> {"none", "active", "deleted"}] /\ panelOutlived \subseteq Devices
  BY DEF PanelInv, Panel!TypeOK
<1>2. panelDev' = [panelDev EXCEPT ![d] = "deleted"]
  BY DEF Panel!MarkDeleted
<1>3. panelOutlived' = IF Left(d)' THEN panelOutlived \cup {d} ELSE panelOutlived
  BY DEF Panel!MarkDeleted, Left
<1>4. \A e \in Devices : panelDev'[e] = IF e = d THEN "deleted" ELSE panelDev[e]
  BY <1>1, <1>2
<1>5. OneDevice'
  BY <1>4 DEF PanelInv, OneDevice
<1>6. LeftIsKnown'
  BY <1>3, <1>4 DEF PanelInv, LeftIsKnown, Left
<1> QED BY <1>1, <1>2, <1>3, <1>4, <1>5, <1>6

(* Billing and admins. *)
LEMMA PanelChanges ==
    ASSUME PanelInv, Panel!Suspend \/ Panel!Resume \/ Panel!AdminRevoke
    PROVE  PanelInv'
<1>1. /\ panelDev \in [Devices -> {"none", "active", "deleted"}] /\ panelOutlived \subseteq Devices
      /\ panelAcc \in [Devices -> [Panel!Protocols -> {"none", "active", "suspended", "revoked"}]]
      /\ panelGrant \in {"none", "active", "revoked"} /\ panelJob \in Panel!Job
      /\ panelChanges \in 0..MaxChanges /\ panelFaults \in 0..MaxFaults
  BY DEF PanelInv, Panel!TypeOK
<1>2. MaxChanges \in Nat /\ MaxFaults \in Nat
  BY DEF PanelInv, Panel!BoundsAreNat
<1>3. Counts
  <2>1. Panel!Change => panelChanges' \in 0..MaxChanges
    BY <1>1, <1>2 DEF Panel!Change
  <2> QED BY <1>1, <2>1 DEF Counts, Panel!Suspend, Panel!Resume, Panel!AdminRevoke
<1>4. CASE Panel!Suspend \/ Panel!Resume
  <2>1. UNCHANGED <<panelDev, panelGrant, panelJob, panelSaid, panelOutlived>>
    BY <1>4 DEF Panel!Suspend, Panel!Resume
  <2>2. PICK from \in {"active", "suspended"}, to \in {"active", "suspended"} :
            panelAcc' = [d \in Devices |-> [p \in Panel!Protocols |->
                            IF panelAcc[d][p] = from THEN to ELSE panelAcc[d][p]]]
    BY <1>4 DEF Panel!Suspend, Panel!Resume
  <2>3. panelAcc' \in [Devices -> [Panel!Protocols -> {"none", "active", "suspended", "revoked"}]]
    BY <1>1, <2>2
  <2>4. \A d \in Devices, p \in Panel!Protocols :
            panelAcc'[d][p] = IF panelAcc[d][p] = from THEN to ELSE panelAcc[d][p]
    BY <2>2
  <2>5. LeftIsKnown' /\ OneDevice'
    BY <2>1, <2>4 DEF PanelInv, LeftIsKnown, Left, OneDevice
  <2> QED BY <1>1, <1>3, <2>1, <2>3, <2>5, PanelRowsChange
<1>5. CASE Panel!AdminRevoke
  <2>1. UNCHANGED <<panelJob, panelSaid>> /\ panelGrant' \in {"none", "active", "revoked"}
    BY <1>1, <1>5 DEF Panel!AdminRevoke
  <2>2. CASE UNCHANGED <<panelDev, panelAcc, panelOutlived>>
    <3>1. OneDevice' /\ LeftIsKnown'
      BY <2>2 DEF PanelInv, OneDevice, LeftIsKnown, Left
    <3> QED BY <1>1, <1>3, <2>1, <2>2, <3>1, PanelRowsChange
  <2>3. CASE \E d \in Panel!MyDevice :
                /\ UNCHANGED panelAcc \/ \E p \in Panel!Actives(d) : panelAcc' = [panelAcc EXCEPT ![d][p] = "revoked"]
                /\ Panel!MarkDeleted(d)
    <3>1. PICK d \in Devices :
              /\ panelDev[d] = "active" /\ Panel!MarkDeleted(d)
              /\ UNCHANGED panelAcc \/ \E p \in Panel!Protocols : panelAcc' = [panelAcc EXCEPT ![d][p] = "revoked"]
      BY <2>3 DEF Panel!MyDevice, Panel!Actives
    <3>2. /\ panelAcc' \in [Devices -> [Panel!Protocols -> {"none", "active", "suspended", "revoked"}]]
          /\ \A e \in Devices \ {d} : panelAcc'[e] = panelAcc[e]
      BY <1>1, <3>1
    <3> QED BY <1>1, <1>3, <2>1, <3>1, <3>2, MarkedDeleted, PanelRowsChange
  <2> QED BY <1>5, <2>2, <2>3 DEF Panel!AdminRevoke
<1> QED BY <1>4, <1>5

(* Invites and new devices, between updates. *)
LEMMA PanelGrows ==
    ASSUME PanelInv, Panel!Activate \/ Panel!CreateDevice
    PROVE  PanelInv'
<1>1. /\ panelDev \in [Devices -> {"none", "active", "deleted"}] /\ panelOutlived \subseteq Devices
      /\ panelAcc \in [Devices -> [Panel!Protocols -> {"none", "active", "suspended", "revoked"}]]
      /\ panelGrant \in {"none", "active", "revoked"} /\ panelJob \in Panel!Job
      /\ panelChanges \in 0..MaxChanges /\ panelFaults \in 0..MaxFaults
  BY DEF PanelInv, Panel!TypeOK
<1>2. MaxChanges \in Nat /\ MaxFaults \in Nat
  BY DEF PanelInv, Panel!BoundsAreNat
<1>3. Counts /\ panelJob.pc = "idle"
  BY <1>1, <1>2 DEF Counts, Panel!Activate, Panel!CreateDevice, Panel!Fault
<1>4. CASE Panel!Activate
  <2>1. OneDevice' /\ LeftIsKnown'
    BY <1>4 DEF PanelInv, Panel!Activate, OneDevice, LeftIsKnown, Left
  <2> QED BY <1>1, <1>3, <1>4, <2>1, PanelRowsChange DEF Panel!Activate
<1>5. CASE Panel!CreateDevice
  <2>1. PICK d \in Devices, ps \in SUBSET Panel!Protocols :
            /\ panelDev[d] = "none" /\ panelDev' = [panelDev EXCEPT ![d] = "active"]
            /\ panelAcc' = [panelAcc EXCEPT ![d] = [p \in Panel!Protocols |-> IF p \in ps THEN "active" ELSE "none"]]
    BY <1>5 DEF Panel!CreateDevice
  <2>2. UNCHANGED <<panelGrant, panelJob, panelSaid, panelOutlived>> /\ \A e \in Devices : panelDev[e] # "active"
    BY <1>5 DEF Panel!CreateDevice, Panel!MyDevice
  <2>3. /\ panelDev' \in [Devices -> {"none", "active", "deleted"}]
        /\ \A e \in Devices : panelDev'[e] = IF e = d THEN "active" ELSE panelDev[e]
    BY <1>1, <2>1
  <2>4. /\ panelAcc' \in [Devices -> [Panel!Protocols -> {"none", "active", "suspended", "revoked"}]]
        /\ \A e \in Devices \ {d} : panelAcc'[e] = panelAcc[e]
    BY <1>1, <2>1
  <2>5. OneDevice' /\ LeftIsKnown'
    BY <2>2, <2>3, <2>4 DEF PanelInv, OneDevice, LeftIsKnown, Left
  <2> QED BY <1>1, <1>3, <2>1, <2>2, <2>3, <2>4, <2>5, PanelRowsChange
<1> QED BY <1>4, <1>5

(* What an update at hand knows. *)
LEMMA PanelTypes ==
    ASSUME PanelInv
    PROVE  /\ panelDev \in [Devices -> {"none", "active", "deleted"}] /\ panelOutlived \subseteq Devices
           /\ panelAcc \in [Devices -> [Panel!Protocols -> {"none", "active", "suspended", "revoked"}]]
           /\ panelGrant \in {"none", "active", "revoked"} /\ panelJob \in Panel!Job
           /\ panelChanges \in 0..MaxChanges /\ panelFaults \in 0..MaxFaults
           /\ MaxChanges \in Nat /\ MaxFaults \in Nat
           /\ panelJob.on \in Devices \cup {NoDevice} /\ panelJob.of \in Devices \cup {NoDevice}
           /\ panelJob.active \in BOOLEAN /\ panelJob.rest \in SUBSET Panel!Protocols
  BY DEF PanelInv, Panel!TypeOK, Panel!BoundsAreNat, Panel!Job

(* Counting a fault, or none. *)
LEMMA PanelCounts ==
    ASSUME PanelInv, UNCHANGED panelChanges, UNCHANGED panelFaults \/ Panel!Fault
    PROVE  Counts
  BY PanelTypes DEF Counts, Panel!Fault

(* An answer that tells of nothing. *)
LEMMA PanelSilent ==
    ASSUME PanelInv, Counts, UNCHANGED Panel!rows, Panel!Say(Panel!Silent)
    PROVE  PanelInv'
<1>1. Panel!Silent \in Panel!Said /\ Panel!Silent.what = "nothing"
  BY SMTT(30) DEF Panel!Silent, Panel!Said
<1> QED BY <1>1, PanelAnswers

(* A record of an answer or of an update with other fields is one. *)
LEMMA PanelRecords ==
    ASSUME NEW j \in Panel!Job
    PROVE  /\ \A b \in Panel!Buttons, d \in Devices :
                  [Panel!Idle EXCEPT !.pc = "device", !.what = b, !.on = d] \in Panel!Job
           /\ [Panel!Idle EXCEPT !.pc = "list", !.what = "access"] \in Panel!Job
           /\ \A a \in BOOLEAN : [j EXCEPT !.pc = "accesses", !.active = a] \in Panel!Job
           /\ \A r \in SUBSET Panel!Protocols : [j EXCEPT !.pc = "revoke", !.rest = r] \in Panel!Job
           /\ \A r \in SUBSET Panel!Protocols : [j EXCEPT !.rest = r] \in Panel!Job
           /\ \A pc \in {"link", "linkDevice"} : [j EXCEPT !.pc = pc] \in Panel!Job
           /\ \A pc \in {"linkAccess", "listAccesses"}, d \in Devices : [j EXCEPT !.pc = pc, !.of = d] \in Panel!Job
<1>1. \A b \in Panel!Buttons, d \in Devices :
          [Panel!Idle EXCEPT !.pc = "device", !.what = b, !.on = d] \in Panel!Job
  BY DEF Panel!Job, Panel!Buttons, Panel!Idle
<1>2. [Panel!Idle EXCEPT !.pc = "list", !.what = "access"] \in Panel!Job
  BY DEF Panel!Job, Panel!Buttons, Panel!Idle
<1>3. \A a \in BOOLEAN : [j EXCEPT !.pc = "accesses", !.active = a] \in Panel!Job
  BY DEF Panel!Job
<1>4. \A r \in SUBSET Panel!Protocols : [j EXCEPT !.pc = "revoke", !.rest = r] \in Panel!Job
  BY DEF Panel!Job
<1>5. \A r \in SUBSET Panel!Protocols : [j EXCEPT !.rest = r] \in Panel!Job
  BY DEF Panel!Job
<1>6. \A pc \in {"link", "linkDevice"} : [j EXCEPT !.pc = pc] \in Panel!Job
  BY DEF Panel!Job
<1>7. \A pc \in {"linkAccess", "listAccesses"}, d \in Devices : [j EXCEPT !.pc = pc, !.of = d] \in Panel!Job
  BY DEF Panel!Job
<1> QED BY <1>1, <1>2, <1>3, <1>4, <1>5, <1>6, <1>7

LEMMA PanelPress ==
    ASSUME PanelInv, NEW b \in Panel!Buttons, NEW d \in Devices, Panel!Press(b, d)
    PROVE  PanelInv'
<1>1. /\ panelJob' = [Panel!Idle EXCEPT !.pc = "device", !.what = b, !.on = d]
      /\ panelDev[d] # "none" /\ UNCHANGED <<Panel!rows, panelSaid>> /\ UNCHANGED panelDev
  BY DEF Panel!Press, Panel!rows
<1>2. Counts
  BY PanelCounts DEF Panel!Press
<1>3. panelJob' \in Panel!Job /\ panelJob'.pc = "device" /\ panelJob'.on = d /\ panelJob'.what = b
  <2>1. panelJob \in Panel!Job
    BY PanelTypes
  <2> QED BY <1>1, <2>1, PanelRecords DEF Panel!Idle
<1>4. OnADevice' /\ LinkIsMeant'
  BY <1>1, <1>3 DEF OnADevice, LinkIsMeant
<1> QED BY <1>1, <1>2, <1>3, <1>4, PanelReads

LEMMA PanelNotFound == ASSUME PanelInv, Panel!NotFound PROVE PanelInv'
<1>1. Counts /\ UNCHANGED Panel!rows /\ Panel!Say(Panel!Silent)
  BY PanelCounts DEF Panel!NotFound
<1> QED BY <1>1, PanelSilent

LEMMA PanelGetDevice == ASSUME PanelInv, Panel!GetDevice PROVE PanelInv'
<1>1. /\ panelJob' = [panelJob EXCEPT !.pc = "accesses", !.active = (panelDev[panelJob.on] = "active")]
      /\ panelJob.pc = "device" /\ UNCHANGED <<Panel!rows, panelSaid>> /\ UNCHANGED <<panelDev, panelOutlived>>
  BY DEF Panel!GetDevice, Panel!rows
<1>2. Counts
  BY PanelCounts DEF Panel!GetDevice
<1>3. panelJob.on \in Devices /\ panelDev[panelJob.on] \in {"active", "deleted"} /\ panelJob \in Panel!Job
  BY <1>1, PanelTypes DEF PanelInv, OnADevice
<1>a. panelJob.what \in Panel!Buttons
  BY <1>1 DEF PanelInv, OnADevice
<1>4. /\ panelJob' \in Panel!Job /\ panelJob'.pc = "accesses" /\ panelJob'.on = panelJob.on /\ panelJob'.what = panelJob.what
      /\ panelJob'.active = (panelDev[panelJob.on] = "active")
  <2>1. (panelDev[panelJob.on] = "active") \in BOOLEAN
    OBVIOUS
  <2>2. panelJob' = [panelJob EXCEPT !.pc = "accesses", !.active = (panelDev[panelJob.on] = "active")]
    BY <1>1
  <2>3. panelJob' \in Panel!Job
    BY <1>3, <2>1, <2>2, PanelRecords
  <2> QED BY <1>3, <2>2, <2>3 DEF Panel!Job
<1>5. OnADevice' /\ LinkIsMeant'
  BY <1>1, <1>3, <1>4, <1>a DEF OnADevice, LinkIsMeant
<1> QED BY <1>1, <1>2, <1>3, <1>4, <1>5, PanelReads

(* What is done with the accesses that were read, or with none. *)
LEMMA PanelWithAccesses ==
    ASSUME PanelInv, Counts, UNCHANGED Panel!rows, panelJob.pc = "accesses",
           NEW ps \in SUBSET Panel!Protocols, Panel!WithAccesses(ps),
           panelJob.what \in {"wg", "xray"} => ps = Panel!Actives(panelJob.on)
    PROVE  PanelInv'
<1>1. /\ panelJob.on \in Devices /\ panelDev[panelJob.on] # "none"
      /\ panelJob \in Panel!Job /\ panelJob.active \in BOOLEAN
      /\ panelJob.what \in {"card", "delete", "wg", "xray"}
  BY PanelTypes DEF Panel!Buttons, PanelInv, OnADevice
<1>2. UNCHANGED <<panelDev, panelAcc, panelOutlived>>
  BY DEF Panel!rows
<1>3. ~panelJob.active => panelDev[panelJob.on] = "deleted"
  BY DEF PanelInv, DeletedForGood
<1>4. CASE panelJob.what = "card"
  <2>1. /\ Panel!Card(ps) \in Panel!Said /\ Panel!Card(ps).what = "card"
        /\ Panel!Card(ps).on = panelJob.on /\ Panel!Card(ps).billed = panelJob.active
    BY <1>1 DEF Panel!Card, Panel!Silent, Panel!Said
  <2>2. Panel!Say(Panel!Card(ps))
    BY <1>4 DEF Panel!WithAccesses
  <2> QED BY <1>1, <1>3, <2>1, <2>2, PanelAnswers
<1>5. CASE panelJob.what = "delete"
  <2>1. panelJob' = [panelJob EXCEPT !.pc = "revoke", !.rest = ps] /\ UNCHANGED panelSaid
    BY <1>5 DEF Panel!WithAccesses
  <2>2. panelJob' \in Panel!Job
    BY <1>1, <2>1, PanelRecords
  <2>3. panelJob'.pc = "revoke" /\ panelJob'.on = panelJob.on /\ panelJob'.what = panelJob.what
    BY <1>1, <2>1 DEF Panel!Job
  <2>4. OnADevice' /\ LinkIsMeant'
    BY <1>1, <1>2, <2>3 DEF OnADevice, LinkIsMeant, Panel!Buttons
  <2> QED BY <2>1, <2>2, <2>3, <2>4, PanelReads
<1>6. CASE panelJob.what = "wg"
  <2>1. PICK s : s = [Panel!Silent EXCEPT !.what = "config", !.on = panelJob.on, !.of = panelJob.on]
    OBVIOUS
  <2>2. s \in Panel!Said /\ s.what = "config" /\ s.on = panelJob.on /\ s.of = panelJob.on
    BY <1>1, <2>1 DEF Panel!Silent, Panel!Said
  <2>3. Panel!Say(s) \/ Panel!Say(Panel!Silent)
    BY <1>6, <2>1 DEF Panel!WithAccesses
  <2> QED BY <2>2, <2>3, PanelAnswers, PanelSilent
<1>7. CASE panelJob.what = "xray" /\ "xray" \notin ps
  BY <1>7, PanelSilent DEF Panel!WithAccesses
<1>8. CASE panelJob.what = "xray" /\ "xray" \in ps
  <2>1. panelJob' = [panelJob EXCEPT !.pc = "link"] /\ UNCHANGED panelSaid
    BY <1>8 DEF Panel!WithAccesses
  <2>2. panelJob' \in Panel!Job
    BY <1>1, <2>1, PanelRecords
  <2>3. panelJob'.pc = "link" /\ panelJob'.on = panelJob.on /\ panelJob'.what = panelJob.what
    BY <1>1, <2>1 DEF Panel!Job
  <2>4. OnADevice'
    BY <1>1, <1>2, <2>3 DEF OnADevice, Panel!Buttons
  <2>5. "xray" \in Panel!Protocols /\ panelAcc[panelJob.on]["xray"] = "active"
    BY <1>8 DEF Panel!Actives, Panel!Protocols
  <2>6. panelDev[panelJob.on] \in {"active", "deleted"}
    BY <1>1, PanelTypes
  <2>7. panelDev[panelJob.on] = "active" \/ panelJob.on \in panelOutlived
    BY <1>1, <2>5, <2>6 DEF PanelInv, LeftIsKnown, Left
  <2>8. LinkIsMeant'
    BY <1>1, <1>2, <2>3, <2>7 DEF PanelInv, OneDevice, LinkIsMeant
  <2> QED BY <2>1, <2>2, <2>3, <2>4, <2>8, PanelReads
<1> QED BY <1>1, <1>4, <1>5, <1>6, <1>7, <1>8

LEMMA PanelGetAccesses == ASSUME PanelInv, Panel!GetAccesses \/ Panel!GetAccessesFails PROVE PanelInv'
<1>1. Counts /\ UNCHANGED Panel!rows /\ panelJob.pc = "accesses"
  BY PanelCounts DEF Panel!GetAccesses, Panel!GetAccessesFails
<1>2. CASE Panel!GetAccesses
  <2>1. Panel!Actives(panelJob.on) \in SUBSET Panel!Protocols
    BY DEF Panel!Actives
  <2> QED BY <1>1, <1>2, <2>1, PanelWithAccesses DEF Panel!GetAccesses
<1>3. CASE Panel!GetAccessesFails
  <2>1. Panel!WithAccesses({}) /\ panelJob.what \notin {"wg", "xray"}
    BY <1>3 DEF Panel!GetAccessesFails
  <2> QED BY <1>1, <2>1, PanelWithAccesses
<1> QED BY <1>2, <1>3

(* The device whose link is sent, and the access it has. *)
LEMMA PanelLink == ASSUME PanelInv, Panel!GetActiveByUserID \/ Panel!LinkAccess PROVE PanelInv'
<1>1. /\ Counts /\ UNCHANGED Panel!rows /\ UNCHANGED <<panelDev, panelOutlived>>
      /\ panelJob.pc \in {"link", "linkAccess", "linkDevice"}
  BY PanelCounts DEF Panel!GetActiveByUserID, Panel!LinkAccess, Panel!rows
<1>2. panelJob \in Panel!Job
  BY PanelTypes
<1>a. panelJob.on \in Devices /\ panelDev[panelJob.on] # "none" /\ panelJob.what \in Panel!Buttons
  BY <1>1 DEF PanelInv, OnADevice
<1>3. CASE Panel!Say(Panel!Silent)
  BY <1>1, <1>3, PanelSilent
<1>4. CASE /\ panelJob.pc = "link" /\ UNCHANGED panelSaid
           /\ \E d \in Panel!MyDevice : panelJob' = [panelJob EXCEPT !.pc = "linkAccess", !.of = d]
  <2>1. PICK d \in Devices : /\ panelDev[d] = "active"
                             /\ panelJob' = [panelJob EXCEPT !.pc = "linkAccess", !.of = d]
    BY <1>4 DEF Panel!MyDevice
  <2>2. panelJob' \in Panel!Job
    BY <1>2, <2>1, PanelRecords
  <2>3. /\ panelJob'.pc = "linkAccess" /\ panelJob'.on = panelJob.on /\ panelJob'.of = d
        /\ panelJob'.what = panelJob.what
    BY <1>2, <2>1 DEF Panel!Job
  <2>4. OnADevice'
    BY <1>1, <1>a, <2>3 DEF OnADevice, Panel!Buttons
  <2>5. LinkIsMeant'
    BY <1>1, <1>4, <2>1, <2>3 DEF PanelInv, LinkIsMeant
  <2> QED BY <1>1, <1>4, <2>2, <2>3, <2>4, <2>5, PanelReads
<1>5. CASE panelJob.pc = "linkAccess" /\ panelJob' = [panelJob EXCEPT !.pc = "linkDevice"] /\ UNCHANGED panelSaid
  <2>1. panelJob' \in Panel!Job
    BY <1>2, <1>5, PanelRecords
  <2>2. /\ panelJob'.pc = "linkDevice" /\ panelJob'.on = panelJob.on /\ panelJob'.of = panelJob.of
        /\ panelJob'.what = panelJob.what
    BY <1>2, <1>5 DEF Panel!Job
  <2>3. OnADevice'
    BY <1>1, <1>a, <2>2 DEF OnADevice, Panel!Buttons
  <2>4. LinkIsMeant'
    BY <1>1, <1>5, <2>2 DEF PanelInv, LinkIsMeant
  <2> QED BY <1>1, <1>5, <2>1, <2>2, <2>3, <2>4, PanelReads, SMTT(30)
<1>6. CASE /\ panelJob.pc = "linkDevice"
           /\ Panel!Say([Panel!Silent EXCEPT !.what = "link", !.on = panelJob.on, !.of = panelJob.of])
  <2>1. PICK s : s = [Panel!Silent EXCEPT !.what = "link", !.on = panelJob.on, !.of = panelJob.of]
    OBVIOUS
  <2>2. s \in Panel!Said /\ s.what = "link" /\ s.on = panelJob.on /\ s.of = panelJob.of
    BY <2>1, PanelTypes DEF Panel!Silent, Panel!Said
  <2>3. s.of # s.on => s.on \in panelOutlived
    BY <1>6, <2>2 DEF PanelInv, LinkIsMeant
  <2>4. Panel!Say(s)
    BY <1>6, <2>1
  <2> QED BY <1>1, <2>2, <2>3, <2>4, PanelAnswers
<1>7. Panel!GetActiveByUserID => \/ Panel!Say(Panel!Silent)
                                 \/ /\ panelJob.pc = "link" /\ UNCHANGED panelSaid
                                    /\ \E d \in Panel!MyDevice : panelJob' = [panelJob EXCEPT !.pc = "linkAccess", !.of = d]
                                 \/ /\ panelJob.pc = "linkDevice"
                                    /\ Panel!Say([Panel!Silent EXCEPT !.what = "link", !.on = panelJob.on, !.of = panelJob.of])
  BY DEF Panel!GetActiveByUserID
<1>8. Panel!LinkAccess => \/ Panel!Say(Panel!Silent)
                          \/ panelJob.pc = "linkAccess" /\ panelJob' = [panelJob EXCEPT !.pc = "linkDevice"] /\ UNCHANGED panelSaid
  BY DEF Panel!LinkAccess
<1> QED BY <1>3, <1>4, <1>5, <1>6, <1>7, <1>8

(* A device is deleted: first its accesses, then the device. *)
LEMMA PanelRevokes == ASSUME PanelInv, Panel!RevokeAccess \/ Panel!RevokeDevice PROVE PanelInv'
<1>1. /\ panelDev \in [Devices -> {"none", "active", "deleted"}] /\ panelOutlived \subseteq Devices
      /\ panelAcc \in [Devices -> [Panel!Protocols -> {"none", "active", "suspended", "revoked"}]]
      /\ panelGrant \in {"none", "active", "revoked"} /\ panelJob \in Panel!Job
      /\ panelJob.rest \in SUBSET Panel!Protocols
  BY PanelTypes
<1>2. Counts /\ panelJob.pc = "revoke"
  BY PanelCounts DEF Panel!RevokeAccess, Panel!RevokeDevice
<1>3. panelJob.on \in Devices /\ panelDev[panelJob.on] # "none"
  BY <1>2 DEF PanelInv, OnADevice
<1>4. CASE Panel!RevokeAccess
  <2>1. PICK p \in panelJob.rest :
            /\ panelJob' = [panelJob EXCEPT !.rest = panelJob.rest \ {p}]
            /\ panelAcc' = [panelAcc EXCEPT ![panelJob.on][p] = "revoked"] \/ UNCHANGED panelAcc
    BY <1>4 DEF Panel!RevokeAccess
  <2>2. UNCHANGED <<panelDev, panelGrant, panelOutlived, panelSaid>>
    BY <1>4 DEF Panel!RevokeAccess
  <2>3. panelJob' \in Panel!Job
    BY <1>1, <2>1, PanelRecords
  <2>4. panelJob'.pc = "revoke" /\ panelJob'.on = panelJob.on /\ panelJob'.what = panelJob.what
    BY <1>1, <1>2, <2>1 DEF Panel!Job
  <2>5. /\ panelAcc' \in [Devices -> [Panel!Protocols -> {"none", "active", "suspended", "revoked"}]]
        /\ \A d \in Devices, q \in Panel!Protocols : panelAcc'[d][q] \in {panelAcc[d][q], "revoked"}
    <3>1. CASE UNCHANGED panelAcc
      BY <1>1, <3>1
    <3>2. CASE panelAcc' = [panelAcc EXCEPT ![panelJob.on][p] = "revoked"]
      <4>1. p \in Panel!Protocols
        BY <1>1, <2>1
      <4>2. panelAcc' \in [Devices -> [Panel!Protocols -> {"none", "active", "suspended", "revoked"}]]
        BY <1>1, <1>3, <3>2, <4>1
      <4>3. ASSUME NEW d \in Devices, NEW q \in Panel!Protocols
            PROVE  panelAcc'[d][q] = panelAcc[d][q] \/ panelAcc'[d][q] = "revoked"
        BY <1>1, <1>3, <3>2, <4>1, <4>3
      <4>4. QED
        BY <4>2, <4>3
    <3>3. QED
      BY <2>1, <3>1, <3>2
  <2>6. OneDevice' /\ LeftIsKnown'
    BY <2>2, <2>5 DEF PanelInv, OneDevice, LeftIsKnown, Left
  <2> QED BY <1>1, <1>2, <2>2, <2>3, <2>4, <2>5, <2>6, PanelRowsChange
<1>5. CASE Panel!RevokeDevice
  <2>1. PICK s : s = [Panel!Silent EXCEPT !.what = "deleted", !.on = panelJob.on]
    OBVIOUS
  <2>2. s \in Panel!Said /\ s.what = "deleted"
    BY <1>3, <2>1 DEF Panel!Silent, Panel!Said
  <2>3. /\ panelSaid' = s /\ panelJob' = Panel!Idle
        /\ UNCHANGED panelAcc /\ UNCHANGED panelGrant
        /\ Panel!MarkDeleted(panelJob.on) \/ UNCHANGED <<panelDev, panelOutlived>>
    BY <1>5, <2>1 DEF Panel!RevokeDevice, Panel!Say
  <2>4. CASE UNCHANGED <<panelDev, panelOutlived>>
    BY <1>2, <2>2, <2>3, <2>4, PanelAnswers DEF Panel!Say, Panel!rows
  <2>5. CASE Panel!MarkDeleted(panelJob.on)
    <3>1. /\ panelDev' \in [Devices -> {"none", "active", "deleted"}]
          /\ panelOutlived' \subseteq Devices /\ OneDevice' /\ LeftIsKnown'
      BY <1>1, <1>3, <2>3, <2>5, MarkedDeleted
    <3>2. panelJob' \in Panel!Job /\ panelJob'.pc = "idle" /\ ~(panelSaid'.what \in {"card", "config", "link"})
      BY <2>2, <2>3 DEF Panel!Idle, Panel!Job, Panel!Buttons
    <3>3. Panel!TypeOK'
      BY <1>1, <1>2, <2>2, <2>3, <3>1, <3>2 DEF Panel!TypeOK, Counts
    <3>4. OnADevice' /\ LinkIsMeant' /\ DeletedForGood' /\ Panel!OthersOnlyIfOutlived'
      BY <3>2 DEF OnADevice, LinkIsMeant, DeletedForGood, Panel!OthersOnlyIfOutlived
    <3> QED BY <3>1, <3>3, <3>4 DEF PanelInv
  <2> QED BY <2>3, <2>4, <2>5
<1> QED BY <1>4, <1>5

(* The overview of what a user has. *)
LEMMA PanelOverview ==
    ASSUME PanelInv, Panel!AskAccess \/ Panel!ListDevices \/ Panel!ListAccesses
    PROVE  PanelInv'
<1>1. Counts /\ UNCHANGED Panel!rows /\ UNCHANGED <<panelDev, panelOutlived>> /\ panelJob \in Panel!Job
  BY PanelCounts, PanelTypes DEF Panel!AskAccess, Panel!ListDevices, Panel!ListAccesses, Panel!rows
<1>2. CASE Panel!Say(Panel!Silent)
  BY <1>1, <1>2, PanelSilent
<1>3. CASE \E ps \in SUBSET Panel!Protocols : Panel!Say(Panel!Overview(ps))
  <2>1. PICK ps \in SUBSET Panel!Protocols : Panel!Say(Panel!Overview(ps))
    BY <1>3
  <2>2. Panel!Overview(ps) \in Panel!Said /\ Panel!Overview(ps).what = "access"
    BY DEF Panel!Overview, Panel!Silent, Panel!Said
  <2> QED BY <1>1, <2>1, <2>2, PanelAnswers
<1>4. CASE panelJob' = [Panel!Idle EXCEPT !.pc = "list", !.what = "access"] /\ UNCHANGED panelSaid
  <2>1. panelJob' \in Panel!Job /\ panelJob'.pc = "list"
    BY <1>1, <1>4, PanelRecords DEF Panel!Idle
  <2>2. OnADevice' /\ LinkIsMeant'
    BY <2>1 DEF OnADevice, LinkIsMeant
  <2> QED BY <1>1, <1>4, <2>1, <2>2, PanelReads
<1>5. CASE /\ UNCHANGED panelSaid
           /\ \E d \in Devices : panelJob' = [panelJob EXCEPT !.pc = "listAccesses", !.of = d]
  <2>1. panelJob' \in Panel!Job
    BY <1>1, <1>5, PanelRecords
  <2>a. panelJob'.pc = "listAccesses"
    BY <1>1, <1>5 DEF Panel!Job
  <2>2. OnADevice' /\ LinkIsMeant'
    BY <2>a DEF OnADevice, LinkIsMeant
  <2> QED BY <1>1, <1>5, <2>1, <2>2, <2>a, PanelReads
<1>6. CASE Panel!AskAccess
  BY <1>2, <1>4, <1>6 DEF Panel!AskAccess
<1>7. CASE Panel!ListDevices
  BY <1>3, <1>5, <1>7 DEF Panel!ListDevices, Panel!MyDevice
<1>8. CASE Panel!ListAccesses
  <2>1. Panel!Actives(panelJob.of) \in SUBSET Panel!Protocols
    BY DEF Panel!Actives
  <2> QED BY <1>3, <1>8, <2>1 DEF Panel!ListAccesses
<1> QED BY <1>6, <1>7, <1>8

(* No device, and nothing said. *)
LEMMA PanelStarts == Panel!NoDeviceIsNone /\ Panel!BoundsAreNat /\ Panel!Init => PanelInv
<1> SUFFICES ASSUME Panel!NoDeviceIsNone, Panel!BoundsAreNat, Panel!Init PROVE PanelInv
  OBVIOUS
<1>1. Panel!Idle \in Panel!Job /\ Panel!Idle.pc = "idle"
  BY DEF Panel!Idle, Panel!Job, Panel!Buttons
<1>2. Panel!Silent \in Panel!Said /\ Panel!Silent.what = "nothing"
  BY DEF Panel!Silent, Panel!Said
<1>3. Panel!TypeOK
  BY <1>1, <1>2 DEF Panel!Init, Panel!TypeOK, Panel!BoundsAreNat
<1>4. OneDevice /\ LeftIsKnown
  BY DEF Panel!Init, OneDevice, LeftIsKnown
<1>5. OnADevice /\ LinkIsMeant /\ DeletedForGood /\ Panel!OthersOnlyIfOutlived
  BY <1>1, <1>2 DEF Panel!Init, OnADevice, LinkIsMeant, DeletedForGood, Panel!OthersOnlyIfOutlived
<1> QED BY <1>3, <1>4, <1>5 DEF PanelInv

(* Every step, of the user, of billing and of admins. *)
LEMMA PanelGoesOn == PanelInv /\ [Panel!Next]_(Panel!vars) => PanelInv'
<1> SUFFICES ASSUME PanelInv, [Panel!Next]_(Panel!vars) PROVE PanelInv'
  OBVIOUS
<1>1. CASE UNCHANGED Panel!vars
  BY <1>1 DEF PanelInv, Panel!vars, Panel!TypeOK, OnADevice, OneDevice, DeletedForGood, LeftIsKnown, Left,
     LinkIsMeant, Panel!OthersOnlyIfOutlived
<1>2. CASE Panel!Next
  BY <1>2, PanelChanges, PanelGrows, PanelPress, PanelNotFound, PanelGetDevice, PanelGetAccesses,
     PanelLink, PanelRevokes, PanelOverview DEF Panel!Next
<1> QED BY <1>1, <1>2

(* For any devices and however billing, admins, failing reads and writes   *)
(* and the user's own updates interleave: a card that said a device takes  *)
(* no part in billing stays true, and a button sends what belongs to       *)
(* another device only where accesses outlived their device.               *)
THEOREM CardsStayRight == Panel!Spec => []CardsStayTrue
<1>1. PanelInv => CardsStayTrue
  BY DEF PanelInv, CardsStayTrue, Panel!CardsStayTrue, Panel!NoMeansNoCharge, Panel!Billable, DeletedForGood
<1>2. Panel!NoDeviceIsNone /\ Panel!BoundsAreNat
  BY PartsAssume
<1> QED BY <1>1, <1>2, PanelStarts, PanelGoesOn, PTL DEF Panel!Spec

--------------------------------------------------------------------------------
(***************************************************************************)
(* What administrators answer: Dialogue, with the variables and constants  *)
(* MCConfigTokens gives it in the scene "talk".                            *)
(***************************************************************************)
TalkAssumed ==
    Talk!AdminsSend /\ Talk!KnownTexts /\ Talk!KnownButtons /\ Talk!NoneIsNoUpdate /\ Talk!BoundsAreNat

(* A button that sets a state has one to set, and a text that has not asked*)
(* for the state waits for nothing.                                        *)
Asking(s) ==
    /\ talkCur[s].pc = "read" => talkCur[s].st \notin Talk!Waiting
    /\ talkCur[s].pc = "set" => Talk!StateOf(talkCur[s].what) \in Talk!States
    /\ talkCur[s].pc = "say" => Talk!StateOf(talkCur[s].what) \in Talk!States \cup {"reissue"}

(* Without a fault the state is that of the last question, but for the     *)
(* time between the two and for the question that sets no state.           *)
Matched(s) ==
    /\ talkState[s] \in Talk!Waiting /\ talkCur[s].pc # "say" => talkPrompt[s].kind \in {talkState[s], "reissue"}
    /\ talkCur[s].pc = "say" => \/ talkCur[s].what = "reissue"
                                \/ talkState[s] \in {Talk!StateOf(talkCur[s].what), "idle"}
    /\ talkCur[s].pc = "act" /\ talkCur[s].st \in Talk!Waiting => talkPrompt[s].kind \in {talkCur[s].st, "reissue"}
    /\ talkEffect[s].asked \in {talkEffect[s].did, "reissue"}

(* A question that was answered still waits only while its answer is being *)
(* handled, or for a fault.                                                *)
Spent(s) ==
    /\ talkPrompt[s].used <= 1 + talkFaults
    /\ talkState[s] \in Talk!Waiting /\ talkCur[s].pc \notin {"reset", "say"} => talkPrompt[s].used <= talkFaults
    /\ talkCur[s].pc = "act" /\ talkCur[s].st \in Talk!Waiting => talkPrompt[s].used <= talkFaults

TalkOf(s) == Asking(s) /\ (talkFaults = 0 => Matched(s)) /\ Spent(s)

(* A button that was pressed is one that there is. *)
TalkComesIn ==
    talkInbox \subseteq Talk!Update /\ \A u \in talkInbox : u.kind = "button" => u.what \in TalkButtons

TalkInv == TalkAssumed /\ Talk!TypeOK /\ TalkComesIn /\ \A s \in Senders : TalkOf(s)

(* What the records of a sender are. *)
LEMMA TalkTypes ==
    ASSUME TalkInv
    PROVE  /\ talkState \in [Senders -> Talk!States] /\ talkInbox \subseteq Talk!Update /\ TalkComesIn
           /\ talkCur \in [Senders -> Talk!Cur] /\ talkSent \in [Senders -> 0..MaxSent]
           /\ talkPrompt \in [Senders -> [kind: Talk!States \cup {"reissue"}, used: Nat]]
           /\ talkEffect \in [Senders -> [did: Talk!States, asked: Talk!States \cup {"reissue"}]]
           /\ talkFaults \in 0..MaxFaults /\ talkFaults \in Nat /\ MaxFaults \in Nat /\ MaxSent \in Nat
  BY DEF TalkInv, Talk!TypeOK, TalkAssumed, Talk!BoundsAreNat

TalkTyped(s) ==
    /\ talkState[s] \in Talk!States /\ talkCur[s] \in Talk!Cur
    /\ talkPrompt[s] \in [kind: Talk!States \cup {"reissue"}, used: Nat]
    /\ talkEffect[s] \in [did: Talk!States, asked: Talk!States \cup {"reissue"}]

(* What a step changes, it changes of sender s only.                       *)
OnlyOf(s) ==
    /\ talkState' = [talkState EXCEPT ![s] = talkState'[s]]
    /\ talkCur' = [talkCur EXCEPT ![s] = talkCur'[s]]
    /\ talkPrompt' = [talkPrompt EXCEPT ![s] = talkPrompt'[s]]
    /\ talkEffect' = [talkEffect EXCEPT ![s] = talkEffect'[s]]

(* Faults are counted, or there is none. *)
TalkFaultsCount == talkFaults' \in 0..MaxFaults /\ talkFaults <= talkFaults'

(* A sender whose records stay keeps what is true of them.                 *)
LEMMA OthersStay ==
    ASSUME TalkInv, NEW t \in Senders, TalkFaultsCount,
           talkState'[t] = talkState[t], talkCur'[t] = talkCur[t],
           talkPrompt'[t] = talkPrompt[t], talkEffect'[t] = talkEffect[t]
    PROVE  TalkOf(t)'
<1>2. Asking(t)'
  BY DEF TalkInv, TalkOf, Asking
<1>3. talkFaults' = 0 => talkFaults = 0
  BY TalkTypes DEF TalkFaultsCount
<1>4. talkFaults' = 0 => Matched(t)'
  BY <1>3 DEF TalkInv, TalkOf, Matched
<1>5. talkPrompt[t].used \in Nat /\ talkFaults' \in Nat /\ talkFaults \in Nat
  BY TalkTypes DEF TalkFaultsCount
<1>6. Spent(t)
  BY DEF TalkInv, TalkOf
<1>7. Spent(t)'
  <2>1. talkPrompt[t].used <= 1 + talkFaults'
    BY <1>5, <1>6 DEF Spent, TalkFaultsCount
  <2>2. talkPrompt[t].used <= talkFaults => talkPrompt[t].used <= talkFaults'
    BY <1>5 DEF TalkFaultsCount
  <2> QED BY <1>6, <2>1, <2>2 DEF Spent
<1> QED BY <1>2, <1>4, <1>7 DEF TalkOf

LEMMA SenderMoves ==
    ASSUME TalkInv, NEW s \in Senders, OnlyOf(s), TalkTyped(s)', TalkFaultsCount,
           TalkComesIn', talkSent' \in [Senders -> 0..MaxSent], TalkOf(s)'
    PROVE  TalkInv'
<1>1. Talk!TypeOK'
  BY TalkTypes DEF Talk!TypeOK, OnlyOf, TalkTyped, TalkFaultsCount, TalkComesIn
<1>2. ASSUME NEW t \in Senders, t # s PROVE TalkOf(t)'
  <2>1. /\ talkState'[t] = talkState[t] /\ talkCur'[t] = talkCur[t]
        /\ talkPrompt'[t] = talkPrompt[t] /\ talkEffect'[t] = talkEffect[t]
    BY <1>2, TalkTypes DEF OnlyOf
  <2> QED BY <2>1, OthersStay
<1>3. TalkAssumed'
  BY DEF TalkInv, TalkAssumed, Talk!AdminsSend, Talk!KnownTexts, Talk!KnownButtons, Talk!NoneIsNoUpdate, Talk!BoundsAreNat
<1> QED BY <1>1, <1>2, <1>3 DEF TalkInv

(* An update in a goroutine is one of a sender, and who holds the lock has *)
(* a record.                                                               *)
LEMMA CurFields ==
    ASSUME NEW c \in Talk!Cur
    PROVE  /\ Talk!Free \in Talk!Cur /\ Talk!Free.pc = "free"
           /\ \A pc \in {"set", "say", "read", "act", "reset"} :
                 /\ [c EXCEPT !.pc = pc] \in Talk!Cur /\ [c EXCEPT !.pc = pc].pc = pc
                 /\ [c EXCEPT !.pc = pc].what = c.what /\ [c EXCEPT !.pc = pc].st = c.st
  BY DEF Talk!Cur, Talk!Free, Talk!States, Talk!Kinds

(* Only the update that is handled moves, and nothing is written. *)
LEMMA OnlyTheUpdate ==
    ASSUME TalkInv, NEW s \in Senders, NEW c \in Talk!Cur, talkCur' = [talkCur EXCEPT ![s] = c],
           UNCHANGED <<talkState, talkPrompt, talkEffect>>
    PROVE  OnlyOf(s) /\ TalkTyped(s)' /\ talkCur'[s] = c
  BY TalkTypes DEF OnlyOf, TalkTyped

(* Steps after which the sender waits for no answer of this update.        *)
LEMMA UpdateMoves ==
    ASSUME TalkInv, NEW s \in Senders, NEW c \in Talk!Cur, talkCur' = [talkCur EXCEPT ![s] = c],
           UNCHANGED <<talkState, talkPrompt, talkEffect>>, TalkFaultsCount,
           TalkComesIn', talkSent' \in [Senders -> 0..MaxSent],
           talkCur[s].pc # "say", talkCur[s].pc = "reset" => c.pc = "reset",
           c.pc = "set" => Talk!StateOf(c.what) \in Talk!States,
           c.pc = "say" => c.what = "reissue",
           c.pc = "read" => c.st \notin Talk!Waiting,
           c.pc = "act" => c.st \notin Talk!Waiting \/ c.st = talkState[s]
    PROVE  TalkInv'
<1>1. OnlyOf(s) /\ TalkTyped(s)' /\ talkCur'[s] = c
  BY OnlyTheUpdate
<1>2. TalkOf(s)
  BY DEF TalkInv
<1>3. Asking(s)'
  BY <1>1 DEF Asking, Talk!StateOf
<1>4. talkFaults' = 0 => talkFaults = 0
  BY TalkTypes DEF TalkFaultsCount
<1>5. talkFaults' = 0 => Matched(s)'
  BY <1>1, <1>2, <1>4 DEF TalkOf, Matched
<1>6. Spent(s)'
  <2>1. talkPrompt[s].used \in Nat /\ talkFaults' \in Nat /\ talkFaults \in Nat
    BY TalkTypes DEF TalkFaultsCount
  <2>2. talkPrompt[s].used <= 1 + talkFaults'
    BY <1>2, <2>1 DEF TalkOf, Spent, TalkFaultsCount
  <2>3. talkPrompt[s].used <= talkFaults => talkPrompt[s].used <= talkFaults'
    BY <2>1 DEF TalkFaultsCount
  <2> QED BY <1>1, <1>2, <2>2, <2>3 DEF TalkOf, Spent
<1> QED BY <1>1, <1>3, <1>5, <1>6, SenderMoves DEF TalkOf

(* Nothing is written and nobody's update moves. *)
LEMMA TalkAsItIs ==
    ASSUME TalkInv, UNCHANGED <<talkState, talkCur, talkPrompt, talkEffect>>, TalkFaultsCount,
           TalkComesIn', talkSent' \in [Senders -> 0..MaxSent]
    PROVE  TalkInv'
<1>1. Talk!TypeOK'
  BY TalkTypes DEF Talk!TypeOK, TalkFaultsCount, TalkComesIn
<1>2. \A s \in Senders : TalkOf(s)'
  BY OthersStay
<1>3. TalkAssumed'
  BY DEF TalkInv, TalkAssumed, Talk!AdminsSend, Talk!KnownTexts, Talk!KnownButtons, Talk!NoneIsNoUpdate, Talk!BoundsAreNat
<1> QED BY <1>1, <1>2, <1>3 DEF TalkInv

(* A call fails, or none does. *)
LEMMA TalkFault == ASSUME TalkInv, UNCHANGED talkFaults \/ Talk!Fault PROVE TalkFaultsCount
  BY TalkTypes DEF TalkFaultsCount, Talk!Fault

(* An update comes in, is let in or turned away.                           *)
LEMMA TalkServes ==
    ASSUME TalkInv, NEW s \in Senders, NEW kind \in Talk!Kinds, NEW what \in Texts \cup TalkButtons,
           Talk!ServeHTTP(s, kind, what)
    PROVE  TalkInv'
<1>1. talkSent[s] \in 0..MaxSent /\ talkSent[s] < MaxSent /\ MaxSent \in Nat
  BY TalkTypes DEF Talk!ServeHTTP
<1>2. talkSent[s] + 1 \in 1..MaxSent
  BY <1>1
<1>3. talkSent' = [talkSent EXCEPT ![s] = talkSent[s] + 1]
  BY DEF Talk!ServeHTTP
<1>4. talkSent' \in [Senders -> 0..MaxSent]
  <2>1. talkSent[s] + 1 \in 0..MaxSent
    BY <1>1
  <2> QED BY <1>3, <2>1, TalkTypes
<1>5. TalkComesIn'
  <2>1. PICK u : u = [from |-> s, id |-> talkSent[s] + 1, kind |-> kind, what |-> what]
    OBVIOUS
  <2>2. u \in Talk!Update /\ u.kind = kind /\ u.what = what
    BY <1>2, <2>1 DEF Talk!Update
  <2>3. kind = "button" => what \in TalkButtons
    BY DEF Talk!ServeHTTP
  <2>4. talkInbox' = talkInbox \cup {u}
    BY <2>1 DEF Talk!ServeHTTP
  <2> QED BY <2>2, <2>3, <2>4, TalkTypes DEF TalkComesIn
<1>6. TalkFaultsCount /\ UNCHANGED <<talkState, talkCur, talkPrompt, talkEffect>>
  BY TalkFault DEF Talk!ServeHTTP, Talk!history
<1> QED BY <1>4, <1>5, <1>6, TalkAsItIs

LEMMA TalkHandles ==
    ASSUME TalkInv, NEW u \in talkInbox, Talk!HandleUpdate(u) \/ Talk!EnsureUserFails(u)
    PROVE  TalkInv'
<1>1. /\ u \in Talk!Update /\ u.from \in Senders /\ u.kind \in Talk!Kinds /\ u.what \in Texts \cup TalkButtons
      /\ TalkComesIn' /\ UNCHANGED <<talkState, talkPrompt, talkEffect>>
      /\ u.kind = "button" => u.what \in TalkButtons
      /\ TalkFaultsCount /\ talkSent' \in [Senders -> 0..MaxSent]
  <2>1. u \in Talk!Update /\ UNCHANGED <<talkState, talkPrompt, talkEffect, talkSent>>
    BY TalkTypes DEF Talk!HandleUpdate, Talk!EnsureUserFails, Talk!history
  <2>2. u.from \in Senders /\ u.kind \in Talk!Kinds /\ u.what \in Texts \cup TalkButtons
    BY <2>1 DEF Talk!Update
  <2>3. TalkComesIn' /\ TalkFaultsCount
    BY TalkTypes, TalkFault DEF Talk!HandleUpdate, Talk!EnsureUserFails, TalkComesIn
  <2>4. u.kind = "button" => u.what \in TalkButtons
    BY TalkTypes DEF TalkComesIn
  <2> QED BY <2>1, <2>2, <2>3, <2>4, TalkTypes
<1>2. CASE UNCHANGED talkCur
  BY <1>1, <1>2, TalkAsItIs
<1>3. CASE Talk!HandleUpdate(u) /\ Talk!tryLockUser(u.from)
  <2>1. PICK c : c = [pc |-> Talk!FirstStep(u.from, u), kind |-> u.kind, what |-> u.what, st |-> "idle"]
    OBVIOUS
  <2>2. talkCur' = [talkCur EXCEPT ![u.from] = c] /\ talkCur[u.from].pc = "free"
    BY <1>3, <2>1 DEF Talk!HandleUpdate, Talk!tryLockUser, Talk!Free
  <2>3. Talk!FirstStep(u.from, u) \in {"set", "say", "read", "act"}
    BY DEF Talk!FirstStep
  <2>4. c \in Talk!Cur /\ c.pc = Talk!FirstStep(u.from, u) /\ c.what = u.what /\ c.st = "idle"
    BY <1>1, <2>1, <2>3 DEF Talk!Cur, Talk!States
  <2>5. c.pc = "set" => Talk!StateOf(c.what) \in Talk!States
    <3> SUFFICES ASSUME c.pc = "set" PROVE Talk!StateOf(c.what) \in Talk!States
      OBVIOUS
    <3>1. u.kind # "text" /\ u.what \notin {"nav", "config", "reissue"}
      BY <2>4 DEF Talk!FirstStep
    <3>2. u.what \in TalkButtons
      BY <1>1, <3>1 DEF Talk!Kinds
    <3> QED BY <2>4, <3>1, <3>2 DEF TalkInv, TalkAssumed, Talk!KnownButtons, Talk!StateOf, Talk!States
  <2>6. c.pc = "say" => c.what = "reissue"
    BY <2>4 DEF Talk!FirstStep
  <2>7. c.st \notin Talk!Waiting
    BY <2>4 DEF Talk!Waiting
  <2> QED BY <1>1, <2>2, <2>4, <2>5, <2>6, <2>7, UpdateMoves
<1> QED BY <1>2, <1>3 DEF Talk!HandleUpdate, Talk!EnsureUserFails

(* Steps that write nothing but where the update is.                       *)
LEMMA TalkGoes ==
    ASSUME TalkInv, NEW s \in Senders,
           Talk!GetState(s) \/ Talk!handleMessage(s) \/ Talk!ShowSomething(s)
    PROVE  TalkInv'
<1>1. /\ TalkFaultsCount /\ UNCHANGED <<talkState, talkPrompt, talkEffect>>
      /\ TalkComesIn' /\ talkSent' \in [Senders -> 0..MaxSent]
  <2>1. UNCHANGED <<talkState, talkPrompt, talkEffect, talkSent, talkInbox>>
    BY DEF Talk!GetState, Talk!handleMessage, Talk!ShowSomething, Talk!history
  <2>2. UNCHANGED talkFaults \/ Talk!Fault
    BY DEF Talk!GetState, Talk!handleMessage, Talk!ShowSomething
  <2>3. TalkComesIn'
    BY <2>1, TalkTypes DEF TalkComesIn
  <2> QED BY <2>1, <2>2, <2>3, TalkTypes, TalkFault
<1>2. talkCur[s] \in Talk!Cur /\ talkState[s] \in Talk!States /\ talkCur[s].st \in Talk!States
  BY TalkTypes DEF Talk!Cur
<1>3. CASE talkCur' = [talkCur EXCEPT ![s] = Talk!Free] /\ talkCur[s].pc \notin {"say", "reset"}
  <2>1. Talk!Free \in Talk!Cur /\ Talk!Free.pc = "free"
    BY <1>2, CurFields
  <2> QED BY <1>1, <1>3, <2>1, UpdateMoves
<1>4. CASE Talk!GetState(s)
  <2>1. PICK st \in {talkState[s], talkCur[s].st} :
            talkCur' = [talkCur EXCEPT ![s] = [talkCur[s] EXCEPT !.pc = "act", !.st = st]]
    <3>1. CASE talkCur' = [talkCur EXCEPT ![s].st = talkState[s], ![s].pc = "act"]
      <4>1. talkCur' = [talkCur EXCEPT ![s] = [talkCur[s] EXCEPT !.pc = "act", !.st = talkState[s]]]
        BY <1>2, <3>1, TalkTypes DEF Talk!Cur
      <4> QED BY <4>1
    <3>2. CASE Talk!Pc(s, "act")
      <4>1. talkCur' = [talkCur EXCEPT ![s] = [talkCur[s] EXCEPT !.pc = "act", !.st = talkCur[s].st]]
        BY <1>2, <3>2, TalkTypes DEF Talk!Cur, Talk!Pc
      <4> QED BY <4>1
    <3> QED BY <1>4, <3>1, <3>2 DEF Talk!GetState
  <2>2. PICK c : c = [talkCur[s] EXCEPT !.pc = "act", !.st = st]
    OBVIOUS
  <2>3. c \in Talk!Cur /\ c.pc = "act" /\ c.st = st
    BY <1>2, <2>2 DEF Talk!Cur
  <2>4. talkCur[s].pc = "read" /\ talkCur[s].st \notin Talk!Waiting
    BY <1>4 DEF Talk!GetState, TalkInv, TalkOf, Asking
  <2> QED BY <1>1, <2>1, <2>2, <2>3, <2>4, UpdateMoves
<1>5. CASE Talk!handleMessage(s)
  <2>1. talkCur[s].pc = "act"
    BY <1>5 DEF Talk!handleMessage
  <2>2. CASE Talk!Pc(s, "reset")
    <3>1. PICK c : c = [talkCur[s] EXCEPT !.pc = "reset"]
      OBVIOUS
    <3>2. c \in Talk!Cur /\ c.pc = "reset"
      BY <1>2, <3>1, CurFields
    <3>3. talkCur' = [talkCur EXCEPT ![s] = c]
      BY <2>2, <3>1 DEF Talk!Pc
    <3> QED BY <1>1, <2>1, <3>2, <3>3, UpdateMoves
  <2>3. CASE \E b \in {"code", "confirm"} : talkCur' = [talkCur EXCEPT ![s].pc = "set", ![s].what = b]
    <3>1. PICK b \in {"code", "confirm"} : talkCur' = [talkCur EXCEPT ![s].pc = "set", ![s].what = b]
      BY <2>3
    <3>2. PICK c : c = [talkCur[s] EXCEPT !.pc = "set", !.what = b]
      OBVIOUS
    <3>3. c \in Talk!Cur /\ c.pc = "set" /\ c.what = b
      BY <1>2, <3>2 DEF Talk!Cur
    <3>4. talkCur' = [talkCur EXCEPT ![s] = c]
      BY <3>1, <3>2, TalkTypes
    <3>5. Talk!StateOf(b) \in Talk!States
      BY DEF Talk!StateOf, Talk!States
    <3> QED BY <1>1, <2>1, <3>3, <3>4, <3>5, UpdateMoves
  <2> QED BY <1>3, <1>5, <2>1, <2>2, <2>3 DEF Talk!handleMessage, Talk!Leave
<1>6. CASE Talk!ShowSomething(s)
  BY <1>3, <1>6 DEF Talk!ShowSomething, Talk!Leave
<1> QED BY <1>4, <1>5, <1>6

(* A state is set, or Redis fails. *)
LEMMA StateSet ==
    ASSUME TalkInv, NEW s \in Senders, NEW st \in Talk!States, Talk!SetState(s, st),
           NEW c \in Talk!Cur, talkCur' = [talkCur EXCEPT ![s] = c], UNCHANGED <<talkPrompt, talkEffect>>
    PROVE  /\ OnlyOf(s) /\ TalkTyped(s)' /\ TalkFaultsCount /\ talkCur'[s] = c
           /\ talkState'[s] = st \/ (talkState'[s] = talkState[s] /\ talkFaults' = talkFaults + 1)
<1>1. \/ talkState' = [talkState EXCEPT ![s] = st] /\ UNCHANGED talkFaults
      \/ UNCHANGED talkState /\ Talk!Fault
  BY DEF Talk!SetState
<1>2. TalkFaultsCount
  BY <1>1, TalkFault
<1>3. OnlyOf(s) /\ TalkTyped(s)' /\ talkCur'[s] = c
  BY <1>1, TalkTypes DEF OnlyOf, TalkTyped
<1> QED BY <1>1, <1>2, <1>3, TalkTypes DEF Talk!Fault

(* A button that asks: first the state, then the question.                 *)
LEMMA TalkAsks ==
    ASSUME TalkInv, NEW s \in Senders, Talk!handleCallback(s) \/ Talk!SendMessage(s)
    PROVE  TalkInv'
<1>1. talkSent' \in [Senders -> 0..MaxSent] /\ TalkComesIn'
  BY TalkTypes DEF Talk!handleCallback, Talk!SendMessage, TalkComesIn
<1>2. talkCur[s] \in Talk!Cur /\ TalkOf(s) /\ talkPrompt[s].used \in Nat /\ talkFaults \in Nat
  BY TalkTypes DEF TalkInv
<1>3. CASE Talk!handleCallback(s)
  <2>1. Talk!StateOf(talkCur[s].what) \in Talk!States
    BY <1>2, <1>3 DEF Talk!handleCallback, TalkOf, Asking
  <2>2. PICK c : c = [talkCur[s] EXCEPT !.pc = "say"]
    OBVIOUS
  <2>3. c \in Talk!Cur /\ c.pc = "say" /\ c.what = talkCur[s].what
    BY <1>2, <2>2, CurFields
  <2>4. /\ Talk!SetState(s, Talk!StateOf(c.what)) /\ talkCur' = [talkCur EXCEPT ![s] = c]
        /\ talkCur[s].pc = "set" /\ UNCHANGED <<talkPrompt, talkEffect>>
    BY <1>3, <2>2, <2>3 DEF Talk!handleCallback, Talk!Pc, Talk!history
  <2>5. /\ OnlyOf(s) /\ TalkTyped(s)' /\ TalkFaultsCount /\ talkCur'[s] = c
        /\ talkState'[s] = Talk!StateOf(c.what) \/ (talkState'[s] = talkState[s] /\ talkFaults' = talkFaults + 1)
    BY <2>1, <2>3, <2>4, StateSet
  <2>6. Asking(s)'
    BY <2>1, <2>3, <2>5 DEF Asking
  <2>7. talkFaults' = 0 => talkFaults = 0 /\ talkState'[s] = Talk!StateOf(c.what)
    BY <1>2, <2>5 DEF TalkFaultsCount
  <2>8. talkFaults' = 0 => Matched(s)'
    BY <1>2, <2>3, <2>4, <2>5, <2>7 DEF TalkOf, Matched
  <2>9. talkPrompt[s].used <= 1 + talkFaults'
    BY <1>2, <2>5 DEF TalkOf, Spent, TalkFaultsCount
  <2>10. Spent(s)'
    BY <2>3, <2>4, <2>5, <2>9 DEF Spent
  <2> QED BY <1>1, <2>5, <2>6, <2>8, <2>10, SenderMoves DEF TalkOf
<1>4. CASE Talk!SendMessage(s)
  <2>1. PICK q : q = [kind |-> Talk!StateOf(talkCur[s].what), used |-> 0]
    OBVIOUS
  <2>2. /\ talkPrompt' = [talkPrompt EXCEPT ![s] = q] /\ talkCur' = [talkCur EXCEPT ![s] = Talk!Free]
        /\ talkCur[s].pc = "say" /\ UNCHANGED <<talkState, talkEffect, talkFaults>>
    BY <1>4, <2>1 DEF Talk!SendMessage, Talk!Leave
  <2>3. q \in [kind: Talk!States \cup {"reissue"}, used: Nat] /\ q.used = 0
    BY <1>2, <2>1, <2>2 DEF TalkOf, Asking
  <2>4. Talk!Free \in Talk!Cur /\ Talk!Free.pc = "free"
    BY <1>2, CurFields
  <2>5. OnlyOf(s) /\ TalkTyped(s)' /\ talkCur'[s] = Talk!Free /\ talkPrompt'[s] = q
    BY <2>2, <2>3, <2>4, TalkTypes DEF OnlyOf, TalkTyped
  <2>6. TalkFaultsCount
    BY <2>2, TalkFault
  <2>7. Asking(s)'
    BY <2>4, <2>5 DEF Asking
  <2>8. talkFaults' = 0 => Matched(s)'
    <3> SUFFICES ASSUME talkFaults = 0 PROVE Matched(s)'
      BY <2>2
    <3>1. talkCur[s].what = "reissue" \/ talkState[s] \in {Talk!StateOf(talkCur[s].what), "idle"}
      BY <1>2, <2>2 DEF TalkOf, Matched
    <3>2. talkState[s] \in Talk!Waiting => q.kind \in {talkState[s], "reissue"}
      BY <2>1, <3>1 DEF Talk!StateOf, Talk!Waiting
    <3>3. talkEffect[s].asked \in {talkEffect[s].did, "reissue"}
      BY <1>2 DEF TalkOf, Matched
    <3> QED BY <2>2, <2>4, <2>5, <3>2, <3>3 DEF Matched
  <2>9. Spent(s)'
    BY <1>2, <2>2, <2>3, <2>4, <2>5 DEF Spent
  <2> QED BY <1>1, <2>5, <2>6, <2>7, <2>8, <2>9, SenderMoves DEF TalkOf
<1> QED BY <1>3, <1>4

(* An answer does what was asked for, or nothing.                          *)
LEMMA TalkAnswers == ASSUME TalkInv, NEW s \in Senders, Talk!handleAdminText(s) PROVE TalkInv'
<1>1. /\ talkSent' \in [Senders -> 0..MaxSent] /\ TalkComesIn' /\ UNCHANGED <<talkState, talkFaults>>
      /\ talkCur[s].pc = "act" /\ talkCur[s].st \in Talk!Waiting
  BY TalkTypes DEF Talk!handleAdminText, TalkComesIn
<1>2. /\ talkCur[s] \in Talk!Cur /\ talkPrompt[s].used \in Nat /\ talkFaults \in Nat
      /\ talkCur[s].st \in Talk!States /\ talkPrompt[s].kind \in Talk!States \cup {"reissue"}
      /\ Asking(s) /\ Spent(s) /\ (talkFaults = 0 => Matched(s))
  BY TalkTypes DEF TalkInv, TalkOf, Talk!Cur
<1>3. TalkFaultsCount
  BY <1>1, TalkFault
<1>4. PICK c \in Talk!Cur : /\ talkCur' = [talkCur EXCEPT ![s] = c]
                            /\ c.pc = "reset" \/ (c.pc = "free" /\ ~Talk!Fits(talkCur[s].st, talkCur[s].what))
  <2>1. CASE talkCur[s].st = "batch" /\ talkCur[s].what # "code"
    <3>1. Talk!Free \in Talk!Cur /\ Talk!Free.pc = "free" /\ talkCur' = [talkCur EXCEPT ![s] = Talk!Free]
      BY <1>2, <2>1, CurFields DEF Talk!handleAdminText, Talk!Leave
    <3>2. ~Talk!Fits(talkCur[s].st, talkCur[s].what)
      BY <2>1 DEF Talk!Fits
    <3> QED BY <3>1, <3>2
  <2>2. CASE ~(talkCur[s].st = "batch" /\ talkCur[s].what # "code")
    <3>1. PICK c : c = [talkCur[s] EXCEPT !.pc = "reset"]
      OBVIOUS
    <3>2. c \in Talk!Cur /\ c.pc = "reset"
      BY <1>2, <3>1, CurFields
    <3>3. talkCur' = [talkCur EXCEPT ![s] = c]
      BY <2>2, <3>1 DEF Talk!handleAdminText, Talk!Pc
    <3> QED BY <3>2, <3>3
  <2> QED BY <2>1, <2>2
<1>5. CASE Talk!Fits(talkCur[s].st, talkCur[s].what)
  <2>1. PICK e, q : /\ e = [did |-> talkCur[s].st, asked |-> talkPrompt[s].kind]
                    /\ q = [talkPrompt[s] EXCEPT !.used = talkPrompt[s].used + 1]
    OBVIOUS
  <2>2. talkEffect' = [talkEffect EXCEPT ![s] = e] /\ talkPrompt' = [talkPrompt EXCEPT ![s] = q]
    BY <1>5, <2>1, TalkTypes DEF Talk!handleAdminText, Talk!Does
  <2>3. /\ e \in [did: Talk!States, asked: Talk!States \cup {"reissue"}] /\ e.did = talkCur[s].st
        /\ e.asked = talkPrompt[s].kind
    BY <1>2, <2>1
  <2>4. /\ q \in [kind: Talk!States \cup {"reissue"}, used: Nat] /\ q.kind = talkPrompt[s].kind
        /\ q.used = talkPrompt[s].used + 1
    BY <1>2, <2>1, TalkTypes
  <2>5. /\ OnlyOf(s) /\ TalkTyped(s)' /\ talkCur'[s] = c /\ talkEffect'[s] = e /\ talkPrompt'[s] = q
        /\ c.pc = "reset"
    BY <1>1, <1>4, <1>5, <2>2, <2>3, <2>4, TalkTypes DEF OnlyOf, TalkTyped
  <2>6. Asking(s)'
    BY <2>5 DEF Asking
  <2>7. talkFaults' = 0 => Matched(s)'
    BY <1>1, <1>2, <2>3, <2>4, <2>5 DEF Matched
  <2>8. Spent(s)'
    <3>1. talkPrompt[s].used <= talkFaults
      BY <1>1, <1>2 DEF Spent
    <3>2. q.used <= 1 + talkFaults
      BY <1>2, <2>4, <3>1
    <3> QED BY <1>1, <2>5, <3>2 DEF Spent
  <2> QED BY <1>1, <1>3, <2>5, <2>6, <2>7, <2>8, SenderMoves DEF TalkOf
<1>6. CASE ~Talk!Fits(talkCur[s].st, talkCur[s].what)
  <2>1. UNCHANGED <<talkEffect, talkPrompt>>
    BY <1>6 DEF Talk!handleAdminText, Talk!Does
  <2> QED BY <1>1, <1>3, <1>4, <2>1, UpdateMoves
<1> QED BY <1>5, <1>6

(* The state ends, by the code or by its time.                             *)
LEMMA TalkEnds == ASSUME TalkInv, NEW s \in Senders, Talk!SetIdle(s) \/ Talk!Expire(s) PROVE TalkInv'
<1>1. talkSent' \in [Senders -> 0..MaxSent] /\ TalkComesIn' /\ UNCHANGED <<talkPrompt, talkEffect>>
  <2>1. UNCHANGED <<talkSent, talkInbox, talkPrompt, talkEffect>>
    BY DEF Talk!SetIdle, Talk!Expire, Talk!history
  <2> QED BY <2>1, TalkTypes DEF TalkComesIn
<1>2. /\ talkCur[s] \in Talk!Cur /\ talkPrompt[s].used \in Nat /\ talkFaults \in Nat
      /\ Asking(s) /\ Spent(s) /\ (talkFaults = 0 => Matched(s))
  BY TalkTypes DEF TalkInv, TalkOf
<1>3. "idle" \in Talk!States /\ "idle" \notin Talk!Waiting
  BY DEF Talk!States, Talk!Waiting
<1>4. CASE Talk!SetIdle(s)
  <2>1. Talk!Free \in Talk!Cur /\ Talk!Free.pc = "free"
    BY <1>2, CurFields
  <2>2. /\ OnlyOf(s) /\ TalkTyped(s)' /\ TalkFaultsCount /\ talkCur'[s] = Talk!Free
        /\ talkState'[s] = "idle" \/ (talkState'[s] = talkState[s] /\ talkFaults' = talkFaults + 1)
    BY <1>1, <1>3, <1>4, <2>1, StateSet DEF Talk!SetIdle, Talk!Leave
  <2>3. Asking(s)'
    BY <2>1, <2>2 DEF Asking
  <2>4. talkFaults' = 0 => talkFaults = 0 /\ talkState'[s] = "idle"
    BY <1>2, <2>2 DEF TalkFaultsCount
  <2>5. talkFaults' = 0 => Matched(s)'
    BY <1>1, <1>2, <1>3, <2>1, <2>2, <2>4 DEF Matched
  <2>6. talkPrompt[s].used <= 1 + talkFaults' /\ talkPrompt[s].used <= 1 + talkFaults
    BY <1>2, <2>2 DEF Spent, TalkFaultsCount
  <2>7. Spent(s)'
    BY <1>1, <1>2, <1>3, <2>1, <2>2, <2>6 DEF Spent
  <2> QED BY <1>1, <2>2, <2>3, <2>5, <2>7, SenderMoves DEF TalkOf
<1>5. CASE Talk!Expire(s)
  <2>1. talkState' = [talkState EXCEPT ![s] = "idle"] /\ UNCHANGED <<talkCur, talkFaults>>
    BY <1>5 DEF Talk!Expire
  <2>2. OnlyOf(s) /\ TalkTyped(s)' /\ talkState'[s] = "idle"
    BY <1>1, <1>3, <2>1, TalkTypes DEF OnlyOf, TalkTyped
  <2>3. TalkFaultsCount /\ Asking(s)'
    BY <1>2, <2>1, TalkFault DEF Asking
  <2>4. talkFaults' = 0 => Matched(s)'
    BY <1>1, <1>2, <1>3, <2>1, <2>2 DEF Matched
  <2>5. Spent(s)'
    BY <1>1, <1>2, <1>3, <2>1, <2>2 DEF Spent
  <2> QED BY <1>1, <2>2, <2>3, <2>4, <2>5, SenderMoves DEF TalkOf
<1> QED BY <1>4, <1>5

(* Who was being handled is forgotten; a question may have been answered   *)
(* and still wait, which is what the fault counts for.                     *)
LEMMA TalkRestarts == ASSUME TalkInv, Talk!Restart PROVE TalkInv'
<1>1. /\ talkInbox' = {} /\ talkCur' = [s \in Senders |-> Talk!Free]
      /\ UNCHANGED <<talkState, talkSent, talkPrompt, talkEffect>> /\ talkFaults < MaxFaults
      /\ talkFaults' = talkFaults + 1
  BY DEF Talk!Restart, Talk!history, Talk!Fault
<1>2. Talk!Free \in Talk!Cur /\ Talk!Free.pc = "free"
  BY DEF Talk!Free, Talk!Cur, Talk!States, Talk!Kinds
<1>3. talkFaults \in Nat /\ talkFaults' \in 0..MaxFaults /\ talkFaults' # 0
  BY <1>1, TalkTypes
<1>4. Talk!TypeOK' /\ TalkComesIn'
  BY <1>1, <1>2, <1>3, TalkTypes DEF Talk!TypeOK, TalkComesIn
<1>5. ASSUME NEW s \in Senders PROVE TalkOf(s)'
  <2>1. talkPrompt[s].used \in Nat /\ talkPrompt[s].used <= 1 + talkFaults
    BY TalkTypes DEF TalkInv, TalkOf, Spent
  <2>2. talkPrompt[s].used <= talkFaults' /\ talkPrompt[s].used <= 1 + talkFaults'
    BY <1>1, <1>3, <2>1
  <2>3. talkCur'[s] = Talk!Free
    BY <1>1
  <2> QED BY <1>1, <1>2, <1>3, <2>2, <2>3 DEF TalkOf, Asking, Spent
<1>6. TalkAssumed'
  BY DEF TalkInv, TalkAssumed, Talk!AdminsSend, Talk!KnownTexts, Talk!KnownButtons, Talk!NoneIsNoUpdate, Talk!BoundsAreNat
<1> QED BY <1>4, <1>5, <1>6 DEF TalkInv

(* Nobody was asked anything.                                              *)
LEMMA TalkStarts == TalkAssumed /\ Talk!Init => TalkInv
<1> SUFFICES ASSUME TalkAssumed, Talk!Init PROVE TalkInv
  OBVIOUS
<1>1. Talk!Free \in Talk!Cur /\ Talk!Free.pc = "free" /\ "idle" \in Talk!States /\ "idle" \notin Talk!Waiting
  BY DEF Talk!Free, Talk!Cur, Talk!States, Talk!Kinds, Talk!Waiting
<1>2. MaxSent \in Nat /\ MaxFaults \in Nat
  BY DEF TalkAssumed, Talk!BoundsAreNat
<1>3. Talk!TypeOK /\ TalkComesIn
  BY <1>1, <1>2 DEF Talk!Init, Talk!TypeOK, TalkComesIn
<1>4. ASSUME NEW s \in Senders PROVE TalkOf(s)
  <2>1. /\ talkState[s] = "idle" /\ talkCur[s] = Talk!Free /\ talkPrompt[s].used = 0
        /\ talkEffect[s].asked = talkEffect[s].did /\ talkFaults = 0
    BY DEF Talk!Init
  <2> QED BY <1>1, <2>1 DEF TalkOf, Asking, Matched, Spent
<1> QED BY <1>3, <1>4 DEF TalkInv

(* Every step, of the sender, the bot and Redis.                           *)
LEMMA TalkGoesOn == TalkInv /\ [Talk!Next]_(Talk!vars) => TalkInv'
<1> SUFFICES ASSUME TalkInv, [Talk!Next]_(Talk!vars) PROVE TalkInv'
  OBVIOUS
<1>1. CASE UNCHANGED Talk!vars
  <2>1. UNCHANGED <<talkState, talkCur, talkPrompt, talkEffect, talkInbox, talkSent, talkFaults>>
    BY <1>1 DEF Talk!vars
  <2>2. TalkFaultsCount /\ TalkComesIn' /\ talkSent' \in [Senders -> 0..MaxSent]
    BY <2>1, TalkTypes, TalkFault DEF TalkComesIn
  <2> QED BY <2>1, <2>2, TalkAsItIs
<1>2. CASE Talk!Next
  BY <1>2, TalkServes, TalkHandles, TalkGoes, TalkAsks, TalkAnswers, TalkEnds, TalkRestarts DEF Talk!Next, Talk!Handle
<1> QED BY <1>1, <1>2

(* For any senders and administrators, any texts and buttons, and however  *)
(* goroutines overtake each other: without a fault a text answers the last *)
(* question its sender was shown, and each question is worth one deed, and *)
(* one more for every fault.                                               *)
THEOREM AnswersMeetQuestions ==
    Talk!Spec /\ [](scene = "talk") => []AnswersMatchQuestions
<1>1. TalkInv /\ scene = "talk" => AnswersMatchQuestions
  BY DEF TalkInv, TalkOf, Matched, Spent, AnswersMatchQuestions, Talk!AnswersMatchQuestions,
     Talk!EffectMatchesPrompt, Talk!OneEffectPerPrompt
<1>2. TalkAssumed
  BY PartsAssume DEF TalkAssumed
<1> QED BY <1>1, <1>2, TalkStarts, TalkGoesOn, PTL DEF Talk!Spec

(***************************************************************************)
(* What is written down of what was done: AuditTrail, with the variables   *)
(* and constants MCConfigTokens gives it.                                  *)
(***************************************************************************)
TrailAssumed ==
    Trail!BatchIsMore /\ Trail!NoneIsNew /\ Trail!BoundsAreNat /\ IsFiniteSet(Procs)

(* Where a job may be. *)
Deletes == {"list", "peer", "clear", "logAccess", "device"}

PcsOf(job) ==
    CASE job = "none"     -> {"idle"}
      [] job = "activate" -> {"grant", "logGrant"}
      [] job = "create"   -> {"create", "logDevice", "config"}
      [] job = "delete"   -> Deletes
      [] job = "revoke"   -> Deletes \cup {"grants", "logRevoke"}
      [] job = "single"   -> {"code", "logCode"}
      [] job = "batch"    -> {"code", "logCode", "logBatch"}
      [] job = "api"      -> {"code", "logApi"}
      [] job = "balance"  -> {"balance", "logBalance"}

(* What a job has counted so far, and the access it is at. *)
JobFits(f) ==
    /\ f.pc \in PcsOf(f.job)
    /\ f.job \in {"single", "batch", "api"} => f.n <= Batch
    /\ f.pc = "grants" \/ (f.pc = "code" /\ f.job # "batch") => f.n = 0
    /\ f.pc = "code" => f.n < Batch
    /\ f.pc = "logBatch" => f.n = Batch
    /\ f.pc \in {"peer", "clear", "logAccess"} => f.acc \in TrailProtocols

(* What a job relies on. *)
JobMeets(f) ==
    /\ f.late => trailFaults > 0
    /\ f.pc \in {"peer", "clear", "logAccess", "device", "logDevice", "config"} => trailDevice # "none"
    /\ f.pc \in {"clear", "logAccess"} => trailAccess[f.acc] # "active"
    /\ f.pc = "config" => trailOpened

(* Rows and what is to be written down are no more than what was done, and *)
(* no less when nothing failed.                                            *)
Kept(k) == trailTrail[k] + Cardinality(Trail!Untold(k)) + Trail!Stray(k)

BooksKept ==
    \A k \in Trail!Kinds : Kept(k) <= trailDeed[k] /\ (trailFaults = 0 => Kept(k) = trailDeed[k])

(* Grants and codes of unknown administrators come from requests. *)
Comes(f)  == f.job \in {"activate", "api"}
ComingIn == {p \in Procs : Comes(trailFlow[p])}

TrailInv ==
    /\ TrailAssumed /\ Trail!TypeOK
    /\ \A p \in Procs : JobFits(trailFlow[p]) /\ JobMeets(trailFlow[p])
    /\ \A a \in trailClosed : trailAccess[a] # "active"
    /\ trailClosed # {} \/ trailOpened => trailDevice # "none"
    /\ trailConfig => trailOpened
    /\ trailTrail["activate"] = trailDeed["activate"]
    /\ BooksKept
    /\ trailHeld + trailStray + Cardinality(ComingIn) <= trailJobs

(***************************************************************************)
(* How many pairs there are below a function.                              *)
(***************************************************************************)
Pairs(v) == UNION {{p} \X (1..v[p]) : p \in Procs}

LEMMA PairsCounted ==
    ASSUME NEW p, NEW m \in Nat
    PROVE  IsFiniteSet({p} \X (1..m)) /\ Cardinality({p} \X (1..m)) = m
<1>1. IsFiniteSet({p}) /\ Cardinality({p}) = 1
  BY FS_Singleton
<1>2. IsFiniteSet(1..m) /\ Cardinality(1..m) = m
  <2>1. IsFiniteSet(1..m) /\ Cardinality(1..m) = IF 1 > m THEN 0 ELSE m - 1 + 1
    BY FS_Interval, 1 \in Int, m \in Int
  <2> QED BY <2>1
<1>3. IsFiniteSet({p} \X (1..m)) /\ Cardinality({p} \X (1..m)) = Cardinality({p}) * Cardinality(1..m)
  BY <1>1, <1>2, FS_Product
<1>4. 1 * m = m
  OBVIOUS
<1> QED BY <1>1, <1>2, <1>3, <1>4

(* The pairs of all but p, and with them those of p.                       *)
LEMMA PairsOfAll ==
    ASSUME IsFiniteSet(Procs), NEW p \in Procs, NEW v \in [Procs -> Nat]
    PROVE  LET R == UNION {{q} \X (1..v[q]) : q \in Procs \ {p}}
           IN  /\ Cardinality(R) \in Nat
               /\ IsFiniteSet(Pairs(v)) /\ Cardinality(Pairs(v)) = Cardinality(R) + v[p]
<1> DEFINE Parts == {{q} \X (1..v[q]) : q \in Procs \ {p}}
           R     == UNION Parts
           Own   == {p} \X (1..v[p])
           f     == [q \in Procs \ {p} |-> {q} \X (1..v[q])]
<1>1. IsFiniteSet(Procs \ {p})
  BY FS_RemoveElement
<1>2. f \in Surjection(Procs \ {p}, Parts)
  BY DEF Surjection
<1>3. IsFiniteSet(Parts)
  <2> HIDE DEF f, Parts
  <2> QED BY <1>1, <1>2, FS_Surjection
<1>4. ASSUME NEW T \in Parts PROVE IsFiniteSet(T)
  <2>1. PICK q \in Procs \ {p} : T = {q} \X (1..v[q])
    OBVIOUS
  <2>2. v[q] \in Nat
    OBVIOUS
  <2> QED BY <2>1, <2>2, PairsCounted
<1>5. IsFiniteSet(R)
  <2> HIDE DEF Parts
  <2> QED BY <1>3, <1>4, FS_UNION
<1>6. IsFiniteSet(Own) /\ Cardinality(Own) = v[p] /\ v[p] \in Nat
  BY PairsCounted
<1>7. R \cap Own = {} /\ Pairs(v) = R \cup Own
  BY DEF Pairs
<1>8. Cardinality(R) \in Nat
  BY <1>5, FS_CardinalityType
<1>9. /\ IsFiniteSet(R \cup Own)
      /\ Cardinality(R \cup Own) = Cardinality(R) + Cardinality(Own) - Cardinality(R \cap Own)
  <2> HIDE DEF R, Own
  <2> QED BY <1>5, <1>6, FS_Union
<1>10. Cardinality(Pairs(v)) = Cardinality(R) + v[p]
  <2> HIDE DEF R, Own
  <2> QED BY <1>6, <1>7, <1>8, <1>9, FS_EmptySet
<1> QED BY <1>7, <1>8, <1>9, <1>10

(* One of them moves.                                                      *)
LEMMA PairsMove ==
    ASSUME IsFiniteSet(Procs), NEW p \in Procs,
           NEW v \in [Procs -> Nat], NEW w \in [Procs -> Nat],
           \A q \in Procs \ {p} : w[q] = v[q]
    PROVE  /\ Cardinality(Pairs(v)) \in Nat /\ Cardinality(Pairs(w)) \in Nat
           /\ Cardinality(Pairs(w)) + v[p] = Cardinality(Pairs(v)) + w[p]
<1> DEFINE R(u) == UNION {{q} \X (1..u[q]) : q \in Procs \ {p}}
<1>1. R(v) = R(w)
  OBVIOUS
<1>2. Cardinality(R(v)) \in Nat /\ Cardinality(Pairs(v)) = Cardinality(R(v)) + v[p]
  BY PairsOfAll
<1>3. Cardinality(Pairs(w)) = Cardinality(R(w)) + w[p]
  BY PairsOfAll
<1>4. v[p] \in Nat /\ w[p] \in Nat
  OBVIOUS
<1> HIDE DEF R
<1> QED BY <1>1, <1>2, <1>3, <1>4

(***************************************************************************)
(* What a job owes, and the sets that are counted.                         *)
(***************************************************************************)
LEMMA TrailTypes ==
    ASSUME TrailInv
    PROVE  /\ IsFiniteSet(Procs) /\ Batch \in Nat /\ Batch > 1 /\ NoAccess \notin TrailProtocols
           /\ MaxJobs \in Nat /\ MaxFaults \in Nat
           /\ trailHeld \in 0..MaxJobs /\ trailStray \in 0..MaxJobs
           /\ trailDevice \in {"none", "active", "revoked"}
           /\ trailAccess \in [TrailProtocols -> {"none", "active", "error", "revoked"}]
           /\ trailConfig \in BOOLEAN /\ trailOpened \in BOOLEAN /\ trailClosed \subseteq TrailProtocols
           /\ trailFlow \in [Procs -> Trail!Flow]
           /\ trailDeed \in [Trail!Kinds -> Nat] /\ trailTrail \in [Trail!Kinds -> Nat]
           /\ trailJobs \in 0..MaxJobs /\ trailFaults \in 0..MaxFaults
BY DEF TrailInv, TrailAssumed, Trail!TypeOK, Trail!BatchIsMore, Trail!NoneIsNew, Trail!BoundsAreNat

LEMMA TrailFields ==
    ASSUME NEW f \in Trail!Flow
    PROVE  /\ f.job \in Trail!Jobs \cup {"none"} /\ f.pc \in Trail!Pcs /\ f.n \in Nat
           /\ f.acc \in TrailProtocols \cup {NoAccess} /\ f.todo \in SUBSET TrailProtocols
           /\ f.actor \in Trail!Actors /\ f.late \in BOOLEAN
BY DEF Trail!Flow

LEMMA OwedIs ==
    ASSUME Batch \in Nat, NEW f, f.n \in Nat
    PROVE  /\ Trail!Owed(f, "activate") = 0
           /\ Trail!Owed(f, "revoke") = IF f.job = "revoke" THEN f.n ELSE 0
           /\ Trail!Owed(f, "code") = IF f.pc \in {"logCode", "logApi"} THEN 1 ELSE 0
           /\ Trail!Owed(f, "batch") = IF f.job = "batch" /\ f.n = Batch THEN Batch ELSE 0
           /\ Trail!Owed(f, "balance") = IF f.pc = "logBalance" THEN 1 ELSE 0
           /\ \A k \in Trail!Kinds : Trail!Owed(f, k) \in Nat
<1>1. /\ Trail!Owed(f, "activate") = 0
      /\ Trail!Owed(f, "code") = IF f.pc \in {"logCode", "logApi"} THEN 1 ELSE 0
      /\ Trail!Owed(f, "batch") = IF f.job = "batch" /\ f.n = Batch THEN Batch ELSE 0
      /\ Trail!Owed(f, "balance") = IF f.pc = "logBalance" THEN 1 ELSE 0
  BY DEF Trail!Owed, Trail!Complete
<1>2. Trail!Owed(f, "revoke") = IF f.job = "revoke" THEN f.n ELSE 0
  <2>1. f.n * 1 = f.n /\ f.n * 0 = 0
    OBVIOUS
  <2>2. Trail!Owed(f, "revoke") = f.n * IF f.job = "revoke" THEN 1 ELSE 0
    BY DEF Trail!Owed
  <2> QED BY <2>1, <2>2
<1>3. \A k \in Trail!Kinds : Trail!Owed(f, k) \in Nat
  BY <1>1, <1>2 DEF Trail!Kinds
<1> QED BY <1>1, <1>2, <1>3

OwedBy(k) == [p \in Procs |-> Trail!Owed(trailFlow[p], k)]

LEMMA UntoldPairs ==
    ASSUME TrailInv, NEW k \in Trail!Kinds
    PROVE  /\ Trail!Untold(k) = Pairs(OwedBy(k)) /\ OwedBy(k) \in [Procs -> Nat]
           /\ \A S : Trail!Cardinality(S) = Cardinality(S)
<1>1. ASSUME NEW p \in Procs PROVE Trail!Owed(trailFlow[p], k) \in Nat
  BY TrailTypes, TrailFields, OwedIs
<1>2. OwedBy(k) \in [Procs -> Nat]
  BY <1>1 DEF OwedBy
<1>3. Trail!Untold(k) = Pairs(OwedBy(k))
  BY DEF Trail!Untold, Pairs, OwedBy
<1>4. \A S : Trail!Cardinality(S) = Cardinality(S)
  BY DEF Trail!Cardinality, Cardinality
<1> QED BY <1>2, <1>3, <1>4

(* What is to be written down changes by what p owes.                      *)
LEMMA UntoldMoves ==
    ASSUME TrailInv, NEW p \in Procs, NEW f \in Trail!Flow, Trail!Becomes(p, f),
           NEW k \in Trail!Kinds
    PROVE  /\ Cardinality(Trail!Untold(k)) \in Nat /\ Cardinality(Trail!Untold(k)') \in Nat
           /\ Trail!Owed(f, k) \in Nat /\ Trail!Owed(trailFlow[p], k) \in Nat
           /\ Cardinality(Trail!Untold(k)') + Trail!Owed(trailFlow[p], k)
                = Cardinality(Trail!Untold(k)) + Trail!Owed(f, k)
<1>1. PICK v : v = OwedBy(k)
  OBVIOUS
<1>2. PICK w : w = [q \in Procs |-> Trail!Owed(trailFlow'[q], k)]
  OBVIOUS
<1>3. v \in [Procs -> Nat] /\ Trail!Untold(k) = Pairs(v)
  BY <1>1, UntoldPairs
<1>4. Trail!Owed(f, k) \in Nat
  BY TrailTypes, TrailFields, OwedIs
<1>5. trailFlow' = [trailFlow EXCEPT ![p] = f] /\ trailFlow \in [Procs -> Trail!Flow]
  BY TrailTypes DEF Trail!Becomes
<1>6. v[p] = Trail!Owed(trailFlow[p], k) /\ \A q \in Procs : v[q] = Trail!Owed(trailFlow[q], k)
  BY <1>1 DEF OwedBy
<1>7. w[p] = Trail!Owed(f, k) /\ \A q \in Procs \ {p} : w[q] = v[q]
  BY <1>2, <1>5, <1>6
<1>8. w \in [Procs -> Nat]
  <2>1. ASSUME NEW q \in Procs PROVE w[q] \in Nat
    BY <1>3, <1>4, <1>7
  <2> QED BY <1>2, <2>1
<1>9. Trail!Untold(k)' = Pairs(w)
  BY <1>2 DEF Trail!Untold, Pairs
<1>10. IsFiniteSet(Procs)
  BY TrailTypes
<1>11. /\ Cardinality(Pairs(v)) \in Nat /\ Cardinality(Pairs(w)) \in Nat
       /\ Cardinality(Pairs(w)) + v[p] = Cardinality(Pairs(v)) + w[p]
  BY <1>3, <1>7, <1>8, <1>10, PairsMove
<1> QED BY <1>3, <1>4, <1>6, <1>7, <1>9, <1>11

(* How the books move in a step.                                           *)
BooksStep(p, f) ==
    /\ trailDeed' \in [Trail!Kinds -> Nat] /\ trailTrail' \in [Trail!Kinds -> Nat]
    /\ trailTrail'["activate"] = trailDeed'["activate"]
    /\ trailStray' \in Nat
    /\ trailFaults' \in trailFaults..MaxFaults
    /\ \A k \in Trail!Kinds :
           LET after  == trailTrail'[k] + Trail!Owed(f, k) + Trail!Stray(k)'
               before == trailTrail[k] + Trail!Owed(trailFlow[p], k) + Trail!Stray(k)
           IN  /\ after + trailDeed[k] <= before + trailDeed'[k]
               /\ trailFaults' = 0 => after + trailDeed[k] = before + trailDeed'[k]

LEMMA BooksMove ==
    ASSUME TrailInv, NEW p \in Procs, NEW f \in Trail!Flow, Trail!Becomes(p, f), BooksStep(p, f)
    PROVE  BooksKept'
<1> SUFFICES ASSUME NEW k \in Trail!Kinds
    PROVE  Kept(k)' <= trailDeed'[k] /\ (trailFaults' = 0 => Kept(k)' = trailDeed'[k])
  BY DEF BooksKept
<1>1. /\ Cardinality(Trail!Untold(k)) \in Nat /\ Cardinality(Trail!Untold(k)') \in Nat
      /\ Trail!Owed(f, k) \in Nat /\ Trail!Owed(trailFlow[p], k) \in Nat
      /\ Cardinality(Trail!Untold(k)') + Trail!Owed(trailFlow[p], k)
           = Cardinality(Trail!Untold(k)) + Trail!Owed(f, k)
  BY UntoldMoves
<1>2. /\ trailTrail[k] \in Nat /\ trailDeed[k] \in Nat /\ trailTrail'[k] \in Nat /\ trailDeed'[k] \in Nat
      /\ trailStray \in Nat /\ trailStray' \in Nat /\ trailFaults \in Nat /\ trailFaults' \in Nat
      /\ trailFaults' = 0 => trailFaults = 0
  BY TrailTypes DEF BooksStep
<1>3. Trail!Stray(k) \in Nat /\ Trail!Stray(k)' \in Nat
  BY <1>2 DEF Trail!Stray
<1>4. /\ Kept(k) = trailTrail[k] + Cardinality(Trail!Untold(k)) + Trail!Stray(k)
      /\ Kept(k)' = trailTrail'[k] + Cardinality(Trail!Untold(k)') + Trail!Stray(k)'
  BY DEF Kept
<1>5. Kept(k) <= trailDeed[k] /\ (trailFaults = 0 => Kept(k) = trailDeed[k])
  BY DEF TrailInv, BooksKept
<1>6. /\ trailTrail'[k] + Trail!Owed(f, k) + Trail!Stray(k)' + trailDeed[k]
           <= trailTrail[k] + Trail!Owed(trailFlow[p], k) + Trail!Stray(k) + trailDeed'[k]
      /\ trailFaults' = 0 =>
             trailTrail'[k] + Trail!Owed(f, k) + Trail!Stray(k)' + trailDeed[k]
               = trailTrail[k] + Trail!Owed(trailFlow[p], k) + Trail!Stray(k) + trailDeed'[k]
  BY DEF BooksStep
<1> QED BY <1>1, <1>2, <1>3, <1>4, <1>5, <1>6

(* Requests that may still bring a grant or a stray code.                  *)
One(b) == IF b THEN 1 ELSE 0

LEMMA ComingMoves ==
    ASSUME TrailInv, NEW p \in Procs, NEW f, Trail!Becomes(p, f)
    PROVE  /\ Cardinality(ComingIn) \in Nat /\ Cardinality(ComingIn') \in Nat
           /\ Cardinality(ComingIn') + One(Comes(trailFlow[p])) = Cardinality(ComingIn) + One(Comes(f))
<1>1. IsFiniteSet(Procs) /\ trailFlow' = [trailFlow EXCEPT ![p] = f] /\ trailFlow \in [Procs -> Trail!Flow]
  BY TrailTypes DEF Trail!Becomes
<1>2. ComingIn \in SUBSET Procs /\ ComingIn' \in SUBSET Procs
  BY DEF ComingIn
<1>3. IsFiniteSet(ComingIn) /\ IsFiniteSet(ComingIn')
  BY <1>1, <1>2, FS_Subset
<1>4. Cardinality(ComingIn) \in Nat /\ Cardinality(ComingIn') \in Nat
  BY <1>3, FS_CardinalityType
<1>5. p \in ComingIn <=> Comes(trailFlow[p])
  BY DEF ComingIn
<1>6. ComingIn' = IF Comes(f) THEN ComingIn \cup {p} ELSE ComingIn \ {p}
  BY <1>1 DEF ComingIn, Comes
<1>7. /\ Cardinality(ComingIn \cup {p}) = IF p \in ComingIn THEN Cardinality(ComingIn) ELSE Cardinality(ComingIn) + 1
      /\ Cardinality(ComingIn \ {p}) = IF p \in ComingIn THEN Cardinality(ComingIn) - 1 ELSE Cardinality(ComingIn)
  BY <1>3, FS_AddElement, FS_RemoveElement
<1> QED BY <1>4, <1>5, <1>6, <1>7 DEF One

(***************************************************************************)
(* A step of p, to f: where it goes, what it does to the rows, and what it *)
(* counts.                                                                 *)
(***************************************************************************)
NeedsDevice == {"peer", "clear", "logAccess", "device", "logDevice", "config"}

FlowStep(p, f) ==
    /\ Trail!Becomes(p, f) /\ f \in Trail!Flow /\ JobFits(f)
    /\ f.late => trailFaults' > 0
    /\ f.pc \in NeedsDevice => trailDevice' # "none"
    /\ f.pc \in {"clear", "logAccess"} => trailAccess'[f.acc] # "active"
    /\ f.pc = "config" => trailOpened'

RowsStep ==
    /\ trailDevice' \in {"none", "active", "revoked"}
    /\ trailAccess' \in [TrailProtocols -> {"none", "active", "error", "revoked"}]
    /\ trailDevice # "none" =>
           /\ trailDevice' # "none"
           /\ \A a \in TrailProtocols : trailAccess[a] # "active" => trailAccess'[a] # "active"
    /\ trailConfig' \in BOOLEAN /\ trailOpened' \in BOOLEAN /\ trailClosed' \subseteq TrailProtocols
    /\ trailOpened => trailOpened'
    /\ trailClosed' # {} \/ trailOpened' => trailDevice' # "none"
    /\ \A a \in trailClosed' : trailAccess'[a] # "active"
    /\ trailConfig' => trailOpened'

CountsStep(p, f) ==
    /\ trailJobs' \in trailJobs..MaxJobs /\ trailHeld' \in Nat /\ trailStray' \in Nat
    /\ trailHeld' + trailStray' + One(Comes(f)) + trailJobs
         <= trailHeld + trailStray + One(Comes(trailFlow[p])) + trailJobs'

TrailStep(p, f) == FlowStep(p, f) /\ RowsStep /\ BooksStep(p, f) /\ CountsStep(p, f)

LEMMA CountsMove ==
    ASSUME TrailInv, NEW p \in Procs, NEW f, Trail!Becomes(p, f), CountsStep(p, f)
    PROVE  /\ trailHeld' + trailStray' + Cardinality(ComingIn') <= trailJobs'
           /\ trailHeld' \in 0..MaxJobs /\ trailStray' \in 0..MaxJobs /\ trailJobs' \in 0..MaxJobs
<1>1. /\ Cardinality(ComingIn) \in Nat /\ Cardinality(ComingIn') \in Nat
      /\ Cardinality(ComingIn') + One(Comes(trailFlow[p])) = Cardinality(ComingIn) + One(Comes(f))
  BY ComingMoves
<1>2. One(Comes(trailFlow[p])) \in Nat /\ One(Comes(f)) \in Nat
  BY DEF One
<1>3. trailHeld \in Nat /\ trailStray \in Nat /\ trailJobs \in Nat /\ MaxJobs \in Nat
  BY TrailTypes
<1>4. trailHeld + trailStray + Cardinality(ComingIn) <= trailJobs
  BY DEF TrailInv
<1>5. /\ trailJobs' \in trailJobs..MaxJobs /\ trailHeld' \in Nat /\ trailStray' \in Nat
      /\ trailHeld' + trailStray' + One(Comes(f)) + trailJobs
           <= trailHeld + trailStray + One(Comes(trailFlow[p])) + trailJobs'
  BY DEF CountsStep
<1>6. trailJobs' \in Nat /\ trailJobs' <= MaxJobs
  BY <1>3, <1>5
<1>7. trailHeld' + trailStray' + Cardinality(ComingIn') <= trailJobs'
  BY <1>1, <1>2, <1>3, <1>4, <1>5, <1>6
<1> QED BY <1>1, <1>3, <1>5, <1>6, <1>7

LEMMA TrailMoves ==
    ASSUME TrailInv, NEW p \in Procs, NEW f, TrailStep(p, f)
    PROVE  TrailInv'
<1>1. /\ Trail!Becomes(p, f) /\ f \in Trail!Flow /\ JobFits(f) /\ RowsStep
      /\ BooksStep(p, f) /\ CountsStep(p, f)
  BY DEF TrailStep, FlowStep
<1>2. trailFlow' = [trailFlow EXCEPT ![p] = f] /\ trailFlow \in [Procs -> Trail!Flow]
  BY <1>1, TrailTypes DEF Trail!Becomes
<1>3. /\ trailFlow' \in [Procs -> Trail!Flow] /\ trailFlow'[p] = f
      /\ \A q \in Procs \ {p} : trailFlow'[q] = trailFlow[q]
  BY <1>1, <1>2
<1>4. TrailAssumed'
  BY DEF TrailInv, TrailAssumed, Trail!BatchIsMore, Trail!NoneIsNew, Trail!BoundsAreNat
<1>5. trailFaults \in Nat /\ trailFaults' \in Nat /\ trailFaults <= trailFaults' /\ trailFaults' \in 0..MaxFaults
  BY <1>1, TrailTypes DEF BooksStep
<1>6. ASSUME NEW q \in Procs PROVE (JobFits(trailFlow[q]) /\ JobMeets(trailFlow[q]))'
  <2>1. CASE q = p
    <3>1. f.late => trailFaults' > 0
      BY DEF TrailStep, FlowStep
    <3>2. f.pc \in NeedsDevice => trailDevice' # "none"
      BY DEF TrailStep, FlowStep
    <3>3. f.pc \in {"clear", "logAccess"} => trailAccess'[f.acc] # "active"
      BY DEF TrailStep, FlowStep
    <3>4. f.pc = "config" => trailOpened'
      BY DEF TrailStep, FlowStep
    <3>5. JobFits(trailFlow[q])'
      BY <1>1, <1>3, <2>1 DEF JobFits
    <3> QED BY <1>3, <2>1, <3>1, <3>2, <3>3, <3>4, <3>5 DEF JobMeets, NeedsDevice
  <2>2. CASE q # p
    <3>1. PICK g \in Trail!Flow : g = trailFlow[q]
      BY <1>2
    <3>2. trailFlow'[q] = g
      BY <1>3, <2>2, <3>1
    <3>3. JobFits(g) /\ JobMeets(g)
      BY <3>1 DEF TrailInv
    <3>4. g.late => trailFaults' > 0
      BY <1>5, <3>3 DEF JobMeets
    <3>5. g.pc \in NeedsDevice => trailDevice # "none" /\ trailDevice' # "none"
      BY <1>1, <3>3 DEF JobMeets, NeedsDevice, RowsStep
    <3>6. g.pc \in {"clear", "logAccess"} => trailAccess'[g.acc] # "active"
      <4> SUFFICES ASSUME g.pc \in {"clear", "logAccess"} PROVE trailAccess'[g.acc] # "active"
        OBVIOUS
      <4>1. trailDevice # "none"
        BY <3>5 DEF NeedsDevice
      <4>2. g.acc \in TrailProtocols /\ trailAccess[g.acc] # "active"
        BY <3>3 DEF JobFits, JobMeets
      <4> QED BY <1>1, <4>1, <4>2 DEF RowsStep
    <3>7. g.pc = "config" => trailOpened'
      BY <1>1, <3>3 DEF JobMeets, RowsStep
    <3>8. JobFits(trailFlow[q])'
      BY <3>2, <3>3 DEF JobFits
    <3> QED BY <3>2, <3>4, <3>5, <3>6, <3>7, <3>8 DEF JobMeets, NeedsDevice
  <2> QED BY <2>1, <2>2
<1>7. BooksKept'
  BY <1>1, BooksMove
<1>8. /\ trailHeld' + trailStray' + Cardinality(ComingIn') <= trailJobs'
      /\ trailHeld' \in 0..MaxJobs /\ trailStray' \in 0..MaxJobs /\ trailJobs' \in 0..MaxJobs
  BY <1>1, CountsMove
<1>9. trailDeed' \in [Trail!Kinds -> Nat] /\ trailTrail' \in [Trail!Kinds -> Nat] /\ trailTrail'["activate"] = trailDeed'["activate"]
  BY <1>1 DEF BooksStep
<1>10. \A q \in Procs : trailFlow'[q].job \in {"single", "batch", "api"} => trailFlow'[q].n <= Batch
  BY <1>6 DEF JobFits
<1>11. Trail!TypeOK'
  BY <1>1, <1>3, <1>5, <1>8, <1>9, <1>10 DEF Trail!TypeOK, RowsStep
<1>12. /\ \A a \in trailClosed' : trailAccess'[a] # "active"
       /\ trailClosed' # {} \/ trailOpened' => trailDevice' # "none"
       /\ trailConfig' => trailOpened'
  BY <1>1 DEF RowsStep
<1> QED BY <1>4, <1>6, <1>7, <1>8, <1>9, <1>11, <1>12 DEF TrailInv

(* Parts of a step that change nothing.                                    *)
LEMMA RowsStay ==
    ASSUME TrailInv, UNCHANGED <<trailDevice, trailAccess, trailConfig, trailOpened, trailClosed>>
    PROVE  RowsStep
BY TrailTypes DEF RowsStep, TrailInv

LEMMA BooksStay ==
    ASSUME TrailInv, NEW p \in Procs, NEW f \in Trail!Flow,
           UNCHANGED <<trailDeed, trailTrail, trailStray>>, trailFaults' \in trailFaults..MaxFaults,
           \A k \in Trail!Kinds :
               /\ Trail!Owed(f, k) <= Trail!Owed(trailFlow[p], k)
               /\ trailFaults' = 0 => Trail!Owed(f, k) = Trail!Owed(trailFlow[p], k)
    PROVE  BooksStep(p, f)
<1>1. /\ trailDeed' \in [Trail!Kinds -> Nat] /\ trailTrail' \in [Trail!Kinds -> Nat]
      /\ trailTrail'["activate"] = trailDeed'["activate"] /\ trailStray' \in Nat
  BY TrailTypes DEF TrailInv
<1>2. ASSUME NEW k \in Trail!Kinds
      PROVE  LET after  == trailTrail'[k] + Trail!Owed(f, k) + Trail!Stray(k)'
                 before == trailTrail[k] + Trail!Owed(trailFlow[p], k) + Trail!Stray(k)
             IN  /\ after + trailDeed[k] <= before + trailDeed'[k]
                 /\ trailFaults' = 0 => after + trailDeed[k] = before + trailDeed'[k]
  <2>1. Trail!Owed(f, k) \in Nat /\ Trail!Owed(trailFlow[p], k) \in Nat
    BY TrailTypes, TrailFields, OwedIs
  <2>2. trailTrail[k] \in Nat /\ trailDeed[k] \in Nat /\ Trail!Stray(k) \in Nat
    BY TrailTypes DEF Trail!Stray
  <2>3. trailTrail'[k] = trailTrail[k] /\ trailDeed'[k] = trailDeed[k] /\ Trail!Stray(k)' = Trail!Stray(k)
    BY DEF Trail!Stray
  <2> QED BY <2>1, <2>2, <2>3
<1> QED BY <1>1, <1>2 DEF BooksStep

LEMMA CountsStay ==
    ASSUME TrailInv, NEW p \in Procs, NEW f, UNCHANGED <<trailHeld, trailStray, trailJobs>>,
           Comes(f) => Comes(trailFlow[p])
    PROVE  CountsStep(p, f)
<1>1. One(Comes(f)) \in Nat /\ One(Comes(trailFlow[p])) \in Nat /\ One(Comes(f)) <= One(Comes(trailFlow[p]))
  BY DEF One
<1>2. trailHeld \in Nat /\ trailStray \in Nat /\ trailJobs \in Nat /\ trailJobs \in trailJobs..MaxJobs
  BY TrailTypes
<1> QED BY <1>1, <1>2 DEF CountsStep

(***************************************************************************)
(* Where jobs are, and where they go.                                      *)
(***************************************************************************)
LEMMA IdleIs ==
    ASSUME TrailInv
    PROVE  /\ Trail!Idle \in Trail!Flow /\ JobFits(Trail!Idle) /\ ~Comes(Trail!Idle)
           /\ Trail!Idle.pc = "idle" /\ Trail!Idle.job = "none" /\ Trail!Idle.n = 0 /\ ~Trail!Idle.late
           /\ \A k \in Trail!Kinds : Trail!Owed(Trail!Idle, k) = 0
<1>1. Trail!Idle \in Trail!Flow
  BY DEF Trail!Idle, Trail!Flow, Trail!Pcs, Trail!Actors
<1>2. Trail!Idle.pc = "idle" /\ Trail!Idle.job = "none" /\ Trail!Idle.n = 0 /\ ~Trail!Idle.late
  BY DEF Trail!Idle
<1>3. \A k \in Trail!Kinds : Trail!Owed(Trail!Idle, k) = 0
  BY <1>2, TrailTypes, OwedIs DEF Trail!Kinds
<1>4. JobFits(Trail!Idle) /\ ~Comes(Trail!Idle)
  BY <1>2 DEF JobFits, PcsOf, Comes
<1> QED BY <1>1, <1>2, <1>3, <1>4

LEMMA JobsOf ==
    ASSUME NEW f \in Trail!Flow, JobFits(f)
    PROVE  /\ f.pc \in {"grant", "logGrant"} => f.job = "activate"
           /\ f.pc \in {"create", "logDevice", "config"} => f.job = "create"
           /\ f.pc \in {"grants", "logRevoke"} => f.job = "revoke"
           /\ f.pc \in Deletes => f.job \in {"delete", "revoke"}
           /\ f.pc = "code" => f.job \in {"single", "batch", "api"}
           /\ f.pc = "logCode" => f.job \in {"single", "batch"}
           /\ f.pc = "logBatch" => f.job = "batch"
           /\ f.pc = "logApi" => f.job = "api"
           /\ f.pc \in {"balance", "logBalance"} => f.job = "balance"
<1>1. f.job \in Trail!Jobs \cup {"none"}
  BY DEF Trail!Flow
<1> QED BY <1>1 DEF JobFits, PcsOf, Deletes, Trail!Jobs

(* The flow of p, as a value.                                              *)
LEMMA FlowAt ==
    ASSUME TrailInv, NEW p \in Procs
    PROVE  /\ trailFlow[p] \in Trail!Flow /\ JobFits(trailFlow[p]) /\ JobMeets(trailFlow[p])
           /\ \A k \in Trail!Kinds : Trail!Owed(trailFlow[p], k) \in Nat
<1>1. trailFlow[p] \in Trail!Flow
  BY TrailTypes
<1>2. \A k \in Trail!Kinds : Trail!Owed(trailFlow[p], k) \in Nat
  BY <1>1, TrailTypes, TrailFields, OwedIs
<1> QED BY <1>1, <1>2 DEF TrailInv

(* A job ends.                                                             *)
LEMMA GoesIdle ==
    ASSUME TrailInv, NEW p \in Procs, Trail!Becomes(p, Trail!Idle)
    PROVE  FlowStep(p, Trail!Idle)
BY IdleIs DEF FlowStep, NeedsDevice

(* Only the place changes.                                                 *)
LEMMA PcChanges ==
    ASSUME NEW f \in Trail!Flow, NEW pc \in Trail!Pcs
    PROVE  LET g == [f EXCEPT !.pc = pc]
           IN  /\ g \in Trail!Flow /\ g.pc = pc /\ g.job = f.job /\ g.n = f.n /\ g.acc = f.acc
               /\ g.late = f.late /\ g.todo = f.todo /\ g.actor = f.actor
BY DEF Trail!Flow

(* Nothing more or less is owed.                                           *)
LEMMA OwesTheSame ==
    ASSUME TrailInv, NEW f \in Trail!Flow, NEW g \in Trail!Flow, g.job = f.job, g.n = f.n,
           g.pc \in {"logCode", "logApi"} <=> f.pc \in {"logCode", "logApi"},
           g.pc = "logBalance" <=> f.pc = "logBalance"
    PROVE  \A k \in Trail!Kinds : Trail!Owed(g, k) = Trail!Owed(f, k) /\ Trail!Owed(f, k) \in Nat
<1>1. f.n \in Nat /\ g.n \in Nat /\ Batch \in Nat
  BY TrailTypes, TrailFields
<1> QED BY <1>1, OwedIs DEF Trail!Kinds

(* The next access, or the device.                                         *)
LEMMA AfterIs ==
    ASSUME TrailInv, NEW f \in Trail!Flow, JobFits(f), f.pc \in Deletes
    PROVE  LET g == Trail!After(f)
           IN  /\ g \in Trail!Flow /\ JobFits(g) /\ g.pc \in {"device", "peer"}
               /\ g.late = f.late /\ ~Comes(g)
               /\ \A k \in Trail!Kinds : Trail!Owed(g, k) = Trail!Owed(f, k)
<1> DEFINE g == Trail!After(f)
<1>1. f.job \in {"delete", "revoke"}
  BY JobsOf
<1>2. /\ f.job \in Trail!Jobs \cup {"none"} /\ f.pc \in Trail!Pcs /\ f.n \in Nat
      /\ f.acc \in TrailProtocols \cup {NoAccess} /\ f.todo \in SUBSET TrailProtocols
      /\ f.actor \in Trail!Actors /\ f.late \in BOOLEAN
  BY TrailFields
<1>3. /\ g \in Trail!Flow /\ g.pc \in {"device", "peer"} /\ g.job = f.job /\ g.n = f.n
      /\ g.late = f.late /\ (g.pc = "peer" => g.acc \in TrailProtocols)
  <2>1. CASE f.todo = {}
    <3>1. g = [f EXCEPT !.pc = "device", !.acc = NoAccess]
      BY <2>1 DEF Trail!After
    <3> HIDE DEF g
    <3> QED BY <3>1 DEF Trail!Flow, Trail!Pcs
  <2>2. CASE f.todo # {}
    <3>1. PICK b : b = CHOOSE a \in f.todo : TRUE
      OBVIOUS
    <3>2. b \in TrailProtocols
      BY <1>2, <2>2, <3>1
    <3>3. g = [f EXCEPT !.pc = "peer", !.acc = b, !.todo = @ \ {b}]
      BY <2>2, <3>1 DEF Trail!After
    <3> HIDE DEF g
    <3> QED BY <3>2, <3>3 DEF Trail!Flow, Trail!Pcs
  <2> QED BY <2>1, <2>2
<1> HIDE DEF g
<1>4. JobFits(g) /\ ~Comes(g)
  BY <1>1, <1>3 DEF JobFits, PcsOf, Deletes, Comes
<1>5. \A k \in Trail!Kinds : Trail!Owed(g, k) = Trail!Owed(f, k)
  BY <1>3, OwesTheSame DEF Deletes
<1> QED BY <1>3, <1>4, <1>5 DEF g

(* What follows when the device is done with, or was not there.            *)
LEMMA AfterDeviceIs ==
    ASSUME TrailInv, NEW f \in Trail!Flow, JobFits(f), f.pc \in Deletes
    PROVE  LET g == Trail!AfterDevice(f)
           IN  /\ g \in Trail!Flow /\ JobFits(g) /\ g.pc \in {"logRevoke", "idle"}
               /\ g.late => f.late
               /\ ~Comes(g) /\ \A k \in Trail!Kinds : Trail!Owed(g, k) = Trail!Owed(f, k)
<1>1. f.job \in {"delete", "revoke"} /\ f.n \in Nat /\ Batch \in Nat
  BY JobsOf, TrailFields, TrailTypes
<1>2. CASE f.job = "revoke"
  <2>1. PICK g \in Trail!Flow : g = [f EXCEPT !.pc = "logRevoke"]
    BY PcChanges DEF Trail!Pcs
  <2>2. g.pc = "logRevoke" /\ g.job = f.job /\ g.n = f.n /\ g.late = f.late
    BY <2>1
  <2>3. JobFits(g) /\ ~Comes(g)
    BY <1>2, <2>2 DEF JobFits, PcsOf, Comes
  <2>4. \A k \in Trail!Kinds : Trail!Owed(g, k) = Trail!Owed(f, k)
    BY <2>2, OwesTheSame DEF Deletes
  <2> QED BY <1>2, <2>1, <2>2, <2>3, <2>4 DEF Trail!AfterDevice
<1>3. CASE f.job = "delete"
  <2>1. Trail!AfterDevice(f) = Trail!Idle
    BY <1>3 DEF Trail!AfterDevice
  <2>2. \A k \in Trail!Kinds : Trail!Owed(f, k) = 0
    BY <1>1, <1>3, OwedIs DEF Trail!Kinds, Deletes
  <2> QED BY <2>1, <2>2, IdleIs
<1> QED BY <1>1, <1>2, <1>3

(* The next code of a batch, the row of the batch, or nothing more.        *)
LEMMA AfterCodeIs ==
    ASSUME TrailInv, NEW f \in Trail!Flow, JobFits(f), f.pc = "logCode"
    PROVE  LET g == Trail!AfterCode(f)
           IN  /\ g \in Trail!Flow /\ JobFits(g) /\ g.pc \in {"logBatch", "code", "idle"}
               /\ g.late => f.late
               /\ ~Comes(g)
               /\ \A k \in Trail!Kinds \ {"code"} : Trail!Owed(g, k) = Trail!Owed(f, k)
               /\ Trail!Owed(g, "code") = 0 /\ Trail!Owed(f, "code") = 1
<1>1. f.job \in {"single", "batch"} /\ f.n \in Nat /\ Batch \in Nat /\ f.n <= Batch
  BY JobsOf, TrailFields, TrailTypes DEF JobFits
<1>2. Trail!Owed(f, "code") = 1
  BY <1>1, OwedIs
<1>3. ASSUME NEW pc \in {"logBatch", "code"}, f.job = "batch", pc = "logBatch" => f.n = Batch,
             pc = "code" => f.n < Batch
      PROVE  LET g == [f EXCEPT !.pc = pc]
             IN  /\ g \in Trail!Flow /\ JobFits(g) /\ g.pc \in {"logBatch", "code", "idle"}
                 /\ g.late => f.late
                 /\ ~Comes(g)
                 /\ \A k \in Trail!Kinds \ {"code"} : Trail!Owed(g, k) = Trail!Owed(f, k)
                 /\ Trail!Owed(g, "code") = 0
  <2>1. PICK g \in Trail!Flow : g = [f EXCEPT !.pc = pc]
    <3>1. pc \in Trail!Pcs
      BY DEF Trail!Pcs
    <3> QED BY <3>1, PcChanges
  <2>2. g.pc = pc /\ g.job = f.job /\ g.n = f.n /\ g.late = f.late
    BY <2>1
  <2>3. JobFits(g) /\ ~Comes(g)
    BY <1>1, <1>3, <2>2 DEF JobFits, PcsOf, Comes
  <2>4. Trail!Owed(g, "code") = 0 /\ \A k \in Trail!Kinds \ {"code"} : Trail!Owed(g, k) = Trail!Owed(f, k)
    BY <1>1, <1>3, <2>2, OwedIs DEF Trail!Kinds
  <2> QED BY <1>3, <2>1, <2>2, <2>3, <2>4
<1>4. CASE Trail!Complete(f)
  <2>1. f.job = "batch" /\ f.n = Batch /\ Trail!AfterCode(f) = [f EXCEPT !.pc = "logBatch"]
    BY <1>1, <1>4 DEF Trail!Complete, Trail!AfterCode
  <2> QED BY <1>2, <1>3, <2>1
<1>5. CASE f.job = "batch" /\ f.n < Batch
  <2>1. Trail!AfterCode(f) = [f EXCEPT !.pc = "code"]
    BY <1>1, <1>5 DEF Trail!Complete, Trail!AfterCode
  <2> QED BY <1>2, <1>3, <1>5, <2>1
<1>6. CASE f.job = "single"
  <2>1. Trail!AfterCode(f) = Trail!Idle
    BY <1>6 DEF Trail!Complete, Trail!AfterCode
  <2>2. \A k \in Trail!Kinds \ {"code"} : Trail!Owed(f, k) = 0
    BY <1>1, <1>6, OwedIs DEF Trail!Kinds, JobFits
  <2> QED BY <1>2, <2>1, <2>2, IdleIs DEF Trail!Kinds
<1> QED BY <1>1, <1>4, <1>5, <1>6 DEF Trail!Complete

(***************************************************************************)
(* The steps that neither do what is counted nor write it down.            *)
(***************************************************************************)
LEMMA QuietMoves ==
    ASSUME TrailInv, NEW p \in Procs, NEW f, FlowStep(p, f), RowsStep,
           UNCHANGED <<trailHeld, trailDeed, trailTrail, trailStray, trailJobs, trailFaults>>,
           \A k \in Trail!Kinds : Trail!Owed(f, k) = Trail!Owed(trailFlow[p], k),
           Comes(f) => Comes(trailFlow[p])
    PROVE  TrailInv'
<1>1. f \in Trail!Flow
  BY DEF FlowStep
<1>2. trailFaults' \in trailFaults..MaxFaults
  BY TrailTypes
<1>3. \A k \in Trail!Kinds : Trail!Owed(f, k) <= Trail!Owed(trailFlow[p], k)
  BY FlowAt
<1>4. BooksStep(p, f)
  BY <1>1, <1>2, <1>3, BooksStay
<1>5. CountsStep(p, f)
  BY CountsStay
<1> QED BY <1>4, <1>5, TrailMoves DEF TrailStep

LEMMA TrailBegins ==
    ASSUME TrailInv, NEW p \in Procs, NEW j \in Trail!Jobs, NEW actor \in Trail!Actors,
           Trail!Begin(p, j, actor)
    PROVE  TrailInv'
<1>1. /\ trailFlow[p] = Trail!Idle /\ trailJobs < MaxJobs /\ trailJobs' = trailJobs + 1
      /\ UNCHANGED <<trailHeld, trailDevice, trailAccess, trailConfig, trailDeed, trailTrail,
                     trailClosed, trailOpened, trailStray, trailFaults>>
  BY DEF Trail!Begin, Trail!rows, Trail!traces
<1>2. PICK pc : pc = Trail!Start(j)
  OBVIOUS
<1>3. pc \in PcsOf(j) /\ pc \in {"grant", "create", "list", "grants", "code", "balance"} /\ j # "none"
  BY <1>2 DEF Trail!Start, Trail!Jobs, PcsOf, Deletes
<1>4. PICK f : f = [Trail!Idle EXCEPT !.job = j, !.pc = pc, !.actor = actor]
  OBVIOUS
<1>5. /\ f \in Trail!Flow /\ f.pc = pc /\ f.job = j /\ f.n = 0 /\ ~f.late
  BY <1>3, <1>4 DEF Trail!Flow, Trail!Idle, Trail!Pcs
<1>6. JobFits(f)
  BY <1>3, <1>5, TrailTypes DEF JobFits, Trail!Jobs
<1>7. Trail!Becomes(p, f)
  BY <1>2, <1>4 DEF Trail!Begin
<1>8. FlowStep(p, f)
  BY <1>3, <1>5, <1>6, <1>7 DEF FlowStep, NeedsDevice
<1>9. \A k \in Trail!Kinds : Trail!Owed(f, k) = 0 /\ Trail!Owed(trailFlow[p], k) = 0
  BY <1>1, <1>3, <1>5, IdleIs, TrailTypes, OwedIs DEF Trail!Kinds
<1>10. BooksStep(p, f)
  BY <1>1, <1>5, <1>9, TrailTypes, BooksStay
<1>11. CountsStep(p, f)
  <2>1. trailHeld \in Nat /\ trailStray \in Nat /\ trailJobs \in Nat /\ trailJobs' \in trailJobs..MaxJobs
    BY <1>1, TrailTypes
  <2>2. One(Comes(f)) \in {0, 1} /\ One(Comes(trailFlow[p])) \in {0, 1}
    BY DEF One
  <2> QED BY <1>1, <2>1, <2>2 DEF CountsStep
<1>12. RowsStep
  BY <1>1, RowsStay
<1> QED BY <1>8, <1>10, <1>11, <1>12, TrailMoves DEF TrailStep

LEMMA GrantMade ==
    ASSUME TrailInv, NEW p \in Procs, Trail!CreateGrant(p)
    PROVE  TrailInv'
<1>1. PICK g \in Trail!Flow : g = trailFlow[p]
  BY FlowAt
<1>2. PICK f \in Trail!Flow : f = [g EXCEPT !.pc = "logGrant"]
  BY PcChanges, ZenonT(60) DEF Trail!Pcs
<1>3. f.pc = "logGrant" /\ f.job = g.job /\ f.n = g.n /\ f.late = g.late
  BY <1>2
<1>4. /\ g.pc = "grant" /\ ~g.late /\ Trail!Becomes(p, f)
      /\ UNCHANGED <<trailHeld, trailDevice, trailAccess, trailConfig, trailDeed, trailTrail,
                     trailClosed, trailOpened, trailStray, trailFaults, trailJobs>>
  BY <1>1, <1>2 DEF Trail!CreateGrant, Trail!At, Trail!Goto, Trail!rows, Trail!traces, Trail!bounds
<1>5. g.job = "activate" /\ JobFits(g)
  BY <1>1, <1>4, FlowAt, JobsOf
<1>6. JobFits(f)
  BY <1>3, <1>5 DEF JobFits, PcsOf
<1>7. FlowStep(p, f)
  BY <1>3, <1>4, <1>6 DEF FlowStep, NeedsDevice
<1>8. \A k \in Trail!Kinds : Trail!Owed(f, k) = Trail!Owed(trailFlow[p], k)
  BY <1>1, <1>3, <1>4, OwesTheSame
<1>9. RowsStep /\ (Comes(f) => Comes(trailFlow[p]))
  BY <1>1, <1>3, <1>4, RowsStay DEF Comes
<1> QED BY <1>4, <1>7, <1>8, <1>9, QuietMoves

(* A device that is made was not there: nothing was written down of it.    *)
LEMMA DeviceMade ==
    ASSUME TrailInv, NEW p \in Procs, Trail!CreateDevice(p)
    PROVE  TrailInv'
<1>1. PICK g \in Trail!Flow : g = trailFlow[p]
  BY FlowAt
<1>2. /\ g.pc = "create" /\ ~g.late
      /\ UNCHANGED <<trailHeld, trailConfig, trailDeed, trailTrail,
                     trailClosed, trailOpened, trailStray, trailFaults, trailJobs>>
  BY <1>1 DEF Trail!CreateDevice, Trail!At, Trail!traces, Trail!bounds
<1>3. g.job = "create" /\ JobFits(g) /\ g.n \in Nat
  BY <1>1, <1>2, FlowAt, JobsOf, TrailFields
<1>4. CASE trailDevice = "none" /\ trailHeld > 0
  <2>1. PICK f \in Trail!Flow : f = [g EXCEPT !.pc = "logDevice"]
    BY PcChanges DEF Trail!Pcs
  <2>2. f.pc = "logDevice" /\ f.job = g.job /\ f.n = g.n /\ f.late = g.late
    BY <2>1
  <2>3. PICK S \in SUBSET TrailProtocols :
            trailAccess' = [a \in TrailProtocols |-> IF a \in S THEN "active" ELSE "error"]
    BY <1>4 DEF Trail!CreateDevice
  <2>4. trailDevice' = "active" /\ Trail!Becomes(p, f)
    BY <1>1, <1>4, <2>1 DEF Trail!CreateDevice, Trail!Goto
  <2>5. trailAccess' \in [TrailProtocols -> {"none", "active", "error", "revoked"}]
    BY <2>3
  <2>6. RowsStep
    <3>1. trailClosed = {} /\ ~trailOpened /\ ~trailConfig
      BY <1>4 DEF TrailInv
    <3> QED BY <1>2, <1>4, <2>4, <2>5, <3>1, TrailTypes DEF RowsStep
  <2>7. JobFits(f)
    BY <1>3, <2>2 DEF JobFits, PcsOf
  <2>8. FlowStep(p, f)
    BY <1>2, <2>2, <2>4, <2>7 DEF FlowStep
  <2>9. \A k \in Trail!Kinds : Trail!Owed(f, k) = Trail!Owed(trailFlow[p], k)
    BY <1>1, <1>2, <2>2, OwesTheSame
  <2>10. Comes(f) => Comes(trailFlow[p])
    BY <1>1, <2>2 DEF Comes
  <2> QED BY <1>2, <2>6, <2>8, <2>9, <2>10, QuietMoves
<1>5. CASE ~(trailDevice = "none" /\ trailHeld > 0)
  <2>1. Trail!Becomes(p, Trail!Idle) /\ UNCHANGED <<trailDevice, trailAccess>>
    BY <1>5 DEF Trail!CreateDevice
  <2>2. FlowStep(p, Trail!Idle) /\ RowsStep
    BY <1>2, <2>1, GoesIdle, RowsStay
  <2>3. \A k \in Trail!Kinds : Trail!Owed(Trail!Idle, k) = Trail!Owed(trailFlow[p], k)
    BY <1>1, <1>2, <1>3, TrailTypes, OwedIs, IdleIs DEF Trail!Kinds
  <2> QED BY <1>2, <2>2, <2>3, IdleIs, QuietMoves
<1> QED BY <1>4, <1>5

(* The trace of a device, and then its config.                             *)
LEMMA DeviceTold ==
    ASSUME TrailInv, NEW p \in Procs, Trail!LogDevice(p)
    PROVE  TrailInv'
<1>1. PICK g \in Trail!Flow : g = trailFlow[p]
  BY FlowAt
<1>2. PICK f \in Trail!Flow : f = [g EXCEPT !.pc = "config"]
  BY PcChanges DEF Trail!Pcs
<1>3. f.pc = "config" /\ f.job = g.job /\ f.n = g.n /\ f.late = g.late
  BY <1>2
<1>4. /\ g.pc = "logDevice" /\ ~g.late /\ Trail!Becomes(p, f) /\ trailOpened'
      /\ UNCHANGED <<trailHeld, trailDevice, trailAccess, trailConfig, trailDeed, trailTrail,
                     trailClosed, trailStray, trailFaults, trailJobs>>
  BY <1>1, <1>2 DEF Trail!LogDevice, Trail!At, Trail!Goto, Trail!rows, Trail!bounds
<1>5. g.job = "create" /\ JobFits(g) /\ trailDevice # "none" /\ trailOpened' \in BOOLEAN
  <2>1. trailOpened' = TRUE
    BY DEF Trail!LogDevice
  <2> QED BY <1>1, <1>4, <2>1, FlowAt, JobsOf DEF JobMeets
<1>6. JobFits(f)
  BY <1>3, <1>5 DEF JobFits, PcsOf
<1>7. FlowStep(p, f)
  BY <1>3, <1>4, <1>5, <1>6 DEF FlowStep, NeedsDevice
<1>8. \A k \in Trail!Kinds : Trail!Owed(f, k) = Trail!Owed(trailFlow[p], k)
  BY <1>1, <1>3, <1>4, OwesTheSame
<1>9. RowsStep
  BY <1>4, <1>5, TrailTypes DEF RowsStep, TrailInv
<1>10. Comes(f) => Comes(trailFlow[p])
  BY <1>1, <1>3 DEF Comes
<1> QED BY <1>4, <1>7, <1>8, <1>9, <1>10, QuietMoves

LEMMA ConfigTold ==
    ASSUME TrailInv, NEW p \in Procs, Trail!IssueConfig(p)
    PROVE  TrailInv'
<1>1. PICK g \in Trail!Flow : g = trailFlow[p]
  BY FlowAt
<1>2. /\ g.pc = "config" /\ ~g.late /\ trailConfig' = TRUE /\ Trail!Becomes(p, Trail!Idle)
      /\ UNCHANGED <<trailHeld, trailDevice, trailAccess, trailDeed, trailTrail,
                     trailClosed, trailOpened, trailStray, trailFaults, trailJobs>>
  BY <1>1 DEF Trail!IssueConfig, Trail!At, Trail!traces, Trail!bounds
<1>3. g.job = "create" /\ g.n \in Nat /\ trailOpened
  BY <1>1, <1>2, FlowAt, JobsOf, TrailFields DEF JobMeets
<1>4. RowsStep
  BY <1>2, <1>3, TrailTypes DEF RowsStep, TrailInv
<1>5. \A k \in Trail!Kinds : Trail!Owed(Trail!Idle, k) = Trail!Owed(trailFlow[p], k)
  BY <1>1, <1>2, <1>3, TrailTypes, OwedIs, IdleIs DEF Trail!Kinds
<1> QED BY <1>2, <1>4, <1>5, GoesIdle, IdleIs, QuietMoves

(***************************************************************************)
(* Deletions and revocations.                                              *)
(***************************************************************************)
LEMMA DeviceLooked ==
    ASSUME TrailInv, NEW p \in Procs, Trail!GetActiveByDeviceID(p)
    PROVE  TrailInv'
<1>1. PICK g \in Trail!Flow : g = trailFlow[p]
  BY FlowAt
<1>2. /\ g.pc = "list" /\ ~g.late
      /\ UNCHANGED <<trailHeld, trailDevice, trailAccess, trailConfig, trailDeed, trailTrail,
                     trailClosed, trailOpened, trailStray, trailFaults, trailJobs>>
  BY <1>1 DEF Trail!GetActiveByDeviceID, Trail!At, Trail!rows, Trail!traces, Trail!bounds
<1>3. JobFits(g) /\ g.pc \in Deletes /\ RowsStep
  BY <1>1, <1>2, FlowAt, RowsStay DEF Deletes
<1>4. CASE Trail!DeviceMissing(g)
  <2>1. PICK f : f = Trail!AfterDevice(g)
    OBVIOUS
  <2>2. Trail!Becomes(p, f)
    BY <1>1, <1>4, <2>1 DEF Trail!GetActiveByDeviceID
  <2>3. /\ f \in Trail!Flow /\ JobFits(f) /\ f.pc \in {"logRevoke", "idle"} /\ (f.late => g.late)
        /\ ~Comes(f) /\ \A k \in Trail!Kinds : Trail!Owed(f, k) = Trail!Owed(trailFlow[p], k)
    BY <1>1, <1>3, <2>1, AfterDeviceIs
  <2>4. FlowStep(p, f)
    BY <1>2, <2>2, <2>3 DEF FlowStep, NeedsDevice
  <2> QED BY <1>2, <1>3, <2>3, <2>4, QuietMoves
<1>5. CASE ~Trail!DeviceMissing(g)
  <2>1. PICK S \in SUBSET TrailProtocols : Trail!Becomes(p, Trail!After([g EXCEPT !.todo = S]))
    <3>1. PICK active : active = {a \in TrailProtocols : trailAccess[a] = "active"}
      OBVIOUS
    <3>2. \E S \in IF g.job = "delete" \/ active = {} THEN {active} ELSE {{a} : a \in active} :
              Trail!Becomes(p, Trail!After([g EXCEPT !.todo = S]))
      BY <1>1, <1>5, <3>1 DEF Trail!GetActiveByDeviceID
    <3>3. (IF g.job = "delete" \/ active = {} THEN {active} ELSE {{a} : a \in active}) \subseteq SUBSET TrailProtocols
      BY <3>1
    <3> QED BY <3>2, <3>3
  <2>2. PICK h \in Trail!Flow : h = [g EXCEPT !.todo = S]
    BY DEF Trail!Flow
  <2>3. h.pc = g.pc /\ h.job = g.job /\ h.n = g.n /\ h.late = g.late
    BY <2>2
  <2>4. JobFits(h) /\ h.pc \in Deletes
    BY <1>2, <1>3, <2>3 DEF JobFits
  <2>5. PICK f : f = Trail!After(h)
    OBVIOUS
  <2>6. /\ f \in Trail!Flow /\ JobFits(f) /\ f.pc \in {"device", "peer"} /\ f.late = h.late
        /\ ~Comes(f) /\ \A k \in Trail!Kinds : Trail!Owed(f, k) = Trail!Owed(h, k)
    BY <2>4, <2>5, AfterIs
  <2>7. \A k \in Trail!Kinds : Trail!Owed(h, k) = Trail!Owed(trailFlow[p], k)
    BY <1>1, <2>3, OwesTheSame
  <2>8. trailDevice' # "none"
    BY <1>2, <1>5 DEF Trail!DeviceMissing
  <2>9. FlowStep(p, f)
    BY <1>2, <2>1, <2>2, <2>3, <2>5, <2>6, <2>8 DEF FlowStep
  <2> QED BY <1>2, <1>3, <2>6, <2>7, <2>9, QuietMoves
<1> QED BY <1>4, <1>5

LEMMA AccessRevoked ==
    ASSUME TrailInv, NEW p \in Procs, Trail!RevokePeer(p) \/ Trail!ClearConfig(p)
    PROVE  TrailInv'
<1>1. PICK g \in Trail!Flow : g = trailFlow[p]
  BY FlowAt
<1>2. PICK pc : pc = IF g.pc = "peer" THEN "clear" ELSE "logAccess"
  OBVIOUS
<1>3. PICK f \in Trail!Flow : f = [g EXCEPT !.pc = pc]
  BY ZenonT(30), <1>2, PcChanges DEF Trail!Pcs
<1>4. f.pc = pc /\ f.job = g.job /\ f.n = g.n /\ f.acc = g.acc /\ f.late = g.late
  BY <1>3
<1>5. /\ g.pc \in {"peer", "clear"} /\ ~g.late /\ Trail!Becomes(p, f)
      /\ UNCHANGED <<trailHeld, trailDevice, trailDeed, trailTrail,
                     trailClosed, trailOpened, trailStray, trailFaults, trailJobs>>
      /\ trailConfig' \in {trailConfig, FALSE}
  BY <1>1, <1>2, <1>3
     DEF Trail!RevokePeer, Trail!ClearConfig, Trail!At, Trail!Goto, Trail!traces, Trail!bounds
<1>6. trailAccess' = IF g.pc = "peer" THEN [trailAccess EXCEPT ![g.acc] = "revoked"] ELSE trailAccess
  BY <1>1 DEF Trail!RevokePeer, Trail!ClearConfig, Trail!At
<1>7. /\ JobFits(g) /\ JobMeets(g) /\ g.job \in {"delete", "revoke"} /\ g.acc \in TrailProtocols
      /\ trailDevice # "none"
  BY <1>1, <1>5, FlowAt, JobsOf DEF JobFits, JobMeets, Deletes
<1>8. JobFits(f)
  BY <1>2, <1>4, <1>5, <1>7 DEF JobFits, PcsOf, Deletes
<1>9. trailAccess'[f.acc] # "active"
  BY <1>4, <1>5, <1>6, <1>7, TrailTypes DEF JobMeets
<1>10. FlowStep(p, f)
  BY <1>2, <1>4, <1>5, <1>7, <1>8, <1>9 DEF FlowStep
<1>11. RowsStep
  <2>1. /\ trailAccess' \in [TrailProtocols -> {"none", "active", "error", "revoked"}]
        /\ \A a \in TrailProtocols : trailAccess[a] # "active" => trailAccess'[a] # "active"
    BY <1>6, <1>7, TrailTypes
  <2>2. trailConfig' \in BOOLEAN /\ (trailConfig' => trailConfig)
    <3>1. trailConfig \in BOOLEAN
      BY TrailTypes
    <3>2. CASE trailConfig' = trailConfig
      BY <3>1, <3>2
    <3>3. CASE trailConfig' = FALSE
      BY <3>3
    <3> QED BY <1>5, <3>2, <3>3
  <2> QED BY <1>5, <2>1, <2>2, TrailTypes DEF RowsStep, TrailInv
<1>12. \A k \in Trail!Kinds : Trail!Owed(f, k) = Trail!Owed(trailFlow[p], k)
  BY <1>1, <1>2, <1>4, <1>5, OwesTheSame
<1>13. Comes(f) => Comes(trailFlow[p])
  BY <1>1, <1>4 DEF Comes
<1> QED BY <1>5, <1>10, <1>11, <1>12, <1>13, QuietMoves

(* The row of an access is written when the access does not work any more. *)
LEMMA AccessTold ==
    ASSUME TrailInv, NEW p \in Procs, Trail!LogAccess(p)
    PROVE  TrailInv'
<1>1. PICK g \in Trail!Flow : g = trailFlow[p]
  BY FlowAt
<1>2. PICK f : f = Trail!After(g)
  OBVIOUS
<1>3. /\ g.pc = "logAccess" /\ ~g.late /\ Trail!Becomes(p, f) /\ trailClosed' = trailClosed \cup {g.acc}
      /\ UNCHANGED <<trailHeld, trailDevice, trailAccess, trailConfig, trailDeed, trailTrail,
                     trailOpened, trailStray, trailFaults, trailJobs>>
  BY <1>1, <1>2 DEF Trail!LogAccess, Trail!At, Trail!rows, Trail!bounds
<1>4. JobFits(g) /\ g.acc \in TrailProtocols /\ trailDevice # "none" /\ trailAccess[g.acc] # "active"
  BY <1>1, <1>3, FlowAt DEF JobFits, JobMeets
<1>5. /\ f \in Trail!Flow /\ JobFits(f) /\ f.pc \in {"device", "peer"} /\ f.late = g.late
      /\ ~Comes(f) /\ \A k \in Trail!Kinds : Trail!Owed(f, k) = Trail!Owed(g, k)
  BY <1>2, <1>3, <1>4, AfterIs DEF Deletes
<1>6. FlowStep(p, f)
  BY <1>3, <1>4, <1>5 DEF FlowStep
<1>7. RowsStep
  BY <1>3, <1>4, TrailTypes DEF RowsStep, TrailInv
<1> QED BY <1>1, <1>3, <1>5, <1>6, <1>7, QuietMoves

LEMMA DeviceRevoked ==
    ASSUME TrailInv, NEW p \in Procs, Trail!RevokeDevice(p)
    PROVE  TrailInv'
<1>1. PICK g \in Trail!Flow : g = trailFlow[p]
  BY FlowAt
<1>2. PICK f : f = Trail!AfterDevice(g)
  OBVIOUS
<1>3. /\ g.pc = "device" /\ ~g.late /\ Trail!Becomes(p, f) /\ trailDevice' = "revoked"
      /\ UNCHANGED <<trailHeld, trailAccess, trailConfig, trailDeed, trailTrail,
                     trailClosed, trailOpened, trailStray, trailFaults, trailJobs>>
  BY <1>1, <1>2 DEF Trail!RevokeDevice, Trail!At, Trail!traces, Trail!bounds
<1>4. JobFits(g)
  BY <1>1, FlowAt
<1>5. /\ f \in Trail!Flow /\ JobFits(f) /\ f.pc \in {"logRevoke", "idle"} /\ (f.late => g.late)
      /\ ~Comes(f) /\ \A k \in Trail!Kinds : Trail!Owed(f, k) = Trail!Owed(g, k)
  BY <1>2, <1>3, <1>4, AfterDeviceIs DEF Deletes
<1>6. FlowStep(p, f)
  BY <1>3, <1>5 DEF FlowStep, NeedsDevice
<1>7. RowsStep
  BY <1>3, TrailTypes DEF RowsStep, TrailInv
<1> QED BY <1>1, <1>3, <1>5, <1>6, <1>7, QuietMoves

(***************************************************************************)
(* What is done, and what is written down.                                 *)
(***************************************************************************)
LEMMA CountingMoves ==
    ASSUME TrailInv, NEW p \in Procs, NEW f, FlowStep(p, f), BooksStep(p, f), CountsStep(p, f),
           UNCHANGED <<trailDevice, trailAccess, trailConfig, trailOpened, trailClosed>>
    PROVE  TrailInv'
BY RowsStay, TrailMoves DEF TrailStep

(* What a step does and what it writes, per kind.                          *)
Only(k, n) == [j \in Trail!Kinds |-> IF j = k THEN n ELSE 0]

Grows(v, d, w) == w \in [Trail!Kinds -> Nat] /\ \A k \in Trail!Kinds : w[k] = v[k] + d[k]

LEMMA Raised ==
    ASSUME NEW v \in [Trail!Kinds -> Nat], NEW k \in Trail!Kinds, NEW n \in Nat
    PROVE  /\ Grows(v, Only(k, n), [v EXCEPT ![k] = @ + n]) /\ Only(k, n) \in [Trail!Kinds -> Nat]
           /\ Grows(v, Only(k, 0), v)
<1> DEFINE w == [v EXCEPT ![k] = @ + n]
<1>1. w \in [Trail!Kinds -> Nat] /\ w[k] = v[k] + n /\ \A j \in Trail!Kinds \ {k} : w[j] = v[j]
  OBVIOUS
<1>2. \A j \in Trail!Kinds : v[j] \in Nat /\ v[j] + 0 = v[j]
  OBVIOUS
<1> QED BY <1>1, <1>2 DEF Grows, Only

LEMMA BooksGrow ==
    ASSUME TrailInv, NEW p \in Procs, NEW f \in Trail!Flow, NEW s \in Nat,
           NEW d \in [Trail!Kinds -> Nat], NEW t \in [Trail!Kinds -> Nat],
           Grows(trailDeed, d, trailDeed'), Grows(trailTrail, t, trailTrail'),
           trailStray' = trailStray + s, UNCHANGED trailFaults,
           t["activate"] = d["activate"],
           \A k \in Trail!Kinds :
               t[k] + Trail!Owed(f, k) + (IF k = "code" THEN s ELSE 0) = d[k] + Trail!Owed(trailFlow[p], k)
    PROVE  BooksStep(p, f)
<1>1. trailStray \in Nat /\ trailStray' \in Nat /\ trailFaults' \in trailFaults..MaxFaults
  BY TrailTypes
<1>2. ASSUME NEW k \in Trail!Kinds
      PROVE  LET after  == trailTrail'[k] + Trail!Owed(f, k) + Trail!Stray(k)'
                 before == trailTrail[k] + Trail!Owed(trailFlow[p], k) + Trail!Stray(k)
             IN  /\ after + trailDeed[k] <= before + trailDeed'[k]
                 /\ trailFaults' = 0 => after + trailDeed[k] = before + trailDeed'[k]
  <2>1. /\ Trail!Owed(f, k) \in Nat /\ Trail!Owed(trailFlow[p], k) \in Nat
        /\ trailTrail[k] \in Nat /\ trailDeed[k] \in Nat /\ t[k] \in Nat /\ d[k] \in Nat
    BY TrailTypes, TrailFields, OwedIs, FlowAt
  <2>2. trailTrail'[k] = trailTrail[k] + t[k] /\ trailDeed'[k] = trailDeed[k] + d[k]
    BY DEF Grows
  <2>3. Trail!Stray(k) \in Nat /\ Trail!Stray(k)' = Trail!Stray(k) + (IF k = "code" THEN s ELSE 0)
    BY <1>1 DEF Trail!Stray
  <2>4. PICK u \in Nat : u = IF k = "code" THEN s ELSE 0
    OBVIOUS
  <2>5. t[k] + Trail!Owed(f, k) + u = d[k] + Trail!Owed(trailFlow[p], k)
    BY <2>4
  <2>6. Trail!Stray(k)' = Trail!Stray(k) + u
    BY <2>3, <2>4
  <2> QED BY <2>1, <2>2, <2>3, <2>5, <2>6
<1>3. trailTrail'["activate"] = trailDeed'["activate"]
  <2>1. "activate" \in Trail!Kinds
    BY DEF Trail!Kinds
  <2> QED BY <2>1 DEF Grows, TrailInv
<1> QED BY <1>1, <1>2, <1>3 DEF BooksStep, Grows

(* The same where no row is refused.                                       *)
LEMMA BooksAgree ==
    ASSUME TrailInv, NEW p \in Procs, NEW f \in Trail!Flow,
           NEW d \in [Trail!Kinds -> Nat], NEW t \in [Trail!Kinds -> Nat],
           Grows(trailDeed, d, trailDeed'), Grows(trailTrail, t, trailTrail'),
           UNCHANGED <<trailStray, trailFaults>>, t["activate"] = d["activate"],
           \A k \in Trail!Kinds : t[k] + Trail!Owed(f, k) = d[k] + Trail!Owed(trailFlow[p], k)
    PROVE  BooksStep(p, f)
<1>1. PICK s \in Nat : s = 0
  OBVIOUS
<1>2. trailStray' = trailStray + s
  BY <1>1, TrailTypes
<1>3. ASSUME NEW k \in Trail!Kinds
      PROVE  t[k] + Trail!Owed(f, k) + (IF k = "code" THEN s ELSE 0) = d[k] + Trail!Owed(trailFlow[p], k)
  <2>1. t[k] \in Nat /\ Trail!Owed(f, k) \in Nat
    BY TrailTypes, TrailFields, OwedIs
  <2> QED BY <1>1, <2>1
<1> QED BY <1>2, <1>3, BooksGrow

LEMMA ActivationTold ==
    ASSUME TrailInv, NEW p \in Procs, Trail!Commit(p)
    PROVE  TrailInv'
<1>1. PICK g \in Trail!Flow : g = trailFlow[p]
  BY FlowAt
<1>2. /\ g.pc = "logGrant" /\ trailHeld' = trailHeld + 1 /\ Trail!Becomes(p, Trail!Idle)
      /\ trailDeed' = [trailDeed EXCEPT !["activate"] = @ + 1]
      /\ trailTrail' = [trailTrail EXCEPT !["activate"] = @ + 1]
      /\ UNCHANGED <<trailDevice, trailAccess, trailConfig, trailClosed, trailOpened, trailStray,
                     trailFaults, trailJobs>>
  BY <1>1 DEF Trail!Commit, Trail!At, Trail!Did, Trail!Create, Trail!rows, Trail!bounds
<1>3. g.job = "activate" /\ g.n \in Nat
  BY <1>1, <1>2, FlowAt, JobsOf, TrailFields
<1>4. \A k \in Trail!Kinds : Trail!Owed(g, k) = 0 /\ Trail!Owed(Trail!Idle, k) = 0
  BY <1>2, <1>3, TrailTypes, OwedIs, IdleIs DEF Trail!Kinds
<1>5. PICK d \in [Trail!Kinds -> Nat] : d = Only("activate", 1)
  BY DEF Only
<1>6. Grows(trailDeed, d, trailDeed') /\ Grows(trailTrail, d, trailTrail')
  BY <1>2, <1>5, TrailTypes, Raised DEF Trail!Kinds
<1>7. BooksStep(p, Trail!Idle)
  <2>1. \A k \in Trail!Kinds : d[k] + Trail!Owed(Trail!Idle, k)
                                 = d[k] + Trail!Owed(trailFlow[p], k)
    BY <1>1, <1>4
  <2> QED BY <1>2, <1>6, <2>1, IdleIs, BooksAgree
<1>8. CountsStep(p, Trail!Idle)
  <2>1. One(Comes(Trail!Idle)) = 0 /\ One(Comes(trailFlow[p])) = 1
    BY <1>1, <1>3, IdleIs DEF One, Comes
  <2> QED BY <1>2, <2>1, TrailTypes DEF CountsStep
<1> QED BY <1>2, <1>7, <1>8, GoesIdle, CountingMoves

LEMMA GrantsRevoked ==
    ASSUME TrailInv, NEW p \in Procs, Trail!RevokeGrants(p)
    PROVE  TrailInv'
<1>1. PICK g \in Trail!Flow : g = trailFlow[p]
  BY FlowAt
<1>2. PICK h \in Nat : h = trailHeld
  BY TrailTypes
<1>3. PICK f \in Trail!Flow : f = [g EXCEPT !.pc = "list", !.n = h]
  BY DEF Trail!Flow, Trail!Pcs
<1>4. f.pc = "list" /\ f.job = g.job /\ f.n = h /\ f.late = g.late
  BY <1>3
<1>5. /\ g.pc = "grants" /\ ~g.late /\ trailHeld' = 0 /\ Trail!Becomes(p, f)
      /\ trailDeed' = [trailDeed EXCEPT !["revoke"] = @ + h]
      /\ UNCHANGED <<trailDevice, trailAccess, trailConfig, trailTrail, trailClosed, trailOpened, trailStray,
                     trailFaults, trailJobs>>
  BY <1>1, <1>2, <1>3 DEF Trail!RevokeGrants, Trail!At, Trail!Did, Trail!traces, Trail!rows, Trail!bounds
<1>6. g.job = "revoke" /\ g.n = 0 /\ JobFits(g)
  BY <1>1, <1>5, FlowAt, JobsOf DEF JobFits
<1>7. JobFits(f)
  BY <1>4, <1>6 DEF JobFits, PcsOf, Deletes
<1>8. FlowStep(p, f)
  BY <1>4, <1>5, <1>7 DEF FlowStep, NeedsDevice
<1>9. PICK d \in [Trail!Kinds -> Nat] : d = Only("revoke", h)
  BY DEF Only
<1>10. PICK t \in [Trail!Kinds -> Nat] : t = Only("revoke", 0)
  BY DEF Only
<1>11. Grows(trailDeed, d, trailDeed') /\ Grows(trailTrail, t, trailTrail')
  BY <1>5, <1>9, <1>10, TrailTypes, Raised DEF Trail!Kinds
<1>12. BooksStep(p, f)
  <2>1. \A k \in Trail!Kinds : t[k] + Trail!Owed(f, k)
                                 = d[k] + Trail!Owed(trailFlow[p], k)
    BY <1>1, <1>4, <1>5, <1>6, <1>9, <1>10, TrailTypes, OwedIs DEF Only, Trail!Kinds
  <2>2. t["activate"] = d["activate"]
    BY <1>9, <1>10 DEF Only, Trail!Kinds
  <2> QED BY <1>5, <1>11, <2>1, <2>2, BooksAgree
<1>13. CountsStep(p, f)
  <2>1. One(Comes(f)) = 0 /\ One(Comes(trailFlow[p])) = 0
    BY <1>1, <1>4, <1>6 DEF One, Comes
  <2> QED BY <1>5, <2>1, TrailTypes DEF CountsStep
<1> QED BY <1>5, <1>8, <1>12, <1>13, CountingMoves

(* A row is written and the job ends.                                      *)
OwesOnly(f, k, n) == \A j \in Trail!Kinds : Trail!Owed(f, j) = IF j = k THEN n ELSE 0

LEMMA RowEnds ==
    ASSUME TrailInv, NEW p \in Procs, NEW k \in Trail!Kinds \ {"activate"}, NEW n \in Nat,
           Trail!Becomes(p, Trail!Idle), Trail!Create(k, n),
           UNCHANGED <<trailHeld, trailDevice, trailAccess, trailConfig, trailDeed, trailClosed,
                       trailOpened, trailStray, trailFaults, trailJobs>>,
           OwesOnly(trailFlow[p], k, n)
    PROVE  TrailInv'
<1>1. PICK t \in [Trail!Kinds -> Nat] : t = Only(k, n)
  BY DEF Only
<1>2. PICK d \in [Trail!Kinds -> Nat] : d = Only(k, 0)
  BY DEF Only
<1>3. Grows(trailDeed, d, trailDeed') /\ Grows(trailTrail, t, trailTrail')
  BY <1>1, <1>2, TrailTypes, Raised DEF Trail!Create
<1>4. \A j \in Trail!Kinds : t[j] + Trail!Owed(Trail!Idle, j) = d[j] + Trail!Owed(trailFlow[p], j)
  BY <1>1, <1>2, IdleIs DEF Only, OwesOnly
<1>5. t["activate"] = d["activate"]
  BY <1>1, <1>2 DEF Only, Trail!Kinds
<1>6. BooksStep(p, Trail!Idle)
  BY <1>3, <1>4, <1>5, IdleIs, BooksAgree
<1> QED BY <1>6, GoesIdle, IdleIs, CountsStay, CountingMoves

LEMMA RowsWritten ==
    ASSUME TrailInv, NEW p \in Procs,
           Trail!LogRevoke(p) \/ Trail!LogBatch(p) \/ Trail!LogBalance(p)
    PROVE  TrailInv'
<1>1. PICK g \in Trail!Flow : g = trailFlow[p]
  BY FlowAt
<1>2. JobFits(g) /\ g.n \in Nat /\ Batch \in Nat
  BY <1>1, FlowAt, TrailFields, TrailTypes
<1>3. /\ Trail!Becomes(p, Trail!Idle)
      /\ UNCHANGED <<trailHeld, trailDevice, trailAccess, trailConfig, trailDeed, trailClosed,
                     trailOpened, trailStray, trailFaults, trailJobs>>
  BY DEF Trail!LogRevoke, Trail!LogBatch, Trail!LogBalance, Trail!rows, Trail!bounds
<1>4. CASE Trail!LogRevoke(p)
  <2>1. g.pc = "logRevoke" /\ Trail!Create("revoke", g.n)
    BY <1>1, <1>4 DEF Trail!LogRevoke, Trail!At
  <2>2. g.job = "revoke"
    BY <1>2, <2>1, JobsOf
  <2>3. OwesOnly(g, "revoke", g.n)
    BY <1>2, <2>1, <2>2, OwedIs DEF OwesOnly, Trail!Kinds
  <2>4. "revoke" \in Trail!Kinds \ {"activate"}
    BY DEF Trail!Kinds
  <2> QED BY <1>1, <1>2, <1>3, <2>1, <2>3, <2>4, RowEnds
<1>5. CASE Trail!LogBatch(p)
  <2>1. g.pc = "logBatch" /\ Trail!Create("batch", Batch)
    BY <1>1, <1>5 DEF Trail!LogBatch, Trail!At
  <2>2. g.job = "batch" /\ g.n = Batch
    BY <1>2, <2>1, JobsOf DEF JobFits
  <2>3. OwesOnly(g, "batch", Batch)
    BY <1>2, <2>1, <2>2, OwedIs DEF OwesOnly, Trail!Kinds
  <2>4. "batch" \in Trail!Kinds \ {"activate"}
    BY DEF Trail!Kinds
  <2> QED BY <1>1, <1>2, <1>3, <2>1, <2>3, <2>4, RowEnds
<1>6. CASE Trail!LogBalance(p)
  <2>1. g.pc = "logBalance" /\ Trail!Create("balance", 1)
    BY <1>1, <1>6 DEF Trail!LogBalance, Trail!At
  <2>2. g.job = "balance"
    BY <1>2, <2>1, JobsOf
  <2>3. OwesOnly(g, "balance", 1)
    BY <1>2, <2>1, <2>2, OwedIs DEF OwesOnly, Trail!Kinds
  <2>4. "balance" \in Trail!Kinds \ {"activate"}
    BY DEF Trail!Kinds
  <2> QED BY <1>1, <1>2, <1>3, <2>1, <2>3, <2>4, RowEnds
<1> QED BY <1>4, <1>5, <1>6

(* The row of a request of the API, which the database may refuse.         *)
LEMMA RequestTold ==
    ASSUME TrailInv, NEW p \in Procs, Trail!auditAdminAction(p)
    PROVE  TrailInv'
<1>1. PICK g \in Trail!Flow : g = trailFlow[p]
  BY FlowAt
<1>2. /\ g.pc = "logApi" /\ Trail!Becomes(p, Trail!Idle)
      /\ trailStray' = trailStray + IF g.actor = "unknown" THEN 1 ELSE 0
      /\ trailTrail' = IF g.actor = "unknown" THEN trailTrail ELSE [trailTrail EXCEPT !["code"] = @ + 1]
      /\ UNCHANGED <<trailHeld, trailDevice, trailAccess, trailConfig, trailDeed, trailClosed,
                     trailOpened, trailFaults, trailJobs>>
  BY <1>1 DEF Trail!auditAdminAction, Trail!At, Trail!Accepts, Trail!Create, Trail!rows, Trail!bounds
<1>3. JobFits(g) /\ g.job = "api" /\ g.n \in Nat /\ Batch \in Nat
  BY <1>1, <1>2, FlowAt, JobsOf, TrailFields, TrailTypes
<1>4. OwesOnly(g, "code", 1)
  BY <1>2, <1>3, OwedIs DEF OwesOnly, Trail!Kinds
<1>5. "code" \in Trail!Kinds \ {"activate"}
  BY DEF Trail!Kinds
<1>6. CASE g.actor # "unknown"
  <2>1. trailStray' = trailStray /\ Trail!Create("code", 1)
    BY <1>2, <1>6, TrailTypes DEF Trail!Create
  <2> QED BY <1>1, <1>2, <1>4, <1>5, <2>1, RowEnds
<1>7. CASE g.actor = "unknown"
  <2>1. trailStray' = trailStray + 1 /\ trailTrail' = trailTrail
    BY <1>2, <1>7
  <2>2. PICK d \in [Trail!Kinds -> Nat] : d = Only("code", 0)
    BY DEF Only
  <2>3. Grows(trailDeed, d, trailDeed') /\ Grows(trailTrail, d, trailTrail')
    BY <1>2, <1>5, <2>1, <2>2, TrailTypes, Raised
  <2>4. \A k \in Trail!Kinds : d[k] + Trail!Owed(Trail!Idle, k) + (IF k = "code" THEN 1 ELSE 0)
                                 = d[k] + Trail!Owed(trailFlow[p], k)
    BY <1>1, <1>4, <1>5, <2>2, IdleIs DEF Only, OwesOnly
  <2>5. PICK s \in Nat : s = 1
    OBVIOUS
  <2>6. /\ trailStray' = trailStray + s
        /\ \A k \in Trail!Kinds : d[k] + Trail!Owed(Trail!Idle, k) + (IF k = "code" THEN s ELSE 0)
                                    = d[k] + Trail!Owed(trailFlow[p], k)
    BY <2>1, <2>4, <2>5
  <2>7. BooksStep(p, Trail!Idle)
    BY <1>2, <2>3, <2>6, IdleIs, BooksGrow
  <2>8. CountsStep(p, Trail!Idle)
    <3>1. One(Comes(Trail!Idle)) = 0 /\ One(Comes(trailFlow[p])) = 1
      BY <1>1, <1>3, IdleIs DEF One, Comes
    <3> QED BY <1>2, <2>1, <3>1, TrailTypes DEF CountsStep
  <2> QED BY <1>2, <2>7, <2>8, GoesIdle, CountingMoves
<1> QED BY <1>6, <1>7

LEMMA CodeTold ==
    ASSUME TrailInv, NEW p \in Procs, Trail!LogCode(p)
    PROVE  TrailInv'
<1>1. PICK g \in Trail!Flow : g = trailFlow[p]
  BY FlowAt
<1>2. PICK f : f = Trail!AfterCode(g)
  OBVIOUS
<1>3. /\ g.pc = "logCode" /\ ~g.late /\ Trail!Becomes(p, f)
      /\ trailTrail' = [trailTrail EXCEPT !["code"] = @ + 1]
      /\ UNCHANGED <<trailHeld, trailDevice, trailAccess, trailConfig, trailDeed, trailClosed,
                     trailOpened, trailStray, trailFaults, trailJobs>>
  BY <1>1, <1>2 DEF Trail!LogCode, Trail!At, Trail!Create, Trail!rows, Trail!bounds
<1>4. JobFits(g)
  BY <1>1, FlowAt
<1>5. /\ f \in Trail!Flow /\ JobFits(f) /\ f.pc \in {"logBatch", "code", "idle"} /\ (f.late => g.late)
      /\ ~Comes(f) /\ \A k \in Trail!Kinds \ {"code"} : Trail!Owed(f, k) = Trail!Owed(g, k)
      /\ Trail!Owed(f, "code") = 0 /\ Trail!Owed(g, "code") = 1
  BY <1>2, <1>3, <1>4, AfterCodeIs
<1>6. FlowStep(p, f)
  BY <1>3, <1>5 DEF FlowStep, NeedsDevice
<1>7. PICK t \in [Trail!Kinds -> Nat] : t = Only("code", 1)
  BY DEF Only
<1>8. PICK d \in [Trail!Kinds -> Nat] : d = Only("code", 0)
  BY DEF Only
<1>9. Grows(trailDeed, d, trailDeed') /\ Grows(trailTrail, t, trailTrail')
  BY <1>3, <1>7, <1>8, TrailTypes, Raised DEF Trail!Kinds
<1>10. \A k \in Trail!Kinds : t[k] + Trail!Owed(f, k) = d[k] + Trail!Owed(trailFlow[p], k)
  BY <1>1, <1>5, <1>7, <1>8 DEF Only
<1>11. t["activate"] = d["activate"]
  BY <1>7, <1>8 DEF Only, Trail!Kinds
<1>12. BooksStep(p, f)
  BY <1>3, <1>5, <1>9, <1>10, <1>11, BooksAgree
<1> QED BY <1>3, <1>5, <1>6, <1>12, CountsStay, CountingMoves

LEMMA BalanceAdjusted ==
    ASSUME TrailInv, NEW p \in Procs, Trail!AdjustBalance(p)
    PROVE  TrailInv'
<1>1. PICK g \in Trail!Flow : g = trailFlow[p]
  BY FlowAt
<1>2. PICK f \in Trail!Flow : f = [g EXCEPT !.pc = "logBalance"]
  BY PcChanges DEF Trail!Pcs
<1>3. f.pc = "logBalance" /\ f.job = g.job /\ f.n = g.n /\ f.late = g.late
  BY <1>2
<1>4. /\ g.pc = "balance" /\ ~g.late /\ Trail!Becomes(p, f)
      /\ trailDeed' = [trailDeed EXCEPT !["balance"] = @ + 1]
      /\ UNCHANGED <<trailHeld, trailDevice, trailAccess, trailConfig, trailTrail, trailClosed,
                     trailOpened, trailStray, trailFaults, trailJobs>>
  BY <1>1, <1>2 DEF Trail!AdjustBalance, Trail!At, Trail!Goto, Trail!Did, Trail!rows, Trail!traces, Trail!bounds
<1>5. JobFits(g) /\ g.job = "balance" /\ g.n \in Nat /\ Batch \in Nat
  BY <1>1, <1>4, FlowAt, JobsOf, TrailFields, TrailTypes
<1>6. JobFits(f)
  BY <1>3, <1>5 DEF JobFits, PcsOf
<1>7. FlowStep(p, f)
  BY <1>3, <1>4, <1>6 DEF FlowStep, NeedsDevice
<1>8. PICK d \in [Trail!Kinds -> Nat] : d = Only("balance", 1)
  BY DEF Only
<1>9. PICK t \in [Trail!Kinds -> Nat] : t = Only("balance", 0)
  BY DEF Only
<1>10. Grows(trailDeed, d, trailDeed') /\ Grows(trailTrail, t, trailTrail')
  BY <1>4, <1>8, <1>9, TrailTypes, Raised DEF Trail!Kinds
<1>11. \A k \in Trail!Kinds : t[k] + Trail!Owed(f, k) = d[k] + Trail!Owed(trailFlow[p], k)
  BY <1>1, <1>3, <1>4, <1>5, <1>8, <1>9, OwedIs DEF Only, Trail!Kinds
<1>12. t["activate"] = d["activate"]
  BY <1>8, <1>9 DEF Only, Trail!Kinds
<1>13. BooksStep(p, f)
  BY <1>4, <1>10, <1>11, <1>12, BooksAgree
<1>14. Comes(f) => Comes(trailFlow[p])
  BY <1>1, <1>3 DEF Comes
<1> QED BY <1>4, <1>7, <1>13, <1>14, CountsStay, CountingMoves

(* The code that completes a batch is what the row of the batch tells of.  *)
LEMMA CodeMade ==
    ASSUME TrailInv, NEW p \in Procs, Trail!CreateCode(p)
    PROVE  TrailInv'
<1>1. PICK g \in Trail!Flow : g = trailFlow[p]
  BY FlowAt
<1>2. JobFits(g) /\ g.n \in Nat /\ Batch \in Nat
  BY <1>1, FlowAt, TrailFields, TrailTypes
<1>3. PICK h \in Trail!Flow : h = [g EXCEPT !.n = @ + 1]
  <2>1. PICK n \in Nat : n = g.n + 1
    BY <1>2
  <2>2. [g EXCEPT !.n = n] \in Trail!Flow
    BY DEF Trail!Flow
  <2> QED BY <2>1, <2>2
<1>4. PICK pc \in Trail!Pcs : pc = IF g.job = "api" THEN "logApi" ELSE "logCode"
  BY DEF Trail!Pcs
<1>5. PICK f \in Trail!Flow : f = [h EXCEPT !.pc = pc]
  BY PcChanges
<1>6. h.job = g.job /\ h.n = g.n + 1 /\ f.job = g.job /\ f.n = g.n + 1 /\ f.pc = pc /\ f.late = g.late
  BY <1>3, <1>5
<1>7. PICK c \in Nat : c = IF g.job = "batch" /\ g.n + 1 = Batch THEN Batch ELSE 0
  BY <1>2
<1>8. /\ g.pc = "code" /\ ~g.late /\ Trail!Becomes(p, f)
      /\ trailDeed' = [trailDeed EXCEPT !["code"] = @ + 1, !["batch"] = @ + c]
      /\ UNCHANGED <<trailHeld, trailDevice, trailAccess, trailConfig, trailTrail, trailClosed,
                     trailOpened, trailStray, trailFaults, trailJobs>>
  BY <1>1, <1>3, <1>4, <1>5, <1>6, <1>7
     DEF Trail!CreateCode, Trail!At, Trail!Complete, Trail!rows, Trail!traces, Trail!bounds
<1>9. g.job \in {"single", "batch", "api"} /\ g.n < Batch /\ (g.job # "batch" => g.n = 0)
  BY <1>2, <1>8, JobsOf DEF JobFits
<1>10. JobFits(f)
  BY <1>2, <1>4, <1>6, <1>9 DEF JobFits, PcsOf
<1>11. FlowStep(p, f)
  BY <1>4, <1>6, <1>8, <1>10 DEF FlowStep, NeedsDevice
<1>12. PICK d \in [Trail!Kinds -> Nat] :
           d = [k \in Trail!Kinds |-> IF k = "code" THEN 1 ELSE IF k = "batch" THEN c ELSE 0]
  OBVIOUS
<1>13. PICK t \in [Trail!Kinds -> Nat] : t = Only("code", 0)
  BY DEF Only
<1>14. Grows(trailTrail, t, trailTrail')
  BY <1>8, <1>13, TrailTypes, Raised DEF Trail!Kinds
<1>15. Grows(trailDeed, d, trailDeed')
  BY <1>8, <1>12, TrailTypes DEF Grows, Trail!Kinds
<1>16. \A k \in Trail!Kinds : t[k] + Trail!Owed(f, k) = d[k] + Trail!Owed(trailFlow[p], k)
  <2>1. /\ Trail!Owed(g, "activate") = 0 /\ Trail!Owed(g, "revoke") = 0 /\ Trail!Owed(g, "code") = 0
        /\ Trail!Owed(g, "batch") = 0 /\ Trail!Owed(g, "balance") = 0
    BY <1>2, <1>8, <1>9, OwedIs
  <2>2. /\ Trail!Owed(f, "activate") = 0 /\ Trail!Owed(f, "revoke") = 0 /\ Trail!Owed(f, "code") = 1
        /\ Trail!Owed(f, "batch") = c /\ Trail!Owed(f, "balance") = 0
    <3>1. f.n \in Nat
      BY <1>2, <1>6
    <3> QED BY <1>2, <1>4, <1>6, <1>7, <1>9, <3>1, OwedIs
  <2> QED BY <1>1, <1>12, <1>13, <2>1, <2>2 DEF Only, Trail!Kinds
<1>17. t["activate"] = d["activate"]
  BY <1>12, <1>13 DEF Only, Trail!Kinds
<1>18. BooksStep(p, f)
  BY <1>8, <1>14, <1>15, <1>16, <1>17, BooksAgree
<1>19. Comes(f) => Comes(trailFlow[p])
  BY <1>1, <1>6 DEF Comes
<1> QED BY <1>8, <1>11, <1>18, <1>19, CountsStay, CountingMoves

(***************************************************************************)
(* Failures.  A job that fails owes no more than before.                   *)
(***************************************************************************)
LEMMA FaultMoves ==
    ASSUME TrailInv, NEW p \in Procs, NEW f, FlowStep(p, f), RowsStep,
           UNCHANGED <<trailHeld, trailDeed, trailTrail, trailStray, trailJobs>>,
           trailFaults' \in trailFaults..MaxFaults, trailFaults' > 0,
           \A k \in Trail!Kinds : Trail!Owed(f, k) <= Trail!Owed(trailFlow[p], k),
           Comes(f) => Comes(trailFlow[p])
    PROVE  TrailInv'
<1>1. f \in Trail!Flow
  BY DEF FlowStep
<1>2. trailFaults' # 0
  BY TrailTypes
<1>3. BooksStep(p, f)
  BY <1>1, <1>2, BooksStay
<1>4. CountsStep(p, f)
  BY CountsStay
<1> QED BY <1>3, <1>4, TrailMoves DEF TrailStep

(* Where a failing job goes on.                                            *)
LEMMA FailingGoes ==
    ASSUME TrailInv, NEW g \in Trail!Flow, JobFits(g), NEW f \in Trail!GoesOn(g)
    PROVE  /\ f \in Trail!Flow /\ JobFits(f) /\ (f.late => g.late) /\ ~Comes(f)
           /\ f.pc \in {"device", "peer", "logRevoke", "logBatch", "code", "idle"}
           /\ f.pc \in {"device", "peer"} =>
                  g.pc \in {"peer", "clear", "logAccess"} \/ (g.pc = "list" /\ ~Trail!DeviceMissing(g))
           /\ \A k \in Trail!Kinds : Trail!Owed(f, k) <= Trail!Owed(g, k)
<1>1. \A k \in Trail!Kinds : Trail!Owed(g, k) \in Nat
  BY TrailTypes, TrailFields, OwedIs
<1>2. CASE f = Trail!After(g) /\ g.pc \in Deletes \ {"device"} /\ (g.pc = "list" => ~Trail!DeviceMissing(g))
  <2>1. /\ f \in Trail!Flow /\ JobFits(f) /\ f.pc \in {"device", "peer"}
        /\ f.late = g.late /\ ~Comes(f)
        /\ \A k \in Trail!Kinds : Trail!Owed(f, k) = Trail!Owed(g, k)
    BY <1>2, AfterIs
  <2> QED BY <1>1, <1>2, <2>1 DEF Deletes
<1>3. CASE f = Trail!AfterDevice(g) /\ g.pc \in {"list", "device"}
  <2>1. /\ f \in Trail!Flow /\ JobFits(f) /\ f.pc \in {"logRevoke", "idle"} /\ (f.late => g.late)
        /\ ~Comes(f) /\ \A k \in Trail!Kinds : Trail!Owed(f, k) = Trail!Owed(g, k)
    BY <1>3, AfterDeviceIs DEF Deletes
  <2> QED BY <1>1, <2>1
<1>4. CASE f = Trail!AfterCode(g) /\ g.pc = "logCode"
  <2>1. /\ f \in Trail!Flow /\ JobFits(f) /\ f.pc \in {"logBatch", "code", "idle"} /\ (f.late => g.late)
        /\ ~Comes(f)
        /\ \A k \in Trail!Kinds \ {"code"} : Trail!Owed(f, k) = Trail!Owed(g, k)
        /\ Trail!Owed(f, "code") = 0 /\ Trail!Owed(g, "code") = 1
    BY <1>4, AfterCodeIs
  <2>2. ASSUME NEW k \in Trail!Kinds PROVE Trail!Owed(f, k) <= Trail!Owed(g, k)
    BY <1>1, <2>1
  <2> QED BY <2>1, <2>2
<1>5. CASE f = Trail!Idle
  <2>1. \A k \in Trail!Kinds : Trail!Owed(f, k) <= Trail!Owed(g, k)
    BY <1>1, <1>5, IdleIs
  <2> QED BY <1>5, <2>1, IdleIs
<1>6. f \in Trail!OnError(g)
  BY DEF Trail!GoesOn
<1>7. CASE g.pc = "list"
  <2>1. f \in {Trail!AfterDevice(g)} \cup IF Trail!DeviceMissing(g) THEN {} ELSE {Trail!After(g)}
    BY <1>6, <1>7 DEF Trail!OnError
  <2> QED BY <1>2, <1>3, <1>7, <2>1 DEF Deletes
<1>8. CASE g.pc \in {"peer", "clear", "logAccess"}
  <2>1. f = Trail!After(g)
    BY <1>6, <1>8 DEF Trail!OnError
  <2> QED BY <1>2, <1>8, <2>1 DEF Deletes
<1>9. CASE g.pc = "device"
  <2>1. f = Trail!AfterDevice(g)
    BY <1>6, <1>9 DEF Trail!OnError
  <2> QED BY <1>3, <1>9, <2>1
<1>10. CASE g.pc = "logCode"
  <2>1. f = Trail!AfterCode(g)
    BY <1>6, <1>10 DEF Trail!OnError
  <2> QED BY <1>4, <1>10, <2>1
<1>11. CASE g.pc \notin {"list", "peer", "clear", "logAccess", "device", "logCode"}
  <2>1. f = Trail!Idle
    BY <1>6, <1>11 DEF Trail!OnError
  <2> QED BY <1>5, <2>1
<1> QED BY <1>7, <1>8, <1>9, <1>10, <1>11

LEMMA StatementFailed ==
    ASSUME TrailInv, NEW p \in Procs, Trail!StatementFails(p)
    PROVE  TrailInv'
<1>1. PICK g \in Trail!Flow : g = trailFlow[p]
  BY FlowAt
<1>2. JobFits(g) /\ JobMeets(g)
  BY <1>1, FlowAt
<1>3. PICK f \in Trail!GoesOn(g) : Trail!Becomes(p, f)
  BY <1>1 DEF Trail!StatementFails
<1>4. /\ UNCHANGED <<trailHeld, trailDeed, trailConfig, trailTrail, trailClosed, trailOpened, trailStray, trailJobs>>
      /\ IF g.late THEN UNCHANGED trailFaults ELSE trailFaults < MaxFaults /\ trailFaults' = trailFaults + 1
  BY <1>1 DEF Trail!StatementFails, Trail!RolledBack, Trail!traces
<1>5. /\ f \in Trail!Flow /\ JobFits(f) /\ (f.late => g.late) /\ ~Comes(f)
      /\ f.pc \in {"device", "peer", "logRevoke", "logBatch", "code", "idle"}
      /\ f.pc \in {"device", "peer"} =>
             g.pc \in {"peer", "clear", "logAccess"} \/ (g.pc = "list" /\ ~Trail!DeviceMissing(g))
      /\ \A k \in Trail!Kinds : Trail!Owed(f, k) <= Trail!Owed(g, k)
  BY <1>2, FailingGoes
<1>6. trailFaults' \in trailFaults..MaxFaults /\ trailFaults' > 0
  <2>1. trailFaults \in Nat /\ MaxFaults \in Nat /\ trailFaults <= MaxFaults
    BY TrailTypes
  <2>2. g.late \in BOOLEAN
    BY TrailFields
  <2>3. CASE g.late
    BY <1>2, <1>4, <2>1, <2>3 DEF JobMeets
  <2>4. CASE ~g.late
    BY <1>4, <2>1, <2>4
  <2> QED BY <2>3, <2>4
<1>7. /\ trailDevice' \in {"none", "active", "revoked"}
      /\ trailDevice # "none" => trailDevice' # "none"
  <2>1. trailDevice' \in {trailDevice} \cup IF g.pc = "create" /\ trailDevice = "none" /\ trailHeld > 0
                                            THEN {"active"} ELSE {}
    BY <1>1 DEF Trail!StatementFails
  <2> QED BY <2>1, TrailTypes
<1>8. /\ trailAccess' \in [TrailProtocols -> {"none", "active", "error", "revoked"}]
      /\ \A a \in TrailProtocols : trailAccess[a] # "active" => trailAccess'[a] # "active"
  <2>1. CASE g.pc = "peer"
    <3>1. trailAccess' \in {trailAccess, [trailAccess EXCEPT ![g.acc] = "error"]} /\ g.acc \in TrailProtocols
      BY <1>1, <1>2, <2>1 DEF Trail!StatementFails, JobFits
    <3> QED BY <3>1, TrailTypes
  <2>2. CASE g.pc # "peer"
    <3>1. trailAccess' = trailAccess
      BY <1>1, <2>2 DEF Trail!StatementFails
    <3> QED BY <3>1, TrailTypes
  <2> QED BY <2>1, <2>2
<1>9. RowsStep
  BY <1>4, <1>7, <1>8, TrailTypes DEF RowsStep, TrailInv
<1>10. f.pc \in {"device", "peer"} => trailDevice' # "none"
  BY <1>2, <1>5, <1>7 DEF JobMeets, Trail!DeviceMissing
<1>11. FlowStep(p, f)
  BY <1>3, <1>5, <1>6, <1>10 DEF FlowStep, NeedsDevice
<1> QED BY <1>1, <1>4, <1>5, <1>6, <1>9, <1>11, FaultMoves

LEMMA DeadlinePassed ==
    ASSUME TrailInv, NEW p \in Procs, Trail!Deadline(p)
    PROVE  TrailInv'
<1>1. PICK g \in Trail!Flow : g = trailFlow[p]
  BY FlowAt
<1>2. PICK f \in Trail!Flow : f = [g EXCEPT !.late = TRUE]
  BY DEF Trail!Flow
<1>3. f.pc = g.pc /\ f.job = g.job /\ f.n = g.n /\ f.acc = g.acc
  BY <1>2
<1>4. /\ Trail!Becomes(p, f) /\ trailFaults < MaxFaults /\ trailFaults' = trailFaults + 1
      /\ UNCHANGED <<trailHeld, trailDevice, trailAccess, trailConfig, trailDeed, trailTrail,
                     trailClosed, trailOpened, trailStray, trailJobs>>
  BY <1>1, <1>2 DEF Trail!Deadline, Trail!rows, Trail!traces
<1>5. JobFits(g) /\ JobMeets(g)
  BY <1>1, FlowAt
<1>6. JobFits(f)
  BY <1>3, <1>5 DEF JobFits
<1>7. trailFaults' \in trailFaults..MaxFaults /\ trailFaults' > 0
  BY <1>4, TrailTypes
<1>8. FlowStep(p, f)
  BY <1>3, <1>4, <1>5, <1>6, <1>7 DEF FlowStep, JobMeets, NeedsDevice
<1>9. \A k \in Trail!Kinds : Trail!Owed(f, k) <= Trail!Owed(trailFlow[p], k)
  <2>1. \A k \in Trail!Kinds : Trail!Owed(f, k) = Trail!Owed(g, k) /\ Trail!Owed(g, k) \in Nat
    BY <1>3, OwesTheSame
  <2> QED BY <1>1, <2>1
<1>10. RowsStep /\ (Comes(f) => Comes(trailFlow[p]))
  BY <1>1, <1>3, <1>4, RowsStay DEF Comes
<1> QED BY <1>4, <1>7, <1>8, <1>9, <1>10, FaultMoves

LEMMA UntoldCounted ==
    ASSUME TrailInv, NEW k \in Trail!Kinds
    PROVE  Cardinality(Trail!Untold(k)) \in Nat
<1>1. CASE Procs = {}
  <2>1. Trail!Untold(k) = {}
    BY <1>1 DEF Trail!Untold
  <2> QED BY <2>1, FS_EmptySet
<1>2. CASE Procs # {}
  <2>1. PICK p \in Procs : TRUE
    BY <1>2
  <2>2. PICK v \in [Procs -> Nat] : v = OwedBy(k)
    BY UntoldPairs
  <2>3. Cardinality(Pairs(v)) \in Nat
    BY <2>1, TrailTypes, PairsMove
  <2> QED BY <2>2, <2>3, UntoldPairs
<1> QED BY <1>1, <1>2

(* Nothing is handled any more: what was owed is never written down.       *)
LEMMA NothingOwed ==
    ASSUME TrailInv, NEW k \in Trail!Kinds
    PROVE  UNION {{p} \X (1..Trail!Owed(Trail!Idle, k)) : p \in Procs} = {}
<1>1. Trail!Owed(Trail!Idle, k) = 0
  BY IdleIs
<1>2. 1..0 = {}
  OBVIOUS
<1> QED BY <1>1, <1>2

LEMMA TrailRestarts ==
    ASSUME TrailInv, Trail!Restart
    PROVE  TrailInv'
<1>1. /\ trailFlow' = [p \in Procs |-> Trail!Idle] /\ trailFaults < MaxFaults /\ trailFaults' = trailFaults + 1
      /\ UNCHANGED <<trailHeld, trailDevice, trailAccess, trailConfig, trailDeed, trailTrail,
                     trailClosed, trailOpened, trailStray, trailJobs>>
  BY DEF Trail!Restart, Trail!rows, Trail!traces
<1>2. trailFaults' \in 0..MaxFaults /\ trailFaults' # 0
  BY <1>1, TrailTypes
<1>3. \A p \in Procs : trailFlow'[p] = Trail!Idle
  BY <1>1
<1>4. \A p \in Procs : (JobFits(trailFlow[p]) /\ JobMeets(trailFlow[p]))'
  BY <1>3, IdleIs DEF JobFits, JobMeets
<1>5. Trail!TypeOK' /\ TrailAssumed'
  <2>1. trailFlow' \in [Procs -> Trail!Flow]
    BY <1>1, IdleIs
  <2>2. \A p \in Procs : trailFlow'[p].job \in {"single", "batch", "api"} => trailFlow'[p].n <= Batch
    BY <1>3, IdleIs
  <2>3. TrailAssumed'
    BY DEF TrailInv, TrailAssumed, Trail!BatchIsMore, Trail!NoneIsNew, Trail!BoundsAreNat
  <2> QED BY <1>1, <1>2, <2>1, <2>2, <2>3, TrailTypes DEF Trail!TypeOK
<1>6. ASSUME NEW k \in Trail!Kinds
      PROVE  Kept(k)' <= trailDeed'[k] /\ (trailFaults' = 0 => Kept(k)' = trailDeed'[k])
  <2>1. Trail!Untold(k)' = {}
    BY <1>3, NothingOwed DEF Trail!Untold
  <2>2. Kept(k)' = trailTrail[k] + 0 + Trail!Stray(k)
    BY <1>1, <2>1, FS_EmptySet DEF Kept, Trail!Stray
  <2>3. Cardinality(Trail!Untold(k)) \in Nat /\ trailTrail[k] \in Nat /\ trailDeed[k] \in Nat /\ Trail!Stray(k) \in Nat
    BY UntoldCounted, TrailTypes DEF Trail!Stray
  <2>4. trailTrail[k] + Cardinality(Trail!Untold(k)) + Trail!Stray(k) <= trailDeed[k]
    BY DEF TrailInv, BooksKept, Kept
  <2> QED BY <1>1, <1>2, <2>2, <2>3, <2>4
<1>7. trailHeld' + trailStray' + Cardinality(ComingIn') <= trailJobs'
  <2>1. ComingIn' = {}
    BY <1>3, IdleIs DEF ComingIn
  <2>2. ComingIn \in SUBSET Procs
    BY DEF ComingIn
  <2>3. Cardinality(ComingIn) \in Nat
    BY <2>2, TrailTypes, FS_Subset, FS_CardinalityType
  <2>4. Cardinality(ComingIn') = 0
    BY <2>1, FS_EmptySet
  <2>5. trailHeld + trailStray + Cardinality(ComingIn) <= trailJobs
    BY DEF TrailInv
  <2> QED BY <1>1, <2>3, <2>4, <2>5, TrailTypes
<1>8. BooksKept'
  BY <1>6 DEF BooksKept
<1> QED BY <1>1, <1>4, <1>5, <1>7, <1>8 DEF TrailInv

(***************************************************************************)
(* The invariant, and what follows from it.                                *)
(***************************************************************************)
LEMMA TrailStarts == TrailAssumed /\ Trail!Init => TrailInv
<1> SUFFICES ASSUME TrailAssumed, Trail!Init PROVE TrailInv
  OBVIOUS
<1>1. Batch \in Nat /\ Batch > 1 /\ MaxJobs \in Nat /\ MaxFaults \in Nat
  BY DEF TrailAssumed, Trail!BatchIsMore, Trail!BoundsAreNat
<1>2. Trail!Idle \in Trail!Flow
  BY DEF Trail!Idle, Trail!Flow, Trail!Pcs, Trail!Actors
<1>3. Trail!Idle.pc = "idle" /\ Trail!Idle.job = "none" /\ Trail!Idle.n = 0 /\ ~Trail!Idle.late
  BY DEF Trail!Idle
<1>4. \A p \in Procs : trailFlow[p] = Trail!Idle
  BY DEF Trail!Init
<1>5. \A p \in Procs : JobFits(trailFlow[p]) /\ JobMeets(trailFlow[p])
  BY <1>1, <1>3, <1>4 DEF JobFits, JobMeets, PcsOf
<1>6. Trail!TypeOK
  <2>1. trailFlow \in [Procs -> Trail!Flow]
    BY <1>2 DEF Trail!Init
  <2>2. \A p \in Procs : trailFlow[p].job \in {"single", "batch", "api"} => trailFlow[p].n <= Batch
    BY <1>3, <1>4
  <2>3. trailDeed \in [Trail!Kinds -> Nat] /\ trailTrail \in [Trail!Kinds -> Nat]
    BY DEF Trail!Init
  <2>4. /\ trailHeld \in 0..MaxJobs /\ trailStray \in 0..MaxJobs /\ trailJobs \in 0..MaxJobs
        /\ trailFaults \in 0..MaxFaults
    BY <1>1 DEF Trail!Init
  <2>5. /\ trailDevice \in {"none", "active", "revoked"} /\ trailConfig \in BOOLEAN /\ trailOpened \in BOOLEAN
        /\ trailAccess \in [TrailProtocols -> {"none", "active", "error", "revoked"}] /\ trailClosed \subseteq TrailProtocols
    BY DEF Trail!Init
  <2> QED BY <2>1, <2>2, <2>3, <2>4, <2>5 DEF Trail!TypeOK
<1>7. ASSUME NEW k \in Trail!Kinds
      PROVE  Kept(k) <= trailDeed[k] /\ (trailFaults = 0 => Kept(k) = trailDeed[k])
  <2>1. Trail!Owed(Trail!Idle, k) = 0
    BY <1>1, <1>3, OwedIs DEF Trail!Kinds
  <2>2. 1..0 = {}
    OBVIOUS
  <2>3. Trail!Untold(k) = {}
    BY <1>4, <2>1, <2>2 DEF Trail!Untold
  <2>4. Cardinality(Trail!Untold(k)) = 0
    BY <2>3, FS_EmptySet
  <2>5. trailTrail[k] = 0 /\ trailDeed[k] = 0 /\ Trail!Stray(k) = 0
    BY DEF Trail!Init, Trail!Stray
  <2> QED BY <2>4, <2>5 DEF Kept
<1>8. BooksKept
  BY <1>7 DEF BooksKept
<1>9. trailHeld + trailStray + Cardinality(ComingIn) <= trailJobs
  <2>1. ComingIn = {}
    BY <1>3, <1>4 DEF ComingIn, Comes
  <2>2. Cardinality(ComingIn) = 0
    BY <2>1, FS_EmptySet
  <2> QED BY <2>2 DEF Trail!Init
<1>10. /\ trailClosed = {} /\ ~trailOpened /\ ~trailConfig /\ trailTrail = trailDeed
  BY DEF Trail!Init
<1> QED BY <1>5, <1>6, <1>8, <1>9, <1>10 DEF TrailInv

LEMMA TrailGoesOn == TrailInv /\ [Trail!Next]_(Trail!vars) => TrailInv'
<1> SUFFICES ASSUME TrailInv, [Trail!Next]_(Trail!vars) PROVE TrailInv'
  OBVIOUS
<1>1. CASE UNCHANGED Trail!vars
  BY <1>1 DEF Trail!vars, TrailInv, TrailAssumed, Trail!BatchIsMore, Trail!NoneIsNew, Trail!BoundsAreNat,
     Trail!TypeOK, JobFits, JobMeets, BooksKept, Kept, Trail!Untold, Trail!Stray, ComingIn, Comes
<1>2. ASSUME NEW p \in Procs, Trail!Step(p) PROVE TrailInv'
  BY <1>2, GrantMade, ActivationTold, DeviceMade, DeviceTold, ConfigTold, GrantsRevoked, DeviceLooked,
     AccessRevoked, AccessTold, DeviceRevoked, RowsWritten, CodeMade, CodeTold, RequestTold,
     BalanceAdjusted DEF Trail!Step
<1>3. CASE Trail!Next
  BY <1>2, <1>3, StatementFailed, DeadlinePassed, TrailBegins, TrailRestarts DEF Trail!Next
<1> QED BY <1>1, <1>3

(* For any number of updates and requests side by side, any accesses and   *)
(* any size of a batch: rows of the audit trail and deeds correspond.  An  *)
(* activation has its row, a config a device that was written down, an     *)
(* access with a row does not work, no sum of rows exceeds what was done   *)
(* and, while nothing failed, only what is on its way, or was refused for  *)
(* its actor, is missing.                                                  *)
THEOREM DeedsAreTold == Trail!Spec => []TrailFollowsDeeds
<1>1. TrailInv => TrailFollowsDeeds
  <2> SUFFICES ASSUME TrailInv PROVE TrailFollowsDeeds
    OBVIOUS
  <2>1. ASSUME NEW k \in Trail!Kinds
        PROVE  /\ trailTrail[k] <= trailDeed[k]
               /\ trailFaults = 0 =>
                      trailDeed[k] = trailTrail[k] + Trail!Cardinality(Trail!Untold(k)) + Trail!Stray(k)
    <3>1. PICK c : c = Cardinality(Trail!Untold(k))
      OBVIOUS
    <3>2. trailTrail[k] + c + Trail!Stray(k) <= trailDeed[k] /\ (trailFaults = 0 => trailTrail[k] + c + Trail!Stray(k) = trailDeed[k])
      BY <3>1 DEF TrailInv, BooksKept, Kept
    <3>3. Trail!Cardinality(Trail!Untold(k)) = c
      BY <3>1, UntoldPairs
    <3>4. c \in Nat
      BY <3>1, UntoldCounted
    <3>5. trailTrail[k] \in Nat /\ trailDeed[k] \in Nat /\ Trail!Stray(k) \in Nat
      BY TrailTypes DEF Trail!Stray
    <3> QED BY <3>2, <3>3, <3>4, <3>5
  <2>2. Trail!NothingUntold
    BY <2>1 DEF Trail!NothingUntold
  <2>3. Trail!TrailIsTrue
    BY <2>1 DEF Trail!TrailIsTrue, TrailInv
  <2> QED BY <2>2, <2>3 DEF TrailInv, TrailFollowsDeeds, Trail!TrailFollowsDeeds, Trail!ActivationsAreTold, Trail!ConfigIsTold
<1>2. TrailAssumed
  BY PartsAssume DEF TrailAssumed, Trail!FiniteProcs, Trail!IsFiniteSet, IsFiniteSet
<1> QED BY <1>1, <1>2, TrailStarts, TrailGoesOn, PTL DEF Trail!Spec

--------------------------------------------------------------------------------
(***************************************************************************)
(* Figures: what a page shows fits together, for any windows, days,        *)
(* traffic and money.                                                      *)
(***************************************************************************)
(* Of subsets of a finite set there is a least one.                        *)
LEMMA LeastSubset ==
  ASSUME NEW S, IsFiniteSet(S), NEW T, T \subseteq SUBSET S, T # {}
  PROVE  \E m \in T : \A y \in T : ~(y # m /\ y \subseteq m)
<1>1. IsWellFoundedOn(StrictSubsetOrdering(S), SUBSET S)
  BY FS_StrictSubsetOrderingWellFounded, FS_FiniteSubsetsOfFinite
<1>2. \E m \in T : \A y \in T : ~(<<y, m>> \in StrictSubsetOrdering(S))
  BY <1>1, WFMin
<1> QED BY <1>2 DEF StrictSubsetOrdering

(* The units of a sum, one by one: a sum is counted, not folded.           *)
Units(g, s) == {u \in s \X Nat : 1 <= u[2] /\ u[2] <= g[u[1]]}

(* They are finitely many, ...                                             *)
LEMMA UnitsFinite ==
    ASSUME NEW D, IsFiniteSet(D), NEW M \in Nat, NEW g \in [D -> 0..M], NEW s \in SUBSET D
    PROVE  /\ IsFiniteSet(Units(g, s)) /\ Cardinality(Units(g, s)) \in Nat
           /\ Cardinality(Units(g, s)) <= Cardinality(D) * M
<1>1. IsFiniteSet(1..M) /\ Cardinality(1..M) = M
  BY FS_Interval
<1>2. IsFiniteSet(D \X (1..M)) /\ Cardinality(D \X (1..M)) = Cardinality(D) * M
  BY <1>1, FS_Product
<1>3. Units(g, s) \subseteq D \X (1..M)
  BY DEF Units
<1> QED BY <1>2, <1>3, FS_Subset, FS_CardinalityType

(* ... as many as the number is for one member, ...                        *)
LEMMA UnitsOfOne ==
    ASSUME NEW D, NEW M \in Nat, NEW g \in [D -> 0..M], NEW d \in D
    PROVE  Cardinality(Units(g, {d})) = g[d]
<1>1. IsFiniteSet({d}) /\ Cardinality({d}) = 1
  BY FS_Singleton
<1>2. IsFiniteSet(1..g[d]) /\ Cardinality(1..g[d]) = g[d] /\ g[d] \in Nat
  BY FS_Interval
<1> DEFINE I == 1..g[d]
           O == {d}
<1>6. IsFiniteSet(I) /\ Cardinality(I) = g[d] /\ IsFiniteSet(O) /\ Cardinality(O) = 1
  BY <1>1, <1>2
<1> HIDE DEF I, O
<1>7. IsFiniteSet(O \X I) /\ Cardinality(O \X I) = Cardinality(O) * Cardinality(I)
  BY <1>6, FS_Product
<1>8. IsFiniteSet(O \X I) /\ Cardinality(O \X I) = 1 * g[d]
  BY <1>6, <1>7
<1>3. IsFiniteSet({d} \X (1..g[d])) /\ Cardinality({d} \X (1..g[d])) = 1 * g[d]
  BY <1>8 DEF I, O
<1>4. Units(g, {d}) = {d} \X (1..g[d])
  BY DEF Units
<1>5. \A n \in Nat : 1 * n = n
  OBVIOUS
<1> QED BY <1>2, <1>3, <1>4, <1>5

(* ... and one member's more with it than without.                         *)
LEMMA UnitsAdd ==
    ASSUME NEW D, IsFiniteSet(D), NEW M \in Nat, NEW g \in [D -> 0..M], NEW s \in SUBSET D, NEW d \in s
    PROVE  Cardinality(Units(g, s)) = g[d] + Cardinality(Units(g, s \ {d}))
<1> DEFINE A == Units(g, {d})
           B == Units(g, s \ {d})
<1>1. Units(g, s) = A \cup B /\ A \cap B = {}
  BY DEF Units
<1>2. IsFiniteSet(A) /\ IsFiniteSet(B) /\ Cardinality(B) \in Nat
  BY UnitsFinite
<1>3. Cardinality(A) = g[d] /\ g[d] \in Nat
  BY UnitsOfOne
<1> HIDE DEF A, B
<1>4. Cardinality(A \cup B) = Cardinality(A) + Cardinality(B) - Cardinality(A \cap B)
  BY <1>2, FS_Union
<1>5. Cardinality(A \cap B) = 0
  BY <1>1, FS_EmptySet
<1>6. Cardinality(Units(g, s)) = g[d] + Cardinality(B)
  BY <1>1, <1>2, <1>3, <1>4, <1>5
<1> QED BY <1>6 DEF B

(* The sum of a function over a set, as Figures takes it.                  *)
SumOver(g, s) == Pages!MapThenSumSet(LAMBDA d : g[d], s)

(* A sum is the number of its units: the recursion of MapThenSumSet is     *)
(* followed down from a least set on which the two would differ.           *)
LEMMA SumCounts ==
    ASSUME NEW D, IsFiniteSet(D), NEW M \in Nat, NEW g \in [D -> 0..M], NEW S \in SUBSET D
    PROVE  SumOver(g, S) = Cardinality(Units(g, S))
<1> DEFINE Step(f) == [s \in SUBSET S |-> IF s = {} THEN 0
                          ELSE g[CHOOSE x \in s : TRUE] + f[s \ {CHOOSE x \in s : TRUE}]]
           h == [s \in SUBSET S |-> Cardinality(Units(g, s))]
<1>1. SumOver(g, S) = (CHOOSE f : f = Step(f))[S]
  BY DEF SumOver, Pages!MapThenSumSet, Pages!MapThenFoldSet
<1>2. h = Step(h)
  <2> SUFFICES ASSUME NEW s \in SUBSET S PROVE h[s] = Step(h)[s]
    BY Zenon
  <2>1. CASE s = {}
    <3>1. Units(g, s) = {}
      BY <2>1 DEF Units
    <3> QED BY <2>1, <3>1, FS_EmptySet
  <2>2. CASE s # {}
    <3> DEFINE d == CHOOSE x \in s : TRUE
    <3>1. d \in s
      BY <2>2
    <3> HIDE DEF d
    <3>2. Cardinality(Units(g, s)) = g[d] + Cardinality(Units(g, s \ {d}))
      BY <3>1, UnitsAdd
    <3>3. h[s \ {d}] = Cardinality(Units(g, s \ {d}))
      OBVIOUS
    <3> QED BY <2>2, <3>2, <3>3 DEF d
  <2> QED BY <2>1, <2>2
<1>3. ASSUME NEW f, f = Step(f) PROVE f[S] = h[S]
  <2> DEFINE T == {s \in SUBSET S : f[s] # h[s]}
  <2> SUFFICES T = {}
    OBVIOUS
  <2> SUFFICES ASSUME T # {} PROVE FALSE
    OBVIOUS
  <2>1. IsFiniteSet(S) /\ T \subseteq SUBSET S
    BY FS_Subset
  <2> HIDE DEF T
  <2>2. PICK m \in T : \A y \in T : ~(y # m /\ y \subseteq m)
    BY <2>1, LeastSubset
  <2> USE DEF T
  <2>3. f[m] = Step(f)[m] /\ h[m] = Step(h)[m]
    BY <1>2, <1>3, Zenon
  <2>4. m # {}
    BY <2>3
  <2> DEFINE d == CHOOSE x \in m : TRUE
  <2>5. d \in m
    BY <2>4
  <2> HIDE DEF d
  <2>6. m \ {d} # m /\ m \ {d} \subseteq m /\ m \ {d} \in SUBSET S
    BY <2>5
  <2>7. f[m \ {d}] = h[m \ {d}]
    BY <2>2, <2>6
  <2> QED BY <2>2, <2>3, <2>4, <2>7 DEF d
<1>4. (CHOOSE f : f = Step(f)) = Step(CHOOSE f : f = Step(f))
  BY <1>2
<1> QED BY <1>1, <1>3, <1>4
(* The dates of the last n days up to d.                                   *)
DaysUpTo(d, n) == {x \in 0..MaxDay : x >= d - (n - 1)}

(* The most traffic of all dates. *)
MostAdded == MaxAdded * (MaxDay + 1)

(* Sums of traffic over some dates.                                        *)
LEMMA SumsOfDates ==
    ASSUME Pages!BoundsAreNat, NEW u \in [(0..MaxDay) -> 0..MaxAdded], NEW B \in SUBSET (0..MaxDay)
    PROVE  /\ SumOver(u, B) \in 0..MostAdded
           /\ \A d \in B : u[d] <= SumOver(u, B)
           /\ \A A \in SUBSET B : SumOver(u, A) <= SumOver(u, B)
<1>1. IsFiniteSet(0..MaxDay) /\ Cardinality(0..MaxDay) = MaxDay + 1 /\ MaxAdded \in Nat /\ MaxDay \in Nat
  <2>1. MaxAdded \in Nat /\ MaxDay \in Nat
    BY DEF Pages!BoundsAreNat
  <2>2. 0 \in Int /\ MaxDay \in Int /\ ~(0 > MaxDay) /\ MaxDay - 0 + 1 = MaxDay + 1
    BY <2>1
  <2>3. IsFiniteSet(0..MaxDay) /\ Cardinality(0..MaxDay) = MaxDay - 0 + 1
    BY <2>2, FS_Interval
  <2> QED BY <2>1, <2>2, <2>3
<1>2. \A s \in SUBSET (0..MaxDay) : SumOver(u, s) = Cardinality(Units(u, s))
  BY <1>1, SumCounts
<1>3. IsFiniteSet(Units(u, B)) /\ Cardinality(Units(u, B)) \in Nat /\ Cardinality(Units(u, B)) <= (MaxDay + 1) * MaxAdded
  BY <1>1, UnitsFinite
<1>4. (MaxDay + 1) * MaxAdded = MostAdded
  BY <1>1 DEF MostAdded
<1>5. \A A \in SUBSET B : Cardinality(Units(u, A)) <= Cardinality(Units(u, B))
  <2> SUFFICES ASSUME NEW A \in SUBSET B PROVE Cardinality(Units(u, A)) <= Cardinality(Units(u, B))
    OBVIOUS
  <2>1. Units(u, A) \in SUBSET Units(u, B)
    BY DEF Units
  <2> QED BY <1>3, <2>1, FS_Subset
<1>6. \A d \in B : Cardinality(Units(u, {d})) = u[d]
  BY <1>1, UnitsOfOne
<1>7. MostAdded \in Nat
  BY <1>1 DEF MostAdded
<1>8. \A d \in B : {d} \in SUBSET B
  OBVIOUS
<1>9. SumOver(u, B) = Cardinality(Units(u, B)) /\ \A A \in SUBSET B : SumOver(u, A) = Cardinality(Units(u, A))
  BY <1>2
<1> HIDE DEF MostAdded
<1>10. SumOver(u, B) \in 0..MostAdded
  BY <1>3, <1>4, <1>7, <1>9
<1> QED BY <1>5, <1>6, <1>8, <1>9, <1>10

(* The charges that a balance lasts.                                       *)
LEMMA Quotient ==
    ASSUME NEW bal \in Int, NEW bill \in Nat, bal > 0, bill > 0, NEW c \in Nat
    PROVE  /\ (bal - 1) \div bill \in Nat
           /\ c <= (bal - 1) \div bill <=> bal - c * bill > 0
<1> DEFINE q == (bal - 1) \div bill
<1>1. q \in Nat /\ q * bill <= bal - 1 /\ bal - 1 < (q + 1) * bill
  OBVIOUS
<1> HIDE DEF q
<1>2. c <= q => c * bill <= q * bill
  BY <1>1
<1>3. c >= q + 1 => c * bill >= (q + 1) * bill
  BY <1>1
<1>4. c * bill \in Int /\ q * bill \in Int /\ (q + 1) * bill \in Int
  BY <1>1
<1>5. c <= q <=> bal - c * bill > 0
  BY <1>1, <1>2, <1>3, <1>4
<1> QED BY <1>1, <1>5 DEF q

(* What is left of a page: the statements to come.                         *)
UserLeft ==
    { <<>>, <<"activity">>, <<"billable", "activity">>, <<"balance", "billable", "activity">>,
      <<"week", "balance", "billable", "activity">>, <<"today", "week", "balance", "billable", "activity">>,
      <<"month", "today", "week", "balance", "billable", "activity">>,
      <<"total", "month", "today", "week", "balance", "billable", "activity">> }
ShortLeft == { <<>>, <<"month">>, <<"total", "month">> }

(* They are shorter by one with every statement, which is the next one.    *)
LEMMA UserLefts ==
    ASSUME NEW l \in UserLeft
    PROVE  /\ Len(l) \in 0..7 /\ (l = <<>> <=> Len(l) = 0)
           /\ l # <<>> => Tail(l) \in UserLeft /\ Len(Tail(l)) = Len(l) - 1
           /\ Len(l) = 7 => Head(l) = "total"
           /\ Len(l) = 6 => Head(l) = "month"
           /\ Len(l) = 5 => Head(l) = "today"
           /\ Len(l) = 4 => Head(l) = "week"
           /\ Len(l) = 3 => Head(l) = "balance"
           /\ Len(l) = 2 => Head(l) = "billable"
           /\ Len(l) = 1 => Head(l) = "activity"
<1>0. CASE l = <<>>
  BY <1>0 DEF UserLeft
<1>1. CASE l = <<"activity">>
  <2>1. Len(l) = 1 /\ l # <<>> /\ Head(l) = "activity" /\ Tail(l) = <<>>
    BY <1>1
  <2>2. Tail(l) \in UserLeft /\ Len(Tail(l)) = 0
    BY <2>1 DEF UserLeft
  <2> QED BY <2>1, <2>2
<1>2. CASE l = <<"billable", "activity">>
  <2>1. Len(l) = 2 /\ l # <<>> /\ Head(l) = "billable" /\ Tail(l) = <<"activity">>
    BY <1>2
  <2>2. Tail(l) \in UserLeft /\ Len(Tail(l)) = 1
    BY <2>1 DEF UserLeft
  <2> QED BY <2>1, <2>2
<1>3. CASE l = <<"balance", "billable", "activity">>
  <2>1. Len(l) = 3 /\ l # <<>> /\ Head(l) = "balance" /\ Tail(l) = <<"billable", "activity">>
    BY <1>3
  <2>2. Tail(l) \in UserLeft /\ Len(Tail(l)) = 2
    BY <2>1 DEF UserLeft
  <2> QED BY <2>1, <2>2
<1>4. CASE l = <<"week", "balance", "billable", "activity">>
  <2>1. Len(l) = 4 /\ l # <<>> /\ Head(l) = "week" /\ Tail(l) = <<"balance", "billable", "activity">>
    BY <1>4
  <2>2. Tail(l) \in UserLeft /\ Len(Tail(l)) = 3
    BY <2>1 DEF UserLeft
  <2> QED BY <2>1, <2>2
<1>5. CASE l = <<"today", "week", "balance", "billable", "activity">>
  <2>1. Len(l) = 5 /\ l # <<>> /\ Head(l) = "today" /\ Tail(l) = <<"week", "balance", "billable", "activity">>
    BY <1>5
  <2>2. Tail(l) \in UserLeft /\ Len(Tail(l)) = 4
    BY <2>1 DEF UserLeft
  <2> QED BY <2>1, <2>2
<1>6. CASE l = <<"month", "today", "week", "balance", "billable", "activity">>
  <2>1. Len(l) = 6 /\ l # <<>> /\ Head(l) = "month" /\ Tail(l) = <<"today", "week", "balance", "billable", "activity">>
    BY <1>6
  <2>2. Tail(l) \in UserLeft /\ Len(Tail(l)) = 5
    BY <2>1 DEF UserLeft
  <2> QED BY <2>1, <2>2
<1>7. CASE l = <<"total", "month", "today", "week", "balance", "billable", "activity">>
  <2>1. Len(l) = 7 /\ l # <<>> /\ Head(l) = "total" /\ Tail(l) = <<"month", "today", "week", "balance", "billable", "activity">>
    BY <1>7
  <2>2. Tail(l) \in UserLeft /\ Len(Tail(l)) = 6
    BY <2>1 DEF UserLeft
  <2> QED BY <2>1, <2>2
<1> QED BY <1>0, <1>1, <1>2, <1>3, <1>4, <1>5, <1>6, <1>7 DEF UserLeft

(* The same of the overview and of the bot. *)
LEMMA ShortLefts ==
    ASSUME NEW l \in ShortLeft
    PROVE  /\ Len(l) \in 0..2 /\ (l = <<>> <=> Len(l) = 0)
           /\ l # <<>> => Tail(l) \in ShortLeft /\ Len(Tail(l)) = Len(l) - 1
           /\ Len(l) = 2 => Head(l) = "total"
           /\ Len(l) = 1 => Head(l) = "month"
<1>0. CASE l = <<>>
  BY <1>0 DEF ShortLeft
<1>1. CASE l = <<"month">>
  <2>1. Len(l) = 1 /\ l # <<>> /\ Head(l) = "month" /\ Tail(l) = <<>>
    BY <1>1
  <2> QED BY <2>1 DEF ShortLeft
<1>2. CASE l = <<"total", "month">>
  <2>1. Len(l) = 2 /\ l # <<>> /\ Head(l) = "total" /\ Tail(l) = <<"month">>
    BY <1>2
  <2> QED BY <2>1 DEF ShortLeft
<1> QED BY <1>0, <1>1, <1>2 DEF ShortLeft

(* Which figures the page that is being made, or was made last, has.       *)
ShortForms          == {"overview", "bot"}
LeftAtMost(p, user, short) ==
    \/ p.form = "user" /\ Len(p.left) <= user
    \/ p.form \in ShortForms /\ Len(p.left) <= short
TotalRead(p)   == LeftAtMost(p, 6, 1)
MonthRead(p)   == LeftAtMost(p, 5, 0)
TodayRead(p)   == p.form = "user" /\ Len(p.left) <= 4
WeekRead(p)    == p.form = "user" /\ Len(p.left) <= 3
BalanceRead(p) == p.form = "user" /\ Len(p.left) <= 2
BillRead(p)    == p.form = "user" /\ Len(p.left) <= 1

(* A page, ... *)
PageType ==
    [form: {"none", "user"} \cup ShortForms, left: UserLeft \cup ShortLeft, done: BOOLEAN,
     total: 0..MostAdded, month: 0..MostAdded, today: 0..MostAdded, week: 0..MostAdded,
     bal: Int, bill: 0..MaxDevices, activity: Int, est: Int,
     since: (0..MaxDay), nights: 0..1, added: BOOLEAN, dropped: BOOLEAN, charges: Nat, quiet: BOOLEAN]

(* ... which has read what it has made a statement for, and nothing else.  *)
PageShape(p) ==
    /\ p \in PageType
    /\ p.form = "none" => p.left = <<>> /\ ~p.done
    /\ p.form = "user" => p.left \in UserLeft
    /\ p.form \in ShortForms => p.left \in ShortLeft
    /\ p.form # "none" => (p.done <=> p.left = <<>>)
    /\ ~TodayRead(p) => p.today = 0
    /\ ~WeekRead(p) => p.week = 0
    /\ ~BillRead(p) => p.bill = 0

(* The other variables. *)
FigTypes ==
    /\ pageDay \in 0..MaxDay /\ pageUsage \in [(0..MaxDay) -> 0..MaxAdded]
    /\ pageNewest \in Int /\ -1 <= pageNewest /\ pageNewest <= MaxDay
    /\ pagePass \in [pc: {"idle", "snapshot", "add"}, date: (0..MaxDay)]
    /\ pageBalance \in Int /\ pageDevices \in 0..MaxDevices /\ pageCharged \in {-1} \cup (0..MaxDay)
    /\ pageCharging \in [pc: {"idle", "charge"}, count: 0..MaxDevices, old: BOOLEAN]
    /\ pageChanges \in 0..MaxChanges /\ pageFaults \in 0..MaxFaults

(* As long as nothing came between, a page that is being made has the      *)
(* figures as they are.                                                    *)
FiguresRead(p, day, usage) ==
    p.left # <<>> /\ ~p.added /\ ~p.dropped /\ p.nights = 0 =>
        /\ TotalRead(p) => p.total = SumOver(usage, (0..MaxDay))
        /\ MonthRead(p) => p.month = SumOver(usage, DaysUpTo(day, Month))
        /\ TodayRead(p) => p.today = usage[day]
        /\ WeekRead(p) => p.week = SumOver(usage, DaysUpTo(day, Week))

(* Today is no longer ago than the day before.                             *)
DayRead(p, day, usage) ==
    /\ p.left # <<>> /\ TodayRead(p) =>
          /\ p.since <= day /\ day <= p.since + 1
          /\ p.since < day => p.nights = 1
          /\ p.today <= usage[p.since]
    /\ WeekRead(p) => p.today <= p.week

(* Traffic of a date has a snapshot of that date or of a later one.        *)
SnapshotsFirst(p, usage, newest, pass) ==
    /\ \A d \in 0..MaxDay : usage[d] > 0 => newest >= d
    /\ pass.pc = "add" => newest >= pass.date
    /\ p.today > 0 => p.since <= newest

(* The balance of a quiet page is less by the charges since.               *)
BalanceLasts(p, balance, devices, charging) ==
    /\ charging.pc = "charge" /\ ~charging.old => charging.count = devices
    /\ p.quiet => /\ balance = p.bal - p.charges * devices
                  /\ p.bill \in {0, devices} /\ BalanceRead(p)
    /\ p.est # -1 => p.left = <<>> /\ p.bal > 0 /\ p.bill > 0 /\ p.est = (p.bal - 1) \div p.bill

(* The inductive invariant.                                                *)
FigInv ==
    /\ FigTypes /\ PageShape(pagePage)
    /\ FiguresRead(pagePage, pageDay, pageUsage) /\ Pages!PageIsConsistent
    /\ DayRead(pagePage, pageDay, pageUsage)
    /\ SnapshotsFirst(pagePage, pageUsage, pageNewest, pagePass) /\ Pages!ActivityCoversToday
    /\ BalanceLasts(pagePage, pageBalance, pageDevices, pageCharging)

(* What is assumed of the constants.                                       *)
LEMMA FigBounds ==
    /\ Week \in Nat /\ Month \in Nat /\ 2 <= Week /\ Week <= Month
    /\ Opening \subseteq Int /\ MaxDevices \in Nat /\ MaxDay \in Nat /\ MaxAdded \in Nat
    /\ MaxChanges \in Nat /\ MaxFaults \in Nat
    /\ Pages!BoundsAreNat /\ Pages!Dates = 0..MaxDay /\ Pages!Never = -1 /\ Pages!NoDays = -1
    /\ MostAdded \in Nat
<1>1. Pages!WindowsAreOrdered /\ Pages!BoundsAreNat
  BY PartsAssume
<1>2. MaxDay \in Nat /\ MaxAdded \in Nat
  BY <1>1 DEF Pages!BoundsAreNat
<1>3. MostAdded \in Nat
  BY <1>2 DEF MostAdded
<1> QED BY <1>1, <1>3 DEF Pages!WindowsAreOrdered, Pages!BoundsAreNat, Pages!Dates, Pages!Never, Pages!NoDays

(* The sums of the day, the week, the month and all dates.                 *)
LEMMA Windows ==
    ASSUME NEW u \in [(0..MaxDay) -> 0..MaxAdded], NEW d \in 0..MaxDay
    PROVE  /\ SumOver(u, (0..MaxDay)) \in 0..MostAdded /\ SumOver(u, DaysUpTo(d, Month)) \in 0..MostAdded
           /\ SumOver(u, DaysUpTo(d, Week)) \in 0..MostAdded /\ u[d] \in 0..MostAdded
           /\ u[d] <= SumOver(u, DaysUpTo(d, Week)) /\ SumOver(u, DaysUpTo(d, Week)) <= SumOver(u, DaysUpTo(d, Month))
           /\ SumOver(u, DaysUpTo(d, Month)) <= SumOver(u, (0..MaxDay))
           /\ \A e \in 0..MaxDay : d <= e + 1 => u[e] <= SumOver(u, DaysUpTo(d, Week))
<1>1. d \in DaysUpTo(d, Week) /\ DaysUpTo(d, Week) \subseteq DaysUpTo(d, Month) /\ DaysUpTo(d, Month) \subseteq (0..MaxDay)
  BY FigBounds DEF DaysUpTo
<1>2. \A e \in 0..MaxDay : d <= e + 1 => e \in DaysUpTo(d, Week)
  BY FigBounds DEF DaysUpTo
<1>3. Pages!BoundsAreNat
  BY FigBounds
<1>4. /\ SumOver(u, (0..MaxDay)) \in 0..MostAdded
      /\ \A A \in SUBSET (0..MaxDay) : SumOver(u, A) <= SumOver(u, (0..MaxDay))
  BY <1>3, SumsOfDates
<1>5. /\ SumOver(u, DaysUpTo(d, Month)) \in 0..MostAdded
      /\ \A A \in SUBSET DaysUpTo(d, Month) : SumOver(u, A) <= SumOver(u, DaysUpTo(d, Month))
  BY <1>1, <1>3, SumsOfDates
<1>6. /\ SumOver(u, DaysUpTo(d, Week)) \in 0..MostAdded
      /\ \A e \in DaysUpTo(d, Week) : u[e] <= SumOver(u, DaysUpTo(d, Week))
  BY <1>1, <1>3, SumsOfDates
<1>7. SumOver(u, DaysUpTo(d, Week)) <= SumOver(u, DaysUpTo(d, Month)) /\ SumOver(u, DaysUpTo(d, Month)) <= SumOver(u, (0..MaxDay))
  BY <1>1, <1>4, <1>5
<1>8. u[d] <= SumOver(u, DaysUpTo(d, Week)) /\ u[d] \in Nat
  BY <1>1, <1>6
<1>9. u[d] \in 0..MostAdded
  BY <1>6, <1>8, FigBounds
<1> QED BY <1>2, <1>4, <1>5, <1>6, <1>7, <1>8, <1>9

(* The types, with the bounds.                                             *)
LEMMA FigCounts ==
    ASSUME FigInv
    PROVE  /\ MaxDay \in Nat /\ pageDay \in 0..MaxDay
           /\ MaxFaults \in Nat /\ pageFaults \in 0..MaxFaults
           /\ MaxChanges \in Nat /\ pageChanges \in 0..MaxChanges
           /\ MaxDevices \in Nat /\ pageDevices \in 0..MaxDevices /\ pageBalance \in Int
  BY FigBounds DEF FigInv, FigTypes

(* The traffic and its snapshots. *)
LEMMA FigTraffic ==
    ASSUME FigInv
    PROVE  /\ MaxDay \in Nat /\ MaxAdded \in Nat /\ pageUsage \in [0..MaxDay -> 0..MaxAdded]
           /\ pageNewest \in Int /\ -1 <= pageNewest /\ pageNewest <= MaxDay
           /\ \A d \in 0..MaxDay : pageUsage[d] > 0 => pageNewest >= d
<1>1. MaxDay \in Nat /\ MaxAdded \in Nat
  BY FigBounds
<1> QED BY <1>1 DEF FigInv, FigTypes, SnapshotsFirst

(* The pass at hand. *)
LEMMA FigPass ==
    ASSUME FigInv
    PROVE  /\ pagePass \in [pc: {"idle", "snapshot", "add"}, date: 0..MaxDay]
           /\ pagePass.date \in 0..MaxDay
           /\ pagePass.pc = "add" => pageNewest >= pagePass.date
  BY DEF FigInv, FigTypes, SnapshotsFirst

(* The page. *)
LEMMA FigPage ==
    ASSUME FigInv
    PROVE  /\ PageShape(pagePage) /\ pagePage \in PageType
           /\ pagePage.since \in 0..MaxDay /\ pagePage.today \in Nat /\ pagePage.week \in Nat
           /\ pagePage.charges \in Nat /\ pagePage.bal \in Int /\ pagePage.bill \in 0..MaxDevices
<1>1. MostAdded \in Nat
  BY FigBounds
<1> QED BY <1>1 DEF FigInv, PageShape, PageType

(* The lengths of what is left of a page.                                  *)
LEMMA LeftOfPage ==
    ASSUME NEW p, PageShape(p)
    PROVE  /\ Len(p.left) \in 0..7 /\ (p.left = <<>> <=> Len(p.left) = 0)
           /\ p.form \in ShortForms => Len(p.left) <= 2
<1>1. CASE p.form = "none"
  <2>1. p.left \in UserLeft
    BY <1>1 DEF PageShape, UserLeft
  <2> QED BY <1>1, <2>1, UserLefts DEF ShortForms
<1>2. CASE p.form = "user"
  BY <1>2, UserLefts DEF PageShape, ShortForms
<1>3. CASE p.form \in ShortForms
  <2>1. p.left \in ShortLeft
    BY <1>3 DEF PageShape
  <2>2. Len(p.left) \in 0..2
    BY <2>1, ShortLefts
  <2>3. p.left = <<>> <=> Len(p.left) = 0
    BY <2>1, ShortLefts
  <2>4. Len(p.left) \in 0..7 /\ Len(p.left) <= 2
    <3>1. \A n \in 0..2 : n \in 0..7 /\ n <= 2
      OBVIOUS
    <3> QED BY <2>2, <3>1, Zenon
  <2> QED BY <2>3, <2>4
<1> QED BY <1>1, <1>2, <1>3 DEF PageShape, PageType

(* The invariant gives what the run checks.                                *)
LEMMA FigSafe == FigInv => FiguresAgree
<1> SUFFICES ASSUME FigInv PROVE FiguresAgree
  OBVIOUS
<1>1. pagePage \in PageType
  BY DEF FigInv, PageShape
<1>2. DOMAIN pagePage = DOMAIN Pages!NoPage
  BY <1>1 DEF PageType, Pages!NoPage
<1>3. /\ pagePage.charges \in Nat
      /\ \A f \in {"total", "month", "today", "week"} : pagePage[f] \in 0..MostAdded
  BY <1>1 DEF PageType
<1>4. Pages!TypeOK
  <2>1. MaxDay \in Nat /\ Pages!Dates = 0..MaxDay /\ Pages!Never = -1
    BY FigBounds
  <2>2. pageNewest \in Pages!Dates \cup {Pages!Never}
    BY <2>1 DEF FigInv, FigTypes
  <2> QED BY <1>2, <1>3, <2>1, <2>2 DEF FigInv, FigTypes, Pages!TypeOK, MostAdded
<1>5. Pages!DayWithinWeek
  <2> SUFFICES ASSUME pagePage.done, pagePage.today > 0 PROVE pagePage.today <= pagePage.week
    BY DEF Pages!DayWithinWeek
  <2>1. TodayRead(pagePage) /\ pagePage.left = <<>>
    BY DEF FigInv, PageShape, TodayRead
  <2>2. WeekRead(pagePage)
    BY <2>1, LeftOfPage DEF FigInv, TodayRead, WeekRead
  <2> QED BY <2>2 DEF FigInv, DayRead
<1>6. Pages!EstimateHolds
  <2> SUFFICES ASSUME pagePage.est # Pages!NoDays, pagePage.quiet
               PROVE  pagePage.charges <= pagePage.est <=> pageBalance > 0
    BY DEF Pages!EstimateHolds
  <2>1. /\ pagePage.bal > 0 /\ pagePage.bill > 0 /\ pagePage.bill = pageDevices
        /\ pagePage.est = (pagePage.bal - 1) \div pagePage.bill
        /\ pageBalance = pagePage.bal - pagePage.charges * pagePage.bill
        /\ pagePage.bal \in Int /\ pagePage.bill \in Nat /\ pagePage.charges \in Nat
    <3>1. pagePage.bill \in Nat /\ pagePage.bal \in Int /\ pagePage.charges \in Nat
      BY FigPage, FigBounds
    <3>2. /\ pagePage.est # -1 => /\ pagePage.bal > 0 /\ pagePage.bill > 0
                                  /\ pagePage.est = (pagePage.bal - 1) \div pagePage.bill
          /\ pagePage.quiet => /\ pageBalance = pagePage.bal - pagePage.charges * pageDevices
                               /\ pagePage.bill \in {0, pageDevices}
      BY DEF FigInv, BalanceLasts
    <3>3. Pages!NoDays = -1
      BY FigBounds
    <3>4. /\ pagePage.bal > 0 /\ pagePage.bill > 0
          /\ pagePage.est = (pagePage.bal - 1) \div pagePage.bill
          /\ pageBalance = pagePage.bal - pagePage.charges * pageDevices
          /\ pagePage.bill \in {0, pageDevices}
      BY <3>2, <3>3
    <3>5. pagePage.bill = pageDevices
      BY <3>1, <3>4
    <3> QED BY <3>1, <3>4, <3>5
  <2> QED BY <2>1, Quotient
<1> QED BY <1>4, <1>5, <1>6 DEF FigInv, FiguresAgree, Pages!FiguresAgree

(* A page that keeps its figures.                                          *)
SamePage(r, p) ==
    /\ r.form = p.form /\ r.left = p.left /\ r.done = p.done
    /\ r.total = p.total /\ r.month = p.month /\ r.today = p.today /\ r.week = p.week
    /\ r.bal = p.bal /\ r.bill = p.bill /\ r.activity = p.activity /\ r.est = p.est /\ r.since = p.since
    /\ r.dropped = p.dropped /\ (p.added => r.added) /\ (r.nights = 0 => p.nights = 0)

(* A page after a charge. *)
ChargedPage(p, b) == [p EXCEPT !.charges = @ + 1, !.quiet = @ /\ b]

(* What happens around a page keeps its figures.                           *)
LEMMA PageFlags ==
    ASSUME NEW p, PageShape(p), NEW b \in BOOLEAN
    PROVE  /\ SamePage(p, p)
           /\ p.nights = 0 => LET r == [p EXCEPT !.nights = @ + 1]
                              IN  /\ SamePage(r, p) /\ r \in PageType /\ r.nights = 1 /\ r.added = p.added
                                  /\ r.quiet = p.quiet /\ r.charges = p.charges
           /\ LET r == [p EXCEPT !.added = TRUE]
              IN  /\ SamePage(r, p) /\ r \in PageType /\ r.nights = p.nights /\ r.added
                  /\ r.quiet = p.quiet /\ r.charges = p.charges
           /\ LET r == [p EXCEPT !.quiet = FALSE]
              IN  /\ SamePage(r, p) /\ r \in PageType /\ r.nights = p.nights /\ r.added = p.added
                  /\ ~r.quiet /\ r.charges = p.charges
           /\ LET r == ChargedPage(p, b)
              IN  /\ SamePage(r, p) /\ r \in PageType /\ r.nights = p.nights /\ r.added = p.added
                  /\ (r.quiet <=> p.quiet /\ b) /\ r.charges = p.charges + 1
<1>1. p \in PageType
  BY DEF PageShape
<1>2. SamePage(p, p)
  BY DEF SamePage
<1>3. p.nights = 0 => LET r == [p EXCEPT !.nights = @ + 1]
                      IN  /\ SamePage(r, p) /\ r \in PageType /\ r.nights = 1 /\ r.added = p.added
                          /\ r.quiet = p.quiet /\ r.charges = p.charges
  BY <1>1 DEF SamePage, PageType
<1>4. LET r == [p EXCEPT !.added = TRUE]
      IN  /\ SamePage(r, p) /\ r \in PageType /\ r.nights = p.nights /\ r.added
          /\ r.quiet = p.quiet /\ r.charges = p.charges
  BY <1>1 DEF SamePage, PageType
<1>5. LET r == [p EXCEPT !.quiet = FALSE]
      IN  /\ SamePage(r, p) /\ r \in PageType /\ r.nights = p.nights /\ r.added = p.added
          /\ ~r.quiet /\ r.charges = p.charges
  BY <1>1 DEF SamePage, PageType
<1>6. LET r == ChargedPage(p, b)
      IN  /\ SamePage(r, p) /\ r \in PageType /\ r.nights = p.nights /\ r.added = p.added
          /\ (r.quiet <=> p.quiet /\ b) /\ r.charges = p.charges + 1
  <2>1. \A q \in BOOLEAN : LET r == [p EXCEPT !.charges = @ + 1, !.quiet = q]
           IN  /\ SamePage(r, p) /\ r \in PageType /\ r.nights = p.nights /\ r.added = p.added
               /\ r.quiet = q /\ r.charges = p.charges + 1
    <3> SUFFICES ASSUME NEW q \in BOOLEAN
                 PROVE  LET r == [p EXCEPT !.charges = @ + 1, !.quiet = q]
                        IN  /\ SamePage(r, p) /\ r \in PageType /\ r.nights = p.nights /\ r.added = p.added
                            /\ r.quiet = q /\ r.charges = p.charges + 1
      OBVIOUS
    <3> DEFINE r == [p EXCEPT !.charges = @ + 1, !.quiet = q]
    <3>1. SamePage(r, p) /\ r.nights = p.nights /\ r.added = p.added
      BY <1>1 DEF SamePage, PageType
    <3>2. r.quiet = q
      BY <1>1 DEF PageType
    <3>3. r.charges = p.charges + 1
      BY <1>1 DEF PageType
    <3>4. r \in PageType
      <4>1. \A c \in Nat, z \in BOOLEAN : [p EXCEPT !.charges = c, !.quiet = z] \in PageType
        BY <1>1 DEF PageType
      <4>2. p.charges + 1 \in Nat
        BY <1>1 DEF PageType
      <4> QED BY <4>1, <4>2
    <3> QED BY <3>1, <3>2, <3>3, <3>4
  <2>2. (p.quiet /\ b) \in BOOLEAN
    OBVIOUS
  <2> QED BY <2>1, <2>2, Zenon DEF ChargedPage
<1> QED BY <1>2, <1>3, <1>4, <1>5, <1>6

(* A page that keeps its figures keeps what is said of it alone.           *)
LEMMA PageKept ==
    ASSUME FigInv, SamePage(pagePage', pagePage), pagePage' \in PageType
    PROVE  /\ PageShape(pagePage') /\ Pages!PageIsConsistent' /\ Pages!ActivityCoversToday'
           /\ TotalRead(pagePage') = TotalRead(pagePage) /\ MonthRead(pagePage') = MonthRead(pagePage)
           /\ TodayRead(pagePage') = TodayRead(pagePage) /\ WeekRead(pagePage') = WeekRead(pagePage)
           /\ BalanceRead(pagePage') = BalanceRead(pagePage)
<1>1. /\ TotalRead(pagePage') = TotalRead(pagePage) /\ MonthRead(pagePage') = MonthRead(pagePage)
      /\ TodayRead(pagePage') = TodayRead(pagePage) /\ WeekRead(pagePage') = WeekRead(pagePage)
      /\ BalanceRead(pagePage') = BalanceRead(pagePage)
  BY DEF SamePage, TotalRead, MonthRead, TodayRead, WeekRead, BalanceRead, LeftAtMost
<1>2. PageShape(pagePage')
  <2>1. BillRead(pagePage') = BillRead(pagePage)
    BY DEF SamePage, BillRead
  <2> QED BY <1>1, <2>1 DEF FigInv, PageShape, SamePage
<1>3. Pages!PageIsConsistent' /\ Pages!ActivityCoversToday'
  BY DEF FigInv, SamePage, PageType, Pages!PageIsConsistent, Pages!ActivityCoversToday
<1> QED BY <1>1, <1>2, <1>3

(* At midnight a page that is being made has its night.                    *)
LEMMA MidnightStep == FigInv /\ Pages!Midnight => FigInv'
<1> SUFFICES ASSUME FigInv, Pages!Midnight PROVE FigInv'
  OBVIOUS
<1>1. /\ pageDay < MaxDay /\ pageDay' = pageDay + 1
      /\ pagePage.left # <<>> => pagePage.nights = 0
      /\ pagePage' = IF pagePage.left # <<>> THEN [pagePage EXCEPT !.nights = @ + 1] ELSE pagePage
      /\ UNCHANGED <<pageUsage, pageNewest, pagePass, pageBalance, pageDevices, pageCharged, pageCharging,
                     pageChanges, pageFaults>>
  BY DEF Pages!Midnight, Pages!Making, Pages!traffic, Pages!money, Pages!bounds
<1>2. PageShape(pagePage)
  BY DEF FigInv
<1>3. /\ SamePage(pagePage', pagePage) /\ pagePage' \in PageType /\ pagePage'.quiet = pagePage.quiet
      /\ pagePage'.charges = pagePage.charges
      /\ pagePage.left # <<>> => pagePage'.nights = 1
  BY <1>1, <1>2, PageFlags DEF PageShape
<1>4. pageDay \in 0..MaxDay /\ pageDay' \in 0..MaxDay
  <2>1. MaxDay \in Nat /\ pageDay \in 0..MaxDay
    BY FigCounts
  <2> QED BY <1>1, <2>1
<1>9. FigTypes'
  BY <1>1, <1>4 DEF FigInv, FigTypes
<1>5. FiguresRead(pagePage', pageDay', pageUsage')
  BY <1>1, <1>3 DEF FiguresRead, SamePage
<1>6. DayRead(pagePage', pageDay', pageUsage')
  <2>1. /\ pagePage'.left = pagePage.left /\ pagePage'.since = pagePage.since /\ pagePage'.today = pagePage.today
        /\ pagePage'.week = pagePage.week
        /\ TodayRead(pagePage') = TodayRead(pagePage) /\ WeekRead(pagePage') = WeekRead(pagePage)
    BY <1>3, PageKept DEF SamePage
  <2>2. MaxDay \in Nat /\ pagePage.since \in 0..MaxDay /\ pageDay \in 0..MaxDay
    BY FigPage, FigCounts
  <2>3. pagePage.left # <<>> /\ TodayRead(pagePage) =>
           /\ pagePage.since <= pageDay /\ pageDay <= pagePage.since + 1
           /\ pagePage.since < pageDay => pagePage.nights = 1
           /\ pagePage.today <= pageUsage[pagePage.since]
    BY DEF FigInv, DayRead
  <2>4. WeekRead(pagePage) => pagePage.today <= pagePage.week
    BY DEF FigInv, DayRead
  <2>5. pagePage.left # <<>> /\ TodayRead(pagePage) =>
           pagePage.since <= pageDay' /\ pageDay' <= pagePage.since + 1
    BY <1>1, <2>2, <2>3
  <2> QED BY <1>1, <1>3, <2>1, <2>3, <2>4, <2>5 DEF DayRead
<1>7. SnapshotsFirst(pagePage', pageUsage', pageNewest', pagePass')
  BY <1>1, <1>3 DEF FigInv, SnapshotsFirst, SamePage
<1>8. BalanceLasts(pagePage', pageBalance', pageDevices', pageCharging')
  BY <1>1, <1>3, PageKept DEF FigInv, BalanceLasts, SamePage
<1> QED BY <1>3, <1>9, <1>5, <1>6, <1>7, <1>8, PageKept DEF FigInv

(* The greater of two numbers. *)
LEMMA MaxOfTwo ==
    ASSUME NEW a \in Int, NEW b \in Int
    PROVE  Pages!Max({a, b}) \in {a, b} /\ Pages!Max({a, b}) >= a /\ Pages!Max({a, b}) >= b
<1>1. \E x \in {a, b} : \A y \in {a, b} : x >= y
  OBVIOUS
<1> QED BY <1>1 DEF Pages!Max

(* The collector adds to a date for which it has made a snapshot.           *)
LEMMA TrafficSteps == FigInv /\ (Pages!Collect \/ Pages!CreateSnapshot \/ Pages!AddDailyUsageDelta) => FigInv'
<1> SUFFICES ASSUME FigInv, Pages!Collect \/ Pages!CreateSnapshot \/ Pages!AddDailyUsageDelta PROVE FigInv'
  OBVIOUS
<1> DEFINE Page == /\ SamePage(pagePage', pagePage) /\ pagePage' \in PageType /\ pagePage'.quiet = pagePage.quiet
                   /\ pagePage'.charges = pagePage.charges /\ pagePage'.nights = pagePage.nights
           Rest == /\ UNCHANGED <<pageDay, pageBalance, pageDevices, pageCharged, pageCharging, pageChanges>>
                   /\ pageFaults' \in 0..MaxFaults
           Usage == /\ pageUsage' \in [0..MaxDay -> 0..MaxAdded]
                    /\ \A d \in 0..MaxDay : pageUsage[d] <= pageUsage'[d]
                    /\ \/ UNCHANGED pageUsage
                       \/ pagePage'.left # <<>> => pagePage'.added
           Newest == /\ pageNewest' \in Int /\ -1 <= pageNewest' /\ pageNewest' <= MaxDay /\ pageNewest <= pageNewest'
                     /\ \A d \in 0..MaxDay : pageUsage'[d] > 0 => pageNewest' >= d
           Pass == /\ pagePass'.pc = "add" => pageNewest' >= pagePass'.date
                   /\ pagePass' \in [pc: {"idle", "snapshot", "add"}, date: 0..MaxDay]
<1>1. PageShape(pagePage) /\ pagePage \in PageType
  BY FigPage
<1>2. MaxDay \in Nat /\ pageDay \in 0..MaxDay /\ MaxFaults \in Nat /\ pageFaults \in 0..MaxFaults
  BY FigCounts
<1>3. /\ MaxAdded \in Nat /\ pageUsage \in [0..MaxDay -> 0..MaxAdded]
      /\ pageNewest \in Int /\ -1 <= pageNewest /\ pageNewest <= MaxDay
      /\ \A d \in 0..MaxDay : pageUsage[d] > 0 => pageNewest >= d
  BY FigTraffic
<1>4. /\ pagePass \in [pc: {"idle", "snapshot", "add"}, date: 0..MaxDay]
      /\ pagePass.date \in 0..MaxDay
      /\ pagePass.pc = "add" => pageNewest >= pagePass.date
  BY FigPass
<1>5. pageFaults < MaxFaults /\ pageFaults' = pageFaults + 1 => pageFaults' \in 0..MaxFaults
  BY <1>2
<1>6. UNCHANGED pagePage => Page
  BY <1>1 DEF SamePage
<1>7. UNCHANGED pageUsage => Usage
  BY <1>3
<1>8. UNCHANGED <<pageUsage, pageNewest>> => Newest
  BY <1>3
<1>9. pagePass' = Pages!NoPass => Pass
  BY <1>2 DEF Pages!NoPass
<1>10. Pages!Collect => Page /\ Rest /\ Usage /\ Newest /\ Pass
  <2> SUFFICES ASSUME Pages!Collect PROVE Page /\ Rest /\ Usage /\ Newest /\ Pass
    OBVIOUS
  <2>1. /\ pagePass' = [pc |-> "snapshot", date |-> pageDay]
        /\ UNCHANGED <<pageDay, pageUsage, pageNewest, pageBalance, pageDevices, pageCharged, pageCharging,
                       pagePage, pageChanges, pageFaults>>
    BY DEF Pages!Collect, Pages!money, Pages!bounds
  <2>2. Pass /\ Rest
    BY <1>2, <2>1
  <2> HIDE DEF Page, Rest, Usage, Newest, Pass
  <2> QED BY <1>6, <1>7, <1>8, <2>1, <2>2
<1>11. Pages!CreateSnapshot => Page /\ Rest /\ Usage /\ Newest /\ Pass
  <2> SUFFICES ASSUME Pages!CreateSnapshot PROVE Page /\ Rest /\ Usage /\ Newest /\ Pass
    OBVIOUS
  <2>1. UNCHANGED <<pageDay, pageUsage, pageBalance, pageDevices, pageCharged, pageCharging, pagePage, pageChanges>>
    BY DEF Pages!CreateSnapshot, Pages!money
  <2>2. CASE pageNewest' = Pages!Max({pageNewest, pagePass.date}) /\ pagePass' = [pagePass EXCEPT !.pc = "add"]
             /\ UNCHANGED pageFaults
    <3>1. pagePass.date \in Int /\ pagePass.date >= 0 /\ pagePass.date <= MaxDay
      BY <1>2, <1>4
    <3>2. pageNewest' \in {pageNewest, pagePass.date} /\ pageNewest' >= pageNewest /\ pageNewest' >= pagePass.date
      BY <1>3, <2>2, <3>1, MaxOfTwo
    <3>3. pageNewest' \in Int /\ -1 <= pageNewest' /\ pageNewest' <= MaxDay
      BY <1>2, <1>3, <3>1, <3>2
    <3>4. Newest
      BY <1>2, <1>3, <2>1, <3>2, <3>3
    <3>5. pagePass' \in [pc: {"idle", "snapshot", "add"}, date: 0..MaxDay] /\ pagePass'.date = pagePass.date
      BY <1>4, <2>2
    <3>6. Pass
      BY <3>2, <3>5
    <3>7. Rest
      BY <1>2, <2>1, <2>2
    <3> HIDE DEF Page, Rest, Usage, Newest, Pass
    <3> QED BY <1>6, <1>7, <2>1, <3>4, <3>6, <3>7
  <2>3. CASE pageFaults < MaxFaults /\ pageFaults' = pageFaults + 1 /\ pagePass' = Pages!NoPass /\ UNCHANGED pageNewest
    <3>1. Rest
      BY <1>5, <2>1, <2>3
    <3> HIDE DEF Page, Rest, Usage, Newest, Pass
    <3> QED BY <1>6, <1>7, <1>8, <1>9, <2>1, <2>3, <3>1
  <2> HIDE DEF Page, Rest, Usage, Newest, Pass
  <2> QED BY <2>2, <2>3 DEF Pages!CreateSnapshot, Pages!Fault
<1>12. Pages!AddDailyUsageDelta => Page /\ Rest /\ Usage /\ Newest /\ Pass
  <2> SUFFICES ASSUME Pages!AddDailyUsageDelta PROVE Page /\ Rest /\ Usage /\ Newest /\ Pass
    OBVIOUS
  <2>1. /\ pagePass.pc = "add" /\ pagePass' = Pages!NoPass
        /\ UNCHANGED <<pageDay, pageNewest, pageBalance, pageDevices, pageCharged, pageCharging, pageChanges>>
    BY DEF Pages!AddDailyUsageDelta, Pages!Adds, Pages!money
  <2>2. CASE /\ pageUsage[pagePass.date] < MaxAdded
             /\ pageUsage' = [pageUsage EXCEPT ![pagePass.date] = @ + 1]
             /\ pagePage' = IF pagePage.left # <<>> THEN [pagePage EXCEPT !.added = TRUE] ELSE pagePage
             /\ UNCHANGED pageFaults
    <3>1. Page /\ (pagePage'.left # <<>> => pagePage'.added)
      <4> DEFINE r == [pagePage EXCEPT !.added = TRUE]
      <4>1. TRUE \in BOOLEAN
        OBVIOUS
      <4>2. /\ SamePage(r, pagePage) /\ r \in PageType /\ r.nights = pagePage.nights /\ r.added
            /\ r.quiet = pagePage.quiet /\ r.charges = pagePage.charges
        BY <1>1, <4>1, PageFlags
      <4>3. pagePage' = IF pagePage.left # <<>> THEN r ELSE pagePage
        BY <2>2
      <4>4. r.left = pagePage.left
        BY <4>2 DEF SamePage
      <4> HIDE DEF r
      <4>5. CASE pagePage.left # <<>>
        BY <4>2, <4>3, <4>5
      <4>6. CASE pagePage.left = <<>>
        BY <1>6, <4>3, <4>6
      <4> QED BY <4>5, <4>6
    <3>2. pageUsage[pagePass.date] \in Nat /\ pageUsage[pagePass.date] + 1 \in 0..MaxAdded
      BY <1>3, <1>4, <2>2
    <3>3. /\ pageUsage' \in [0..MaxDay -> 0..MaxAdded] /\ pageUsage'[pagePass.date] = pageUsage[pagePass.date] + 1
          /\ \A d \in 0..MaxDay : d # pagePass.date => pageUsage'[d] = pageUsage[d]
      BY <1>3, <1>4, <2>2, <3>2
    <3>4. \A d \in 0..MaxDay : pageUsage[d] \in Nat /\ pageUsage[d] <= pageUsage'[d]
      BY <1>3, <3>2, <3>3
    <3>5. \A d \in 0..MaxDay : pageUsage'[d] > 0 => pageNewest >= d
      BY <1>3, <1>4, <2>1, <3>3
    <3>6. Usage
      BY <3>1, <3>3, <3>4
    <3>7. Newest
      BY <1>3, <2>1, <3>5
    <3>8. Rest
      BY <1>2, <2>1, <2>2
    <3> HIDE DEF Page, Rest, Usage, Newest, Pass
    <3> QED BY <1>9, <2>1, <3>1, <3>6, <3>7, <3>8
  <2>3. CASE pageFaults < MaxFaults /\ pageFaults' = pageFaults + 1 /\ UNCHANGED <<pageUsage, pagePage>>
    <3>1. Rest
      BY <1>5, <2>1, <2>3
    <3> HIDE DEF Page, Rest, Usage, Newest, Pass
    <3> QED BY <1>6, <1>7, <1>8, <1>9, <2>1, <2>3, <3>1
  <2> HIDE DEF Page, Rest, Usage, Newest, Pass
  <2> QED BY <2>2, <2>3 DEF Pages!AddDailyUsageDelta, Pages!Fault, Pages!Making
<1>13. Page /\ Rest /\ Usage /\ Newest /\ Pass
  BY <1>10, <1>11, <1>12
<1>14. FigTypes'
  BY <1>13 DEF FigInv, FigTypes
<1>15. FiguresRead(pagePage', pageDay', pageUsage')
  BY <1>13, PageKept DEF FigInv, FiguresRead, SamePage
<1>16. DayRead(pagePage', pageDay', pageUsage')
  <2>1. /\ pagePage'.left = pagePage.left /\ pagePage'.since = pagePage.since /\ pagePage'.today = pagePage.today
        /\ pagePage'.week = pagePage.week /\ pagePage'.nights = pagePage.nights
        /\ TodayRead(pagePage') = TodayRead(pagePage) /\ WeekRead(pagePage') = WeekRead(pagePage)
    BY <1>13, PageKept DEF SamePage
  <2>2. pagePage.since \in 0..MaxDay /\ pagePage.today \in Nat
    BY FigPage
  <2>3. pageUsage[pagePage.since] <= pageUsage'[pagePage.since]
    BY <1>13, <2>2
  <2>4. pageUsage[pagePage.since] \in Nat /\ pageUsage'[pagePage.since] \in Nat
    <3>1. pageUsage' \in [0..MaxDay -> 0..MaxAdded]
      BY <1>13
    <3> QED BY <1>3, <2>2, <3>1
  <2>5. pagePage.today <= pageUsage[pagePage.since] => pagePage.today <= pageUsage'[pagePage.since]
    BY <2>2, <2>3, <2>4
  <2>6. pageDay' = pageDay
    BY <1>13
  <2> QED BY <2>1, <2>5, <2>6 DEF FigInv, DayRead
<1>17. SnapshotsFirst(pagePage', pageUsage', pageNewest', pagePass')
  <2>1. pagePage'.today = pagePage.today /\ pagePage'.since = pagePage.since
    BY <1>13 DEF SamePage
  <2>2. pagePage.since \in Int /\ pageNewest' \in Int /\ pageNewest <= pageNewest'
    BY <1>13, FigPage
  <2>3. pagePage.since <= pageNewest => pagePage.since <= pageNewest'
    BY <1>3, <2>2
  <2> QED BY <1>13, <2>1, <2>3 DEF FigInv, SnapshotsFirst
<1>18. BalanceLasts(pagePage', pageBalance', pageDevices', pageCharging')
  BY <1>13, PageKept DEF FigInv, BalanceLasts, SamePage
<1> HIDE DEF Rest, Usage, Newest, Pass
<1> QED BY <1>13, <1>14, <1>15, <1>16, <1>17, <1>18, PageKept DEF FigInv

(* Money and devices come and go: the balance of a quiet page is kept.     *)
LEMMA MoneySteps ==
    FigInv /\ (Pages!Pay \/ Pages!ChangeDevices \/ Pages!ListBillable \/ Pages!chargeUser) => FigInv'
<1> SUFFICES ASSUME FigInv, Pages!Pay \/ Pages!ChangeDevices \/ Pages!ListBillable \/ Pages!chargeUser
             PROVE  FigInv'
  OBVIOUS
<1> DEFINE Page == /\ SamePage(pagePage', pagePage) /\ pagePage' \in PageType
                   /\ pagePage'.nights = pagePage.nights /\ pagePage'.added = pagePage.added
           Rest == UNCHANGED <<pageDay, pageUsage, pageNewest, pagePass, pageFaults>>
           Money == /\ pageBalance' \in Int /\ pageDevices' \in 0..MaxDevices
                    /\ pageCharged' \in {-1} \cup (0..MaxDay)
                    /\ pageCharging' \in [pc: {"idle", "charge"}, count: 0..MaxDevices, old: BOOLEAN]
                    /\ pageChanges' \in 0..MaxChanges
           Lasts == /\ pageCharging'.pc = "charge" /\ ~pageCharging'.old => pageCharging'.count = pageDevices'
                    /\ pagePage'.quiet =>
                          /\ pageBalance' = pagePage.bal - pagePage'.charges * pageDevices'
                          /\ pagePage.bill \in {0, pageDevices'} /\ BalanceRead(pagePage)
<1>1. PageShape(pagePage) /\ pagePage \in PageType
  BY FigPage
<1>2. /\ MaxChanges \in Nat /\ pageChanges \in 0..MaxChanges /\ MaxDay \in Nat /\ pageDay \in 0..MaxDay
      /\ MaxDevices \in Nat /\ pageDevices \in 0..MaxDevices /\ pageBalance \in Int
  BY FigCounts
<1>3. /\ pageCharged \in {-1} \cup (0..MaxDay)
      /\ pageCharging \in [pc: {"idle", "charge"}, count: 0..MaxDevices, old: BOOLEAN]
  BY DEF FigInv, FigTypes
<1>4. /\ pageCharging.pc = "charge" /\ ~pageCharging.old => pageCharging.count = pageDevices
      /\ pagePage.quiet => /\ pageBalance = pagePage.bal - pagePage.charges * pageDevices
                           /\ pagePage.bill \in {0, pageDevices} /\ BalanceRead(pagePage)
  BY DEF FigInv, BalanceLasts
<1>5. UNCHANGED pagePage => Page
  BY <1>1 DEF SamePage
<1>6. Pages!Changed => /\ Page /\ Rest /\ ~pagePage'.quiet /\ pageChanges' \in 0..MaxChanges
                       /\ UNCHANGED pageCharged
  <2> SUFFICES ASSUME Pages!Changed
               PROVE  /\ Page /\ Rest /\ ~pagePage'.quiet /\ pageChanges' \in 0..MaxChanges
                      /\ UNCHANGED pageCharged
    OBVIOUS
  <2>1. /\ pageChanges < MaxChanges /\ pageChanges' = pageChanges + 1
        /\ pagePage' = [pagePage EXCEPT !.quiet = FALSE]
        /\ UNCHANGED <<pageDay, pageUsage, pageNewest, pagePass, pageCharged, pageFaults>>
    BY DEF Pages!Changed, Pages!traffic
  <2>2. pageChanges' \in 0..MaxChanges
    BY <1>2, <2>1
  <2>3. Page /\ ~pagePage'.quiet
    <3>1. FALSE \in BOOLEAN
      OBVIOUS
    <3> QED BY <1>1, <2>1, <3>1, PageFlags
  <2> HIDE DEF Page
  <2> QED BY <2>1, <2>2, <2>3
<1>7. Pages!Pay => Page /\ Rest /\ Money /\ Lasts
  <2> SUFFICES ASSUME Pages!Pay PROVE Page /\ Rest /\ Money /\ Lasts
    OBVIOUS
  <2>1. Pages!Changed /\ pageBalance' = pageBalance + 1 /\ UNCHANGED <<pageDevices, pageCharging>>
    BY DEF Pages!Pay
  <2>2. Page /\ Rest /\ ~pagePage'.quiet /\ pageChanges' \in 0..MaxChanges /\ UNCHANGED pageCharged
    BY <1>6, <2>1
  <2>3. pageBalance' \in Int
    BY <1>2, <2>1
  <2> HIDE DEF Page, Rest
  <2> QED BY <1>2, <1>3, <1>4, <2>1, <2>2, <2>3
<1>8. Pages!ChangeDevices => Page /\ Rest /\ Money /\ Lasts
  <2> SUFFICES ASSUME Pages!ChangeDevices PROVE Page /\ Rest /\ Money /\ Lasts
    OBVIOUS
  <2>1. /\ Pages!Changed /\ pageDevices' \in 0..MaxDevices
        /\ pageCharging' = [pageCharging EXCEPT !.old = (pageCharging.pc = "charge")]
        /\ UNCHANGED pageBalance
    BY DEF Pages!ChangeDevices
  <2>2. Page /\ Rest /\ ~pagePage'.quiet /\ pageChanges' \in 0..MaxChanges /\ UNCHANGED pageCharged
    BY <1>6, <2>1
  <2>3. /\ pageCharging' \in [pc: {"idle", "charge"}, count: 0..MaxDevices, old: BOOLEAN]
        /\ pageCharging'.pc = "charge" => pageCharging'.old
    <3>1. \A b \in BOOLEAN : LET c == [pageCharging EXCEPT !.old = b]
             IN  c \in [pc: {"idle", "charge"}, count: 0..MaxDevices, old: BOOLEAN] /\ c.old = b /\ c.pc = pageCharging.pc
      BY <1>3
    <3>2. (pageCharging.pc = "charge") \in BOOLEAN
      OBVIOUS
    <3> QED BY <2>1, <3>1, <3>2, Zenon
  <2> HIDE DEF Page, Rest
  <2> QED BY <1>2, <1>3, <2>1, <2>2, <2>3
<1>9. Pages!ListBillable => Page /\ Rest /\ Money /\ Lasts
  <2> SUFFICES ASSUME Pages!ListBillable PROVE Page /\ Rest /\ Money /\ Lasts
    OBVIOUS
  <2>1. /\ pageCharging' = [pc |-> "charge", count |-> pageDevices, old |-> FALSE]
        /\ UNCHANGED <<pageDay, pageUsage, pageNewest, pagePass, pageBalance, pageDevices, pageCharged, pagePage,
                       pageChanges, pageFaults>>
    BY DEF Pages!ListBillable, Pages!traffic, Pages!bounds, Pages!Billable
  <2>2. Page
    BY <1>5, <2>1
  <2>3. pageCharging' \in [pc: {"idle", "charge"}, count: 0..MaxDevices, old: BOOLEAN] /\ pageCharging'.count = pageDevices
    BY <1>2, <2>1
  <2>4. Money
    BY <1>2, <1>3, <2>1, <2>3
  <2> HIDE DEF Page, Money
  <2> QED BY <1>4, <2>1, <2>2, <2>3, <2>4
<1>10. Pages!chargeUser => Page /\ Rest /\ Money /\ Lasts
  <2> SUFFICES ASSUME Pages!chargeUser PROVE Page /\ Rest /\ Money /\ Lasts
    OBVIOUS
  <2>1. /\ pageCharging.pc = "charge" /\ pageCharging' = Pages!NoCharge
        /\ UNCHANGED <<pageDay, pageUsage, pageNewest, pagePass, pageDevices, pageChanges, pageFaults>>
    BY DEF Pages!chargeUser, Pages!traffic, Pages!bounds
  <2>2. /\ pageCharging' \in [pc: {"idle", "charge"}, count: 0..MaxDevices, old: BOOLEAN]
        /\ pageCharging'.pc # "charge"
    BY <1>2, <2>1 DEF Pages!NoCharge
  <2>3. CASE UNCHANGED <<pageBalance, pageCharged, pagePage>>
    <3>1. Page
      BY <1>5, <2>3
    <3>2. Money
      BY <1>2, <1>3, <2>1, <2>2, <2>3
    <3> HIDE DEF Page, Money
    <3> QED BY <1>4, <2>1, <2>2, <2>3, <3>1, <3>2
  <2>4. CASE /\ pageBalance' = pageBalance - pageCharging.count /\ pageCharged' = pageDay
             /\ pagePage' = [pagePage EXCEPT !.charges = @ + 1, !.quiet = @ /\ ~pageCharging.old]
    <3>1. (~pageCharging.old) \in BOOLEAN
      OBVIOUS
    <3>2. /\ Page /\ (pagePage'.quiet <=> pagePage.quiet /\ ~pageCharging.old)
          /\ pagePage'.charges = pagePage.charges + 1
      <4>1. PICK b \in BOOLEAN : b = ~pageCharging.old
        BY <3>1, Zenon
      <4>2. pagePage' = ChargedPage(pagePage, b)
        BY <2>4, <4>1, Zenon DEF ChargedPage
      <4> QED BY <1>1, <4>1, <4>2, PageFlags
    <3>3. pageBalance' \in Int
      BY <1>2, <1>3, <2>4
    <3>4. Money
      BY <1>2, <2>1, <2>2, <2>4, <3>3
    <3>5. pagePage.charges \in Nat /\ pagePage.bal \in Int
      BY <1>1 DEF PageType
    <3>6. pagePage'.quiet => pageBalance' = pagePage.bal - pagePage'.charges * pageDevices
      <4> SUFFICES ASSUME pagePage'.quiet PROVE pageBalance' = pagePage.bal - pagePage'.charges * pageDevices
        OBVIOUS
      <4>1. pageBalance = pagePage.bal - pagePage.charges * pageDevices /\ pageCharging.count = pageDevices
        BY <1>4, <2>1, <3>2
      <4>2. \A b \in Int, c \in Nat, d \in Nat : b - c * d - d = b - (c + 1) * d
        OBVIOUS
      <4>3. pageBalance' = pagePage.bal - pagePage.charges * pageDevices - pageDevices /\ pageDevices \in Nat
        BY <1>2, <2>4, <4>1
      <4> QED BY <3>2, <3>5, <4>2, <4>3
    <3> HIDE DEF Page, Money
    <3> QED BY <1>4, <2>1, <2>2, <3>2, <3>4, <3>6
  <2> HIDE DEF Page, Rest, Money, Lasts
  <2> QED BY <2>3, <2>4 DEF Pages!chargeUser
<1>11. Page /\ Rest /\ Money /\ Lasts
  BY <1>7, <1>8, <1>9, <1>10
<1>12. FigTypes'
  BY <1>11 DEF FigInv, FigTypes
<1>13. FiguresRead(pagePage', pageDay', pageUsage')
  BY <1>11, PageKept DEF FigInv, FiguresRead, SamePage
<1>14. DayRead(pagePage', pageDay', pageUsage')
  BY <1>11, PageKept DEF FigInv, DayRead, SamePage
<1>15. SnapshotsFirst(pagePage', pageUsage', pageNewest', pagePass')
  BY <1>11 DEF FigInv, SnapshotsFirst, SamePage
<1>16. BalanceLasts(pagePage', pageBalance', pageDevices', pageCharging')
  <2>1. /\ BalanceRead(pagePage') = BalanceRead(pagePage)
        /\ pagePage'.bal = pagePage.bal /\ pagePage'.bill = pagePage.bill /\ pagePage'.est = pagePage.est
        /\ pagePage'.left = pagePage.left
    BY <1>11, PageKept DEF SamePage
  <2>2. pagePage.est # -1 => /\ pagePage.left = <<>> /\ pagePage.bal > 0 /\ pagePage.bill > 0
                             /\ pagePage.est = (pagePage.bal - 1) \div pagePage.bill
    BY DEF FigInv, BalanceLasts
  <2> QED BY <1>11, <2>1, <2>2 DEF BalanceLasts
<1> HIDE DEF Rest, Money, Lasts
<1> QED BY <1>11, <1>12, <1>13, <1>14, <1>15, <1>16, PageKept DEF FigInv

(* What a statement leaves alone. *)
SameBut(r, q, fields) ==
    \A f \in {"form", "total", "month", "today", "week", "bal", "bill", "activity", "est", "since",
              "nights", "added", "dropped", "charges", "quiet"} \ fields : r[f] = q[f]

(* What is left of a page after a statement.                               *)
LEMMA DoneFields ==
    ASSUME FigInv, pagePage.left # <<>>, NEW q \in PageType, q.left = pagePage.left
    PROVE  LET r == Pages!Done(q)
           IN  /\ r \in PageType /\ r.left = Tail(pagePage.left) /\ r.done = (Len(pagePage.left) = 1)
               /\ SameBut(r, q, {})
<1>1. Tail(pagePage.left) \in UserLeft \cup ShortLeft
  <2>1. pagePage.left \in UserLeft \cup ShortLeft
    BY FigPage DEF PageType
  <2> QED BY <2>1, UserLefts, ShortLefts
<1>2. \A l \in UserLeft \cup ShortLeft, b \in BOOLEAN :
         LET r == [q EXCEPT !.left = l, !.done = b]
         IN  r \in PageType /\ r.left = l /\ r.done = b /\ SameBut(r, q, {})
  <2> SUFFICES ASSUME NEW l \in UserLeft \cup ShortLeft, NEW b \in BOOLEAN
               PROVE  LET r == [q EXCEPT !.left = l, !.done = b]
                      IN  r \in PageType /\ r.left = l /\ r.done = b /\ SameBut(r, q, {})
    OBVIOUS
  <2> QED BY DEF PageType, SameBut
<1>3. (Len(pagePage.left) = 1) \in BOOLEAN
  OBVIOUS
<1>4. Pages!Done(q) = [q EXCEPT !.left = Tail(pagePage.left), !.done = (Len(pagePage.left) = 1)]
  BY DEF Pages!Done
<1> QED BY <1>1, <1>2, <1>3, <1>4, ZenonT(60)

(* The figure that a statement reads.                                      *)
LEMMA ReadFields ==
    ASSUME FigInv, NEW f \in {"total", "month", "today", "week", "balance", "billable", "activity"}
    PROVE  LET r == Pages!Read(f)
           IN  /\ r \in PageType /\ r.left = pagePage.left
               /\ f = "total" => r.total = SumOver(pageUsage, 0..MaxDay) /\ SameBut(r, pagePage, {"total"})
               /\ f = "month" => r.month = SumOver(pageUsage, DaysUpTo(pageDay, Month)) /\ SameBut(r, pagePage, {"month"})
               /\ f = "today" => /\ r.today = pageUsage[pageDay] /\ r.since = pageDay
                                 /\ SameBut(r, pagePage, {"today", "since"})
               /\ f = "week" => r.week = SumOver(pageUsage, DaysUpTo(pageDay, Week)) /\ SameBut(r, pagePage, {"week"})
               /\ f = "balance" => /\ r.bal = pageBalance /\ r.quiet /\ r.charges = 0
                                   /\ SameBut(r, pagePage, {"bal", "quiet", "charges"})
               /\ f = "billable" => r.bill = pageDevices /\ SameBut(r, pagePage, {"bill"})
               /\ f = "activity" => /\ r.activity = pageNewest
                                    /\ r.est = Pages!estimateDaysRemaining(pagePage.bal, pagePage.bill)
                                    /\ SameBut(r, pagePage, {"activity", "est"})
<1>1. pagePage \in PageType
  BY FigPage
<1>2. pageDay \in 0..MaxDay /\ pageUsage \in [0..MaxDay -> 0..MaxAdded]
  BY FigCounts, FigTraffic
<1>3. /\ SumOver(pageUsage, 0..MaxDay) \in 0..MostAdded /\ SumOver(pageUsage, DaysUpTo(pageDay, Month)) \in 0..MostAdded
      /\ SumOver(pageUsage, DaysUpTo(pageDay, Week)) \in 0..MostAdded /\ pageUsage[pageDay] \in 0..MostAdded
  BY <1>2, Windows
<1>4. /\ Pages!All = SumOver(pageUsage, 0..MaxDay) /\ Pages!SumOfMonth = SumOver(pageUsage, DaysUpTo(pageDay, Month))
      /\ Pages!SumOfWeek = SumOver(pageUsage, DaysUpTo(pageDay, Week))
  BY DEF Pages!All, Pages!SumOfMonth, Pages!SumOfWeek, Pages!Last, Pages!Dates, SumOver, DaysUpTo
<1>5. pageBalance \in Int /\ pageDevices \in 0..MaxDevices /\ pageNewest \in Int
  BY FigCounts, FigTraffic
<1>6. Pages!estimateDaysRemaining(pagePage.bal, pagePage.bill) \in Int
  BY FigPage, FigBounds, Quotient DEF Pages!estimateDaysRemaining
<1>7. CASE f = "total"
  <2>1. \A x \in 0..MostAdded :
           LET r == [pagePage EXCEPT !.total = x]
           IN  /\ r \in PageType /\ r.left = pagePage.left /\ r.total = x
               /\ SameBut(r, pagePage, {"total"})
    BY <1>1 DEF PageType, SameBut
  <2>2. Pages!Read(f) = [pagePage EXCEPT !.total = SumOver(pageUsage, 0..MaxDay)]
    BY <1>4, <1>7 DEF Pages!Read
  <2> HIDE DEF SameBut, PageType
  <2> QED BY <1>7, <1>2, <1>3, <1>5, <1>6, <2>1, <2>2
<1>8. CASE f = "month"
  <2>1. \A x \in 0..MostAdded :
           LET r == [pagePage EXCEPT !.month = x]
           IN  /\ r \in PageType /\ r.left = pagePage.left /\ r.month = x
               /\ SameBut(r, pagePage, {"month"})
    BY <1>1 DEF PageType, SameBut
  <2>2. Pages!Read(f) = [pagePage EXCEPT !.month = SumOver(pageUsage, DaysUpTo(pageDay, Month))]
    BY <1>4, <1>8 DEF Pages!Read
  <2> HIDE DEF SameBut, PageType
  <2> QED BY <1>8, <1>2, <1>3, <1>5, <1>6, <2>1, <2>2
<1>9. CASE f = "today"
  <2> DEFINE r == [pagePage EXCEPT !.today = pageUsage[pageDay], !.since = pageDay]
  <2>1. \A x \in 0..MostAdded, y \in 0..MaxDay : [pagePage EXCEPT !.today = x, !.since = y] \in PageType
    BY <1>1 DEF PageType
  <2>2. r \in PageType
    <3> HIDE DEF PageType
    <3> QED BY <1>2, <1>3, <1>5, <1>6, <2>1
  <2>3. r.left = pagePage.left /\ r.today = pageUsage[pageDay] /\ r.since = pageDay
    BY <1>1 DEF PageType
  <2>4. SameBut(r, pagePage, {"today", "since"})
    BY <1>1 DEF PageType, SameBut
  <2>5. Pages!Read(f) = r
    BY <1>4, <1>9 DEF Pages!Read
  <2> HIDE DEF SameBut, PageType, r
  <2> QED BY <1>9, <2>2, <2>3, <2>4, <2>5
<1>10. CASE f = "week"
  <2>1. \A x \in 0..MostAdded :
           LET r == [pagePage EXCEPT !.week = x]
           IN  /\ r \in PageType /\ r.left = pagePage.left /\ r.week = x
               /\ SameBut(r, pagePage, {"week"})
    BY <1>1 DEF PageType, SameBut
  <2>2. Pages!Read(f) = [pagePage EXCEPT !.week = SumOver(pageUsage, DaysUpTo(pageDay, Week))]
    BY <1>4, <1>10 DEF Pages!Read
  <2> HIDE DEF SameBut, PageType
  <2> QED BY <1>10, <1>2, <1>3, <1>5, <1>6, <2>1, <2>2
<1>11. CASE f = "balance"
  <2> DEFINE r == [pagePage EXCEPT !.bal = pageBalance, !.quiet = TRUE, !.charges = 0]
  <2>1. \A x \in Int, y \in BOOLEAN, z \in Nat : [pagePage EXCEPT !.bal = x, !.quiet = y, !.charges = z] \in PageType
    BY <1>1 DEF PageType
  <2>2. r \in PageType
    <3> HIDE DEF PageType
    <3> QED BY <1>2, <1>3, <1>5, <1>6, <2>1
  <2>3. r.left = pagePage.left /\ r.bal = pageBalance /\ r.quiet = TRUE /\ r.charges = 0
    BY <1>1 DEF PageType
  <2>4. SameBut(r, pagePage, {"bal", "quiet", "charges"})
    BY <1>1 DEF PageType, SameBut
  <2>5. Pages!Read(f) = r
    BY <1>4, <1>11 DEF Pages!Read
  <2> HIDE DEF SameBut, PageType, r
  <2> QED BY <1>11, <2>2, <2>3, <2>4, <2>5
<1>12. CASE f = "billable"
  <2>1. \A x \in 0..MaxDevices :
           LET r == [pagePage EXCEPT !.bill = x]
           IN  /\ r \in PageType /\ r.left = pagePage.left /\ r.bill = x
               /\ SameBut(r, pagePage, {"bill"})
    BY <1>1 DEF PageType, SameBut
  <2>2. Pages!Read(f) = [pagePage EXCEPT !.bill = pageDevices]
    BY <1>4, <1>12 DEF Pages!Read
  <2> HIDE DEF SameBut, PageType
  <2> QED BY <1>12, <1>2, <1>3, <1>5, <1>6, <2>1, <2>2
<1>13. CASE f = "activity"
  <2> DEFINE r == [pagePage EXCEPT !.activity = pageNewest, !.est = Pages!estimateDaysRemaining(pagePage.bal, pagePage.bill)]
  <2>1. \A x \in Int, y \in Int : [pagePage EXCEPT !.activity = x, !.est = y] \in PageType
    BY <1>1 DEF PageType
  <2>2. r \in PageType
    <3> HIDE DEF PageType
    <3> QED BY <1>2, <1>3, <1>5, <1>6, <2>1
  <2>3. r.left = pagePage.left /\ r.activity = pageNewest /\ r.est = Pages!estimateDaysRemaining(pagePage.bal, pagePage.bill)
    BY <1>1 DEF PageType
  <2>4. SameBut(r, pagePage, {"activity", "est"})
    BY <1>1 DEF PageType, SameBut
  <2>5. Pages!Read(f) = r
    BY <1>4, <1>13 DEF Pages!Read
  <2> HIDE DEF SameBut, PageType, r
  <2> QED BY <1>13, <2>2, <2>3, <2>4, <2>5
<1> QED BY <1>7, <1>8, <1>9, <1>10, <1>11, <1>12, <1>13

(* The figures that are there before a statement and after it.              *)
LEMMA ReadFlags ==
    ASSUME NEW p, PageShape(p), p.left # <<>>, NEW r, r.form = p.form, r.left = Tail(p.left)
    PROVE  /\ Head(p.left) \in {"total", "month", "today", "week", "balance", "billable", "activity"}
           /\ p.form = "user" => r.left \in UserLeft
           /\ p.form \in ShortForms => r.left \in ShortLeft
           /\ p.form # "none" /\ (r.left = <<>> <=> Len(p.left) = 1)
           /\ Head(p.left) = "total" =>
                 /\ ~TotalRead(p) /\ ~MonthRead(p) /\ ~TodayRead(p) /\ ~WeekRead(p) /\ ~BalanceRead(p) /\ ~BillRead(p)
                 /\ TotalRead(r) /\ ~MonthRead(r) /\ ~TodayRead(r) /\ ~WeekRead(r) /\ ~BalanceRead(r) /\ ~BillRead(r)
                 /\ r.left # <<>>
           /\ Head(p.left) = "month" =>
                 /\ TotalRead(p) /\ ~MonthRead(p) /\ ~TodayRead(p) /\ ~WeekRead(p) /\ ~BalanceRead(p) /\ ~BillRead(p)
                 /\ TotalRead(r) /\ MonthRead(r) /\ ~TodayRead(r) /\ ~WeekRead(r) /\ ~BalanceRead(r) /\ ~BillRead(r)
                 /\ (r.left = <<>> <=> p.form \in ShortForms)
           /\ Head(p.left) = "today" =>
                 /\ TotalRead(p) /\ MonthRead(p) /\ ~TodayRead(p) /\ ~WeekRead(p) /\ ~BalanceRead(p) /\ ~BillRead(p)
                 /\ TotalRead(r) /\ MonthRead(r) /\ TodayRead(r) /\ ~WeekRead(r) /\ ~BalanceRead(r) /\ ~BillRead(r)
                 /\ r.left # <<>> /\ p.form = "user"
           /\ Head(p.left) = "week" =>
                 /\ TotalRead(p) /\ MonthRead(p) /\ TodayRead(p) /\ ~WeekRead(p) /\ ~BalanceRead(p) /\ ~BillRead(p)
                 /\ TotalRead(r) /\ MonthRead(r) /\ TodayRead(r) /\ WeekRead(r) /\ ~BalanceRead(r) /\ ~BillRead(r)
                 /\ r.left # <<>> /\ p.form = "user"
           /\ Head(p.left) = "balance" =>
                 /\ TotalRead(p) /\ MonthRead(p) /\ TodayRead(p) /\ WeekRead(p) /\ ~BalanceRead(p) /\ ~BillRead(p)
                 /\ TotalRead(r) /\ MonthRead(r) /\ TodayRead(r) /\ WeekRead(r) /\ BalanceRead(r) /\ ~BillRead(r)
                 /\ r.left # <<>> /\ p.form = "user"
           /\ Head(p.left) = "billable" =>
                 /\ TotalRead(p) /\ MonthRead(p) /\ TodayRead(p) /\ WeekRead(p) /\ BalanceRead(p) /\ ~BillRead(p)
                 /\ TotalRead(r) /\ MonthRead(r) /\ TodayRead(r) /\ WeekRead(r) /\ BalanceRead(r) /\ BillRead(r)
                 /\ r.left # <<>> /\ p.form = "user"
           /\ Head(p.left) = "activity" =>
                 /\ TotalRead(p) /\ MonthRead(p) /\ TodayRead(p) /\ WeekRead(p) /\ BalanceRead(p) /\ BillRead(p)
                 /\ TotalRead(r) /\ MonthRead(r) /\ TodayRead(r) /\ WeekRead(r) /\ BalanceRead(r) /\ BillRead(r)
                 /\ r.left = <<>> /\ p.form = "user"
<1>1. CASE p.form = "user"
  <2>1. p.left \in UserLeft
    BY <1>1 DEF PageShape
  <2> DEFINE n == Len(p.left)
         m == Len(r.left)
         h == Head(p.left)
  <2> HIDE DEF n, m, h
  <2>2. /\ n \in 1..7 /\ r.left \in UserLeft /\ m = n - 1
        /\ r.left = <<>> <=> m = 0
    <3>1. /\ n \in 0..7 /\ (p.left = <<>> <=> n = 0)
          /\ r.left \in UserLeft /\ m = n - 1
      BY <2>1, UserLefts DEF n, m
    <3>2. r.left = <<>> <=> m = 0
      BY <3>1, UserLefts DEF m
    <3> QED BY <3>1, <3>2
  <2>3. /\ n = 7 => h = "total"
        /\ n = 6 => h = "month"
        /\ n = 5 => h = "today"
        /\ n = 4 => h = "week"
        /\ n = 3 => h = "balance"
        /\ n = 2 => h = "billable"
        /\ n = 1 => h = "activity"
    BY <2>1, UserLefts DEF n, h
  <2>4. /\ p.form \notin ShortForms
        /\ TotalRead(p) <=> n <= 6
        /\ MonthRead(p) <=> n <= 5
        /\ TodayRead(p) <=> n <= 4
        /\ WeekRead(p) <=> n <= 3
        /\ BalanceRead(p) <=> n <= 2
        /\ BillRead(p) <=> n <= 1
    BY <1>1 DEF TotalRead, MonthRead, TodayRead, WeekRead, BalanceRead, BillRead, LeftAtMost, ShortForms, n, m
  <2>5. /\ TotalRead(r) <=> m <= 6
        /\ MonthRead(r) <=> m <= 5
        /\ TodayRead(r) <=> m <= 4
        /\ WeekRead(r) <=> m <= 3
        /\ BalanceRead(r) <=> m <= 2
        /\ BillRead(r) <=> m <= 1
    BY <1>1 DEF TotalRead, MonthRead, TodayRead, WeekRead, BalanceRead, BillRead, LeftAtMost, ShortForms, n, m
  <2>6. n \in {1, 2, 3, 4, 5, 6, 7} /\ m \in Int
    BY <2>2
  <2>7. /\ n = 7 <=> h = "total"
        /\ n = 6 <=> h = "month"
        /\ n = 5 <=> h = "today"
        /\ n = 4 <=> h = "week"
        /\ n = 3 <=> h = "balance"
        /\ n = 2 <=> h = "billable"
        /\ n = 1 <=> h = "activity"
    BY <2>3, <2>6
  <2>8. h \in {"total", "month", "today", "week", "balance", "billable", "activity"}
    BY <2>6, <2>7
  <2>9. m = n - 1 /\ (r.left = <<>> <=> n = 1)
    BY <2>2, <2>6
  <2>10. h = "total" =>
           /\ ~TotalRead(p) /\ ~MonthRead(p) /\ ~TodayRead(p) /\ ~WeekRead(p) /\ ~BalanceRead(p) /\ ~BillRead(p)
           /\ TotalRead(r) /\ ~MonthRead(r) /\ ~TodayRead(r) /\ ~WeekRead(r) /\ ~BalanceRead(r) /\ ~BillRead(r)
           /\ r.left # <<>>
    BY <2>4, <2>5, <2>6, <2>7, <2>9
  <2>11. h = "month" =>
           /\ TotalRead(p) /\ ~MonthRead(p) /\ ~TodayRead(p) /\ ~WeekRead(p) /\ ~BalanceRead(p) /\ ~BillRead(p)
           /\ TotalRead(r) /\ MonthRead(r) /\ ~TodayRead(r) /\ ~WeekRead(r) /\ ~BalanceRead(r) /\ ~BillRead(r)
           /\ r.left # <<>>
    BY <2>4, <2>5, <2>6, <2>7, <2>9
  <2>12. h = "today" =>
           /\ TotalRead(p) /\ MonthRead(p) /\ ~TodayRead(p) /\ ~WeekRead(p) /\ ~BalanceRead(p) /\ ~BillRead(p)
           /\ TotalRead(r) /\ MonthRead(r) /\ TodayRead(r) /\ ~WeekRead(r) /\ ~BalanceRead(r) /\ ~BillRead(r)
           /\ r.left # <<>>
    BY <2>4, <2>5, <2>6, <2>7, <2>9
  <2>13. h = "week" =>
           /\ TotalRead(p) /\ MonthRead(p) /\ TodayRead(p) /\ ~WeekRead(p) /\ ~BalanceRead(p) /\ ~BillRead(p)
           /\ TotalRead(r) /\ MonthRead(r) /\ TodayRead(r) /\ WeekRead(r) /\ ~BalanceRead(r) /\ ~BillRead(r)
           /\ r.left # <<>>
    BY <2>4, <2>5, <2>6, <2>7, <2>9
  <2>14. h = "balance" =>
           /\ TotalRead(p) /\ MonthRead(p) /\ TodayRead(p) /\ WeekRead(p) /\ ~BalanceRead(p) /\ ~BillRead(p)
           /\ TotalRead(r) /\ MonthRead(r) /\ TodayRead(r) /\ WeekRead(r) /\ BalanceRead(r) /\ ~BillRead(r)
           /\ r.left # <<>>
    BY <2>4, <2>5, <2>6, <2>7, <2>9
  <2>15. h = "billable" =>
           /\ TotalRead(p) /\ MonthRead(p) /\ TodayRead(p) /\ WeekRead(p) /\ BalanceRead(p) /\ ~BillRead(p)
           /\ TotalRead(r) /\ MonthRead(r) /\ TodayRead(r) /\ WeekRead(r) /\ BalanceRead(r) /\ BillRead(r)
           /\ r.left # <<>>
    BY <2>4, <2>5, <2>6, <2>7, <2>9
  <2>16. h = "activity" =>
           /\ TotalRead(p) /\ MonthRead(p) /\ TodayRead(p) /\ WeekRead(p) /\ BalanceRead(p) /\ BillRead(p)
           /\ TotalRead(r) /\ MonthRead(r) /\ TodayRead(r) /\ WeekRead(r) /\ BalanceRead(r) /\ BillRead(r)
           /\ r.left = <<>>
    BY <2>4, <2>5, <2>6, <2>7, <2>9
  <2> QED BY <1>1, <2>2, <2>4, <2>8, <2>9, <2>10, <2>11, <2>12, <2>13, <2>14, <2>15, <2>16, Zenon DEF n, h
<1>2. CASE p.form \in ShortForms
  <2>1. p.left \in ShortLeft
    BY <1>2 DEF PageShape
  <2> DEFINE n == Len(p.left)
         m == Len(r.left)
         h == Head(p.left)
  <2> HIDE DEF n, m, h
  <2>2. /\ n \in 1..2 /\ r.left \in ShortLeft /\ m = n - 1
        /\ r.left = <<>> <=> m = 0
    <3>1. /\ n \in 0..2 /\ (p.left = <<>> <=> n = 0)
          /\ r.left \in ShortLeft /\ m = n - 1
      BY <2>1, ShortLefts DEF n, m
    <3>2. r.left = <<>> <=> m = 0
      BY <3>1, ShortLefts DEF m
    <3> QED BY <3>1, <3>2
  <2>3. /\ n = 2 => h = "total"
        /\ n = 1 => h = "month"
    BY <2>1, ShortLefts DEF n, h
  <2>4. /\ p.form # "user" /\ p.form # "none"
        /\ TotalRead(p) <=> n <= 1
        /\ MonthRead(p) <=> n <= 0
        /\ ~TodayRead(p) /\ ~WeekRead(p) /\ ~BalanceRead(p) /\ ~BillRead(p)
    BY <1>2 DEF TotalRead, MonthRead, TodayRead, WeekRead, BalanceRead, BillRead, LeftAtMost, ShortForms, n, m
  <2>5. /\ TotalRead(r) <=> m <= 1
        /\ MonthRead(r) <=> m <= 0
        /\ ~TodayRead(r) /\ ~WeekRead(r) /\ ~BalanceRead(r) /\ ~BillRead(r)
    BY <1>2, <2>4 DEF TotalRead, MonthRead, TodayRead, WeekRead, BalanceRead, BillRead, LeftAtMost, m
  <2>6. n \in {1, 2} /\ m \in Int
    BY <2>2
  <2>7. /\ n = 2 <=> h = "total"
        /\ n = 1 <=> h = "month"
    BY <2>3, <2>6
  <2>8. h \in {"total", "month"}
    BY <2>6, <2>7
  <2>9. m = n - 1 /\ (r.left = <<>> <=> n = 1)
    BY <2>2, <2>6
  <2>10. h = "total" =>
           /\ ~TotalRead(p) /\ ~MonthRead(p) /\ ~TodayRead(p) /\ ~WeekRead(p) /\ ~BalanceRead(p) /\ ~BillRead(p)
           /\ TotalRead(r) /\ ~MonthRead(r) /\ ~TodayRead(r) /\ ~WeekRead(r) /\ ~BalanceRead(r) /\ ~BillRead(r)
           /\ r.left # <<>>
    BY <2>4, <2>5, <2>6, <2>7, <2>9
  <2>11. h = "month" =>
           /\ TotalRead(p) /\ ~MonthRead(p) /\ ~TodayRead(p) /\ ~WeekRead(p) /\ ~BalanceRead(p) /\ ~BillRead(p)
           /\ TotalRead(r) /\ MonthRead(r) /\ ~TodayRead(r) /\ ~WeekRead(r) /\ ~BalanceRead(r) /\ ~BillRead(r)
           /\ r.left = <<>>
    BY <2>4, <2>5, <2>6, <2>7, <2>9
  <2> QED BY <1>2, <2>2, <2>8, <2>9, <2>4, <2>10, <2>11, Zenon DEF n, h
<1> QED BY <1>1, <1>2 DEF PageShape, PageType, ShortForms

(* What a statement makes of the page.                                     *)
StatementReads(p, r) ==
    /\ r \in PageType /\ PageShape(r)
    /\ r.added = p.added /\ r.dropped = p.dropped /\ r.nights = p.nights
    /\ TotalRead(r) => r.total = IF TotalRead(p) THEN p.total ELSE SumOver(pageUsage, 0..MaxDay)
    /\ MonthRead(r) => r.month = IF MonthRead(p) THEN p.month ELSE SumOver(pageUsage, DaysUpTo(pageDay, Month))
    /\ TodayRead(r) => IF TodayRead(p) THEN r.today = p.today /\ r.since = p.since
                       ELSE r.today = pageUsage[pageDay] /\ r.since = pageDay
    /\ WeekRead(r) => IF WeekRead(p) THEN r.week = p.week
                      ELSE r.week = SumOver(pageUsage, DaysUpTo(pageDay, Week)) /\ TodayRead(p)
    /\ WeekRead(r) => TodayRead(r)
    /\ r.done => /\ TotalRead(r) /\ MonthRead(r)
                 /\ r.form = "user" => TodayRead(r) /\ WeekRead(r) /\ r.activity = pageNewest

(* What it makes of the balance and the estimate. *)
StatementBills(p, r) ==
    /\ BalanceRead(r) => IF BalanceRead(p) THEN r.bal = p.bal /\ r.charges = p.charges /\ (r.quiet = p.quiet)
                         ELSE r.bal = pageBalance /\ r.charges = 0
    /\ ~BalanceRead(r) => r.quiet = p.quiet /\ ~BalanceRead(p)
    /\ r.bill = IF BillRead(r) /\ ~BillRead(p) THEN pageDevices ELSE p.bill
    /\ IF r.done /\ r.form = "user" THEN r.est = Pages!estimateDaysRemaining(r.bal, r.bill)
       ELSE r.est = p.est

(* A statement reads the figure that comes next.                           *)
LEMMA StatementFields ==
    ASSUME FigInv, Pages!Statement
    PROVE  /\ StatementReads(pagePage, pagePage') /\ StatementBills(pagePage, pagePage')
           /\ pagePage.left # <<>>
           /\ UNCHANGED <<pageDay, pageUsage, pageNewest, pagePass, pageBalance, pageDevices, pageCharged, pageCharging,
                          pageChanges, pageFaults>>
<1> DEFINE p == pagePage
           r == pagePage'
           f == Head(p.left)
           q == Pages!Read(f)
<1>1. /\ p.left # <<>> /\ r = Pages!Done(q)
      /\ UNCHANGED <<pageDay, pageUsage, pageNewest, pagePass, pageBalance, pageDevices, pageCharged, pageCharging,
                     pageChanges, pageFaults>>
  BY DEF Pages!Statement, Pages!Making, Pages!traffic, Pages!money, Pages!bounds
<1>2. PageShape(p)
  BY FigPage
<1>3. f \in {"total", "month", "today", "week", "balance", "billable", "activity"}
  <2> DEFINE x == [form |-> p.form, left |-> Tail(p.left)]
  <2>1. x.form = p.form /\ x.left = Tail(p.left)
    OBVIOUS
  <2> HIDE DEF x
  <2> QED BY <1>1, <1>2, <2>1, ReadFlags
<1>4. /\ q \in PageType /\ q.left = p.left
      /\ f = "total" => q.total = SumOver(pageUsage, 0..MaxDay) /\ SameBut(q, p, {"total"})
      /\ f = "month" => q.month = SumOver(pageUsage, DaysUpTo(pageDay, Month)) /\ SameBut(q, p, {"month"})
      /\ f = "today" => q.today = pageUsage[pageDay] /\ q.since = pageDay /\ SameBut(q, p, {"today", "since"})
      /\ f = "week" => q.week = SumOver(pageUsage, DaysUpTo(pageDay, Week)) /\ SameBut(q, p, {"week"})
      /\ f = "balance" => /\ q.bal = pageBalance /\ q.quiet /\ q.charges = 0
                          /\ SameBut(q, p, {"bal", "quiet", "charges"})
      /\ f = "billable" => q.bill = pageDevices /\ SameBut(q, p, {"bill"})
      /\ f = "activity" => /\ q.activity = pageNewest /\ q.est = Pages!estimateDaysRemaining(p.bal, p.bill)
                           /\ SameBut(q, p, {"activity", "est"})
  <2> HIDE DEF f
  <2> QED BY <1>3, ReadFields
<1>5. r \in PageType /\ r.left = Tail(p.left) /\ r.done = (Len(p.left) = 1) /\ SameBut(r, q, {})
  <2> HIDE DEF q
  <2> QED BY <1>1, <1>4, DoneFields
<1> HIDE DEF q
<1>6. r.form = p.form
  BY <1>3, <1>4, <1>5 DEF SameBut
<1>7. /\ r.left \in UserLeft \/ p.form # "user"
      /\ r.left \in ShortLeft \/ p.form \notin ShortForms
      /\ p.form # "none" /\ (r.done <=> r.left = <<>>)
  BY <1>1, <1>2, <1>5, <1>6, ReadFlags
<1>8. /\ ~TodayRead(p) => p.today = 0
      /\ ~WeekRead(p) => p.week = 0
      /\ ~BillRead(p) => p.bill = 0
  BY <1>2 DEF PageShape
<1>9. p.form \in {"user"} \cup ShortForms /\ "user" \notin ShortForms
  BY <1>2, <1>7 DEF PageShape, PageType, ShortForms
<1>10. CASE f = "total"
  <2>1. /\ r.total = SumOver(pageUsage, 0..MaxDay)
        /\ r.form = p.form /\ r.month = p.month /\ r.today = p.today /\ r.week = p.week /\ r.bal = p.bal
        /\ r.bill = p.bill /\ r.activity = p.activity /\ r.est = p.est /\ r.since = p.since /\ r.nights = p.nights
        /\ r.added = p.added /\ r.dropped = p.dropped /\ r.charges = p.charges /\ r.quiet = p.quiet
    BY <1>4, <1>5, <1>10 DEF SameBut
  <2>2. /\ ~TotalRead(p) /\ ~MonthRead(p) /\ ~TodayRead(p) /\ ~WeekRead(p) /\ ~BalanceRead(p) /\ ~BillRead(p)
        /\ TotalRead(r) /\ ~MonthRead(r) /\ ~TodayRead(r) /\ ~WeekRead(r) /\ ~BalanceRead(r) /\ ~BillRead(r)
        /\ r.left # <<>>
    BY <1>1, <1>2, <1>5, <1>6, <1>10, ReadFlags
  <2>3. PageShape(r)
    BY <1>5, <1>6, <1>7, <1>8, <1>9, <2>1, <2>2 DEF PageShape
  <2>4. StatementReads(p, r)
    BY <1>5, <1>7, <1>9, <2>1, <2>2, <2>3 DEF StatementReads
  <2>5. StatementBills(p, r)
    BY <1>7, <1>9, <2>1, <2>2 DEF StatementBills
  <2> QED BY <1>1, <2>4, <2>5
<1>11. CASE f = "month"
  <2>1. /\ r.month = SumOver(pageUsage, DaysUpTo(pageDay, Month))
        /\ r.form = p.form /\ r.total = p.total /\ r.today = p.today /\ r.week = p.week /\ r.bal = p.bal
        /\ r.bill = p.bill /\ r.activity = p.activity /\ r.est = p.est /\ r.since = p.since /\ r.nights = p.nights
        /\ r.added = p.added /\ r.dropped = p.dropped /\ r.charges = p.charges /\ r.quiet = p.quiet
    BY <1>4, <1>5, <1>11 DEF SameBut
  <2>2. /\ TotalRead(p) /\ ~MonthRead(p) /\ ~TodayRead(p) /\ ~WeekRead(p) /\ ~BalanceRead(p) /\ ~BillRead(p)
        /\ TotalRead(r) /\ MonthRead(r) /\ ~TodayRead(r) /\ ~WeekRead(r) /\ ~BalanceRead(r) /\ ~BillRead(r)
        /\ (r.left = <<>> <=> p.form \in ShortForms)
    BY <1>1, <1>2, <1>5, <1>6, <1>11, ReadFlags
  <2>3. PageShape(r)
    BY <1>5, <1>6, <1>7, <1>8, <1>9, <2>1, <2>2 DEF PageShape
  <2>4. StatementReads(p, r)
    BY <1>5, <1>7, <1>9, <2>1, <2>2, <2>3 DEF StatementReads
  <2>5. StatementBills(p, r)
    BY <1>7, <1>9, <2>1, <2>2 DEF StatementBills
  <2> QED BY <1>1, <2>4, <2>5
<1>12. CASE f = "today"
  <2>1. /\ r.today = pageUsage[pageDay] /\ r.since = pageDay
        /\ r.form = p.form /\ r.total = p.total /\ r.month = p.month /\ r.week = p.week /\ r.bal = p.bal
        /\ r.bill = p.bill /\ r.activity = p.activity /\ r.est = p.est /\ r.nights = p.nights /\ r.added = p.added
        /\ r.dropped = p.dropped /\ r.charges = p.charges /\ r.quiet = p.quiet
    BY <1>4, <1>5, <1>12 DEF SameBut
  <2>2. /\ TotalRead(p) /\ MonthRead(p) /\ ~TodayRead(p) /\ ~WeekRead(p) /\ ~BalanceRead(p) /\ ~BillRead(p)
        /\ TotalRead(r) /\ MonthRead(r) /\ TodayRead(r) /\ ~WeekRead(r) /\ ~BalanceRead(r) /\ ~BillRead(r)
        /\ r.left # <<>> /\ p.form = "user"
    BY <1>1, <1>2, <1>5, <1>6, <1>12, ReadFlags
  <2>3. PageShape(r)
    BY <1>5, <1>6, <1>7, <1>8, <1>9, <2>1, <2>2 DEF PageShape
  <2>4. StatementReads(p, r)
    BY <1>5, <1>7, <1>9, <2>1, <2>2, <2>3 DEF StatementReads
  <2>5. StatementBills(p, r)
    BY <1>7, <1>9, <2>1, <2>2 DEF StatementBills
  <2> QED BY <1>1, <2>4, <2>5
<1>13. CASE f = "week"
  <2>1. /\ r.week = SumOver(pageUsage, DaysUpTo(pageDay, Week))
        /\ r.form = p.form /\ r.total = p.total /\ r.month = p.month /\ r.today = p.today /\ r.bal = p.bal
        /\ r.bill = p.bill /\ r.activity = p.activity /\ r.est = p.est /\ r.since = p.since /\ r.nights = p.nights
        /\ r.added = p.added /\ r.dropped = p.dropped /\ r.charges = p.charges /\ r.quiet = p.quiet
    BY <1>4, <1>5, <1>13 DEF SameBut
  <2>2. /\ TotalRead(p) /\ MonthRead(p) /\ TodayRead(p) /\ ~WeekRead(p) /\ ~BalanceRead(p) /\ ~BillRead(p)
        /\ TotalRead(r) /\ MonthRead(r) /\ TodayRead(r) /\ WeekRead(r) /\ ~BalanceRead(r) /\ ~BillRead(r)
        /\ r.left # <<>> /\ p.form = "user"
    BY <1>1, <1>2, <1>5, <1>6, <1>13, ReadFlags
  <2>3. PageShape(r)
    BY <1>5, <1>6, <1>7, <1>8, <1>9, <2>1, <2>2 DEF PageShape
  <2>4. StatementReads(p, r)
    BY <1>5, <1>7, <1>9, <2>1, <2>2, <2>3 DEF StatementReads
  <2>5. StatementBills(p, r)
    BY <1>7, <1>9, <2>1, <2>2 DEF StatementBills
  <2> QED BY <1>1, <2>4, <2>5
<1>14. CASE f = "balance"
  <2>1. /\ r.bal = pageBalance /\ r.quiet /\ r.charges = 0
        /\ r.form = p.form /\ r.total = p.total /\ r.month = p.month /\ r.today = p.today /\ r.week = p.week
        /\ r.bill = p.bill /\ r.activity = p.activity /\ r.est = p.est /\ r.since = p.since /\ r.nights = p.nights
        /\ r.added = p.added /\ r.dropped = p.dropped
    BY <1>4, <1>5, <1>14 DEF SameBut
  <2>2. /\ TotalRead(p) /\ MonthRead(p) /\ TodayRead(p) /\ WeekRead(p) /\ ~BalanceRead(p) /\ ~BillRead(p)
        /\ TotalRead(r) /\ MonthRead(r) /\ TodayRead(r) /\ WeekRead(r) /\ BalanceRead(r) /\ ~BillRead(r)
        /\ r.left # <<>> /\ p.form = "user"
    BY <1>1, <1>2, <1>5, <1>6, <1>14, ReadFlags
  <2>3. PageShape(r)
    BY <1>5, <1>6, <1>7, <1>8, <1>9, <2>1, <2>2 DEF PageShape
  <2>4. StatementReads(p, r)
    BY <1>5, <1>7, <1>9, <2>1, <2>2, <2>3 DEF StatementReads
  <2>5. StatementBills(p, r)
    BY <1>7, <1>9, <2>1, <2>2 DEF StatementBills
  <2> QED BY <1>1, <2>4, <2>5
<1>15. CASE f = "billable"
  <2>1. /\ r.bill = pageDevices
        /\ r.form = p.form /\ r.total = p.total /\ r.month = p.month /\ r.today = p.today /\ r.week = p.week
        /\ r.bal = p.bal /\ r.activity = p.activity /\ r.est = p.est /\ r.since = p.since /\ r.nights = p.nights
        /\ r.added = p.added /\ r.dropped = p.dropped /\ r.charges = p.charges /\ r.quiet = p.quiet
    BY <1>4, <1>5, <1>15 DEF SameBut
  <2>2. /\ TotalRead(p) /\ MonthRead(p) /\ TodayRead(p) /\ WeekRead(p) /\ BalanceRead(p) /\ ~BillRead(p)
        /\ TotalRead(r) /\ MonthRead(r) /\ TodayRead(r) /\ WeekRead(r) /\ BalanceRead(r) /\ BillRead(r)
        /\ r.left # <<>> /\ p.form = "user"
    BY <1>1, <1>2, <1>5, <1>6, <1>15, ReadFlags
  <2>3. PageShape(r)
    BY <1>5, <1>6, <1>7, <1>8, <1>9, <2>1, <2>2 DEF PageShape
  <2>4. StatementReads(p, r)
    BY <1>5, <1>7, <1>9, <2>1, <2>2, <2>3 DEF StatementReads
  <2>5. StatementBills(p, r)
    BY <1>7, <1>9, <2>1, <2>2 DEF StatementBills
  <2> QED BY <1>1, <2>4, <2>5
<1>16. CASE f = "activity"
  <2>1. /\ r.activity = pageNewest /\ r.est = Pages!estimateDaysRemaining(p.bal, p.bill)
        /\ r.form = p.form /\ r.total = p.total /\ r.month = p.month /\ r.today = p.today /\ r.week = p.week
        /\ r.bal = p.bal /\ r.bill = p.bill /\ r.since = p.since /\ r.nights = p.nights /\ r.added = p.added
        /\ r.dropped = p.dropped /\ r.charges = p.charges /\ r.quiet = p.quiet
    BY <1>4, <1>5, <1>16 DEF SameBut
  <2>2. /\ TotalRead(p) /\ MonthRead(p) /\ TodayRead(p) /\ WeekRead(p) /\ BalanceRead(p) /\ BillRead(p)
        /\ TotalRead(r) /\ MonthRead(r) /\ TodayRead(r) /\ WeekRead(r) /\ BalanceRead(r) /\ BillRead(r)
        /\ r.left = <<>> /\ p.form = "user"
    BY <1>1, <1>2, <1>5, <1>6, <1>16, ReadFlags
  <2>3. PageShape(r)
    BY <1>5, <1>6, <1>7, <1>8, <1>9, <2>1, <2>2 DEF PageShape
  <2>4. StatementReads(p, r)
    BY <1>5, <1>7, <1>9, <2>1, <2>2, <2>3 DEF StatementReads
  <2>5. StatementBills(p, r)
    BY <1>7, <1>9, <2>1, <2>2 DEF StatementBills
  <2> QED BY <1>1, <2>4, <2>5
<1> QED BY <1>3, <1>10, <1>11, <1>12, <1>13, <1>14, <1>15, <1>16

(* A statement keeps what the figures that were read before it promise.    *)
LEMMA StatementStep == FigInv /\ Pages!Statement => FigInv'
<1> SUFFICES ASSUME FigInv, Pages!Statement PROVE FigInv'
  OBVIOUS
<1> DEFINE p == pagePage
           r == pagePage'
<1>1. /\ StatementReads(p, r) /\ StatementBills(p, r) /\ p.left # <<>>
      /\ UNCHANGED <<pageDay, pageUsage, pageNewest, pagePass, pageBalance, pageDevices, pageCharged, pageCharging,
                     pageChanges, pageFaults>>
  BY StatementFields
<1>2. PageShape(r) /\ r \in PageType
  BY <1>1 DEF StatementReads
<1>3. FigTypes'
  BY <1>1 DEF FigInv, FigTypes
<1>4. pageDay \in 0..MaxDay /\ pageUsage \in [0..MaxDay -> 0..MaxAdded] /\ MaxDay \in Nat /\ MaxAdded \in Nat
  BY FigCounts, FigTraffic
<1>5. ~r.added /\ ~r.dropped /\ r.nights = 0 =>
         /\ TotalRead(r) => r.total = SumOver(pageUsage, 0..MaxDay)
         /\ MonthRead(r) => r.month = SumOver(pageUsage, DaysUpTo(pageDay, Month))
         /\ TodayRead(r) => r.today = pageUsage[pageDay]
         /\ WeekRead(r) => r.week = SumOver(pageUsage, DaysUpTo(pageDay, Week))
  BY <1>1 DEF FigInv, FiguresRead, StatementReads
<1>6. FiguresRead(r, pageDay', pageUsage')
  BY <1>1, <1>5 DEF FiguresRead
<1>7. Pages!PageIsConsistent'
  <2> SUFFICES ASSUME r.done, ~r.added, ~r.dropped, r.nights = 0
               PROVE  r.today <= r.week /\ r.week <= r.month /\ r.month <= r.total
    BY DEF Pages!PageIsConsistent
  <2>1. r.total = SumOver(pageUsage, 0..MaxDay) /\ r.month = SumOver(pageUsage, DaysUpTo(pageDay, Month))
    BY <1>1, <1>5 DEF StatementReads
  <2>2. CASE TodayRead(r) /\ WeekRead(r)
    BY <1>4, <1>5, <2>1, <2>2, Windows
  <2>3. CASE ~TodayRead(r) \/ ~WeekRead(r)
    <3>1. r.today = 0 /\ r.week = 0
      <4>1. ~WeekRead(r)
        BY <1>1, <2>3 DEF StatementReads
      <4>2. r.form # "user"
        BY <1>1, <4>1 DEF StatementReads
      <4> QED BY <1>2, <4>1, <4>2 DEF PageShape, TodayRead
    <3>2. /\ SumOver(pageUsage, DaysUpTo(pageDay, Month)) \in 0..MostAdded
          /\ SumOver(pageUsage, DaysUpTo(pageDay, Month)) <= SumOver(pageUsage, 0..MaxDay)
      BY <1>4, Windows
    <3> QED BY <2>1, <3>1, <3>2
  <2> QED BY <2>2, <2>3
<1>8. pageUsage[pageDay] \in Nat
  BY <1>4
<1>9. TodayRead(p) => /\ p.since \in 0..MaxDay /\ p.since <= pageDay /\ pageDay <= p.since + 1
                      /\ p.since < pageDay => p.nights = 1
                      /\ p.today <= pageUsage[p.since]
  BY <1>1, FigPage DEF FigInv, DayRead
<1>10. DayRead(r, pageDay', pageUsage')
  <2>1. r.left # <<>> /\ TodayRead(r) =>
           /\ r.since <= pageDay /\ pageDay <= r.since + 1
           /\ r.since < pageDay => r.nights = 1
           /\ r.today <= pageUsage[r.since]
    <3>1. pageDay <= pageDay /\ pageDay <= pageDay + 1 /\ ~(pageDay < pageDay)
          /\ pageUsage[pageDay] <= pageUsage[pageDay]
      BY <1>4, <1>8
    <3> QED BY <1>1, <1>9, <3>1 DEF StatementReads
  <2>2. WeekRead(r) => r.today <= r.week
    <3>1. CASE WeekRead(r) /\ WeekRead(p)
      <4>1. TodayRead(p) /\ p.today <= p.week
        <5>1. TodayRead(p)
          BY <3>1, FigPage, LeftOfPage DEF WeekRead, TodayRead
        <5> QED BY <3>1, <5>1 DEF FigInv, DayRead
      <4>2. TodayRead(r)
        BY <1>1, <3>1 DEF StatementReads
      <4> QED BY <1>1, <3>1, <4>1, <4>2 DEF StatementReads
    <3>2. CASE WeekRead(r) /\ ~WeekRead(p)
      <4>1. TodayRead(p) /\ TodayRead(r) /\ r.week = SumOver(pageUsage, DaysUpTo(pageDay, Week)) /\ r.today = p.today
        BY <1>1, <3>2 DEF StatementReads
      <4>2. pageUsage[p.since] <= SumOver(pageUsage, DaysUpTo(pageDay, Week)) /\ SumOver(pageUsage, DaysUpTo(pageDay, Week)) \in 0..MostAdded
        BY <1>4, <1>9, <4>1, Windows
      <4>3. p.today \in Nat /\ pageUsage[p.since] \in Nat
        BY <1>4, <1>9, <4>1, FigPage
      <4>4. MostAdded \in Nat
        BY FigBounds
      <4> QED BY <1>9, <4>1, <4>2, <4>3, <4>4
    <3> QED BY <3>1, <3>2
  <2> QED BY <1>1, <2>1, <2>2 DEF DayRead
<1>11. r.today > 0 => r.since <= pageNewest
  <2>1. pageUsage[pageDay] > 0 => pageNewest >= pageDay
    BY <1>4, FigTraffic
  <2>2. p.today > 0 => p.since <= pageNewest
    BY DEF FigInv, SnapshotsFirst
  <2>3. ~TodayRead(r) => ~(r.today > 0)
    <3>1. ~TodayRead(r) => r.today = 0
      BY <1>2 DEF PageShape
    <3> QED BY <3>1
  <2>4. pageNewest \in Int
    BY FigTraffic
  <2>5. TodayRead(r) => \/ r.today = p.today /\ r.since = p.since
                        \/ r.today = pageUsage[pageDay] /\ r.since = pageDay
    BY <1>1 DEF StatementReads
  <2> QED BY <1>4, <2>1, <2>2, <2>3, <2>4, <2>5
<1>12. SnapshotsFirst(r, pageUsage', pageNewest', pagePass')
  BY <1>1, <1>11 DEF FigInv, SnapshotsFirst
<1>13. Pages!ActivityCoversToday'
  <2> SUFFICES ASSUME r.done, r.today > 0, ~r.dropped PROVE r.activity >= r.since
    BY DEF Pages!ActivityCoversToday
  <2>1. TodayRead(r)
    BY <1>2 DEF PageShape
  <2>2. r.activity = pageNewest
    BY <1>1, <2>1 DEF StatementReads, TodayRead
  <2>3. pageNewest \in Int /\ r.since \in Int
    BY <1>2, FigTraffic DEF PageType
  <2> QED BY <1>11, <2>2, <2>3
<1>14. BalanceLasts(r, pageBalance', pageDevices', pageCharging')
  <2>1. pageCharging.pc = "charge" /\ ~pageCharging.old => pageCharging.count = pageDevices
    BY DEF FigInv, BalanceLasts
  <2>2. /\ p.est = -1
        /\ p.quiet => /\ pageBalance = p.bal - p.charges * pageDevices
                      /\ p.bill \in {0, pageDevices} /\ BalanceRead(p)
    BY <1>1 DEF FigInv, BalanceLasts
  <2>3. r.est # -1 => r.left = <<>> /\ r.bal > 0 /\ r.bill > 0 /\ r.est = (r.bal - 1) \div r.bill
    <3> SUFFICES ASSUME r.est # -1 PROVE r.left = <<>> /\ r.bal > 0 /\ r.bill > 0 /\ r.est = (r.bal - 1) \div r.bill
      OBVIOUS
    <3>1. r.done /\ r.form = "user" /\ r.est = Pages!estimateDaysRemaining(r.bal, r.bill)
      BY <1>1, <2>2 DEF StatementBills
    <3>2. r.left = <<>>
      BY <1>2, <3>1 DEF PageShape
    <3>3. r.bal \in Int /\ r.bill \in Nat
      BY <1>2, FigBounds DEF PageType
    <3> QED BY <3>1, <3>2, <3>3, FigBounds DEF Pages!estimateDaysRemaining
  <2>4. ~BalanceRead(p) => p.bill = 0
    <3>1. ~BalanceRead(p) => ~BillRead(p)
      BY FigPage, LeftOfPage DEF BalanceRead, BillRead
    <3> QED BY <3>1, FigPage DEF PageShape
  <2>5. r.quiet => /\ pageBalance = r.bal - r.charges * pageDevices
                   /\ r.bill \in {0, pageDevices} /\ BalanceRead(r)
    <3> SUFFICES ASSUME r.quiet
                 PROVE  /\ pageBalance = r.bal - r.charges * pageDevices
                        /\ r.bill \in {0, pageDevices} /\ BalanceRead(r)
      OBVIOUS
    <3>1. BalanceRead(r)
      BY <1>1, <2>2 DEF StatementBills
    <3>2. CASE BalanceRead(p)
      BY <1>1, <2>2, <3>1, <3>2 DEF StatementBills
    <3>3. CASE ~BalanceRead(p)
      <4>1. r.bal = pageBalance /\ r.charges = 0 /\ r.bill \in {0, pageDevices}
        BY <1>1, <2>4, <3>1, <3>3 DEF StatementBills
      <4>2. pageBalance \in Int /\ pageDevices \in Int
        BY FigCounts
      <4>3. \A b \in Int, d \in Int : b = b - 0 * d
        OBVIOUS
      <4> QED BY <3>1, <4>1, <4>2, <4>3
    <3> QED BY <3>2, <3>3
  <2> QED BY <1>1, <2>1, <2>3, <2>5 DEF BalanceLasts
<1> QED BY <1>2, <1>3, <1>6, <1>7, <1>10, <1>12, <1>13, <1>14 DEF FigInv

(* A page of which nothing is read. *)
FreshPage(p) ==
    /\ p \in PageType /\ PageShape(p) /\ ~p.done /\ ~p.quiet /\ p.est = -1 /\ p.today = 0
    /\ ~TotalRead(p) /\ ~MonthRead(p) /\ ~TodayRead(p) /\ ~WeekRead(p)

(* No page is one, and neither is one that was only asked for.             *)
LEMMA FreshPages ==
    /\ FreshPage(Pages!NoPage)
    /\ \A form \in Pages!Forms : FreshPage([Pages!NoPage EXCEPT !.form = form, !.left = Pages!Statements(form)])
<1> DEFINE N == [form |-> "none", left |-> <<>>, done |-> FALSE, total |-> 0, month |-> 0, today |-> 0, week |-> 0,
                 bal |-> 0, bill |-> 0, activity |-> -1, est |-> -1, since |-> 0, nights |-> 0, added |-> FALSE,
                 dropped |-> FALSE, charges |-> 0, quiet |-> FALSE]
<1>1. Pages!NoPage = N
  BY DEF Pages!NoPage, Pages!Never, Pages!NoDays
<1>2. /\ MaxDevices \in Nat /\ MaxDay \in Nat /\ MostAdded \in Nat
  BY FigBounds
<1>3. 0 \in 0..MostAdded /\ 0 \in 0..MaxDevices /\ 0 \in 0..MaxDay /\ -1 \in Int /\ <<>> \in UserLeft /\ 0 \in 0..1
  BY <1>2 DEF UserLeft
<1>4. N \in PageType
  <2> HIDE DEF UserLeft, ShortLeft, MostAdded
  <2> QED BY <1>3 DEF PageType
<1>5. FreshPage(N)
  BY <1>4 DEF FreshPage, PageShape, TotalRead, MonthRead, TodayRead, WeekRead, BillRead, LeftAtMost, ShortForms
<1>6. ASSUME NEW form \in Pages!Forms
      PROVE  FreshPage([N EXCEPT !.form = form, !.left = Pages!Statements(form)])
  <2> DEFINE s == Pages!Statements(form)
             r == [N EXCEPT !.form = form, !.left = s]
  <2>1. \/ /\ form = "user" /\ s \in UserLeft /\ Len(s) = 7
        \/ /\ form \in ShortForms /\ s \in ShortLeft /\ Len(s) = 2
    BY <1>6 DEF Pages!Forms, Pages!Statements, UserLeft, ShortLeft, ShortForms
  <2>2. \A f \in {"none", "user"} \cup ShortForms, l \in UserLeft \cup ShortLeft :
           [N EXCEPT !.form = f, !.left = l] \in PageType
    <3> HIDE DEF N
    <3> QED BY <1>4 DEF PageType
  <2>3. /\ r.form = form /\ r.left = s /\ ~r.done /\ ~r.quiet /\ r.est = -1 /\ r.today = 0 /\ r.week = 0
        /\ r.bill = 0
    OBVIOUS
  <2>4. r \in PageType
    <3> HIDE DEF s, N
    <3> QED BY <2>1, <2>2
  <2>5. s # <<>>
    <3>1. s = <<>> => Len(s) = 0
      <4> HIDE DEF s
      <4> QED OBVIOUS
    <3> HIDE DEF s
    <3> QED BY <2>1, <3>1, SMTT(30)
  <2>6. ~TotalRead(r) /\ ~MonthRead(r) /\ ~TodayRead(r) /\ ~WeekRead(r)
    <3>1. Len(r.left) = Len(s) /\ ~(7 <= 6) /\ ~(7 <= 5) /\ ~(7 <= 4) /\ ~(7 <= 3) /\ ~(2 <= 1) /\ ~(2 <= 0)
      BY <2>3
    <3> HIDE DEF s, r
    <3>2. CASE form = "user" /\ Len(s) = 7
      BY <2>3, <3>1, <3>2, Zenon DEF TotalRead, MonthRead, TodayRead, WeekRead, LeftAtMost, ShortForms
    <3>3. CASE form \in ShortForms /\ Len(s) = 2
      <4>1. form # "user"
        BY <3>3 DEF ShortForms
      <4> QED BY <2>3, <3>1, <3>3, <4>1, Zenon DEF TotalRead, MonthRead, TodayRead, WeekRead, LeftAtMost
    <3> QED BY <2>1, <3>2, <3>3
  <2>7. PageShape(r)
    <3> HIDE DEF s, r
    <3> QED BY <2>1, <2>3, <2>4, <2>5 DEF PageShape, ShortForms
  <2> HIDE DEF s, r
  <2>8. FreshPage(r)
    BY <2>3, <2>4, <2>6, <2>7 DEF FreshPage
  <2> QED BY <2>8 DEF r, s
<1> QED BY <1>1, <1>5, <1>6

(* A new page shows nothing yet. *)
LEMMA FreshParts ==
    ASSUME NEW p, FreshPage(p), NEW d, NEW u
    PROVE  FiguresRead(p, d, u) /\ DayRead(p, d, u)
  BY DEF FreshPage, FiguresRead, DayRead

(* A step to one. *)
LEMMA FreshStep ==
    ASSUME FigInv, FreshPage(pagePage'), pageFaults' \in 0..MaxFaults,
           UNCHANGED <<pageDay, pageUsage, pageNewest, pagePass, pageBalance, pageDevices, pageCharged, pageCharging,
                       pageChanges>>
    PROVE  FigInv'
<1>1. FigTypes'
  BY DEF FigInv, FigTypes
<1>2. FiguresRead(pagePage', pageDay', pageUsage') /\ DayRead(pagePage', pageDay', pageUsage')
  BY FreshParts
<1>3. SnapshotsFirst(pagePage', pageUsage', pageNewest', pagePass')
  BY DEF FigInv, SnapshotsFirst, FreshPage
<1>4. BalanceLasts(pagePage', pageBalance', pageDevices', pageCharging')
  BY DEF FigInv, BalanceLasts, FreshPage
<1>5. PageShape(pagePage') /\ Pages!PageIsConsistent' /\ Pages!ActivityCoversToday'
  BY DEF FreshPage, Pages!PageIsConsistent, Pages!ActivityCoversToday
<1> QED BY <1>1, <1>2, <1>3, <1>4, <1>5 DEF FigInv

(* A page is asked for.                                                    *)
LEMMA AskStep == FigInv /\ (\E form \in Pages!Forms : Pages!Ask(form)) => FigInv'
<1> SUFFICES ASSUME FigInv, NEW form \in Pages!Forms, Pages!Ask(form) PROVE FigInv'
  OBVIOUS
<1>1. /\ pagePage' = [Pages!NoPage EXCEPT !.form = form, !.left = Pages!Statements(form)]
      /\ UNCHANGED <<pageDay, pageUsage, pageNewest, pagePass, pageBalance, pageDevices, pageCharged, pageCharging,
                     pageChanges, pageFaults>>
  BY DEF Pages!Ask, Pages!traffic, Pages!money, Pages!bounds
<1>2. pageFaults' \in 0..MaxFaults
  BY <1>1, FigCounts
<1>3. FreshPage(pagePage')
  BY <1>1, FreshPages
<1> QED BY <1>1, <1>2, <1>3, FreshStep

(* A page goes on without what an error left out, or ends.                 *)
LEMMA FailsStep == FigInv /\ Pages!StatementFails => FigInv'
<1> SUFFICES ASSUME FigInv, Pages!StatementFails PROVE FigInv'
  OBVIOUS
<1> DEFINE p == pagePage
           r == pagePage'
           f == Head(p.left)
           D == [p EXCEPT !.dropped = TRUE]
           E == [p EXCEPT !.dropped = TRUE, !.est = Pages!estimateDaysRemaining(p.bal, p.bill)]
<1>1. /\ p.left # <<>>
      /\ pageFaults < MaxFaults /\ pageFaults' = pageFaults + 1
      /\ UNCHANGED <<pageDay, pageUsage, pageNewest, pagePass, pageBalance, pageDevices, pageCharged, pageCharging,
                     pageChanges>>
      /\ \/ (p.form = "bot" \/ f = "billable") /\ r = Pages!Done(D)
         \/ p.form # "bot" /\ f = "activity" /\ r = Pages!Done(E)
         \/ r = Pages!NoPage
  BY DEF Pages!StatementFails, Pages!Fault, Pages!Making, Pages!traffic, Pages!money
<1>2. pageFaults' \in 0..MaxFaults
  BY <1>1, FigCounts
<1>3. CASE r = Pages!NoPage
  BY <1>1, <1>2, <1>3, FreshPages, FreshStep
<1>4. p \in PageType /\ PageShape(p)
  BY FigPage
<1>5. D \in PageType /\ D.left = p.left /\ D.dropped /\ SameBut(D, p, {"dropped"})
  BY <1>4 DEF PageType, SameBut
<1>6. Pages!estimateDaysRemaining(p.bal, p.bill) \in Int
  BY FigPage, FigBounds, Quotient DEF Pages!estimateDaysRemaining
<1>7. /\ E \in PageType /\ E.left = p.left /\ E.dropped /\ SameBut(E, p, {"dropped", "est"})
      /\ E.est = Pages!estimateDaysRemaining(p.bal, p.bill)
  <2>1. \A b \in BOOLEAN, e \in Int : [p EXCEPT !.dropped = b, !.est = e] \in PageType
    BY <1>4 DEF PageType
  <2>2. E \in PageType
    <3> HIDE DEF PageType
    <3> QED BY <1>6, <2>1
  <2>3. E.left = p.left /\ E.dropped /\ E.est = Pages!estimateDaysRemaining(p.bal, p.bill)
    BY <1>4 DEF PageType
  <2>4. SameBut(E, p, {"dropped", "est"})
    BY <1>4 DEF PageType, SameBut
  <2> HIDE DEF E
  <2> QED BY <2>2, <2>3, <2>4
<1> HIDE DEF D, E
<1>8. ASSUME ~(r = Pages!NoPage) PROVE FigInv'
  <2>1. /\ r \in PageType /\ r.left = Tail(p.left) /\ r.done = (Len(p.left) = 1) /\ r.dropped
        /\ SameBut(r, p, {"dropped", "est"})
        /\ \/ r.est = p.est /\ (p.form = "bot" \/ f = "billable")
           \/ r.est = Pages!estimateDaysRemaining(p.bal, p.bill) /\ f = "activity"
    <3>1. CASE (p.form = "bot" \/ f = "billable") /\ r = Pages!Done(D)
      <4>1. /\ r \in PageType /\ r.left = Tail(p.left) /\ r.done = (Len(p.left) = 1) /\ SameBut(r, D, {})
        BY <1>1, <1>5, <3>1, DoneFields
      <4>2. r.dropped /\ SameBut(r, p, {"dropped", "est"}) /\ r.est = p.est
        BY <1>5, <4>1 DEF SameBut
      <4> QED BY <3>1, <4>1, <4>2
    <3>2. CASE p.form # "bot" /\ f = "activity" /\ r = Pages!Done(E)
      <4>1. /\ r \in PageType /\ r.left = Tail(p.left) /\ r.done = (Len(p.left) = 1) /\ SameBut(r, E, {})
        BY <1>1, <1>7, <3>2, DoneFields
      <4>2. /\ r.dropped /\ SameBut(r, p, {"dropped", "est"})
            /\ r.est = Pages!estimateDaysRemaining(p.bal, p.bill)
        BY <1>7, <4>1 DEF SameBut
      <4> QED BY <3>2, <4>1, <4>2
    <3> QED BY <1>1, <1>8, <3>1, <3>2
  <2>2. /\ r.form = p.form /\ r.total = p.total /\ r.month = p.month /\ r.today = p.today /\ r.week = p.week
        /\ r.bal = p.bal /\ r.bill = p.bill /\ r.since = p.since /\ r.nights = p.nights
        /\ r.charges = p.charges /\ r.quiet = p.quiet
    BY <2>1 DEF SameBut
  <2>3. /\ r.left \in UserLeft \/ p.form # "user"
        /\ r.left \in ShortLeft \/ p.form \notin ShortForms
        /\ p.form # "none" /\ (r.done <=> r.left = <<>>)
    BY <1>1, <1>4, <2>1, <2>2, ReadFlags
  <2>4. /\ p.form = "user" => /\ TodayRead(r) = TodayRead(p) /\ WeekRead(r) = WeekRead(p)
                              /\ BalanceRead(r) /\ BalanceRead(p) /\ BillRead(r)
        /\ f = "activity" => r.left = <<>>
        /\ p.form # "user" => /\ ~TodayRead(r) /\ ~WeekRead(r) /\ ~TodayRead(p) /\ ~WeekRead(p)
                              /\ ~BalanceRead(p) /\ ~BillRead(p)
    <3>1. f = "activity" => r.left = <<>>
      BY <1>1, <1>4, <2>1, <2>2, ReadFlags
    <3>2. p.form = "user" => f = "billable" \/ f = "activity"
      BY <2>1
    <3>3. f = "billable" \/ f = "activity" =>
             /\ TodayRead(r) /\ TodayRead(p) /\ WeekRead(r) /\ WeekRead(p)
             /\ BalanceRead(r) /\ BalanceRead(p) /\ BillRead(r)
      <4>1. f = "billable" => /\ TodayRead(p) /\ WeekRead(p) /\ BalanceRead(p)
                              /\ TodayRead(r) /\ WeekRead(r) /\ BalanceRead(r) /\ BillRead(r)
        BY <1>1, <1>4, <2>1, <2>2, ReadFlags, Zenon
      <4>2. f = "activity" => /\ TodayRead(p) /\ WeekRead(p) /\ BalanceRead(p)
                              /\ TodayRead(r) /\ WeekRead(r) /\ BalanceRead(r) /\ BillRead(r)
        BY <1>1, <1>4, <2>1, <2>2, ReadFlags, Zenon
      <4> QED BY <4>1, <4>2
    <3>4. p.form # "user" => /\ ~TodayRead(r) /\ ~WeekRead(r) /\ ~TodayRead(p) /\ ~WeekRead(p) /\ ~BillRead(p)
      BY <2>2 DEF TodayRead, WeekRead, BillRead
    <3>5. p.form # "user" => ~BalanceRead(p)
      BY DEF BalanceRead
    <3> QED BY <3>1, <3>2, <3>3, <3>4, <3>5
  <2>5. PageShape(r)
    <3>1. /\ ~TodayRead(p) => p.today = 0
          /\ ~WeekRead(p) => p.week = 0
          /\ ~BillRead(p) => p.bill = 0
      BY <1>4 DEF PageShape
    <3>2. ~TodayRead(r) => r.today = 0
      BY <2>2, <2>4, <3>1
    <3>3. ~WeekRead(r) => r.week = 0
      BY <2>2, <2>4, <3>1
    <3>4. ~BillRead(r) => r.bill = 0
      BY <2>2, <2>4, <3>1
    <3> QED BY <2>1, <2>2, <2>3, <3>2, <3>3, <3>4 DEF PageShape
  <2>6. FigTypes'
    BY <1>1, <1>2 DEF FigInv, FigTypes
  <2>7. FiguresRead(r, pageDay', pageUsage') /\ Pages!PageIsConsistent' /\ Pages!ActivityCoversToday'
    BY <2>1 DEF FiguresRead, Pages!PageIsConsistent, Pages!ActivityCoversToday
  <2>8. DayRead(r, pageDay', pageUsage')
    BY <1>1, <2>2, <2>4 DEF FigInv, DayRead
  <2>9. SnapshotsFirst(r, pageUsage', pageNewest', pagePass')
    BY <1>1, <2>2 DEF FigInv, SnapshotsFirst
  <2>10. BalanceLasts(r, pageBalance', pageDevices', pageCharging')
    <3>1. p.est = -1
      BY <1>1 DEF FigInv, BalanceLasts
    <3>2. r.est # -1 => r.left = <<>> /\ r.bal > 0 /\ r.bill > 0 /\ r.est = (r.bal - 1) \div r.bill
      <4> SUFFICES ASSUME r.est # -1 PROVE r.left = <<>> /\ r.bal > 0 /\ r.bill > 0 /\ r.est = (r.bal - 1) \div r.bill
        OBVIOUS
      <4>1. r.est = Pages!estimateDaysRemaining(p.bal, p.bill) /\ r.left = <<>>
        BY <2>1, <2>4, <3>1
      <4>2. p.bal \in Int /\ p.bill \in Nat
        BY FigPage, FigBounds
      <4>3. p.bal > 0 /\ p.bill > 0 /\ r.est = (p.bal - 1) \div p.bill
        BY <4>1, <4>2, FigBounds DEF Pages!estimateDaysRemaining
      <4> QED BY <2>2, <4>1, <4>3
    <3>3. /\ pageCharging.pc = "charge" /\ ~pageCharging.old => pageCharging.count = pageDevices
          /\ p.quiet => /\ pageBalance = p.bal - p.charges * pageDevices
                        /\ p.bill \in {0, pageDevices} /\ BalanceRead(p)
      BY DEF FigInv, BalanceLasts
    <3>4. r.quiet => BalanceRead(r)
      BY <2>2, <2>4, <3>3
    <3> QED BY <1>1, <2>2, <3>2, <3>3, <3>4 DEF BalanceLasts
  <2> QED BY <2>5, <2>6, <2>7, <2>8, <2>9, <2>10 DEF FigInv
<1> QED BY <1>3, <1>8

(* It holds in the beginning.                                              *)
LEMMA FigStarts == Pages!Init => FigInv
<1> SUFFICES ASSUME Pages!Init PROVE FigInv
  OBVIOUS
<1>1. /\ pageDay = 0 /\ pageUsage = [d \in 0..MaxDay |-> 0] /\ pageNewest = -1
      /\ pagePass = [pc |-> "idle", date |-> 0] /\ pageBalance \in Int /\ pageDevices \in 0..MaxDevices
      /\ pageCharged = -1 /\ pageCharging = [pc |-> "idle", count |-> 0, old |-> FALSE]
      /\ pagePage = Pages!NoPage /\ pageChanges = 0 /\ pageFaults = 0
  BY FigBounds DEF Pages!Init, Pages!NoPass, Pages!NoCharge
<1>2. /\ MaxDay \in Nat /\ MaxAdded \in Nat /\ MaxDevices \in Nat /\ MaxChanges \in Nat /\ MaxFaults \in Nat
  BY FigBounds
<1>3. FigTypes
  <2>1. pageUsage \in [0..MaxDay -> 0..MaxAdded]
    BY <1>1, <1>2
  <2>2. pageDay \in 0..MaxDay /\ pageChanges \in 0..MaxChanges /\ pageFaults \in 0..MaxFaults
    BY <1>1, <1>2
  <2>3. pageNewest \in Int /\ -1 <= pageNewest /\ pageNewest <= MaxDay
    BY <1>1, <1>2
  <2>4. pagePass \in [pc: {"idle", "snapshot", "add"}, date: 0..MaxDay]
    BY <1>1, <1>2
  <2>5. pageCharging \in [pc: {"idle", "charge"}, count: 0..MaxDevices, old: BOOLEAN]
    BY <1>1, <1>2
  <2> QED BY <1>1, <2>1, <2>2, <2>3, <2>4, <2>5 DEF FigTypes
<1>4. FreshPage(pagePage)
  BY <1>1, FreshPages
<1>5. FiguresRead(pagePage, pageDay, pageUsage) /\ DayRead(pagePage, pageDay, pageUsage)
  BY <1>4, FreshParts
<1>6. SnapshotsFirst(pagePage, pageUsage, pageNewest, pagePass)
  <2>1. \A d \in 0..MaxDay : ~(pageUsage[d] > 0)
    BY <1>1
  <2>2. pagePass.pc # "add" /\ ~(pagePage.today > 0)
    BY <1>1, <1>4 DEF FreshPage
  <2> QED BY <2>1, <2>2 DEF SnapshotsFirst
<1>7. BalanceLasts(pagePage, pageBalance, pageDevices, pageCharging)
  BY <1>1, <1>4 DEF BalanceLasts, FreshPage
<1>8. PageShape(pagePage) /\ Pages!PageIsConsistent /\ Pages!ActivityCoversToday
  BY <1>4 DEF FreshPage, Pages!PageIsConsistent, Pages!ActivityCoversToday
<1> QED BY <1>3, <1>5, <1>6, <1>7, <1>8 DEF FigInv

(* Every step keeps it.                                                    *)
LEMMA FigGoesOn == FigInv /\ [Pages!Next]_(Pages!vars) => FigInv'
<1>1. FigInv /\ UNCHANGED Pages!vars => FigInv'
  BY DEF Pages!vars, FigInv, FigTypes, Pages!PageIsConsistent, Pages!ActivityCoversToday
<1>2. FigInv /\ Pages!Next => FigInv'
  BY MidnightStep, TrafficSteps, MoneySteps, AskStep, StatementStep, FailsStep DEF Pages!Next
<1> QED BY <1>1, <1>2

(* The figures of a page do not contradict each other, as long as neither  *)
(* midnight nor traffic comes between its statements; the traffic of today *)
(* is always in that of the week, its activity not older, and the balance  *)
(* lasts for the estimated charges: Get of the users' statistics, and      *)
(* estimateDaysRemaining.                                                  *)
THEOREM FiguresFit == Pages!Spec => []FiguresAgree
<1>1. Pages!Init => FigInv
  BY FigStarts
<1>2. FigInv /\ [Pages!Next]_(Pages!vars) => FigInv'
  BY FigGoesOn
<1>3. FigInv => FiguresAgree
  BY FigSafe
<1> QED BY <1>1, <1>2, <1>3, PTL DEF Pages!Spec

--------------------------------------------------------------------------------
(***************************************************************************)
(* The texts that are sent: ConfigExport.  A config is stored with the     *)
(* settings of its day and sent with those of later, and what ties them is *)
(* what every stored config keeps: its device, an address one can dial, and*)
(* the MTU and the obfuscation of the settings it was made from.           *)
(***************************************************************************)

(* The MTU that settings give.                                             *)
MtuOf(m) == IF m.mtu <= 0 THEN 1376 ELSE m.mtu

(* What a config says that is stored for device d and was rendered from m. *)
WgStored(b, d, m) ==
    /\ b \in Export!Blob(Export!WgText)
    /\ b # Nil => /\ b.text # Nil /\ b.text.dev = d
                  /\ Export!CanBeDialled(b.text)
                  /\ b.text.mtu = MtuOf(m) /\ b.text.awg = m.awg

(* What a file for xray says.                                              *)
XrayStored(b) ==
    /\ b \in Export!Blob(Export!XrayText)
    /\ b # Nil => /\ b.text # Nil
                  /\ b.text.kind = "config" => Export!CanBeDialled(b.text.link)

(* The values the variables have.                                          *)
ExportTypes ==
    /\ exportEnv \in Settings /\ exportRow \in NodeRows
    /\ exportDev \in [Devices -> {"none", "active", "revoked"}]
    /\ exportWg \in [Devices -> Export!Blob(Export!WgText)]
    /\ exportXray \in [Devices -> Export!Blob(Export!XrayText)]
    /\ exportMade \in [Devices -> Settings]
    /\ exportStarts \in 0..MaxExportStarts

(* What is stored is that of an active device.                             *)
ConfigsStored ==
    \A d \in Devices : /\ WgStored(exportWg[d], d, exportMade[d]) /\ XrayStored(exportXray[d])
                       /\ exportWg[d] # Nil => exportDev[d] = "active"

(* What is so of what is stored, and of what was sent last.                *)
ExportInv ==
    ExportTypes /\ ConfigsStored /\ Export!KeyAgreesUntilSettingsChange /\ Export!LinkAgreesWithFile

(* What is assumed of the settings, the rows of the node and the texts.    *)
LEMMA ExportConstants ==
    /\ Settings \subseteq Export!Setting /\ NodeRows \subseteq Export!Row /\ MaxExportStarts \in Nat
    /\ Nil \notin Export!WgText /\ Nil \notin Export!XrayText
  BY PartsAssume, SMTT(30) DEF Export!SettingsAreTyped, Export!StartsAreNat, Export!NoTextIsNone

(* The fields of the settings and of the row.                              *)
LEMMA SettingFields ==
    ASSUME NEW m \in Settings
    PROVE  /\ m.host \in Export!Hosts /\ m.port \in Export!Ports /\ m.key \in Export!KeyIds
           /\ m.mtu \in 0..9000 /\ m.awg \in {"a1", "a2"}
           /\ m.xhost \in Export!Hosts /\ m.xport \in Export!Ports /\ m.xpub \in Export!PubIds
           /\ m.master \in {"m1", "m2"}
<1>1. m \in Export!Setting
  BY ExportConstants
<1> QED BY <1>1 DEF Export!Setting

(* Where the node is dialled, and its key, from the settings and its row.  *)
LEMMA Endpoint ==
    ASSUME exportEnv \in Settings, exportRow \in NodeRows
    PROVE  /\ Export!EndpointHost \in Export!Hosts /\ Export!EndpointPort \in Export!Ports
           /\ Export!ServerKey \in Export!KeyIds
           /\ Export!XrayHost \in Export!Hosts /\ Export!XrayPort \in Export!Ports
<1>1. /\ exportEnv.host \in Export!Hosts /\ exportEnv.port \in Export!Ports /\ exportEnv.key \in Export!KeyIds
      /\ exportEnv.xhost \in Export!Hosts /\ exportEnv.xport \in Export!Ports
  BY SettingFields
<1>2. exportRow.host \in Export!Hosts /\ exportRow.port \in Export!Ports /\ exportRow.key \in Export!KeyIds
  BY ExportConstants DEF Export!Row
<1>3. 51820 \in Export!Ports
  BY SMT DEF Export!Ports
<1>4. Export!EndpointHost \in Export!Hosts /\ Export!ServerKey \in Export!KeyIds
  BY <1>1, <1>2, Zenon DEF Export!EndpointHost, Export!ServerKey, Export!OrElse
<1>5. Export!EndpointPort \in Export!Ports
  <2>1. \/ Export!EndpointPort = exportRow.port \/ Export!EndpointPort = exportEnv.port
        \/ Export!EndpointPort = 51820
    BY SMT DEF Export!EndpointPort
  <2> QED BY <1>1, <1>2, <1>3, <2>1, SMT
<1>6. Export!XrayHost \in Export!Hosts /\ Export!XrayPort \in Export!Ports
  BY <1>1, <1>4, <1>5, Zenon DEF Export!XrayHost, Export!XrayPort, Export!OrElse, Export!OrInt
<1> QED BY <1>4, <1>5, <1>6, SMTT(30)

(* What is rendered may be stored.                                         *)
LEMMA RenderedWg ==
    ASSUME exportEnv \in Settings, exportRow \in NodeRows, NEW d \in Devices
    PROVE  WgStored(Export!Encrypt(Export!RenderAmneziaWG(d)), d, exportEnv)
<1> DEFINE t == Export!RenderAmneziaWG(d)
           r == [dev |-> d, key |-> Export!ServerKey, host |-> Export!EndpointHost, port |-> Export!EndpointPort,
                 mtu |-> MtuOf(exportEnv), awg |-> exportEnv.awg]
<1>1. exportEnv.mtu \in 0..9000 /\ exportEnv.awg \in {"a1", "a2"} /\ exportEnv.master \in {"m1", "m2"}
  BY SettingFields
<1>2. CASE t = Nil
  BY <1>2 DEF Export!Encrypt, WgStored, Export!Blob
<1>3. CASE t # Nil
  <2>1. /\ t = r
        /\ Export!CanBeDialled(r)
    <3>1. Export!CanBeDialled(r) <=> /\ Export!ValidateConfigEndpointHost(Export!EndpointHost)
                                     /\ Export!ValidateConfigEndpointPort(Export!EndpointPort)
      BY DEF Export!CanBeDialled, Export!ValidateConfigEndpointHost, Export!ValidateConfigEndpointPort
    <3>2. t = IF /\ Export!ValidateConfigEndpointHost(Export!EndpointHost)
                   /\ Export!ValidateConfigEndpointPort(Export!EndpointPort) /\ Export!ServerKey # ""
                THEN r ELSE Nil
      BY SMTT(30) DEF Export!RenderAmneziaWG, MtuOf
    <3> HIDE DEF t, r
    <3> QED BY <1>3, <3>1, <3>2, Zenon
  <2>2. MtuOf(exportEnv) \in 1..9000
    BY <1>1 DEF MtuOf
  <2>3. r \in Export!WgText
    BY <1>1, <2>2, Endpoint DEF Export!WgText
  <2>4. /\ r.dev = d /\ r.host = Export!EndpointHost /\ r.port = Export!EndpointPort
        /\ r.mtu = MtuOf(exportEnv) /\ r.awg = exportEnv.awg
    BY SMTT(30)
  <2> HIDE DEF r, t
  <2> DEFINE b == [master |-> exportEnv.master, text |-> r]
  <2>5. b.text = r /\ b \in [master: {"m1", "m2"}, text: Export!WgText]
    BY <1>1, <2>3
  <2>6. Export!Encrypt(t) = b
    BY <1>3, <2>1 DEF Export!Encrypt
  <2> HIDE DEF b
  <2> QED BY <1>3, <2>1, <2>4, <2>5, <2>6 DEF WgStored, Export!Blob, t
<1> QED BY <1>2, <1>3, SMTT(30)

(* So may the file for xray.                                               *)
LEMMA RenderedXray ==
    ASSUME exportEnv \in Settings, exportRow \in NodeRows, NEW d \in Devices
    PROVE  XrayStored(Export!Encrypt(Export!RenderXrayReality(d)))
<1> DEFINE t == Export!RenderXrayReality(d)
           l == [dev |-> d, host |-> Export!XrayHost, port |-> Export!XrayPort, pub |-> exportEnv.xpub]
           r == [kind |-> "config", dev |-> d, link |-> l]
<1>1. exportEnv.xpub \in Export!PubIds /\ exportEnv.master \in {"m1", "m2"}
  BY SettingFields
<1>2. CASE t = Nil
  BY <1>2 DEF Export!Encrypt, XrayStored, Export!Blob
<1>3. CASE t # Nil
  <2>1. /\ t = r /\ exportEnv.xpub \in {"x1", "x2"}
        /\ Export!CanBeDialled(l)
    <3>1. Export!CanBeDialled(l) <=> /\ Export!ValidateConfigEndpointHost(Export!XrayHost)
                                     /\ Export!ValidateConfigEndpointPort(Export!XrayPort)
      BY DEF Export!CanBeDialled, Export!ValidateConfigEndpointHost, Export!ValidateConfigEndpointPort
    <3>3. t = IF /\ Export!ValidateConfigEndpointHost(Export!XrayHost)
                   /\ Export!ValidateConfigEndpointPort(Export!XrayPort) /\ exportEnv.xpub # ""
                THEN r ELSE Nil
      BY DEF Export!RenderXrayReality, MtuOf
    <3>2. exportEnv.xpub # "" => exportEnv.xpub \in {"x1", "x2"}
      BY <1>1, Zenon DEF Export!PubIds
    <3> HIDE DEF t, r
    <3> QED BY <1>3, <3>1, <3>2, <3>3, Zenon
  <2>2. l \in Export!Link
    BY <1>1, <2>1, Endpoint DEF Export!Link
  <2>3. r.link = l /\ l.host = Export!XrayHost /\ l.port = Export!XrayPort
    OBVIOUS
  <2> HIDE DEF l
  <2>4. r \in Export!XrayText
    BY <2>2 DEF Export!XrayText
  <2> HIDE DEF r, t
  <2> DEFINE b == [master |-> exportEnv.master, text |-> r]
  <2>5. b.text = r /\ b \in [master: {"m1", "m2"}, text: Export!XrayText]
    BY <1>1, <2>4
  <2>6. Export!Encrypt(t) = b
    BY <1>3, <2>1 DEF Export!Encrypt
  <2> HIDE DEF b
  <2> QED BY <1>3, <2>1, <2>3, <2>5, <2>6 DEF XrayStored, Export!Blob, t
<1> QED BY <1>2, <1>3, SMTT(30)

(* What a request reads, and what it drops.                                *)
LEMMA CurrentConfigs ==
    ASSUME ExportInv, NEW d \in Export!Current
    PROVE  /\ d \in Devices /\ exportWg[d] # Nil /\ exportWg[d].text # Nil /\ exportWg[d].text.dev = d
           /\ exportWg[d].text.mtu = MtuOf(exportMade[d])
           /\ exportWg[d].text.awg = exportMade[d].awg
  BY DEF ExportInv, ConfigsStored, WgStored, Export!Current, Export!Active, Export!Decrypts

(* A request that drops stale configs keeps the rest.                      *)
LEMMA ClearKeeps ==
    ASSUME ExportInv, Export!ClearConfigBlob,
           UNCHANGED <<exportEnv, exportRow, exportDev, exportXray, exportMade, exportStarts>>
    PROVE  ExportTypes' /\ ConfigsStored'
<1>1. exportWg' = [d \in Devices |-> IF d \in Export!Stale THEN Nil ELSE exportWg[d]]
  BY DEF Export!ClearConfigBlob
<1>2. \A d \in Devices : exportWg'[d] = Nil \/ exportWg'[d] = exportWg[d]
  BY <1>1
<1>3. exportWg' \in [Devices -> Export!Blob(Export!WgText)]
  <2>1. \A d \in Devices : exportWg[d] \in Export!Blob(Export!WgText)
    BY DEF ExportInv, ExportTypes
  <2>2. Nil \in Export!Blob(Export!WgText)
    BY DEF Export!Blob
  <2> QED BY <1>1, <2>1, <2>2
<1>4. ExportTypes'
  BY <1>3 DEF ExportInv, ExportTypes
<1>5. \A d \in Devices : WgStored(Nil, d, exportMade[d])
  BY DEF WgStored, Export!Blob
<1>6. ConfigsStored'
  BY <1>2, <1>5 DEF ExportInv, ConfigsStored
<1> QED BY <1>4, <1>6

(* A message without a key and without a link.                             *)
LEMMA NothingAgrees ==
    ASSUME exportSent'.key = Nil, exportSent'.link = Nil
    PROVE  Export!KeyAgreesUntilSettingsChange' /\ Export!LinkAgreesWithFile'
  BY DEF Export!KeyAgreesUntilSettingsChange, Export!LinkAgreesWithFile

(* What is sent when there is nothing to send.                             *)
LEMMA SentNothing == Export!NothingSent.key = Nil /\ Export!NothingSent.link = Nil /\ Export!NothingSent.file = Nil
  BY DEF Export!NothingSent

(* What the link of the health check agrees with.                          *)
LEMMA HealthLinks ==
    ASSUME ExportInv, NEW taken \in BOOLEAN
    PROVE  LET h == Export!HealthLink(taken)
           IN  /\ h.key = Nil
               /\ h.link # Nil /\ h.file.kind = "config" => h.link = h.file.link
               /\ h # Export!NothingSent => h.file # Nil
<1> DEFINE ready == {d \in Export!Active : Export!Decrypts(exportXray[d])}
           t == exportXray[CHOOSE d \in ready : TRUE].text
           link == Export!exportXrayLink(t)
           h == [file |-> t, key |-> Nil, link |-> link, url |-> link = Nil]
<1>1. Export!HealthLink(taken) = IF ready = {} \/ ~taken THEN Export!NothingSent ELSE h
  BY DEF Export!HealthLink
<1>2. CASE ready = {} \/ ~taken
  BY <1>1, <1>2, SentNothing
<1>3. CASE ready # {} /\ taken
  <2>1. (CHOOSE d \in ready : TRUE) \in ready
    BY <1>3
  <2>2. t # Nil
    <3> DEFINE d == CHOOSE d \in ready : TRUE
    <3>1. d \in Devices /\ exportXray[d] # Nil
      BY <2>1 DEF Export!Active, Export!Decrypts
    <3> HIDE DEF d
    <3>2. exportXray[d].text # Nil
      BY <3>1 DEF ExportInv, ConfigsStored, XrayStored
    <3> QED BY <3>2 DEF d
  <2>3. t.kind = "config" => link = t.link
    BY DEF Export!exportXrayLink
  <2> HIDE DEF t, link, ready
  <2>4. h.key = Nil /\ h.link = link /\ h.file = t
    OBVIOUS
  <2> HIDE DEF h
  <2> QED BY <1>1, <1>3, <2>2, <2>3, <2>4
<1> QED BY <1>2, <1>3

(* The key is that of the text it was made from.                           *)
LEMMA KeyIsSent == ExportInv /\ Export!sendDefaultVPNKey => ExportInv'
<1> SUFFICES ASSUME ExportInv, Export!sendDefaultVPNKey PROVE ExportInv'
  OBVIOUS
<1> DEFINE d == CHOOSE d \in Export!Current : TRUE
           t == exportWg[d].text
           k == IF Export!Current = {} THEN Nil ELSE Export!ExportDefaultVPN(t)
<1>1. /\ exportSent' = [Export!NothingSent EXCEPT !.key = k]
      /\ Export!ClearConfigBlob
      /\ UNCHANGED <<exportEnv, exportRow, exportDev, exportXray, exportMade, exportStarts>>
  BY DEF Export!sendDefaultVPNKey
<1>2. ExportTypes' /\ ConfigsStored'
  BY <1>1, ClearKeeps
<1>3. exportSent'.key = k /\ exportSent'.link = Nil
  <2> HIDE DEF k
  <2> QED BY <1>1 DEF Export!NothingSent
<1>4. Export!LinkAgreesWithFile'
  BY <1>3 DEF Export!LinkAgreesWithFile
<1>5. Export!KeyAgreesUntilSettingsChange'
  <2> SUFFICES ASSUME k # Nil
               PROVE  /\ <<k.dev, k.key, k.host, k.port>> = <<k.text.dev, k.text.key, k.text.host, k.text.port>>
                      /\ exportMade'[k.text.dev] = exportEnv' => k.mtu = k.text.mtu /\ k.awg = k.text.awg
    BY <1>3 DEF Export!KeyAgreesUntilSettingsChange
  <2>1. d \in Export!Current
    <3>1. Export!Current # {}
      OBVIOUS
    <3> QED BY <3>1
  <2>2. /\ t.dev = d /\ t.mtu = MtuOf(exportMade[d])
        /\ t.awg = exportMade[d].awg
    <3> HIDE DEF d
    <3> QED BY <2>1, CurrentConfigs
  <2>3. k = Export!ExportDefaultVPN(t) /\ k # Nil
    OBVIOUS
  <2> HIDE DEF k, t, d
  <2>4. k = [dev |-> t.dev, key |-> t.key, host |-> t.host, port |-> t.port,
             mtu |-> MtuOf(exportEnv), awg |-> exportEnv.awg, text |-> t]
    BY <2>3 DEF Export!ExportDefaultVPN, Export!ParseWGConfig, MtuOf
  <2>5. /\ k.dev = t.dev /\ k.key = t.key /\ k.host = t.host /\ k.port = t.port /\ k.text = t
        /\ k.mtu = MtuOf(exportEnv) /\ k.awg = exportEnv.awg
    BY <2>4
  <2>6. exportMade' = exportMade /\ exportEnv' = exportEnv
    BY <1>1
  <2> QED BY <2>2, <2>5, <2>6
<1> QED BY <1>2, <1>4, <1>5 DEF ExportInv

(* A text alone comes with no key and no link.                             *)
LEMMA TextIsSent == ExportInv /\ Export!sendConfigText => ExportInv'
<1> SUFFICES ASSUME ExportInv, Export!sendConfigText PROVE ExportInv'
  OBVIOUS
<1>1. /\ exportSent'.key = Nil /\ exportSent'.link = Nil
      /\ Export!ClearConfigBlob
      /\ UNCHANGED <<exportEnv, exportRow, exportDev, exportXray, exportMade, exportStarts>>
  BY DEF Export!sendConfigText, Export!NothingSent
<1> QED BY <1>1, ClearKeeps, NothingAgrees DEF ExportInv

(* A link is that of its file.                                             *)
LEMMA HealthLinkIsSent == ExportInv /\ Export!trySendHealthLink => ExportInv'
<1> SUFFICES ASSUME ExportInv, NEW taken \in BOOLEAN, exportSent' = Export!HealthLink(taken),
                    UNCHANGED <<exportEnv, exportRow, exportDev, exportWg, exportXray, exportMade, exportStarts>>
             PROVE  ExportInv'
  BY DEF Export!trySendHealthLink
<1>1. ExportTypes' /\ ConfigsStored'
  BY DEF ExportInv, ExportTypes, ConfigsStored
<1>2. Export!KeyAgreesUntilSettingsChange' /\ Export!LinkAgreesWithFile'
  BY HealthLinks DEF Export!KeyAgreesUntilSettingsChange, Export!LinkAgreesWithFile
<1> QED BY <1>1, <1>2 DEF ExportInv

(* "Get config" gives a link, or the file there is.                        *)
LEMMA ConfigIsGot ==
    ExportInv /\ Export!handleGetConfig =>
        ExportInv' /\ (Export!Current # {} => exportSent'.file # Nil)
<1> SUFFICES ASSUME ExportInv, Export!handleGetConfig
             PROVE  ExportInv' /\ (Export!Current # {} => exportSent'.file # Nil)
  OBVIOUS
<1> DEFINE d == CHOOSE d \in Export!Current : TRUE
           F == [Export!NothingSent EXCEPT !.file = exportWg[d].text]
<1>1. /\ Export!ClearConfigBlob
      /\ UNCHANGED <<exportEnv, exportRow, exportDev, exportXray, exportMade, exportStarts>>
  BY DEF Export!handleGetConfig
<1>2. PICK taken \in BOOLEAN : exportSent' = IF Export!Current = {} THEN Export!NothingSent
                                             ELSE IF Export!HealthLink(taken) # Export!NothingSent
                                                  THEN Export!HealthLink(taken) ELSE F
  BY DEF Export!handleGetConfig
<1>3. ExportTypes' /\ ConfigsStored'
  BY <1>1, ClearKeeps
<1>4. F.key = Nil /\ F.link = Nil /\ F.file = exportWg[d].text
  <2> HIDE DEF d
  <2> QED BY DEF Export!NothingSent
<1>5. Export!Current # {} => F.file # Nil
  <2> SUFFICES ASSUME Export!Current # {} PROVE F.file # Nil
    OBVIOUS
  <2>1. d \in Export!Current
    OBVIOUS
  <2> HIDE DEF d, F
  <2> QED BY <1>4, <2>1, CurrentConfigs
<1> HIDE DEF F, d
<1>6. CASE exportSent' = Export!NothingSent /\ Export!Current = {}
  BY <1>3, <1>6, SentNothing, NothingAgrees DEF ExportInv
<1>7. CASE exportSent' = Export!HealthLink(taken) /\ Export!HealthLink(taken) # Export!NothingSent
  <2>1. /\ exportSent'.key = Nil /\ exportSent'.file # Nil
        /\ exportSent'.link # Nil /\ exportSent'.file.kind = "config" => exportSent'.link = exportSent'.file.link
    BY <1>7, HealthLinks
  <2> QED BY <1>3, <2>1 DEF ExportInv, Export!KeyAgreesUntilSettingsChange, Export!LinkAgreesWithFile
<1>8. CASE exportSent' = F
  BY <1>3, <1>4, <1>5, <1>8, NothingAgrees DEF ExportInv
<1> QED BY <1>2, <1>6, <1>7, <1>8

(* A new device is stored with what was rendered for it.                   *)
LEMMA ConfigsAreMade == ASSUME NEW d \in Devices PROVE ExportInv /\ Export!CreateDevice(d) => ExportInv'
<1> SUFFICES ASSUME ExportInv, Export!CreateDevice(d) PROVE ExportInv'
  OBVIOUS
<1> DEFINE b == Export!Encrypt(Export!RenderAmneziaWG(d))
           x == IF Export!RenderAmneziaWG(d) = Nil THEN Nil ELSE Export!Encrypt(Export!RenderXrayReality(d))
<1>1. /\ exportDev' = [exportDev EXCEPT ![d] = "active"] /\ exportWg' = [exportWg EXCEPT ![d] = b]
      /\ exportXray' = [exportXray EXCEPT ![d] = x] /\ exportMade' = [exportMade EXCEPT ![d] = exportEnv]
      /\ exportSent' = Export!NothingSent /\ UNCHANGED <<exportEnv, exportRow, exportStarts>>
  BY DEF Export!CreateDevice
<1>2. /\ exportEnv \in Settings /\ exportRow \in NodeRows
      /\ exportDev \in [Devices -> {"none", "active", "revoked"}]
      /\ exportWg \in [Devices -> Export!Blob(Export!WgText)]
      /\ exportXray \in [Devices -> Export!Blob(Export!XrayText)]
      /\ exportMade \in [Devices -> Settings]
      /\ exportStarts \in 0..MaxExportStarts
  BY DEF ExportInv, ExportTypes
<1>3. WgStored(b, d, exportEnv)
  BY <1>2, RenderedWg
<1>4. XrayStored(x)
  <2>1. XrayStored(Nil)
    BY DEF XrayStored, Export!Blob
  <2> QED BY <1>2, <2>1, RenderedXray
<1>5. b \in Export!Blob(Export!WgText) /\ x \in Export!Blob(Export!XrayText)
  BY <1>3, <1>4 DEF WgStored, XrayStored
<1> HIDE DEF b, x
<1>6. ExportTypes'
  BY <1>1, <1>2, <1>5 DEF ExportTypes
<1>7. ConfigsStored'
  BY <1>1, <1>2, <1>3, <1>4 DEF ExportInv, ConfigsStored
<1>8. Export!KeyAgreesUntilSettingsChange' /\ Export!LinkAgreesWithFile'
  BY <1>1, SentNothing, NothingAgrees
<1> QED BY <1>6, <1>7, <1>8 DEF ExportInv

(* A revoked one has neither config.                                       *)
LEMMA ConfigsAreDropped == ASSUME NEW d \in Devices PROVE ExportInv /\ Export!RevokeDevice(d) => ExportInv'
<1> SUFFICES ASSUME ExportInv, Export!RevokeDevice(d) PROVE ExportInv'
  OBVIOUS
<1>1. /\ exportDev' = [exportDev EXCEPT ![d] = "revoked"] /\ exportWg' = [exportWg EXCEPT ![d] = Nil]
      /\ exportXray' = [exportXray EXCEPT ![d] = Nil]
      /\ exportSent' = Export!NothingSent /\ UNCHANGED <<exportEnv, exportRow, exportMade, exportStarts>>
  BY DEF Export!RevokeDevice
<1>2. /\ exportDev \in [Devices -> {"none", "active", "revoked"}]
      /\ exportWg \in [Devices -> Export!Blob(Export!WgText)]
      /\ exportXray \in [Devices -> Export!Blob(Export!XrayText)]
  BY DEF ExportInv, ExportTypes
<1>3. WgStored(Nil, d, exportMade[d]) /\ XrayStored(Nil)
  BY DEF WgStored, XrayStored, Export!Blob
<1>4. Nil \in Export!Blob(Export!WgText) /\ Nil \in Export!Blob(Export!XrayText)
  BY DEF Export!Blob
<1>5. ExportTypes'
  BY <1>1, <1>2, <1>4 DEF ExportInv, ExportTypes
<1>6. ConfigsStored'
  BY <1>1, <1>2, <1>3 DEF ExportInv, ConfigsStored
<1>7. Export!KeyAgreesUntilSettingsChange' /\ Export!LinkAgreesWithFile'
  BY <1>1, SentNothing, NothingAgrees
<1> QED BY <1>5, <1>6, <1>7 DEF ExportInv

(* Settings or row change, and what is stored does not.                    *)
LEMMA SettingsChange == ExportInv /\ (Export!LoadConfig \/ Export!RegisterNode) => ExportInv'
<1> SUFFICES ASSUME ExportInv, Export!LoadConfig \/ Export!RegisterNode PROVE ExportInv'
  OBVIOUS
<1>1. /\ exportStarts < MaxExportStarts /\ exportStarts' = exportStarts + 1
      /\ exportEnv' \in Settings /\ exportRow' \in NodeRows
      /\ exportSent' = Export!NothingSent /\ UNCHANGED <<exportDev, exportWg, exportXray, exportMade>>
  BY DEF Export!LoadConfig, Export!RegisterNode, ExportInv, ExportTypes
<1>2. exportStarts' \in 0..MaxExportStarts
  BY <1>1, ExportConstants DEF ExportInv, ExportTypes
<1>3. ExportTypes' /\ ConfigsStored'
  BY <1>1, <1>2 DEF ExportInv, ExportTypes, ConfigsStored
<1>4. Export!KeyAgreesUntilSettingsChange' /\ Export!LinkAgreesWithFile'
  BY <1>1, SentNothing, NothingAgrees
<1> QED BY <1>3, <1>4 DEF ExportInv

(* Devices of before have at most an xray file, a uuid.                    *)
LEMMA ExportStarts == Export!Init => ExportInv
<1> SUFFICES ASSUME Export!Init PROVE ExportInv
  OBVIOUS
<1>1. /\ exportEnv \in Settings /\ exportRow \in NodeRows
      /\ exportWg = [d \in Devices |-> Nil] /\ exportSent = Export!NothingSent
      /\ exportMade = [d \in Devices |-> exportEnv] /\ exportStarts = 0
  BY DEF Export!Init
<1>2. PICK old \in SUBSET Devices :
         /\ exportDev = [d \in Devices |-> IF d \in old THEN "active" ELSE "none"]
         /\ exportXray = [d \in Devices |->
                IF d \in old THEN [master |-> exportEnv.master, text |-> [kind |-> "uuid", dev |-> d]]
                ELSE Nil]
  BY SMTT(30) DEF Export!Init
<1>3. exportEnv.master \in {"m1", "m2"}
  BY <1>1, SettingFields
<1>4. ASSUME NEW d \in Devices
      PROVE  XrayStored([master |-> exportEnv.master, text |-> [kind |-> "uuid", dev |-> d]])
  <2> DEFINE t == [kind |-> "uuid", dev |-> d]
             b == [master |-> exportEnv.master, text |-> t]
  <2>1. t \in Export!XrayText /\ t.kind # "config"
    BY DEF Export!XrayText
  <2>2. t # Nil
    <3> HIDE DEF t
    <3> QED BY <2>1, ExportConstants
  <2> HIDE DEF t
  <2>3. b \in [master: {"m1", "m2"}, text: Export!XrayText] /\ b.text = t
    BY <1>3, <2>1
  <2> HIDE DEF b
  <2>4. XrayStored(b)
    BY <2>1, <2>2, <2>3 DEF XrayStored, Export!Blob
  <2> QED BY <2>4 DEF b, t
<1>5. XrayStored(Nil) /\ \A d \in Devices : WgStored(Nil, d, exportMade[d])
  BY DEF WgStored, XrayStored, Export!Blob
<1>6. \A d \in Devices : exportXray[d] = Nil
                         \/ exportXray[d] = [master |-> exportEnv.master, text |-> [kind |-> "uuid", dev |-> d]]
  BY <1>2
<1>7. \A d \in Devices : XrayStored(exportXray[d])
  <2> HIDE <1>2
  <2> QED BY <1>4, <1>5, <1>6, Zenon
<1>8. ConfigsStored
  BY <1>1, <1>5, <1>7 DEF ConfigsStored
<1>9. ExportTypes
  <2>1. \A d \in Devices : exportXray[d] \in Export!Blob(Export!XrayText)
    BY <1>7 DEF XrayStored
  <2>2. exportXray \in [Devices -> Export!Blob(Export!XrayText)]
    <3>1. exportXray = [d \in Devices |-> exportXray[d]]
      BY <1>2, Zenon
    <3> QED BY <2>1, <3>1, Zenon
  <2>3. Nil \in Export!Blob(Export!WgText)
    BY DEF Export!Blob
  <2>4. exportDev \in [Devices -> {"none", "active", "revoked"}]
    BY <1>2
  <2>5. 0 \in 0..MaxExportStarts
    BY ExportConstants
  <2> QED BY <1>1, <2>2, <2>3, <2>4, <2>5 DEF ExportTypes
<1>10. Export!KeyAgreesUntilSettingsChange /\ Export!LinkAgreesWithFile
  BY <1>1, SentNothing DEF Export!KeyAgreesUntilSettingsChange, Export!LinkAgreesWithFile
<1> QED BY <1>8, <1>9, <1>10 DEF ExportInv

(* Every step keeps it.                                                    *)
LEMMA ExportGoesOn == ExportInv /\ [Export!Next]_(Export!vars) => ExportInv'
<1>1. ExportInv /\ UNCHANGED Export!vars => ExportInv'
  BY DEF Export!vars, ExportInv, ExportTypes, ConfigsStored, Export!KeyAgreesUntilSettingsChange,
         Export!LinkAgreesWithFile
<1>2. ExportInv /\ Export!Next => ExportInv'
  BY KeyIsSent, TextIsSent, HealthLinkIsSent, ConfigIsGot, ConfigsAreMade, ConfigsAreDropped, SettingsChange DEF Export!Next
<1> QED BY <1>1, <1>2

(* What the run checks of states follows.                                  *)
LEMMA ExportSafe == ExportInv => /\ Export!TypeOK /\ Export!StoredCanBeDialled
                                 /\ Export!KeyAgreesUntilSettingsChange /\ Export!LinkAgreesWithFile
<1> SUFFICES ASSUME ExportInv PROVE Export!TypeOK /\ Export!StoredCanBeDialled
  BY DEF ExportInv
<1>1. Export!TypeOK
  BY DEF ExportInv, ExportTypes, Export!TypeOK
<1>2. Export!StoredCanBeDialled
  BY DEF ExportInv, ConfigsStored, WgStored, XrayStored, Export!StoredCanBeDialled
<1> QED BY <1>1, <1>2

(* No request clears a config that it cannot read.                         *)
LEMMA UnreadableStays ==
    ASSUME ExportInv, [Export!Next]_(Export!vars), NEW d \in Devices,
           exportWg[d] # Nil, exportWg[d].master # exportEnv.master
    PROVE  exportWg'[d] = exportWg[d] \/ exportDev'[d] = "revoked"
<1>1. exportDev[d] = "active" /\ exportWg \in [Devices -> Export!Blob(Export!WgText)]
      /\ exportDev \in [Devices -> {"none", "active", "revoked"}]
  BY DEF ExportInv, ConfigsStored, ExportTypes
<1>2. Export!ClearConfigBlob => exportWg'[d] = exportWg[d]
  <2>1. d \notin Export!Stale
    BY DEF Export!Stale, Export!Decrypts
  <2> QED BY <2>1 DEF Export!ClearConfigBlob
<1>3. ASSUME NEW e \in Devices, Export!CreateDevice(e) PROVE exportWg'[d] = exportWg[d]
  <2>1. e # d /\ \E b : exportWg' = [exportWg EXCEPT ![e] = b]
    BY <1>1, <1>3 DEF Export!CreateDevice
  <2> QED BY <1>1, <2>1
<1>4. ASSUME NEW e \in Devices, Export!RevokeDevice(e)
      PROVE  exportWg'[d] = exportWg[d] \/ exportDev'[d] = "revoked"
  BY <1>1, <1>4 DEF Export!RevokeDevice
<1>5. UNCHANGED Export!vars \/ Export!trySendHealthLink \/ Export!LoadConfig \/ Export!RegisterNode => exportWg' = exportWg
  BY DEF Export!vars, Export!trySendHealthLink, Export!LoadConfig, Export!RegisterNode
<1>6. Export!sendDefaultVPNKey \/ Export!sendConfigText \/ Export!handleGetConfig => Export!ClearConfigBlob
  BY DEF Export!sendDefaultVPNKey, Export!sendConfigText, Export!handleGetConfig
<1> QED BY <1>2, <1>3, <1>4, <1>5, <1>6 DEF Export!Next

(* File, key and link tell of one tunnel that can be dialled, no request   *)
(* loses a config that another key would read, and "get config" comes back *)
(* with one that is there: the renderers of CreateDevice, the exporters of *)
(* the key and the link, and handleGetConfig, for any settings and rows    *)
(* and any restarts with others between any two of them.                   *)
THEOREM TextsFit == Export!Spec => TextsAgree
<1> DEFINE Safe == Export!TypeOK /\ Export!StoredCanBeDialled /\ Export!KeyAgreesUntilSettingsChange /\ Export!LinkAgreesWithFile
           Keep == \A d \in Devices : exportWg[d] # Nil /\ exportWg[d].master # exportEnv.master =>
                      exportWg'[d] = exportWg[d] \/ exportDev'[d] = "revoked"
           Give == Export!handleGetConfig /\ Export!Current # {} => exportSent'.file # Nil
<1>1. Export!Init => ExportInv
  BY ExportStarts
<1>2. ExportInv /\ [Export!Next]_(Export!vars) => ExportInv'
  BY ExportGoesOn
<1>3. ExportInv => Safe
  BY ExportSafe
<1>4. ExportInv /\ [Export!Next]_(Export!vars) => [Keep]_(Export!vars)
  BY UnreadableStays
<1>5. ExportInv /\ [Export!Next]_(Export!vars) => [Give]_(Export!vars)
  BY ConfigIsGot
<1>6. Export!Spec => []Safe /\ [][Keep]_(Export!vars) /\ [][Give]_(Export!vars)
  <2> HIDE DEF Safe, Keep, Give
  <2> QED BY <1>1, <1>2, <1>3, <1>4, <1>5, PTL DEF Export!Spec
<1>7. [][Keep]_(Export!vars) <=> Export!UnreadableIsKept
  BY DEF Export!UnreadableIsKept
<1>8. [][Give]_(Export!vars) <=> Export!GetConfigDelivers
  BY DEF Export!GetConfigDelivers
<1> HIDE DEF Keep, Give
<1> QED BY <1>6, <1>7, <1>8 DEF TextsAgree, Export!TextsAgree

================================================================================
