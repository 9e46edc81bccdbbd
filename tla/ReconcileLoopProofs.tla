-------------------------- MODULE ReconcileLoopProofs --------------------------
(***************************************************************************)
(* That a calm pass of ReconcileLoop leaves the runtime as desired, for any*)
(* keys and callers and whatever earlier passes, pushes, faults and        *)
(* restarts left behind.  The runtime below keeps what NodeRuntimeProofs   *)
(* shows; IInv adds what the pass has achieved so far, phase by phase.     *)
(***************************************************************************)
EXTENDS ReconcileLoop, NodeRuntimeProofs

(* What the containers are configured with, and what the pass has listed.  *)
Present == awg \cup xrayConf
ListedKeys == loop.known \cup loop.orphan

(* The loop's call is about to change the container for k.                 *)
Pending(k) == /\ call[Loop].pc \in {"exec", "xlock", "xread", "xwrite"}
              /\ call[Loop].req.key = k

(* The call the loop waits for, if any, is this action on one of these.    *)
LoopCalls(action, keys) ==
    ~Idle(Loop) => call[Loop].req.action = action /\ call[Loop].req.key \in keys

Working  == {"apply", "revoke", "orphans"}
Attached == Working \cup {"report"}

(* Fresh operation ids are never recorded, so no call of the loop is       *)
(* answered from the map of operations.                                    *)
FreshIsFresh == \A r \in operations : r.op # FreshOp

LoopWaits == loop.phase \notin Working => Idle(Loop)

(* Nothing but the loop has moved: what the pass knows is still so.        *)
Undisturbed ==
    /\ \A c \in Handlers : Idle(c)
    /\ loop.phase # "wait" /\ loop.want = desired
    /\ loop.phase = "attach" => loop.dump = awg

(* Nothing is there that was neither listed nor desired, and what was      *)
(* listed without an access id has none unless it is desired.              *)
NothingNew ==
    loop.phase \in Attached =>
        /\ Present \subseteq ListedKeys \cup loop.want
        /\ (loop.orphan \ loop.want) \cap peersByKey = {}

Applying ==
    loop.phase = "apply" =>
        /\ ListedKeys \subseteq Present
        /\ loop.todo \subseteq loop.want /\ LoopCalls("apply", loop.want)
        /\ \A k \in loop.want \ loop.todo : k \in Present \/ Pending(k)

Applied == loop.phase \in Attached \ {"apply"} => loop.want \subseteq Present

Revoking(phase, extra) ==
    loop.phase = phase =>
        /\ loop.todo \subseteq extra /\ LoopCalls("revoke", extra)
        /\ \A k \in extra \ loop.todo : k \notin Present \/ Pending(k)

Revoked ==
    /\ loop.phase \in {"orphans", "report"} => Extra \cap Present = {}
    /\ loop.phase = "report" => Strays \cap Present = {}

CalmPass ==
    /\ Undisturbed /\ NothingNew /\ Applying /\ Applied
    /\ Revoking("revoke", Extra) /\ Revoking("orphans", Strays) /\ Revoked

IInv ==
    /\ LoopTypeOK /\ OwnProtocol /\ XrayInv /\ FreshIsFresh /\ LoopWaits
    /\ calm => CalmPass

--------------------------------------------------------------------------------
(***************************************************************************)
(* The runtime below.                                                      *)
(***************************************************************************)
Below == TypeOK /\ OwnProtocol /\ XrayInv /\ FreshIsFresh

(* Every step is one of the runtime's, none of it, or a failing command of *)
(* the loop itself, which only counts as a fault there.                    *)
LEMMA RuntimeMoves ==
    ASSUME [LoopNext]_lvars
    PROVE  \/ [Next]_vars
           \/ Fault /\ UNCHANGED <<operations, peersByKey, awg, xrayConf, xrayRun,
                                   xrayMu, call, ran, restarts>>
<1>1. CASE LoopStep
  <2>1. ASSUME NEW k \in Keys, LoopApply(k) \/ LoopRevoke(k) PROVE Next
    <3>1. \E a \in {"apply", "revoke"} : Submit(Loop, LoopReq(a, k))
      BY <2>1 DEF LoopApply, LoopRevoke
    <3>2. \A a \in {"apply", "revoke"} : LoopReq(a, k) \in Requests
      BY DEF LoopReq, Requests, Keys
    <3>3. QED
      BY <3>1, <3>2, LoopIsCaller DEF Next
  <2>2. QED
    BY <1>1, <2>1 DEF LoopStep, LoopFetch, LoopDump, LoopAttach, LoopAdvance, LoopReport, LoopSkip
<1>2. CASE LoopDumpFails \/ LoopAttachFails
  BY <1>2 DEF LoopDumpFails, LoopAttachFails
<1>3. CASE CallStep \/ Disturbed \/ Crash
  <2>1. ASSUME CallStep PROVE Next
    BY <2>1 DEF CallStep, Next
  <2>2. ASSUME Disturbed PROVE Next
    BY <2>2 DEF Disturbed, Next
  <2>3. ASSUME Crash PROVE Next
    BY <2>3 DEF Crash, Next
  <2>4. QED
    BY <1>3, <2>1, <2>2, <2>3
<1>4. CASE \E c \in Handlers : Push(c)
  BY <1>4 DEF Push, Handlers, Next
<1>5. CASE \E k \in Keys : DesiredChanges(k)
  BY <1>5 DEF DesiredChanges
<1>6. CASE UNCHANGED lvars
  BY <1>6 DEF lvars
<1>7. QED
  BY <1>1, <1>2, <1>3, <1>4, <1>5, <1>6 DEF LoopNext

LEMMA FreshStep == FreshIsFresh /\ [Next]_vars => FreshIsFresh'
<1> SUFFICES ASSUME FreshIsFresh, [Next]_vars PROVE FreshIsFresh'
  OBVIOUS
<1>1. ASSUME NEW c \in Callers, NEW r \in Requests, Submit(c, r) PROVE FreshIsFresh'
  BY <1>1, FreshOpIsNew DEF Submit, AdmitWg, ReplayWg, AdmitXray, FreshIsFresh
<1>2. ASSUME NEW c \in Callers, Progress(c) \/ CommandFails(c) \/ Return(c) PROVE FreshIsFresh'
  BY <1>2 DEF Progress, AwgSet, RecordWg, LockXray, ReadXray, WriteXray, RestartXray,
      FinishXray, CommandFails, AwgSetFails, XrayFails, Return, FreshIsFresh
<1>3. CASE AgentRestart \/ Containers \/ UNCHANGED vars
  BY <1>3 DEF AgentRestart, Containers, AwgLost, XrayBounced, vars, FreshIsFresh
<1>4. QED
  BY <1>1, <1>2, <1>3 DEF Next

LEMMA BelowStep == ASSUME Below, [LoopNext]_lvars PROVE Below'
<1>1. CASE [Next]_vars
  BY <1>1, TypeStep, XrayStep, FreshStep DEF Below
<1>2. CASE Fault /\ UNCHANGED <<operations, peersByKey, awg, xrayConf, xrayRun,
                                xrayMu, call, ran, restarts>>
  <2>1. faults' \in 0..MaxFaults /\ faults' # 0
    BY <1>2, BoundsAreNat DEF Fault, Below, TypeOK
  <2>2. TypeOK'
    BY <1>2, <2>1 DEF Below, TypeOK
  <2>3. OwnProtocol' /\ FreshIsFresh'
    BY <1>2 DEF Below, OwnProtocol, FreshIsFresh
  <2>4. XrayInv'
    BY <1>2, <2>1 DEF Below, XrayInv, MutexHeld, FreshCopy, Settling, XraySettled
  <2>5. QED
    BY <2>2, <2>3, <2>4 DEF Below
<1>3. QED
  BY <1>1, <1>2, RuntimeMoves
--------------------------------------------------------------------------------
(***************************************************************************)
(* The types of the loop, and when it waits for a call.                    *)
(***************************************************************************)
LEMMA LoopTypeInit == LoopInit => LoopTypeOK
<1> SUFFICES ASSUME LoopInit PROVE LoopTypeOK
  OBVIOUS
<1>1. TypeOK
  BY TypeInit DEF LoopInit
<1>2. loop \in Pass /\ desired \subseteq Keys
  BY DEF LoopInit, NoPass, Pass, Phases
<1>3. calm \in BOOLEAN
  BY Zenon DEF LoopInit
<1>4. changes \in 0..MaxChanges /\ pushes \in 0..MaxPushes
  BY LoopBoundsAreNat DEF LoopInit
<1>5. QED
  BY <1>1, <1>2, <1>3, <1>4 DEF LoopTypeOK

LEMMA PassStep == ASSUME LoopTypeOK, [LoopNext]_lvars PROVE loop' \in Pass
<1> USE DEF LoopTypeOK, TypeOK, Pass, Phases, Keys
<1>0. NoPass \in Pass
  BY DEF NoPass
<1>1. CASE LoopFetch \/ LoopReport \/ Crash
  <2>1. CASE loop' = NoPass
    BY <1>0, <2>1
  <2>2. CASE LoopFetch
    BY <1>0, <2>2 DEF LoopFetch
  <2>3. QED
    BY <1>1, <2>1, <2>2 DEF LoopReport, Crash
<1>2. CASE LoopDump
  BY <1>2 DEF LoopDump
<1>3. CASE LoopAttach
  BY <1>3 DEF LoopAttach, Listed
<1>4. CASE LoopDumpFails
  BY <1>4 DEF LoopDumpFails
<1>5. CASE LoopAttachFails
  BY <1>5 DEF LoopAttachFails, Listed
<1>6. ASSUME NEW k \in Keys, LoopSkip(k) \/ LoopApply(k) \/ LoopRevoke(k) PROVE loop' \in Pass
  BY <1>6 DEF LoopSkip, LoopApply, LoopRevoke, Visit
<1>7. CASE LoopAdvance
  <2>1. Extra \subseteq Keys /\ Strays \subseteq Keys
    BY DEF Extra, Strays
  <2>2. CASE loop' = [loop EXCEPT !.phase = "revoke", !.todo = Extra]
    BY <2>1, <2>2
  <2>3. CASE loop' = [loop EXCEPT !.phase = "orphans", !.todo = Strays]
    BY <2>1, <2>3
  <2>4. CASE loop' = [loop EXCEPT !.phase = "report"]
    BY <2>4
  <2>5. QED
    BY <1>7, <2>2, <2>3, <2>4 DEF LoopAdvance
<1>8. CASE CallStep \/ Disturbed \/ (\E c \in Handlers : Push(c))
           \/ (\E k \in Keys : DesiredChanges(k)) \/ UNCHANGED lvars
  BY <1>8 DEF CallStep, Disturbed, Push, DesiredChanges, lvars
<1>9. QED
  BY <1>1, <1>2, <1>3, <1>4, <1>5, <1>6, <1>7, <1>8 DEF LoopNext, LoopStep

LEMMA LoopTypeStep == ASSUME LoopTypeOK, TypeOK', [LoopNext]_lvars PROVE LoopTypeOK'
<1>1. loop' \in Pass
  BY PassStep
<1>2. desired' \subseteq Keys
  BY DEF LoopTypeOK, LoopNext, LoopStep, LoopFetch, LoopDump, LoopAttach, LoopAdvance,
      LoopReport, LoopSkip, LoopApply, LoopRevoke, LoopDumpFails, LoopAttachFails, CallStep,
      Disturbed, Crash, Push, DesiredChanges, lvars
<1>3. /\ changes' = changes \/ (changes < MaxChanges /\ changes' = changes + 1)
      /\ pushes' = pushes \/ (pushes < MaxPushes /\ pushes' = pushes + 1)
  BY DEF LoopNext, LoopStep, LoopFetch, LoopDump, LoopAttach,
      LoopAdvance, LoopReport, LoopSkip, LoopApply, LoopRevoke, LoopDumpFails, LoopAttachFails,
      CallStep, Disturbed, Crash, Push, DesiredChanges, lvars
<1>4. calm' \in BOOLEAN
  BY Zenon DEF LoopTypeOK, LoopNext, LoopStep, LoopFetch, LoopDump, LoopAttach, LoopAdvance,
      LoopReport, LoopSkip, LoopApply, LoopRevoke, LoopDumpFails, LoopAttachFails, CallStep,
      Disturbed, Crash, Push, DesiredChanges, lvars
<1>5. changes' \in 0..MaxChanges /\ pushes' \in 0..MaxPushes
  BY <1>3, LoopBoundsAreNat DEF LoopTypeOK
<1>6. QED
  BY <1>1, <1>2, <1>4, <1>5 DEF LoopTypeOK

(* A caller's step moves no other caller, and an idle caller takes none.   *)
LEMMA OneCallerMoves ==
    ASSUME TypeOK, NEW c \in Callers, NEW d \in Callers, d # c,
           (\E r \in Requests : Submit(c, r)) \/ Progress(c) \/ CommandFails(c) \/ Return(c)
    PROVE  call'[d] = call[d]
BY DEF TypeOK, Submit, AdmitWg, ReplayWg, AdmitXray, Progress, AwgSet, RecordWg, LockXray,
       ReadXray, WriteXray, RestartXray, FinishXray, CommandFails, AwgSetFails, XrayFails,
       Return, Goto, Answer

LEMMA IdleCallerRests ==
    ASSUME NEW c \in Callers, Idle(c), Progress(c) \/ CommandFails(c) \/ Return(c)
    PROVE  FALSE
BY DEF Idle, Progress, AwgSet, RecordWg, LockXray, ReadXray, WriteXray, RestartXray,
       FinishXray, CommandFails, AwgSetFails, XrayFails, Return

LEMMA WaitsStep == ASSUME LoopTypeOK, LoopWaits, [LoopNext]_lvars PROVE LoopWaits'
<1> USE DEF LoopTypeOK
<1>1. CASE LoopFetch \/ LoopDump \/ LoopAttach \/ LoopReport
  BY <1>1 DEF LoopFetch, LoopDump, LoopAttach, LoopReport, Listed, LoopWaits, Working, Idle,
              NoPass, Pass, vars
<1>2. CASE LoopDumpFails \/ LoopAttachFails
  BY <1>2 DEF LoopDumpFails, LoopAttachFails, LoopWaits, Working, Idle
<1>3. CASE LoopAdvance
  BY <1>3 DEF LoopAdvance, LoopWaits, Idle, vars
<1>4. ASSUME NEW k \in Keys, LoopSkip(k) \/ LoopApply(k) \/ LoopRevoke(k) PROVE LoopWaits'
  BY <1>4 DEF LoopSkip, LoopApply, LoopRevoke, Visit, LoopWaits, Working, Pass
<1>5. CASE CallStep \/ Disturbed \/ \E c \in Handlers : Push(c)
  <2>1. loop' = loop
    BY <1>5 DEF CallStep, Disturbed, Push
  <2>2. CASE call' = call
    BY <2>1, <2>2 DEF LoopWaits, Idle
  <2>3. ASSUME NEW c \in Callers, c # Loop,
               (\E r \in Requests : Submit(c, r)) \/ Progress(c) \/ CommandFails(c) \/ Return(c)
        PROVE  LoopWaits'
    BY <2>1, <2>3, OneCallerMoves, LoopIsCaller DEF LoopWaits, Idle
  <2>4. ASSUME Progress(Loop) \/ CommandFails(Loop) \/ Return(Loop) PROVE LoopWaits'
    BY <2>1, <2>4, IdleCallerRests, LoopIsCaller DEF LoopWaits
  <2>5. ASSUME NEW c \in Handlers, Push(c) PROVE LoopWaits'
    BY <2>3, <2>5 DEF Push, Handlers
  <2>6. CASE CallStep
    BY <2>3, <2>4, <2>6 DEF CallStep
  <2>7. CASE Disturbed
    BY <2>2, <2>3, <2>4, <2>7 DEF Disturbed, Containers, AwgLost, XrayBounced
  <2>8. QED
    BY <1>5, <2>5, <2>6, <2>7
<1>6. CASE Crash
  BY <1>6, LoopIsCaller DEF Crash, AgentRestart, LoopWaits, Idle, IdleCall
<1>7. CASE (\E k \in Keys : DesiredChanges(k)) \/ UNCHANGED lvars
  BY <1>7 DEF DesiredChanges, lvars, vars, LoopWaits, Idle
<1>8. QED
  BY <1>1, <1>2, <1>3, <1>4, <1>5, <1>6, <1>7 DEF LoopNext, LoopStep
--------------------------------------------------------------------------------
(***************************************************************************)
(* A calm pass.                                                            *)
(***************************************************************************)
(* What a step of the loop's call does to the container: nothing, or what  *)
(* its request asks for.                                                   *)
LEMMA CallEffect ==
    ASSUME Below, Progress(Loop) \/ Return(Loop)
    PROVE  LET r == call[Loop].req IN
           /\ ~Idle(Loop)
           /\ Idle(Loop)' \/ call'[Loop].req = r
           /\ \/ Present' = Present /\ \A k : Pending(k)' <=> Pending(k)
              \/ Present' = After(r, Present)
           /\ peersByKey' = peersByKey \/ peersByKey' = After(r, peersByKey)
<1> DEFINE r == call[Loop].req
           P == {"exec", "xlock", "xread", "xwrite"}
<1> USE LoopIsCaller DEF Below, TypeOK
<1>1. CASE Return(Loop)
  <2>1. /\ call[Loop].pc = "done" /\ call'[Loop] = IdleCall
        /\ UNCHANGED <<awg, xrayConf, peersByKey>>
    BY <1>1 DEF Return
  <2>2. QED
    BY <2>1 DEF IdleCall, Idle, Present, Pending
<1>2. CASE AwgSet(Loop)
  <2>1. /\ call[Loop].pc = "exec" /\ awg' = After(r, awg) /\ call'[Loop].req = r
        /\ UNCHANGED <<xrayConf, peersByKey>>
    BY <1>2 DEF AwgSet, Goto
  <2>2. r.key \in WgKeys
    BY <2>1 DEF OwnProtocol, WgPcs
  <2>3. Present' = After(r, Present)
    BY <2>1, <2>2, KeysDisjoint DEF Present, After
  <2>4. QED
    BY <2>1, <2>3 DEF Idle
<1>3. CASE RecordWg(Loop) \/ FinishXray(Loop)
  <2>1. /\ call[Loop].pc \in {"record", "xdone"} /\ call'[Loop].pc = "done" /\ call'[Loop].req = r
        /\ peersByKey' = After(r, peersByKey)
        /\ UNCHANGED <<awg, xrayConf>>
    BY <1>3, AnswerShape DEF RecordWg, FinishXray, Replies
  <2>2. QED
    BY <2>1 DEF Idle, Present, Pending
<1>4. CASE LockXray(Loop)
  <2>1. /\ call[Loop].pc = "xlock" /\ call'[Loop].pc = "xread" /\ call'[Loop].req = r
        /\ UNCHANGED <<awg, xrayConf, peersByKey>>
    BY <1>4 DEF LockXray, Goto
  <2>2. QED
    BY <2>1 DEF Idle, Present, Pending
<1>5. CASE RestartXray(Loop)
  <2>1. /\ call[Loop].pc = "xrestart" /\ call'[Loop].pc = "xdone" /\ call'[Loop].req = r
        /\ UNCHANGED <<awg, xrayConf, peersByKey>>
    BY <1>5 DEF RestartXray, Goto
  <2>2. QED
    BY <2>1 DEF Idle, Present, Pending
<1>6. CASE ReadXray(Loop)
  <2>1. /\ call[Loop].pc = "xread" /\ call'[Loop].req = r
        /\ call'[Loop].pc = IF After(r, xrayConf) = xrayConf THEN "xdone" ELSE "xwrite"
        /\ UNCHANGED <<awg, xrayConf, peersByKey>>
    BY <1>6 DEF ReadXray
  <2>2. r.key \in XrayKeys
    BY <2>1 DEF OwnProtocol, XrayPcs
  <2>3. CASE After(r, xrayConf) = xrayConf
    <3>1. Present' = After(r, Present)
      BY <2>1, <2>2, <2>3, KeysDisjoint DEF Present, After
    <3>2. QED
      BY <2>1, <3>1 DEF Idle
  <2>4. CASE After(r, xrayConf) # xrayConf
    BY <2>1, <2>4 DEF Idle, Present, Pending
  <2>5. QED
    BY <2>3, <2>4
<1>7. CASE WriteXray(Loop)
  <2>1. /\ call[Loop].pc = "xwrite" /\ call'[Loop].req = r
        /\ xrayConf' = After(r, call[Loop].cfg)
        /\ UNCHANGED <<awg, peersByKey>>
    BY <1>7 DEF WriteXray, Goto
  <2>2. r.key \in XrayKeys /\ call[Loop].cfg = xrayConf
    BY <2>1 DEF OwnProtocol, XrayPcs, XrayInv, FreshCopy
  <2>3. Present' = After(r, Present)
    BY <2>1, <2>2, KeysDisjoint DEF Present, After
  <2>4. QED
    BY <2>1, <2>3 DEF Idle
<1>8. QED
  BY <1>1, <1>2, <1>3, <1>4, <1>5, <1>6, <1>7 DEF Progress

(* While nothing else moves, a step of a call is the loop's, and adds or   *)
(* removes only what the phase works on.                                   *)
LEMMA CalmCallStep ==
    ASSUME LoopTypeOK, Below, LoopWaits, CalmPass, CallStep PROVE CalmPass'
<1> DEFINE r == call[Loop].req
<1>1. /\ UNCHANGED <<desired, loop, calm>>
      /\ Progress(Loop) \/ Return(Loop)
  BY IdleCallerRests DEF CallStep, CalmPass, Undisturbed, Handlers
<1>2. /\ ~Idle(Loop)
      /\ Idle(Loop)' \/ call'[Loop].req = r
      /\ \/ Present' = Present /\ \A k : Pending(k)' <=> Pending(k)
         \/ Present' = After(r, Present)
      /\ peersByKey' = peersByKey \/ peersByKey' = After(r, peersByKey)
  BY <1>1, CallEffect
<1>3. /\ loop.phase \in Working
      /\ loop.phase = "apply" => r.action = "apply" /\ r.key \in loop.want
      /\ loop.phase = "revoke" => r.action = "revoke" /\ r.key \in Extra
      /\ loop.phase = "orphans" => r.action = "revoke" /\ r.key \in Strays
  BY <1>2 DEF LoopWaits, CalmPass, Applying, Revoking, LoopCalls
<1>4. UNCHANGED <<Extra, Strays, ListedKeys>>
  BY <1>1 DEF Extra, Strays, ListedKeys
<1>5. Undisturbed'
  <2>1. \A c \in Handlers : call'[c] = call[c]
    BY <1>1, OneCallerMoves, LoopIsCaller DEF Handlers, Below
  <2>2. QED
    BY <1>1, <1>3, <2>1 DEF Working, CalmPass, Undisturbed, Idle
<1>6. NothingNew'
  <2>1. CASE r.action = "apply"
    BY <1>1, <1>2, <1>3, <1>4, <2>1 DEF CalmPass, NothingNew, Attached, Working, After
  <2>2. CASE r.action = "revoke"
    BY <1>1, <1>2, <1>3, <1>4, <2>2 DEF CalmPass, NothingNew, Attached, Working, After
  <2>3. QED
    BY <1>3, <2>1, <2>2 DEF Working
<1>7. Applying'
  <2> SUFFICES ASSUME loop.phase = "apply" PROVE Applying'
    BY <1>1 DEF Applying
  <2>1. r.action = "apply" /\ r.key \in loop.want
    BY <1>3
  <2>2. Present \subseteq Present'
    BY <1>2, <2>1 DEF After
  <2>3. LoopCalls("apply", loop.want)'
    BY <1>1, <1>2, <2>1 DEF LoopCalls
  <2>4. ASSUME NEW k \in loop.want \ loop.todo PROVE k \in Present' \/ Pending(k)'
    BY <1>2, <2>1, <2>2 DEF CalmPass, Applying, Pending, After
  <2>5. QED
    BY <1>1, <1>4, <2>2, <2>3, <2>4 DEF CalmPass, Applying
<1>8. Applied'
  <2> SUFFICES ASSUME loop.phase \in Attached \ {"apply"} PROVE loop.want \subseteq Present'
    BY <1>1 DEF Applied
  <2>1. r.action = "revoke" /\ r.key \notin loop.want
    BY <1>3 DEF Working, Extra, Strays
  <2>2. QED
    BY <1>2, <2>1 DEF CalmPass, Applied, After
<1>9. ASSUME NEW phase \in {"revoke", "orphans"}, NEW extra, loop.phase = phase,
             r.action = "revoke" /\ r.key \in extra, Revoking(phase, extra)
      PROVE  /\ loop'.todo \subseteq extra /\ LoopCalls("revoke", extra)'
             /\ \A k \in extra \ loop'.todo : k \notin Present' \/ Pending(k)'
  <2>1. LoopCalls("revoke", extra)'
    BY <1>2, <1>9 DEF LoopCalls
  <2>2. ASSUME NEW k \in extra \ loop.todo PROVE k \notin Present' \/ Pending(k)'
    BY <1>2, <1>9 DEF Revoking, Pending, After
  <2>3. QED
    BY <1>1, <1>9, <2>1, <2>2 DEF Revoking
<1>10. Revoking("revoke", Extra)' /\ Revoking("orphans", Strays)'
  <2>1. CASE loop.phase = "revoke"
    BY <1>1, <1>3, <1>4, <1>9, <2>1 DEF CalmPass, Revoking, LoopCalls
  <2>2. CASE loop.phase = "orphans"
    BY <1>1, <1>3, <1>4, <1>9, <2>2 DEF CalmPass, Revoking, LoopCalls
  <2>3. CASE loop.phase \notin {"revoke", "orphans"}
    BY <1>1, <2>3 DEF Revoking
  <2>4. QED
    BY <2>1, <2>2, <2>3
<1>11. Revoked'
  <2> SUFFICES ASSUME loop.phase = "orphans" PROVE Extra \cap Present' = {}
    BY <1>1, <1>3, <1>4 DEF Revoked, Working
  <2>1. QED
    BY <1>2, <1>3 DEF CalmPass, Revoked, After
<1>12. QED
  BY <1>5, <1>6, <1>7, <1>8, <1>10, <1>11 DEF CalmPass

(* What the loop's own steps leave alone.                                  *)
LEMMA SameRuntime ==
    ASSUME UNCHANGED vars
    PROVE  /\ UNCHANGED <<Present, peersByKey, call, awg, xrayConf>>
           /\ \A c \in Callers : Idle(c)' <=> Idle(c)
           /\ \A k : Pending(k)' <=> Pending(k)
BY DEF vars, Present, Idle, Pending

LEMMA ListingStep ==
    ASSUME LoopTypeOK, Below, LoopWaits, calm => CalmPass, calm',
           LoopFetch \/ LoopDump \/ LoopAttach
    PROVE  CalmPass'
<1> USE DEF LoopTypeOK
<1>1. CASE LoopFetch
  <2>1. /\ loop'.phase = "list" /\ loop'.want = desired' /\ \A c \in Handlers : Idle(c)
        /\ call' = call
    BY <1>1 DEF LoopFetch, NoPass, vars
  <2>2. QED
    BY <2>1 DEF CalmPass, Undisturbed, Idle, NothingNew, Applying, Applied, Revoking, Revoked,
                Attached, Working
<1>2. CASE LoopDump
  <2>1. /\ loop'.phase = "attach" /\ loop'.want = loop.want /\ loop'.dump = awg' /\ calm
        /\ UNCHANGED <<call, desired>>
    BY <1>2 DEF LoopDump, vars, Pass
  <2>2. QED
    BY <2>1 DEF CalmPass, Undisturbed, Idle, NothingNew, Applying, Applied, Revoking, Revoked,
                Attached, Working
<1>3. CASE LoopAttach
  <2>1. /\ loop.phase = "attach" /\ calm /\ loop.dump = awg
        /\ UNCHANGED <<call, desired, peersByKey, awg, xrayConf>>
    BY <1>3 DEF LoopAttach, CalmPass, Undisturbed, vars
  <2>2. /\ loop'.phase = "apply" /\ loop'.want = loop.want /\ loop'.todo = loop.want
        /\ loop'.known = Present \cap peersByKey /\ loop'.orphan = Present \ peersByKey
    BY <1>3, <2>1 DEF LoopAttach, Listed, Pass, Present
  <2>3. Idle(Loop)
    BY <2>1 DEF LoopWaits, Working
  <2>4. Undisturbed'
    BY <2>1, <2>2 DEF CalmPass, Undisturbed, Idle
  <2>5. NothingNew' /\ Applying'
    BY <2>1, <2>2, <2>3 DEF NothingNew, Applying, LoopCalls, Idle, ListedKeys, Present
  <2>6. QED
    BY <2>2, <2>4, <2>5 DEF CalmPass, Applied, Revoking, Revoked
<1>4. QED
  BY <1>1, <1>2, <1>3

(* A request of the loop is admitted, never answered from the map.         *)
LEMMA SubmitEffect ==
    ASSUME Below, NEW action \in {"apply", "revoke"}, NEW k \in Keys,
           Submit(Loop, LoopReq(action, k))
    PROVE  /\ UNCHANGED <<Present, peersByKey, awg>>
           /\ \A c \in Handlers : Idle(c)' <=> Idle(c)
           /\ Idle(Loop) /\ ~Idle(Loop)'
           /\ call'[Loop].req.action = action /\ call'[Loop].req.key = k
           /\ \A j : Pending(j)' <=> j = k
<1> DEFINE r == LoopReq(action, k)
<1>1. r.op = FreshOp /\ r.action = action /\ r.key = k
  BY DEF LoopReq
<1> HIDE DEF r
<1>2. ~ReplayWg(Loop, r)
  BY <1>1 DEF ReplayWg, Recorded, Below, FreshIsFresh
<1>3. /\ Idle(Loop) /\ call'[Loop].pc \in {"exec", "xlock"} /\ call'[Loop].req = r
      /\ \A c \in Callers \ {Loop} : call'[c] = call[c]
      /\ UNCHANGED <<peersByKey, awg, xrayConf>>
  BY <1>2, LoopIsCaller DEF Submit, AdmitWg, AdmitXray, Below, TypeOK, Call, r
<1>4. QED
  BY <1>1, <1>3 DEF Idle, Pending, Present, Handlers

LEMMA VisitStep ==
    ASSUME LoopTypeOK, Below, CalmPass, NEW k \in Keys,
           LoopSkip(k) \/ LoopApply(k) \/ LoopRevoke(k)
    PROVE  CalmPass'
<1>1. /\ k \in loop.todo /\ desired' = desired
      /\ loop'.phase = loop.phase /\ loop'.want = loop.want /\ loop'.known = loop.known
      /\ loop'.orphan = loop.orphan /\ loop'.todo = loop.todo \ {k}
      /\ loop.phase \in Working
  BY DEF LoopSkip, LoopApply, LoopRevoke, Visit, LoopTypeOK, Pass, Working
<1>2. UNCHANGED <<Extra, Strays, ListedKeys>>
  BY <1>1 DEF Extra, Strays, ListedKeys
<1>3. /\ UNCHANGED <<Present, peersByKey, awg>>
      /\ \A c \in Handlers : Idle(c)' <=> Idle(c)
  <2>1. CASE LoopSkip(k)
    BY <2>1, SameRuntime DEF LoopSkip, Handlers
  <2>2. CASE LoopApply(k)
    BY <2>2, SubmitEffect DEF LoopApply
  <2>3. CASE LoopRevoke(k)
    BY <2>3, SubmitEffect DEF LoopRevoke
  <2>4. QED
    BY <2>1, <2>2, <2>3
<1>4. Undisturbed' /\ NothingNew' /\ Applied' /\ Revoked'
  BY <1>1, <1>2, <1>3 DEF CalmPass, Undisturbed, NothingNew, Applied, Revoked, Working
<1>5. CASE LoopSkip(k)
  <2>1. loop.phase = "apply" /\ k \in Present /\ Idle(Loop)' /\ \A j : Pending(j)' <=> Pending(j)
    BY <1>5, SameRuntime, LoopIsCaller
       DEF LoopSkip, IsNoop, CalmPass, Applying, ListedKeys
  <2>2. Applying'
    BY <1>1, <1>2, <1>3, <2>1 DEF CalmPass, Applying, LoopCalls
  <2>3. QED
    BY <1>1, <1>4, <2>1, <2>2 DEF CalmPass, Revoking
<1>6. CASE LoopApply(k)
  <2>1. /\ loop.phase = "apply" /\ Idle(Loop)
        /\ call'[Loop].req.action = "apply" /\ call'[Loop].req.key = k
        /\ \A j : Pending(j)' <=> j = k
    BY <1>6, SubmitEffect DEF LoopApply
  <2>2. \A j : ~Pending(j)
    BY <2>1 DEF Idle, Pending
  <2>3. Applying'
    BY <1>1, <1>2, <1>3, <2>1, <2>2 DEF CalmPass, Applying, LoopCalls
  <2>4. QED
    BY <1>1, <1>4, <2>1, <2>3 DEF CalmPass, Revoking
<1>7. CASE LoopRevoke(k)
  <2>1. /\ loop.phase \in {"revoke", "orphans"} /\ Idle(Loop)
        /\ call'[Loop].req.action = "revoke" /\ call'[Loop].req.key = k
        /\ \A j : Pending(j)' <=> j = k
    BY <1>7, SubmitEffect DEF LoopRevoke
  <2>2. \A j : ~Pending(j)
    BY <2>1 DEF Idle, Pending
  <2>3. Revoking("revoke", Extra)'
    BY <1>1, <1>2, <1>3, <2>1, <2>2 DEF CalmPass, Revoking, LoopCalls
  <2>4. Revoking("orphans", Strays)'
    BY <1>1, <1>2, <1>3, <2>1, <2>2 DEF CalmPass, Revoking, LoopCalls
  <2>5. Applying'
    BY <1>1, <2>1 DEF Applying
  <2>6. QED
    BY <1>4, <2>3, <2>4, <2>5 DEF CalmPass
<1>8. QED
  BY <1>5, <1>6, <1>7

(* A phase ends when all of it was visited and the last call is back.      *)
LEMMA AdvanceStep ==
    ASSUME LoopTypeOK, CalmPass, LoopAdvance PROVE CalmPass'
<1>1. /\ Idle(Loop) /\ loop.todo = {} /\ desired' = desired
      /\ UNCHANGED <<Present, peersByKey, awg>>
      /\ \A c \in Callers : Idle(c)' <=> Idle(c)
  BY SameRuntime DEF LoopAdvance
<1>2. /\ loop'.want = loop.want /\ loop'.known = loop.known /\ loop'.orphan = loop.orphan
      /\ \/ loop.phase = "apply" /\ loop'.phase = "revoke" /\ loop'.todo = Extra
         \/ loop.phase = "revoke" /\ loop'.phase = "orphans" /\ loop'.todo = Strays
         \/ loop.phase = "orphans" /\ loop'.phase = "report"
  BY DEF LoopAdvance, LoopTypeOK, Pass
<1>3. \A j : ~Pending(j)
  BY <1>1 DEF Idle, Pending
<1>4. UNCHANGED <<Extra, Strays, ListedKeys>>
  BY <1>2 DEF Extra, Strays, ListedKeys
<1>5. Undisturbed' /\ NothingNew'
  BY <1>1, <1>2, <1>4 DEF CalmPass, Undisturbed, NothingNew, Attached, Working, Handlers
<1>6. Applied'
  BY <1>1, <1>2, <1>3 DEF CalmPass, Applying, Applied, Attached, Working
<1>7. Idle(Loop)'
  BY <1>1, LoopIsCaller
<1>8. Applying' /\ Revoking("revoke", Extra)' /\ Revoking("orphans", Strays)'
  BY <1>2, <1>4, <1>7 DEF Applying, Revoking, LoopCalls
<1>9. Revoked'
  BY <1>1, <1>2, <1>3, <1>4 DEF CalmPass, Revoking, Revoked
<1>10. QED
  BY <1>5, <1>6, <1>8, <1>9 DEF CalmPass
--------------------------------------------------------------------------------
LEMMA StartsWell == LoopInit => IInv
<1> SUFFICES ASSUME LoopInit PROVE IInv
  OBVIOUS
<1>1. LoopTypeOK
  BY LoopTypeInit
<1>2. OwnProtocol /\ XrayInv
  BY TypeInit, XrayInit DEF LoopInit
<1>3. FreshIsFresh /\ LoopWaits
  BY LoopIsCaller DEF LoopInit, Init, IdleCall, Idle, FreshIsFresh, LoopWaits
<1>4. ~calm
  BY Zenon DEF LoopInit
<1>5. QED
  BY <1>1, <1>2, <1>3, <1>4 DEF IInv

LEMMA StepKeepsIInv == IInv /\ [LoopNext]_lvars => IInv'
<1> SUFFICES ASSUME IInv, [LoopNext]_lvars PROVE IInv'
  OBVIOUS
<1>1. LoopTypeOK /\ Below /\ LoopWaits /\ (calm => CalmPass)
  BY DEF IInv, Below, LoopTypeOK
<1>2. Below' /\ LoopTypeOK' /\ LoopWaits'
  BY <1>1, BelowStep, LoopTypeStep, WaitsStep DEF Below
<1>3. ASSUME calm' PROVE CalmPass'
  <2>1. CASE LoopFetch \/ LoopDump \/ LoopAttach
    BY <1>1, <1>3, <2>1, ListingStep
  <2>2. ASSUME NEW k \in Keys, LoopSkip(k) \/ LoopApply(k) \/ LoopRevoke(k) PROVE CalmPass'
    <3>1. calm
      BY <1>3, <2>2 DEF LoopSkip, LoopApply, LoopRevoke
    <3>2. QED
      BY <1>1, <2>2, <3>1, VisitStep
  <2>3. CASE LoopAdvance
    <3>1. calm
      BY <1>3, <2>3 DEF LoopAdvance
    <3>2. QED
      BY <1>1, <2>3, <3>1, AdvanceStep
  <2>4. CASE CallStep
    <3>1. calm
      BY <1>3, <2>4 DEF CallStep
    <3>2. QED
      BY <1>1, <2>4, <3>1, CalmCallStep
  <2>5. CASE LoopReport \/ LoopDumpFails \/ LoopAttachFails \/ Disturbed \/ Crash
             \/ (\E c \in Handlers : Push(c)) \/ (\E k \in Keys : DesiredChanges(k))
    <3>1. calm' = FALSE
      BY <2>5 DEF LoopReport, LoopDumpFails, LoopAttachFails, Disturbed, Crash, Push,
                  DesiredChanges
    <3>2. QED
      BY <1>3, <3>1
  <2>6. CASE UNCHANGED lvars
    <3>1. UNCHANGED <<vars, desired, loop, calm>>
      BY <2>6 DEF lvars
    <3>2. UNCHANGED <<Extra, Strays, ListedKeys>>
      BY <3>1 DEF Extra, Strays, ListedKeys
    <3>3. QED
      BY <1>1, <1>3, <3>1, <3>2, SameRuntime, LoopIsCaller
         DEF CalmPass, Undisturbed, NothingNew, Applying, Applied, Revoking, Revoked, LoopCalls,
             Handlers
  <2>7. QED
    BY <2>1, <2>2, <2>3, <2>4, <2>5, <2>6 DEF LoopNext, LoopStep
<1>4. QED
  BY <1>2, <1>3 DEF IInv, Below

(***************************************************************************)
(* Every variable of the loop keeps its type.                              *)
(***************************************************************************)
THEOREM LoopTypeCorrect == LoopSpec => []LoopTypeOK
<1>1. LoopSpec => []IInv
  BY StartsWell, StepKeepsIInv, PTL DEF LoopSpec
<1>2. IInv => LoopTypeOK
  BY DEF IInv
<1>3. QED
  BY <1>1, <1>2, PTL

(***************************************************************************)
(* One undisturbed pass is enough: from whatever is on the interface, in   *)
(* the file and in the agent's map, it leaves the WireGuard peers exactly  *)
(* as desired, every desired Xray client in the file, and no undesired one *)
(* that the agent knows the access of.                                     *)
(***************************************************************************)
THEOREM OnePassIsEnough == LoopSpec => []OnePassConverges
<1>1. LoopSpec => []IInv
  BY StartsWell, StepKeepsIInv, PTL DEF LoopSpec
<1>2. IInv => OnePassConverges
  <2> SUFFICES ASSUME IInv, calm, loop.phase = "report" PROVE OnePassConverges
    BY DEF OnePassConverges
  <2>1. CalmPass
    BY DEF IInv
  <2>2. /\ Present \subseteq ListedKeys \cup desired /\ (loop.orphan \ desired) \cap peersByKey = {}
        /\ desired \subseteq Present
        /\ Extra \cap Present = {} /\ Strays \cap Present = {}
        /\ loop.want = desired
    BY <2>1 DEF CalmPass, Undisturbed, NothingNew, Applied, Revoked, Attached, Working
  <2>3. awg \subseteq WgKeys /\ xrayConf \subseteq XrayKeys
    BY DEF IInv, LoopTypeOK, TypeOK
  <2>4. awg = desired \cap WgKeys
    BY <2>2, <2>3, KeysDisjoint DEF Present, ListedKeys, Extra, Strays
  <2>5. desired \cap XrayKeys \subseteq xrayConf
    BY <2>2, <2>3, KeysDisjoint DEF Present
  <2>6. xrayConf \cap peersByKey \subseteq desired
    BY <2>2, <2>3, KeysDisjoint DEF Present, ListedKeys, Extra
  <2>7. QED
    BY <2>4, <2>5, <2>6 DEF OnePassConverges
<1>3. QED
  BY <1>1, <1>2, PTL

================================================================================
