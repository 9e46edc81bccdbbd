--------------------------- MODULE NodeRuntimeProofs ---------------------------
(***************************************************************************)
(* Proofs about NodeRuntime, for any set of keys, operation ids and        *)
(* callers and any bound on faults and restarts.                           *)
(***************************************************************************)
EXTENDS MCNodeRuntime, Sequences, FiniteSetTheorems, TLAPS

(* A call inside the runtime works on a request of its own protocol. *)
OwnProtocol ==
    \A c \in Callers :
        /\ call[c].pc \in WgPcs   => call[c].req \in Requests /\ call[c].req.key \in WgKeys
        /\ call[c].pc \in XrayPcs => call[c].req \in Requests /\ call[c].req.key \in XrayKeys

(* xrayMu is held by the caller inside its critical section, if any. *)
MutexHeld == \A c \in Callers : call[c].pc \in Locked <=> xrayMu = c

(* The clients a writer has read are still those of the file. *)
FreshCopy == \A c \in Callers : call[c].pc = "xwrite" => call[c].cfg = xrayConf

(* Every operation id that was run is recorded. *)
RanRecorded == \A o \in OpIds : ran[o] # "no" => Recorded(o)

(* What is missing of XraySettled while a caller is inside. *)
MapBehind(c) == After(call[c].req, peersByKey \cap XrayKeys) = xrayConf
Settling ==
    faults = 0 /\ restarts = 0 =>
        /\ \A c \in Callers :
              /\ call[c].pc \in {"xread", "xwrite"} =>
                    xrayRun = xrayConf /\ peersByKey \cap XrayKeys = xrayConf
              /\ call[c].pc = "xrestart" => MapBehind(c)
              /\ call[c].pc = "xdone" => MapBehind(c) /\ xrayRun = xrayConf
        /\ XraySettled
--------------------------------------------------------------------------------
(* A request is asked of one key; After stays within any set that holds    *)
(* the key and the set changed.                                            *)
LEMMA RequestShape ==
    ASSUME NEW r \in Requests
    PROVE  /\ r.op \in OpIds \cup {FreshOp}
           /\ r.action \in {"apply", "revoke"}
           /\ r.key \in Keys
  BY DEF Requests, Keys

LEMMA AfterSubset ==
    ASSUME NEW r, NEW S, NEW T, S \subseteq T, r.key \in T
    PROVE  After(r, S) \subseteq T
  BY DEF After

LEMMA AnswerShape ==
    ASSUME call \in [Callers -> Call], NEW c \in Callers, NEW reply \in Replies,
           Answer(c, reply)
    PROVE  /\ call' \in [Callers -> Call]
           /\ call'[c].pc = "done"
           /\ call'[c].reply = reply
           /\ call'[c].req = call[c].req
           /\ \A d \in Callers \ {c} : call'[d] = call[d]
  <1> DEFINE b == [pc |-> "done", req |-> call[c].req, cfg |-> {}, reply |-> reply]
  <1>1. b \in Call
    BY DEF Call
  <1>2. call'[c] = b
    BY DEF Answer, Call
  <1>3. \A d \in Callers \ {c} : call'[d] = call[d]
    BY DEF Answer
  <1>4. call' = [d \in Callers |-> call'[d]]
    BY DEF Answer
  <1> QED BY <1>1, <1>2, <1>3, <1>4

(* Every variable has its type in every reachable state, whatever the      *)
(* interleaving of the calls.  OwnProtocol is what makes it inductive: the *)
(* awg commands never see an Xray client, nor the other way round.         *)
LEMMA TypeInit == Init => TypeOK /\ OwnProtocol
  <1> SUFFICES ASSUME Init PROVE TypeOK /\ OwnProtocol
    OBVIOUS
  <1> USE DEF Init
  <1>1. call \in [Callers -> Call]
    BY DEF IdleCall, Call, Replies
  <1>2. TypeOK
    BY <1>1, BoundsAreNat DEF TypeOK
  <1>3. OwnProtocol
    BY DEF OwnProtocol, IdleCall, WgPcs, XrayPcs
  <1> QED BY <1>2, <1>3

LEMMA TypeStep == TypeOK /\ OwnProtocol /\ [Next]_vars => TypeOK' /\ OwnProtocol'
  <1> SUFFICES ASSUME TypeOK, OwnProtocol, [Next]_vars
               PROVE  TypeOK' /\ OwnProtocol'
    OBVIOUS
  <1> USE DEF TypeOK
  <1>1. ASSUME NEW c \in Callers, NEW r \in Requests, AdmitWg(c, r)
        PROVE  TypeOK' /\ OwnProtocol'
    <2> DEFINE b == [call[c] EXCEPT !.pc = "exec", !.req = r]
    <2>1. call' \in [Callers -> Call]
      <3>1. call' = [call EXCEPT ![c] = b]
        BY <1>1 DEF AdmitWg
      <3>2. b \in Call
        BY <1>1 DEF Call, WgPcs
      <3> QED BY <3>1, <3>2
    <2>2. TypeOK'
      BY <1>1, <2>1 DEF AdmitWg
    <2>3. OwnProtocol'
      BY <1>1 DEF AdmitWg, OwnProtocol, WgPcs, XrayPcs
    <2> QED BY <2>2, <2>3
  <1>2. ASSUME NEW c \in Callers, NEW r \in Requests, ReplayWg(c, r)
        PROVE  TypeOK' /\ OwnProtocol'
    <2> DEFINE reply == IF r \in operations THEN "idempotent" ELSE "conflict"
               b == [call[c] EXCEPT !.pc = "done", !.req = r, !.reply = reply]
    <2>1. call' \in [Callers -> Call]
      <3>1. call' = [call EXCEPT ![c] = b]
        BY <1>2 DEF ReplayWg
      <3>2. b \in Call
        BY <1>2 DEF Call, Replies
      <3> QED BY <3>1, <3>2
    <2>2. TypeOK'
      BY <1>2, <2>1 DEF ReplayWg
    <2>3. OwnProtocol'
      BY <1>2 DEF ReplayWg, OwnProtocol, WgPcs, XrayPcs
    <2> QED BY <2>2, <2>3
  <1>3. ASSUME NEW c \in Callers, NEW r \in Requests, AdmitXray(c, r)
        PROVE  TypeOK' /\ OwnProtocol'
    <2> DEFINE b == [call[c] EXCEPT !.pc = "xlock", !.req = r]
    <2>1. call' \in [Callers -> Call]
      <3>1. call' = [call EXCEPT ![c] = b]
        BY <1>3 DEF AdmitXray
      <3>2. b \in Call
        BY <1>3 DEF Call, XrayPcs
      <3> QED BY <3>1, <3>2
    <2>2. TypeOK'
      BY <1>3, <2>1 DEF AdmitXray
    <2>3. OwnProtocol'
      BY <1>3 DEF AdmitXray, OwnProtocol, WgPcs, XrayPcs
    <2> QED BY <2>2, <2>3
  <1>4. ASSUME NEW c \in Callers, AwgSet(c)
        PROVE  TypeOK' /\ OwnProtocol'
    <2>1. call[c].req.key \in WgKeys
      BY <1>4 DEF AwgSet, OwnProtocol, WgPcs
    <2>2. After(call[c].req, awg) \subseteq WgKeys
      BY <2>1, AfterSubset
    <2>3. call' \in [Callers -> Call]
      BY <1>4 DEF AwgSet, Goto, Call, WgPcs
    <2>4. ran' \in [OpIds -> {"no", "ok", "failed"}]
      BY <1>4 DEF AwgSet
    <2>5. TypeOK'
      BY <1>4, <2>2, <2>3, <2>4 DEF AwgSet
    <2>6. OwnProtocol'
      BY <1>4 DEF AwgSet, Goto, OwnProtocol, WgPcs, XrayPcs
    <2> QED BY <2>5, <2>6
  <1>5. ASSUME NEW c \in Callers, AwgSetFails(c)
        PROVE  TypeOK' /\ OwnProtocol'
    <2>1. call[c].req.key \in WgKeys
      BY <1>5 DEF AwgSetFails, OwnProtocol, WgPcs
    <2>2. After(call[c].req, awg) \subseteq WgKeys
      BY <2>1, AfterSubset
    <2>3. call' \in [Callers -> Call]
      BY <1>5, AnswerShape DEF AwgSetFails, Replies
    <2>4. ran' \in [OpIds -> {"no", "ok", "failed"}]
      BY <1>5 DEF AwgSetFails
    <2>5. TypeOK'
      BY <1>5, <2>2, <2>3, <2>4, BoundsAreNat DEF AwgSetFails, Fault
    <2>6. OwnProtocol'
      BY <1>5 DEF AwgSetFails, Answer, OwnProtocol, WgPcs, XrayPcs
    <2> QED BY <2>5, <2>6
  <1>6. ASSUME NEW c \in Callers, RecordWg(c)
        PROVE  TypeOK' /\ OwnProtocol'
    <2>1. call[c].req.key \in Keys
      BY <1>6 DEF RecordWg, OwnProtocol, WgPcs, Keys
    <2>2. After(call[c].req, peersByKey) \subseteq Keys
      BY <2>1, AfterSubset
    <2>3. call' \in [Callers -> Call]
      BY <1>6, AnswerShape DEF RecordWg, Replies
    <2>4. TypeOK'
      BY <1>6, <2>2, <2>3 DEF RecordWg
    <2>5. OwnProtocol'
      BY <1>6 DEF RecordWg, Answer, OwnProtocol, WgPcs, XrayPcs
    <2> QED BY <2>4, <2>5
  <1>7. ASSUME NEW c \in Callers, LockXray(c)
        PROVE  TypeOK' /\ OwnProtocol'
    <2>1. call' \in [Callers -> Call]
      BY <1>7 DEF LockXray, Goto, Call, XrayPcs
    <2>2. TypeOK'
      BY <1>7, <2>1 DEF LockXray
    <2>3. OwnProtocol'
      BY <1>7 DEF LockXray, Goto, OwnProtocol, WgPcs, XrayPcs
    <2> QED BY <2>2, <2>3
  <1>8. ASSUME NEW c \in Callers, ReadXray(c)
        PROVE  TypeOK' /\ OwnProtocol'
    <2>1. call' \in [Callers -> Call]
      BY <1>8 DEF ReadXray, Call, XrayPcs
    <2>2. TypeOK'
      BY <1>8, <2>1 DEF ReadXray
    <2>3. OwnProtocol'
      BY <1>8 DEF ReadXray, OwnProtocol, WgPcs, XrayPcs
    <2> QED BY <2>2, <2>3
  <1>9. ASSUME NEW c \in Callers, WriteXray(c)
        PROVE  TypeOK' /\ OwnProtocol'
    <2>1. call[c].req.key \in XrayKeys /\ call[c].cfg \subseteq XrayKeys
      BY <1>9 DEF WriteXray, OwnProtocol, XrayPcs, Call
    <2>2. After(call[c].req, call[c].cfg) \subseteq XrayKeys
      BY <2>1, AfterSubset
    <2>3. call' \in [Callers -> Call]
      BY <1>9 DEF WriteXray, Goto, Call, XrayPcs
    <2>4. TypeOK'
      BY <1>9, <2>2, <2>3 DEF WriteXray
    <2>5. OwnProtocol'
      BY <1>9 DEF WriteXray, Goto, OwnProtocol, WgPcs, XrayPcs
    <2> QED BY <2>4, <2>5
  <1>10. ASSUME NEW c \in Callers, RestartXray(c)
         PROVE  TypeOK' /\ OwnProtocol'
    <2>1. call' \in [Callers -> Call]
      BY <1>10 DEF RestartXray, Goto, Call, XrayPcs
    <2>2. TypeOK'
      BY <1>10, <2>1 DEF RestartXray
    <2>3. OwnProtocol'
      BY <1>10 DEF RestartXray, Goto, OwnProtocol, WgPcs, XrayPcs
    <2> QED BY <2>2, <2>3
  <1>11. ASSUME NEW c \in Callers, FinishXray(c)
         PROVE  TypeOK' /\ OwnProtocol'
    <2>1. call[c].req.key \in Keys
      BY <1>11 DEF FinishXray, OwnProtocol, XrayPcs, Keys
    <2>2. After(call[c].req, peersByKey) \subseteq Keys
      BY <2>1, AfterSubset
    <2>3. call' \in [Callers -> Call]
      BY <1>11, AnswerShape DEF FinishXray, Replies
    <2>4. TypeOK'
      BY <1>11, <2>2, <2>3 DEF FinishXray
    <2>5. OwnProtocol'
      BY <1>11 DEF FinishXray, Answer, OwnProtocol, WgPcs, XrayPcs
    <2> QED BY <2>4, <2>5
  <1>12. ASSUME NEW c \in Callers, XrayFails(c)
         PROVE  TypeOK' /\ OwnProtocol'
    <2>1. call[c].pc = "xwrite" =>
              After(call[c].req, call[c].cfg) \subseteq XrayKeys
      <3> SUFFICES ASSUME call[c].pc = "xwrite"
                   PROVE  After(call[c].req, call[c].cfg) \subseteq XrayKeys
        OBVIOUS
      <3>1. call[c].req.key \in XrayKeys /\ call[c].cfg \subseteq XrayKeys
        BY DEF OwnProtocol, XrayPcs, Call
      <3> QED BY <3>1 DEF After
    <2>2. call' \in [Callers -> Call]
      BY <1>12, AnswerShape DEF XrayFails, Replies
    <2>3. xrayConf' \subseteq XrayKeys /\ xrayRun' \subseteq XrayKeys
      BY <1>12, <2>1 DEF XrayFails
    <2>4. TypeOK'
      BY <1>12, <2>2, <2>3, BoundsAreNat DEF XrayFails, Fault
    <2>5. OwnProtocol'
      BY <1>12 DEF XrayFails, Answer, OwnProtocol, WgPcs, XrayPcs
    <2> QED BY <2>4, <2>5
  <1>13. ASSUME NEW c \in Callers, Return(c)
         PROVE  TypeOK' /\ OwnProtocol'
    <2>1. call' \in [Callers -> Call]
      BY <1>13 DEF Return, IdleCall, Call, Replies
    <2>2. TypeOK'
      BY <1>13, <2>1 DEF Return
    <2>3. OwnProtocol'
      BY <1>13 DEF Return, IdleCall, OwnProtocol, WgPcs, XrayPcs
    <2> QED BY <2>2, <2>3
  <1>14. ASSUME AgentRestart
         PROVE  TypeOK' /\ OwnProtocol'
    <2>1. call' \in [Callers -> Call]
      BY <1>14 DEF AgentRestart, IdleCall, Call, Replies
    <2>2. TypeOK'
      BY <1>14, <2>1, BoundsAreNat DEF AgentRestart
    <2>3. OwnProtocol'
      BY <1>14 DEF AgentRestart, IdleCall, OwnProtocol, WgPcs, XrayPcs
    <2> QED BY <2>2, <2>3
  <1>15. ASSUME Containers
         PROVE  TypeOK' /\ OwnProtocol'
    <2>1. TypeOK'
      BY <1>15, BoundsAreNat DEF Containers, AwgLost, XrayBounced, Fault
    <2>2. OwnProtocol'
      BY <1>15 DEF Containers, AwgLost, XrayBounced, OwnProtocol
    <2> QED BY <2>1, <2>2
  <1>16. CASE UNCHANGED vars
    BY <1>16 DEF vars, OwnProtocol
  <1> QED
    BY <1>1, <1>2, <1>3, <1>4, <1>5, <1>6, <1>7, <1>8, <1>9, <1>10, <1>11,
       <1>12, <1>13, <1>14, <1>15, <1>16
    DEF Next, Submit, Progress, CommandFails

THEOREM TypeCorrect == Spec => []TypeOK
  <1>1. Spec => [](TypeOK /\ OwnProtocol)
    BY TypeInit, TypeStep, PTL DEF Spec
  <1> QED BY <1>1, PTL
--------------------------------------------------------------------------------
(***************************************************************************)
(* WireGuard operations.                                                   *)
(***************************************************************************)
OpsInv == OpNamesOneRequest /\ RanRecorded /\ AtMostOncePerOp

(* A step that records and runs nothing, and brings no caller to exec.     *)
LEMMA OpsFrame ==
    ASSUME OpsInv, UNCHANGED <<operations, ran>>,
           \A c \in Callers : call'[c].pc \in WgPcs =>
              /\ call[c].pc \in WgPcs
              /\ call'[c].req = call[c].req
              /\ call'[c].pc = "exec" => call[c].pc = "exec"
    PROVE  OpsInv'
  <1>1. OpNamesOneRequest'
    BY DEF OpsInv, OpNamesOneRequest
  <1>2. RanRecorded'
    BY DEF OpsInv, RanRecorded, Recorded
  <1>3. AtMostOncePerOp'
    BY DEF OpsInv, AtMostOncePerOp, WgPcs
  <1> QED BY <1>1, <1>2, <1>3 DEF OpsInv

LEMMA OpsInit == Init => OpsInv
  BY DEF Init, IdleCall, WgPcs, OpsInv, OpNamesOneRequest, RanRecorded, AtMostOncePerOp

LEMMA OpsStep == TypeOK /\ OwnProtocol /\ OpsInv /\ [Next]_vars => OpsInv'
  <1> SUFFICES ASSUME TypeOK, OwnProtocol, OpsInv, [Next]_vars
               PROVE  OpsInv'
    OBVIOUS
  <1> USE DEF TypeOK
  <1>1. ASSUME NEW c \in Callers, NEW r \in Requests, AdmitWg(c, r)
        PROVE  OpsInv'
    <2>1. /\ ~Recorded(r.op)
          /\ call'[c].pc = "exec" /\ call'[c].req = r
          /\ \A d \in Callers \ {c} : call'[d] = call[d]
          /\ ran' = ran
          /\ operations \subseteq operations'
          /\ operations' \subseteq operations \cup {r}
          /\ r.op # FreshOp => r \in operations'
      BY <1>1, RequestShape DEF AdmitWg, Call
    <2>2. OpNamesOneRequest'
      BY <2>1 DEF OpsInv, OpNamesOneRequest, Recorded
    <2>3. RanRecorded'
      BY <2>1 DEF OpsInv, RanRecorded, Recorded
    <2>4. r.op \in OpIds => ran[r.op] = "no"
      BY <2>1 DEF OpsInv, RanRecorded
    <2>5. \A d \in Callers : call[d].pc = "exec" /\ call[d].req.op \in OpIds
                              => call[d].req.op # r.op
      BY <2>1, FreshOpIsNew DEF OpsInv, OpNamesOneRequest, Recorded, WgPcs
    <2>6. AtMostOncePerOp'
      BY <2>1, <2>4, <2>5 DEF OpsInv, AtMostOncePerOp
    <2> QED BY <2>2, <2>3, <2>6 DEF OpsInv
  <1>2. ASSUME NEW c \in Callers, AwgSet(c) \/ AwgSetFails(c)
        PROVE  OpsInv'
    <2> DEFINE op == call[c].req.op
    <2>1. /\ call[c].pc = "exec"
          /\ call'[c].pc \in {"record", "done"} /\ call'[c].req = call[c].req
          /\ \A d \in Callers \ {c} : call'[d] = call[d]
          /\ operations' = operations
      BY <1>2, AnswerShape DEF AwgSet, AwgSetFails, Goto, Call, Replies
    <2>2. \A o \in OpIds \ {op} : ran'[o] = ran[o]
      BY <1>2 DEF AwgSet, AwgSetFails
    <2>3. OpNamesOneRequest'
      BY <2>1 DEF OpsInv, OpNamesOneRequest, WgPcs
    <2>4. op \in OpIds => Recorded(op)
      BY <2>1, FreshOpIsNew DEF OpsInv, OpNamesOneRequest, Recorded, WgPcs
    <2>5. RanRecorded'
      BY <2>1, <2>2, <2>4 DEF OpsInv, RanRecorded, Recorded
    <2>6. AtMostOncePerOp'
      BY <2>1, <2>2 DEF OpsInv, AtMostOncePerOp
    <2> QED BY <2>3, <2>5, <2>6 DEF OpsInv
  <1>3. ASSUME AgentRestart PROVE OpsInv'
    BY <1>3 DEF AgentRestart, IdleCall, WgPcs, OpsInv, OpNamesOneRequest,
                RanRecorded, AtMostOncePerOp
  <1>4. ASSUME NEW c \in Callers, NEW r \in Requests,
               ReplayWg(c, r) \/ AdmitXray(c, r)
        PROVE  OpsInv'
    <2>1. /\ call'[c].pc \notin WgPcs
          /\ \A d \in Callers \ {c} : call'[d] = call[d]
          /\ UNCHANGED <<operations, ran>>
      BY <1>4 DEF ReplayWg, AdmitXray, Call, WgPcs
    <2> QED BY <2>1, OpsFrame
  <1>5. ASSUME NEW c \in Callers,
               \/ RecordWg(c) \/ FinishXray(c) \/ XrayFails(c) \/ Return(c)
               \/ LockXray(c) \/ ReadXray(c) \/ WriteXray(c) \/ RestartXray(c)
        PROVE  OpsInv'
    <2>1. CASE RecordWg(c) \/ FinishXray(c) \/ XrayFails(c)
      <3>1. /\ call'[c].pc \notin WgPcs
            /\ \A d \in Callers \ {c} : call'[d] = call[d]
            /\ UNCHANGED <<operations, ran>>
        BY <2>1, AnswerShape DEF RecordWg, FinishXray, XrayFails, WgPcs, Replies
      <3> QED BY <3>1, OpsFrame
    <2>2. CASE Return(c) \/ LockXray(c) \/ ReadXray(c) \/ WriteXray(c) \/ RestartXray(c)
      <3>1. /\ call'[c].pc \notin WgPcs
            /\ \A d \in Callers \ {c} : call'[d] = call[d]
            /\ UNCHANGED <<operations, ran>>
        BY <2>2 DEF Return, LockXray, ReadXray, WriteXray, RestartXray, Goto,
                    IdleCall, WgPcs, Call
      <3> QED BY <3>1, OpsFrame
    <2> QED BY <1>5, <2>1, <2>2
  <1>6. CASE Containers \/ UNCHANGED vars
    <2>1. UNCHANGED <<call, operations, ran>>
      BY <1>6 DEF Containers, AwgLost, XrayBounced, vars
    <2> QED BY <2>1, OpsFrame
  <1> QED
    BY <1>1, <1>2, <1>3, <1>4, <1>5, <1>6 DEF Next, Submit, Progress, CommandFails

(* For any number of callers repeating any requests: an operation id stands*)
(* for one request, and its awg command runs at most once per life of the  *)
(* agent.                                                                  *)
THEOREM OperationsSafe == Spec => [](OpNamesOneRequest /\ AtMostOncePerOp)
  <1>1. Spec => [](TypeOK /\ OwnProtocol /\ OpsInv)
    BY TypeInit, TypeStep, OpsInit, OpsStep, PTL DEF Spec
  <1>2. OpsInv => OpNamesOneRequest /\ AtMostOncePerOp
    BY DEF OpsInv
  <1> QED BY <1>1, <1>2, PTL
--------------------------------------------------------------------------------
(***************************************************************************)
(* The Xray configuration.                                                 *)
(***************************************************************************)
XrayInv == MutexHeld /\ FreshCopy /\ Settling

(* A step outside the critical section that leaves the Xray state alone.   *)
LEMMA XrayFrame ==
    ASSUME XrayInv, UNCHANGED <<xrayConf, xrayRun, xrayMu>>,
           peersByKey' \cap XrayKeys = peersByKey \cap XrayKeys,
           faults' = 0 /\ restarts' = 0 => faults = 0 /\ restarts = 0,
           \A c \in Callers : /\ call'[c].pc \in Locked <=> call[c].pc \in Locked
                              /\ call[c].pc \in Locked => call'[c] = call[c]
    PROVE  XrayInv'
  <1>1. MutexHeld'
    BY DEF XrayInv, MutexHeld
  <1>2. FreshCopy'
    BY DEF XrayInv, FreshCopy, Locked, XrayPcs
  <1>3. Settling'
    BY DEF XrayInv, Settling, MapBehind, XraySettled, After, Locked, XrayPcs
  <1> QED BY <1>1, <1>2, <1>3 DEF XrayInv

LEMMA XrayInit == Init => XrayInv
  BY NobodyIsNoCaller
  DEF Init, IdleCall, XrayInv, MutexHeld, FreshCopy, Settling, XraySettled,
      Locked, XrayPcs

LEMMA XrayStep == TypeOK /\ OwnProtocol /\ XrayInv /\ [Next]_vars => XrayInv'
  <1> SUFFICES ASSUME TypeOK, OwnProtocol, XrayInv, [Next]_vars
               PROVE  XrayInv'
    OBVIOUS
  <1> USE DEF TypeOK
  <1>1. ASSUME NEW c \in Callers, NEW r \in Requests,
               AdmitWg(c, r) \/ ReplayWg(c, r) \/ AdmitXray(c, r)
        PROVE  XrayInv'
    <2>1. /\ call[c].pc \notin Locked /\ call'[c].pc \notin Locked
          /\ \A d \in Callers \ {c} : call'[d] = call[d]
          /\ UNCHANGED <<xrayConf, xrayRun, xrayMu, peersByKey, faults, restarts>>
      BY <1>1 DEF AdmitWg, ReplayWg, AdmitXray, Idle, Call, Locked, XrayPcs
    <2> QED BY <2>1, XrayFrame
  <1>2. ASSUME NEW c \in Callers, AwgSet(c) \/ AwgSetFails(c) \/ Return(c)
        PROVE  XrayInv'
    <2>1. /\ call[c].pc \notin Locked /\ call'[c].pc \notin Locked
          /\ \A d \in Callers \ {c} : call'[d] = call[d]
          /\ UNCHANGED <<xrayConf, xrayRun, xrayMu, peersByKey, restarts>>
      BY <1>2, AnswerShape DEF AwgSet, AwgSetFails, Return, IdleCall, Goto,
                               Replies, Call, Locked, XrayPcs
    <2>2. faults' = 0 => faults = 0
      BY <1>2, BoundsAreNat DEF AwgSet, AwgSetFails, Return, Fault
    <2> QED BY <2>1, <2>2, XrayFrame
  <1>3. ASSUME NEW c \in Callers, RecordWg(c)
        PROVE  XrayInv'
    <2>1. /\ call[c].pc \notin Locked /\ call'[c].pc \notin Locked
          /\ \A d \in Callers \ {c} : call'[d] = call[d]
          /\ UNCHANGED <<xrayConf, xrayRun, xrayMu, faults, restarts>>
      BY <1>3, AnswerShape DEF RecordWg, Replies, Locked, XrayPcs
    <2>2. peersByKey' \cap XrayKeys = peersByKey \cap XrayKeys
      BY <1>3, KeysDisjoint DEF RecordWg, After, OwnProtocol, WgPcs
    <2> QED BY <2>1, <2>2, XrayFrame
  <1>4. ASSUME NEW c \in Callers, LockXray(c)
        PROVE  XrayInv'
    <2>1. /\ call'[c].pc = "xread"
          /\ \A d \in Callers \ {c} : call'[d] = call[d]
          /\ xrayMu = Nobody /\ xrayMu' = c
          /\ UNCHANGED <<xrayConf, xrayRun, peersByKey, faults, restarts>>
      BY <1>4 DEF LockXray, Goto, Call
    <2>2. \A d \in Callers : call[d].pc \notin Locked
      BY <2>1, NobodyIsNoCaller DEF XrayInv, MutexHeld
    <2>3. MutexHeld'
      BY <2>1, <2>2 DEF MutexHeld, Locked, XrayPcs
    <2>4. FreshCopy'
      BY <2>1 DEF XrayInv, FreshCopy
    <2>5. Settling'
      BY <2>1, <2>2, NobodyIsNoCaller
      DEF XrayInv, Settling, XraySettled, Locked, XrayPcs
    <2> QED BY <2>3, <2>4, <2>5 DEF XrayInv
  <1>5. ASSUME NEW c \in Callers, call[c].pc \in Locked
        PROVE  xrayMu = c /\ \A d \in Callers \ {c} : call[d].pc \notin Locked
    BY <1>5 DEF XrayInv, MutexHeld
  <1>6. ASSUME NEW c \in Callers, ReadXray(c)
        PROVE  XrayInv'
    <2>1. /\ call[c].pc = "xread"
          /\ call'[c].pc = IF After(call[c].req, xrayConf) = xrayConf
                           THEN "xdone" ELSE "xwrite"
          /\ call'[c].req = call[c].req /\ call'[c].cfg = xrayConf
          /\ \A d \in Callers \ {c} : call'[d] = call[d]
          /\ UNCHANGED <<xrayConf, xrayRun, xrayMu, peersByKey, faults, restarts>>
      BY <1>6 DEF ReadXray, Call
    <2>2. xrayMu = c /\ \A d \in Callers \ {c} : call[d].pc \notin Locked
      BY <1>5, <2>1 DEF Locked, XrayPcs
    <2>3. MutexHeld'
      BY <2>1, <2>2 DEF MutexHeld, Locked, XrayPcs
    <2>4. FreshCopy'
      BY <2>1 DEF XrayInv, FreshCopy
    <2>5. Settling'
      BY <2>1, <2>2, NobodyIsNoCaller
      DEF XrayInv, Settling, MapBehind, XraySettled, After, Locked, XrayPcs
    <2> QED BY <2>3, <2>4, <2>5 DEF XrayInv
  <1>7. ASSUME NEW c \in Callers, WriteXray(c)
        PROVE  XrayInv'
    <2>1. /\ call[c].pc = "xwrite" /\ call'[c].pc = "xrestart"
          /\ call'[c].req = call[c].req
          /\ \A d \in Callers \ {c} : call'[d] = call[d]
          /\ xrayConf' = After(call[c].req, call[c].cfg)
          /\ UNCHANGED <<xrayRun, xrayMu, peersByKey, faults, restarts>>
      BY <1>7 DEF WriteXray, Goto, Call
    <2>2. xrayMu = c /\ \A d \in Callers \ {c} : call[d].pc \notin Locked
      BY <1>5, <2>1 DEF Locked, XrayPcs
    <2>3. MutexHeld'
      BY <2>1, <2>2 DEF MutexHeld, Locked, XrayPcs
    <2>4. FreshCopy'
      BY <2>1, <2>2 DEF FreshCopy, Locked, XrayPcs
    <2>5. xrayConf' = After(call[c].req, xrayConf)
      BY <2>1 DEF XrayInv, FreshCopy
    <2>6. Settling'
      BY ZenonT(30), <2>1, <2>2, <2>5, NobodyIsNoCaller
      DEF XrayInv, Settling, MapBehind, XraySettled, After, Locked, XrayPcs
    <2> QED BY <2>3, <2>4, <2>6 DEF XrayInv
  <1>8. ASSUME NEW c \in Callers, RestartXray(c)
        PROVE  XrayInv'
    <2>1. /\ call[c].pc = "xrestart" /\ call'[c].pc = "xdone"
          /\ call'[c].req = call[c].req
          /\ \A d \in Callers \ {c} : call'[d] = call[d]
          /\ xrayRun' = xrayConf
          /\ UNCHANGED <<xrayConf, xrayMu, peersByKey, faults, restarts>>
      BY <1>8 DEF RestartXray, Goto, Call
    <2>2. xrayMu = c /\ \A d \in Callers \ {c} : call[d].pc \notin Locked
      BY <1>5, <2>1 DEF Locked, XrayPcs
    <2>3. MutexHeld'
      BY <2>1, <2>2 DEF MutexHeld, Locked, XrayPcs
    <2>4. FreshCopy'
      BY <2>1 DEF XrayInv, FreshCopy
    <2>5. Settling'
      BY <2>1, <2>2, NobodyIsNoCaller
      DEF XrayInv, Settling, MapBehind, XraySettled, After, Locked, XrayPcs
    <2> QED BY <2>3, <2>4, <2>5 DEF XrayInv
  <1>9. ASSUME NEW c \in Callers, FinishXray(c)
        PROVE  XrayInv'
    <2>1. /\ call[c].pc = "xdone" /\ call'[c].pc = "done"
          /\ \A d \in Callers \ {c} : call'[d] = call[d]
          /\ xrayMu' = Nobody
          /\ peersByKey' = After(call[c].req, peersByKey)
          /\ UNCHANGED <<xrayConf, xrayRun, faults, restarts>>
      BY <1>9, AnswerShape DEF FinishXray, Replies
    <2>2. \A d \in Callers : call'[d].pc \notin Locked
      BY <1>5, <2>1 DEF Locked, XrayPcs
    <2>3. MutexHeld' /\ FreshCopy'
      BY <2>1, <2>2, NobodyIsNoCaller DEF MutexHeld, FreshCopy, Locked, XrayPcs
    <2>4. call[c].req.key \in XrayKeys
      BY <2>1 DEF OwnProtocol, XrayPcs
    <2>5. peersByKey' \cap XrayKeys = After(call[c].req, peersByKey \cap XrayKeys)
      BY <2>1, <2>4 DEF After
    <2>6. Settling'
      BY <2>1, <2>2, <2>5 DEF XrayInv, Settling, MapBehind, XraySettled, Locked, XrayPcs
    <2> QED BY <2>3, <2>6 DEF XrayInv
  <1>10. ASSUME NEW c \in Callers, XrayFails(c)
         PROVE  XrayInv'
    <2>1. /\ call[c].pc \in Locked /\ call'[c].pc = "done"
          /\ \A d \in Callers \ {c} : call'[d] = call[d]
          /\ xrayMu' = Nobody
          /\ faults' = faults + 1
      BY <1>10, AnswerShape DEF XrayFails, Fault, Replies, Locked, XrayPcs
    <2>2. \A d \in Callers : call'[d].pc \notin Locked
      BY <1>5, <2>1 DEF Locked, XrayPcs
    <2>3. MutexHeld' /\ FreshCopy'
      BY <2>1, <2>2, NobodyIsNoCaller DEF MutexHeld, FreshCopy, Locked, XrayPcs
    <2>4. Settling'
      BY <2>1, BoundsAreNat DEF Settling, XraySettled
    <2> QED BY <2>3, <2>4 DEF XrayInv
  <1>11. ASSUME AgentRestart PROVE XrayInv'
    <2>1. \A c \in Callers : call'[c].pc = "idle"
      BY <1>11 DEF AgentRestart, IdleCall
    <2>2. xrayMu' = Nobody /\ restarts' # 0
      BY <1>11, BoundsAreNat DEF AgentRestart
    <2> QED
      BY <2>1, <2>2, NobodyIsNoCaller
      DEF XrayInv, MutexHeld, FreshCopy, Settling, XraySettled, Locked, XrayPcs
  <1>12. CASE AwgLost \/ UNCHANGED vars
    <2>1. /\ UNCHANGED <<call, xrayConf, xrayRun, xrayMu, peersByKey>>
          /\ faults' = 0 /\ restarts' = 0 => faults = 0 /\ restarts = 0
      BY <1>12, BoundsAreNat DEF AwgLost, Fault, vars
    <2> QED BY <2>1, XrayFrame
  <1>13. ASSUME XrayBounced PROVE XrayInv'
    <2>1. UNCHANGED <<call, xrayConf, xrayMu, peersByKey, faults, restarts>>
          /\ xrayRun' = xrayConf
      BY <1>13 DEF XrayBounced
    <2>2. MutexHeld' /\ FreshCopy'
      BY <2>1 DEF XrayInv, MutexHeld, FreshCopy
    <2>3. Settling'
      BY <2>1 DEF XrayInv, Settling, MapBehind, XraySettled, After
    <2> QED BY <2>2, <2>3 DEF XrayInv
  <1> QED
    BY <1>1, <1>2, <1>3, <1>4, <1>6, <1>7, <1>8, <1>9, <1>10, <1>11, <1>12, <1>13
    DEF Next, Submit, Progress, CommandFails, Containers

(* Without faults and restarts, whenever xrayMu is free the running Xray   *)
(* process, its file and the agent's map agree, for any number of callers. *)
THEOREM XraySettles == Spec => []XraySettled
  <1>1. Spec => [](TypeOK /\ OwnProtocol /\ XrayInv)
    BY TypeInit, TypeStep, XrayInit, XrayStep, PTL DEF Spec
  <1>2. TypeOK /\ XrayInv => XraySettled
    BY DEF XrayInv, Settling, XraySettled
  <1> QED BY <1>1, <1>2, PTL
--------------------------------------------------------------------------------
(***************************************************************************)
(* The Xray configuration implements ClientStore.                          *)
(***************************************************************************)
job == [c \in Callers |-> JobOf(c)]

LEMMA JobMoves ==
    ASSUME NEW c \in Callers, \A d \in Callers \ {c} : call'[d] = call[d]
    PROVE  job' = [job EXCEPT ![c] = JobOf(c)']
  <1>1. \A d \in Callers \ {c} : JobOf(d)' = JobOf(d)
    BY DEF JobOf
  <1>2. job' = [d \in Callers |-> JobOf(d)']
    BY DEF job
  <1> QED BY <1>1, <1>2 DEF job

LEMMA StoreInitial == Init => Store!StoreInit
  BY DEF Init, IdleCall, XrayPcs, JobOf, Store!StoreInit, Store!None

LEMMA StoreStep ==
    TypeOK /\ OwnProtocol /\ XrayInv /\ [Next]_vars
        => [Store!StoreNext]_(Store!svars)
  <1> SUFFICES ASSUME TypeOK, OwnProtocol, XrayInv, [Next]_vars
               PROVE  Store!StoreNext \/ UNCHANGED <<xrayConf, job>>
    BY DEF Store!svars, job
  <1> USE DEF TypeOK
  <1>1. ASSUME NEW c \in Callers,
               call[c].pc \notin XrayPcs, call'[c].pc \notin XrayPcs,
               \A d \in Callers \ {c} : call'[d] = call[d], UNCHANGED xrayConf
        PROVE  UNCHANGED <<xrayConf, job>>
    <2>1. JobOf(c)' = JobOf(c)
      BY <1>1 DEF JobOf
    <2> QED BY <1>1, <2>1, JobMoves DEF job
  <1>2. ASSUME NEW c \in Callers, NEW r \in Requests, AdmitWg(c, r) \/ ReplayWg(c, r)
        PROVE  UNCHANGED <<xrayConf, job>>
    BY <1>1, <1>2 DEF AdmitWg, ReplayWg, Idle, Call, XrayPcs
  <1>3. ASSUME NEW c \in Callers, AwgSet(c) \/ AwgSetFails(c) \/ RecordWg(c) \/ Return(c)
        PROVE  UNCHANGED <<xrayConf, job>>
    BY <1>1, <1>3, AnswerShape
    DEF AwgSet, AwgSetFails, RecordWg, Return, IdleCall, Goto, Call, Replies, XrayPcs
  <1>4. ASSUME NEW c \in Callers, NEW r \in Requests, AdmitXray(c, r)
        PROVE  Store!Ask(c)
    <2> DEFINE j == [phase |-> "pending", action |-> r.action, key |-> r.key]
    <2>1. /\ call[c].pc = "idle" /\ call'[c].pc = "xlock" /\ call'[c].req = r
          /\ \A d \in Callers \ {c} : call'[d] = call[d]
          /\ UNCHANGED xrayConf
      BY <1>4 DEF AdmitXray, Idle, Call
    <2>2. JobOf(c) = Store!None /\ JobOf(c)' = j
      BY <2>1 DEF JobOf, XrayPcs, Store!None
    <2>3. j \in Store!Job
      BY <1>4, RequestShape DEF AdmitXray, Store!Job
    <2> QED BY <2>1, <2>2, <2>3, JobMoves DEF Store!Ask, job
  <1>5. ASSUME NEW c \in Callers, LockXray(c) \/ RestartXray(c)
        PROVE  UNCHANGED <<xrayConf, job>>
    <2>1. /\ call'[c].req = call[c].req
          /\ \A d \in Callers \ {c} : call'[d] = call[d]
          /\ UNCHANGED xrayConf
      BY <1>5 DEF LockXray, RestartXray, Goto, Call
    <2>2. JobOf(c)' = JobOf(c)
      BY <1>5, <2>1 DEF LockXray, RestartXray, Goto, JobOf, XrayPcs, Call
    <2> QED BY <2>1, <2>2, JobMoves DEF job
  <1>6. ASSUME NEW c \in Callers,
               call[c].pc \in {"xread", "xwrite"}, call'[c].pc \in {"xrestart", "xdone"},
               call'[c].req = call[c].req,
               \A d \in Callers \ {c} : call'[d] = call[d],
               xrayConf' = After(call[c].req, xrayConf)
        PROVE  Store!Commit(c)
    <2>1. /\ JobOf(c) = [phase |-> "pending", action |-> call[c].req.action,
                         key |-> call[c].req.key]
          /\ JobOf(c)' = [phase |-> "committed", action |-> call[c].req.action,
                          key |-> call[c].req.key]
      BY <1>6 DEF JobOf, XrayPcs
    <2>2. job' = [job EXCEPT ![c].phase = "committed"]
      BY <1>6, <2>1, JobMoves DEF job
    <2>3. job[c] = JobOf(c)
      BY DEF job
    <2>4. xrayConf' = Store!Changed(JobOf(c))
      BY <1>6, <2>1 DEF Store!Changed, After
    <2>5. JobOf(c) # Store!None /\ JobOf(c).phase = "pending"
      BY <2>1 DEF Store!None
    <2> QED
      BY <2>2, <2>3, <2>4, <2>5 DEF Store!Commit, job
  <1>7. ASSUME NEW c \in Callers, ReadXray(c)
        PROVE  Store!Commit(c) \/ UNCHANGED <<xrayConf, job>>
    <2>1. /\ call[c].pc = "xread" /\ call'[c].req = call[c].req
          /\ \A d \in Callers \ {c} : call'[d] = call[d]
          /\ UNCHANGED xrayConf
      BY <1>7 DEF ReadXray, Call
    <2>2. CASE After(call[c].req, xrayConf) = xrayConf
      <3>1. call'[c].pc = "xdone"
        BY <1>7, <2>2 DEF ReadXray, Call
      <3> QED BY <1>6, <2>1, <2>2, <3>1
    <2>3. CASE After(call[c].req, xrayConf) # xrayConf
      <3>1. call'[c].pc = "xwrite"
        BY <1>7, <2>3 DEF ReadXray, Call
      <3>2. JobOf(c)' = JobOf(c)
        BY <2>1, <3>1 DEF JobOf, XrayPcs
      <3> QED BY <2>1, <3>2, JobMoves DEF job
    <2> QED BY <2>2, <2>3
  <1>8. ASSUME NEW c \in Callers, WriteXray(c)
        PROVE  Store!Commit(c)
    <2>1. call[c].cfg = xrayConf
      BY <1>8 DEF WriteXray, XrayInv, FreshCopy
    <2> QED BY <1>6, <1>8, <2>1 DEF WriteXray, Goto, Call
  <1>9. ASSUME NEW c \in Callers, FinishXray(c)
        PROVE  Store!Acknowledge(c)
    <2>1. /\ call[c].pc = "xdone" /\ call'[c].pc = "done"
          /\ \A d \in Callers \ {c} : call'[d] = call[d]
          /\ UNCHANGED xrayConf
      BY <1>9, AnswerShape DEF FinishXray, Replies
    <2>2. JobOf(c)' = Store!None
      BY <2>1 DEF JobOf, XrayPcs, Store!None
    <2>3. JobOf(c).phase = "committed" /\ JobOf(c) # Store!None
      BY <2>1 DEF JobOf, XrayPcs, Store!None
    <2> QED BY <2>1, <2>2, <2>3, JobMoves DEF Store!Acknowledge, job
  <1>10. ASSUME NEW c \in Callers, XrayFails(c)
         PROVE  Store!GiveUp(c)
    <2>1. /\ call[c].pc \in Locked /\ call'[c].pc = "done"
          /\ \A d \in Callers \ {c} : call'[d] = call[d]
      BY <1>10, AnswerShape DEF XrayFails, Replies, Locked, XrayPcs
    <2>2. JobOf(c)' = Store!None /\ JobOf(c) # Store!None
      BY <2>1 DEF JobOf, Locked, XrayPcs, Store!None
    <2>3. job' = [job EXCEPT ![c] = Store!None]
      BY <2>1, <2>2, JobMoves
    <2>4. CASE call[c].pc = "xwrite"
      <3>1. JobOf(c) = [phase |-> "pending", action |-> call[c].req.action,
                        key |-> call[c].req.key]
        BY <2>4 DEF JobOf, XrayPcs
      <3>2. xrayConf' \in {xrayConf, After(call[c].req, xrayConf)}
        BY <1>10, <2>4 DEF XrayFails, XrayInv, FreshCopy
      <3> QED
        BY <2>2, <2>3, <3>1, <3>2 DEF Store!GiveUp, Store!Changed, After, job
    <2>5. CASE call[c].pc # "xwrite"
      <3>1. UNCHANGED xrayConf
        BY <1>10, <2>5 DEF XrayFails
      <3> QED BY <2>2, <2>3, <3>1 DEF Store!GiveUp, job
    <2> QED BY <2>4, <2>5
  <1>11. ASSUME AgentRestart PROVE Store!Crash
    BY <1>11 DEF AgentRestart, IdleCall, JobOf, XrayPcs, Store!Crash, Store!None
  <1>12. CASE Containers \/ UNCHANGED vars
    BY <1>12 DEF Containers, AwgLost, XrayBounced, vars, job, JobOf
  <1> QED
    BY <1>2, <1>3, <1>4, <1>5, <1>7, <1>8, <1>9, <1>10, <1>11, <1>12
    DEF Next, Submit, Progress, CommandFails, Store!StoreNext

(* Concurrent rewrites of the whole configuration file behave as a set of  *)
(* clients changed one at a time, whatever fails and restarts meanwhile:   *)
(* no change is lost or made twice, and none is acknowledged before it is  *)
(* in the file.                                                            *)
THEOREM XrayStoreImplemented == Spec => XrayStoreSpec
  <1>1. Spec => [](TypeOK /\ OwnProtocol /\ XrayInv)
    BY TypeInit, TypeStep, XrayInit, XrayStep, PTL DEF Spec
  <1> QED
    BY <1>1, StoreInitial, StoreStep, PTL DEF Spec, XrayStoreSpec, Store!StoreSpec
--------------------------------------------------------------------------------
(***************************************************************************)
(* The preshared keys, which NodeRuntime leaves out: PresharedKeys, with   *)
(* the variables MCNodeRuntime gives it, for any accesses and pushers.     *)
(***************************************************************************)
PskCall == [pc: {"file", "set", "end"}, acc: Accesses, key: Accesses \cup {Psk!NoKey}, file: 0..MaxFiles]

(* A key is only ever that of its access. *)
KeyOrNone(k, a) == k \in {Psk!NoKey, a}

(* A new access has its key in the row, an old one has none there; what    *)
(* memory and interface of an old one have lost is in lost. *)
KeysOfRows ==
    \A a \in Accesses :
        /\ KeyOrNone(pskPskByPeer[a], a)
        /\ a \in Old => pskRow[a] = Psk!NoKey /\ pskStatus[a] # "none"
        /\ a \notin Old /\ pskStatus[a] # "none" => pskRow[a] = a
        /\ a \in Old \ pskLost => pskPskByPeer[a] = a \/ pskAwg[a] = a

(* A call for a new access has its key; one that sets a peer without a file *)
(* is for an old access whose key the agent does not remember.             *)
KeyOfCall(t, memory) ==
    t # Psk!Idle =>
        /\ KeyOrNone(t.key, t.acc)
        /\ t.pc = "file" => t.file = Psk!NoFile /\ t.key = IF t.acc \in Old THEN Psk!NoKey ELSE t.acc
        /\ t.pc = "set" /\ t.file # Psk!NoFile => t.key = t.acc
        /\ t.pc = "set" /\ t.file = Psk!NoFile => t.acc \in Old /\ memory[t.acc] = Psk!NoKey

(* With the types, and what the property says of peers and files.         *)
PskInv ==
    /\ Psk!OldAreAccesses /\ Psk!AccessesAreKeys /\ Psk!BoundsAreNat
    /\ Psk!TypeOK /\ pskCall \in [Psk!Actors -> {Psk!Idle} \cup PskCall]
    /\ KeysOfRows /\ \A c \in Psk!Actors : KeyOfCall(pskCall[c], pskPskByPeer)
    /\ Psk!PeerHasKeyOfText /\ Psk!FilesAreOfCalls

(* A call that is under way is a record with all its fields, and stays one *)
(* when it goes on.                                                        *)
LEMMA PskFields ==
    ASSUME NEW c \in Psk!Actors, pskCall \in [Psk!Actors -> {Psk!Idle} \cup PskCall],
           pskCall[c].pc # "idle"
    PROVE  /\ pskCall[c] \in PskCall /\ pskCall[c] # Psk!Idle
           /\ pskCall[c].acc \in Accesses /\ pskCall[c].key \in Accesses \cup {Psk!NoKey}
           /\ pskCall[c].file \in 0..MaxFiles /\ pskCall[c].pc \in {"file", "set", "end"}
           /\ \A pc \in {"file", "set", "end"} :
                 LET t == [pskCall[c] EXCEPT !.pc = pc]
                 IN  /\ t \in PskCall /\ t # Psk!Idle /\ t.pc = pc /\ t.acc = pskCall[c].acc
                     /\ t.key = pskCall[c].key /\ t.file = pskCall[c].file
  BY DEF PskCall, Psk!Idle

(* The type of the calls is part of the type of the component.             *)
LEMMA PskCalls ==
    ASSUME NEW t, t \in {Psk!Idle} \cup PskCall
    PROVE  \/ t = Psk!Idle
           \/ /\ t.pc \in {"file", "set", "end"} /\ t.acc \in Accesses
              /\ t.key \in Psk!Keys \cup {Psk!NoKey} /\ t.file \in 0..MaxFiles
  BY DEF PskCall, Psk!Keys

(* What is left to show of a step that changes one call.                   *)
LEMMA OneCallMoves ==
    ASSUME PskInv, NEW c \in Psk!Actors, NEW t \in {Psk!Idle} \cup PskCall,
           pskCall' = [pskCall EXCEPT ![c] = t],
           KeyOfCall(t, pskPskByPeer'),
           \A a \in Accesses : pskPskByPeer[a] = Psk!NoKey /\ a \in Old => pskPskByPeer'[a] = Psk!NoKey,
           Psk!OldAreAccesses', Psk!AccessesAreKeys', Psk!BoundsAreNat', KeysOfRows', Psk!PeerHasKeyOfText',
           pskFiles' \subseteq pskFiles \cup pskExcused' \cup {t.file},
           pskExcused \subseteq pskExcused',
           pskCall[c].file \in pskFiles' => pskCall[c].file \in pskExcused' \cup {t.file},
           /\ pskStatus' \in [Accesses -> {"none", "pending", "active", "inactive"}]
           /\ pskRow' \in [Accesses -> Accesses \cup {Psk!NoKey}]
           /\ pskPskByPeer' \in [Accesses -> Accesses \cup {Psk!NoKey}]
           /\ pskPeersByKey' \subseteq Accesses
           /\ pskAwg' \in [Accesses -> Accesses \cup {Psk!NoKey, Psk!Absent}]
           /\ pskFiles' \subseteq 1..MaxFiles /\ pskExcused' \subseteq 1..MaxFiles
           /\ pskMade' \in 0..MaxFiles /\ pskFaults' \in 0..MaxFaults /\ pskRestarts' \in 0..MaxPskRestarts
           /\ pskLost' \subseteq Old
    PROVE  PskInv'
<1>1. /\ pskCall' \in [Psk!Actors -> {Psk!Idle} \cup PskCall] /\ pskCall'[c] = t
      /\ \A d \in Psk!Actors \ {c} : pskCall'[d] = pskCall[d]
  BY DEF PskInv
<1>2. \A d \in Psk!Actors : \/ pskCall'[d] = Psk!Idle
                            \/ /\ pskCall'[d].pc \in {"file", "set", "end"} /\ pskCall'[d].acc \in Accesses
                               /\ pskCall'[d].key \in Psk!Keys \cup {Psk!NoKey} /\ pskCall'[d].file \in 0..MaxFiles
  BY <1>1, PskCalls
<1>3. Psk!TypeOK'
  BY <1>2 DEF Psk!TypeOK, Psk!Keys
<1>4. ASSUME NEW d \in Psk!Actors PROVE KeyOfCall(pskCall'[d], pskPskByPeer')
  <2>1. CASE d = c
    BY <1>1, <2>1
  <2>2. CASE d # c
    <3>1. pskCall'[d] = pskCall[d] /\ KeyOfCall(pskCall[d], pskPskByPeer)
      BY <1>1, <2>2 DEF PskInv
    <3>2. pskCall[d] # Psk!Idle => pskCall[d].acc \in Accesses
      BY DEF PskInv, PskCall
    <3> QED BY <3>1, <3>2 DEF KeyOfCall
  <2> QED BY <2>1, <2>2
<1>5. Psk!FilesAreOfCalls'
  <2> SUFFICES ASSUME NEW f \in pskFiles', f \notin pskExcused'
               PROVE  \E d \in Psk!Actors : f = pskCall'[d].file
    BY DEF Psk!FilesAreOfCalls
  <2>1. CASE f = t.file
    BY <1>1, <2>1
  <2>2. CASE f # t.file
    <3>1. PICK d \in Psk!Actors : f = pskCall[d].file
      BY <2>2 DEF PskInv, Psk!FilesAreOfCalls
    <3>2. d # c
      BY <2>2, <3>1
    <3> QED BY <1>1, <3>1, <3>2
  <2> QED BY <2>1, <2>2
<1> QED BY <1>1, <1>3, <1>4, <1>5 DEF PskInv

(* The types, with the bounds.                                             *)
LEMMA PskTypes ==
    ASSUME PskInv
    PROVE  /\ pskStatus \in [Accesses -> {"none", "pending", "active", "inactive"}]
           /\ pskRow \in [Accesses -> Accesses \cup {Psk!NoKey}]
           /\ pskPskByPeer \in [Accesses -> Accesses \cup {Psk!NoKey}]
           /\ pskPeersByKey \subseteq Accesses
           /\ pskAwg \in [Accesses -> Accesses \cup {Psk!NoKey, Psk!Absent}]
           /\ pskFiles \subseteq 1..MaxFiles /\ pskExcused \subseteq 1..MaxFiles
           /\ pskMade \in 0..MaxFiles /\ pskFaults \in 0..MaxFaults
           /\ pskRestarts \in 0..MaxPskRestarts
           /\ pskLost \subseteq Old /\ Old \subseteq Accesses
           /\ MaxFiles \in Nat /\ MaxFaults \in Nat /\ MaxPskRestarts \in Nat
           /\ Psk!NoKey \notin Accesses /\ Psk!Absent \notin Accesses /\ Psk!NoKey # Psk!Absent
           /\ Psk!NoFile = 0 /\ pskCall \in [Psk!Actors -> {Psk!Idle} \cup PskCall]
           /\ Psk!OldAreAccesses' /\ Psk!AccessesAreKeys' /\ Psk!BoundsAreNat'
  BY DEF PskInv, Psk!TypeOK, Psk!Keys, Psk!OldAreAccesses, Psk!AccessesAreKeys, Psk!BoundsAreNat,
     Psk!NoKey, Psk!Absent, Psk!NoFile

(* A call begins with the key of its row, if its access has one.           *)
LEMMA CallBegins ==
    ASSUME PskInv, NEW c \in Psk!Actors, NEW a \in Accesses, pskCall[c].pc = "idle",
           NEW t, t = [pc |-> "file", acc |-> a, file |-> Psk!NoFile, key |-> IF a \in Old THEN Psk!NoKey ELSE a]
    PROVE  /\ t \in PskCall /\ KeyOfCall(t, pskPskByPeer) /\ t.file = Psk!NoFile
           /\ pskCall[c] = Psk!Idle /\ pskCall[c].file = Psk!NoFile /\ Psk!NoFile \notin pskFiles
<1>1. t \in PskCall /\ t.file = Psk!NoFile
  BY PskTypes DEF PskCall
<1>2. KeyOfCall(t, pskPskByPeer)
  BY PskTypes DEF KeyOfCall, KeyOrNone
<1>3. pskCall[c] = Psk!Idle
  BY PskTypes DEF PskCall
<1> QED BY <1>1, <1>2, <1>3, PskTypes DEF Psk!Idle

LEMMA CreateAccessStep ==
    ASSUME PskInv, NEW p \in Pushers, NEW a \in Accesses, Psk!CreateAccess(p, a)
    PROVE  PskInv'
<1>1. /\ pskStatus[a] = "none" /\ pskCall[p].pc = "idle" /\ p \in Psk!Actors
      /\ pskStatus' = [pskStatus EXCEPT ![a] = "pending"] /\ pskRow' = [pskRow EXCEPT ![a] = a]
      /\ UNCHANGED <<pskPskByPeer, pskPeersByKey, pskAwg, pskFiles, pskMade, pskFaults, pskRestarts,
                      pskExcused, pskLost>>
  BY DEF Psk!CreateAccess, Psk!agent, Psk!Actors
<1>2. a \notin Old
  BY <1>1 DEF PskInv, KeysOfRows
<1> DEFINE t == [pc |-> "file", acc |-> a, file |-> Psk!NoFile, key |-> IF a \in Old THEN Psk!NoKey ELSE a]
<1>3. pskCall' = [pskCall EXCEPT ![p] = t]
  BY <1>2, PskTypes DEF Psk!CreateAccess, Psk!resolvePresharedKey
<1>4. KeysOfRows' /\ Psk!PeerHasKeyOfText'
  BY <1>1, <1>2, PskTypes DEF PskInv, KeysOfRows, KeyOrNone, Psk!PeerHasKeyOfText
<1>5. /\ t \in PskCall /\ KeyOfCall(t, pskPskByPeer) /\ t.file = Psk!NoFile
      /\ pskCall[p].file = Psk!NoFile /\ Psk!NoFile \notin pskFiles
  BY <1>1, CallBegins
<1> HIDE DEF t
<1>6. /\ pskStatus' \in [Accesses -> {"none", "pending", "active", "inactive"}]
      /\ pskRow' \in [Accesses -> Accesses \cup {Psk!NoKey}]
  BY <1>1, PskTypes
<1> QED BY <1>1, <1>3, <1>4, <1>5, <1>6, PskTypes, OneCallMoves

LEMMA SwitchAccessStep ==
    ASSUME PskInv, NEW a \in Accesses, Psk!SwitchAccess(a)
    PROVE  PskInv'
<1>1. /\ pskStatus[a] \in {"active", "inactive"}
      /\ pskStatus' = [pskStatus EXCEPT ![a] = IF @ = "active" THEN "inactive" ELSE "active"]
      /\ UNCHANGED <<pskRow, pskCall, pskPskByPeer, pskPeersByKey, pskAwg, pskFiles, pskMade, pskFaults,
                      pskRestarts, pskExcused, pskLost>>
  BY DEF Psk!SwitchAccess, Psk!agent
<1>2. pskStatus' \in [Accesses -> {"none", "pending", "active", "inactive"}]
  BY <1>1, PskTypes
<1>3. KeysOfRows'
  BY <1>1, PskTypes DEF PskInv, KeysOfRows
<1> QED BY <1>1, <1>2, <1>3 DEF PskInv, Psk!TypeOK, Psk!OldAreAccesses, Psk!AccessesAreKeys, Psk!BoundsAreNat,
           Psk!PeerHasKeyOfText, Psk!FilesAreOfCalls

LEMMA PskReconcileStep ==
    ASSUME PskInv, NEW a \in Accesses, Psk!Reconcile(a)
    PROVE  PskInv'
<1>1. /\ pskStatus[a] = "active" /\ pskCall[PskLoop].pc = "idle" /\ PskLoop \in Psk!Actors
      /\ UNCHANGED <<pskStatus, pskRow, pskPskByPeer, pskPeersByKey, pskAwg, pskFiles, pskMade, pskFaults,
                      pskRestarts, pskExcused, pskLost>>
  BY DEF Psk!Reconcile, Psk!control, Psk!agent, Psk!Actors
<1> DEFINE t == [pc |-> "file", acc |-> a, file |-> Psk!NoFile, key |-> IF a \in Old THEN Psk!NoKey ELSE a]
<1>2. pskCall' = [pskCall EXCEPT ![PskLoop] = t]
  <2>1. pskRow[a] = IF a \in Old THEN Psk!NoKey ELSE a
    BY <1>1 DEF PskInv, KeysOfRows
  <2> QED BY <2>1 DEF Psk!Reconcile, Psk!DesiredKey
<1>3. KeysOfRows' /\ Psk!PeerHasKeyOfText'
  BY <1>1 DEF PskInv, KeysOfRows, Psk!PeerHasKeyOfText
<1>4. /\ t \in PskCall /\ KeyOfCall(t, pskPskByPeer) /\ t.file = Psk!NoFile
      /\ pskCall[PskLoop].file = Psk!NoFile /\ Psk!NoFile \notin pskFiles
  BY <1>1, CallBegins
<1> HIDE DEF t
<1> QED BY <1>1, <1>2, <1>3, <1>4, PskTypes, OneCallMoves

LEMMA PskRevokeStep ==
    ASSUME PskInv, NEW a \in Accesses, Psk!RevokePeer(a)
    PROVE  PskInv'
<1>1. /\ pskAwg' = [pskAwg EXCEPT ![a] = Psk!Absent] /\ pskPeersByKey' = pskPeersByKey \ {a}
      /\ pskLost' = pskLost \cup {b \in Old : b # pskPskByPeer[b] /\ b # pskAwg'[b]}
      /\ UNCHANGED <<pskStatus, pskRow, pskCall, pskPskByPeer, pskFiles, pskMade, pskFaults, pskRestarts,
                      pskExcused>>
  BY DEF Psk!RevokePeer, Psk!control, Psk!LostBy
<1>2. pskAwg' \in [Accesses -> Accesses \cup {Psk!NoKey, Psk!Absent}] /\ pskLost' \subseteq Old
  BY <1>1, PskTypes
<1>3. Psk!TypeOK'
  BY <1>1, <1>2 DEF PskInv, Psk!TypeOK, Psk!Keys
<1>4. KeysOfRows'
  BY <1>1, PskTypes DEF PskInv, KeysOfRows
<1>5. Psk!PeerHasKeyOfText'
  BY <1>1, PskTypes DEF PskInv, Psk!PeerHasKeyOfText
<1> QED BY <1>1, <1>3, <1>4, <1>5, PskTypes DEF PskInv, Psk!FilesAreOfCalls

(* A call for which a file was written.                                    *)
WithFile(r, m) == [r EXCEPT !.pc = "set", !.file = m, !.key = r.acc]

LEMMA CallWithFile ==
    ASSUME NEW r \in PskCall, NEW m \in 0..MaxFiles
    PROVE  /\ WithFile(r, m) \in PskCall /\ WithFile(r, m).pc = "set" /\ WithFile(r, m).acc = r.acc
           /\ WithFile(r, m).key = r.acc /\ WithFile(r, m).file = m
  BY DEF PskCall, WithFile

(* Steps of a call before the peer is set.                                 *)
LEMMA FileSteps ==
    ASSUME PskInv, NEW c \in Psk!Actors,
           Psk!NoFileNeeded(c) \/ Psk!writePresharedKeyFile(c) \/ Psk!WriteFails(c)
    PROVE  PskInv'
<1> DEFINE was == pskCall[c]
<1>1. /\ was \in PskCall /\ was # Psk!Idle /\ was.pc = "file" /\ was.acc \in Accesses /\ was.file = Psk!NoFile
      /\ was.key = IF was.acc \in Old THEN Psk!NoKey ELSE was.acc
      /\ UNCHANGED <<pskStatus, pskRow, pskPeersByKey, pskAwg, pskRestarts, pskLost>>
  <2>1. was.pc = "file" /\ UNCHANGED <<pskStatus, pskRow, pskPeersByKey, pskAwg, pskRestarts, pskLost>>
    BY DEF Psk!NoFileNeeded, Psk!writePresharedKeyFile, Psk!WriteFails, Psk!control, Psk!agent
  <2> QED BY <2>1, PskTypes, PskFields DEF PskInv, KeyOfCall
<1>2. KeyOrNone(pskPskByPeer[was.acc], was.acc)
  BY <1>1 DEF PskInv, KeysOfRows
<1>3. Psk!KeyOf(c) = IF was.acc \in Old THEN pskPskByPeer[was.acc] ELSE was.acc
  BY <1>1, PskTypes DEF Psk!KeyOf
<1>4. Psk!NoFile \notin pskFiles
  BY PskTypes
<1>5. CASE Psk!NoFileNeeded(c)
  <2> DEFINE t == [was EXCEPT !.pc = "set"]
  <2>1. /\ pskCall' = [pskCall EXCEPT ![c] = t] /\ Psk!KeyOf(c) = Psk!NoKey
        /\ UNCHANGED <<pskPskByPeer, pskFiles, pskMade, pskFaults, pskExcused>>
    BY <1>5 DEF Psk!NoFileNeeded, Psk!agent
  <2>2. /\ t \in PskCall /\ t # Psk!Idle /\ t.pc = "set" /\ t.acc = was.acc /\ t.key = was.key /\ t.file = was.file
    BY <1>1, PskTypes, PskFields
  <2> HIDE DEF t
  <2>3. KeyOfCall(t, pskPskByPeer')
    BY <1>1, <1>3, <2>1, <2>2, PskTypes DEF KeyOfCall, KeyOrNone
  <2>4. KeysOfRows' /\ Psk!PeerHasKeyOfText'
    BY <1>1, <2>1 DEF PskInv, KeysOfRows, Psk!PeerHasKeyOfText
  <2> QED BY <1>1, <1>4, <2>1, <2>2, <2>3, <2>4, PskTypes, OneCallMoves
<1>6. CASE Psk!writePresharedKeyFile(c)
  <2> DEFINE t == [was EXCEPT !.pc = "set", !.file = pskMade', !.key = Psk!KeyOf(c)]
  <2>1. /\ pskCall' = [pskCall EXCEPT ![c] = t] /\ Psk!KeyOf(c) # Psk!NoKey
        /\ pskMade < MaxFiles /\ pskMade' = pskMade + 1 /\ pskFiles' = pskFiles \cup {pskMade'}
        /\ pskPskByPeer' = [pskPskByPeer EXCEPT ![was.acc] = Psk!KeyOf(c)]
        /\ UNCHANGED <<pskFaults, pskExcused>>
    BY <1>6 DEF Psk!writePresharedKeyFile
  <2>2. Psk!KeyOf(c) = was.acc
    BY <1>2, <1>3, <2>1 DEF KeyOrNone
  <2>3. pskMade' \in 1..MaxFiles
    BY <2>1, PskTypes
  <2>4. /\ t \in PskCall /\ t.pc = "set" /\ t.acc = was.acc /\ t.key = was.acc /\ t.file = pskMade'
    <3>1. pskMade' \in 0..MaxFiles
      BY <2>3, PskTypes
    <3>2. t = WithFile(was, pskMade')
      BY <2>2 DEF WithFile
    <3> HIDE DEF t, was
    <3>3. was \in PskCall
      BY <1>1
    <3>4. WithFile(was, pskMade') \in PskCall
      BY <3>1, <3>3, CallWithFile
    <3>5. /\ WithFile(was, pskMade').pc = "set" /\ WithFile(was, pskMade').acc = was.acc
          /\ WithFile(was, pskMade').key = was.acc /\ WithFile(was, pskMade').file = pskMade'
      BY <3>1, <3>3, CallWithFile
    <3> QED BY <3>2, <3>4, <3>5
  <2> HIDE DEF t
  <2>5. KeyOfCall(t, pskPskByPeer')
    BY <2>3, <2>4, PskTypes DEF KeyOfCall, KeyOrNone
  <2>6. /\ pskPskByPeer' \in [Accesses -> Accesses \cup {Psk!NoKey}]
        /\ \A a \in Accesses : pskPskByPeer[a] = Psk!NoKey /\ a \in Old => pskPskByPeer'[a] = Psk!NoKey
    BY <1>1, <1>3, <2>1, <2>2, PskTypes
  <2>7. KeysOfRows' /\ Psk!PeerHasKeyOfText'
    BY <1>1, <2>1, <2>2, PskTypes DEF PskInv, KeysOfRows, KeyOrNone, Psk!PeerHasKeyOfText
  <2>8. pskFiles' \subseteq 1..MaxFiles /\ pskMade' \in 0..MaxFiles /\ Psk!NoFile \notin pskFiles'
    BY <2>1, <2>3, PskTypes
  <2> QED BY <1>1, <2>1, <2>4, <2>5, <2>6, <2>7, <2>8, PskTypes, OneCallMoves
<1>7. CASE Psk!WriteFails(c)
  <2> DEFINE t == [was EXCEPT !.pc = "end"]
  <2>1. /\ pskCall' = [pskCall EXCEPT ![c] = t] /\ pskFaults < MaxFaults /\ pskFaults' = pskFaults + 1
        /\ UNCHANGED pskPskByPeer
        /\ \/ UNCHANGED <<pskFiles, pskMade, pskExcused>>
           \/ /\ pskMade < MaxFiles /\ pskMade' = pskMade + 1
              /\ pskFiles' = pskFiles \cup {pskMade'} /\ pskExcused' = pskExcused \cup {pskMade'}
    BY <1>7 DEF Psk!WriteFails, Psk!Fault, Psk!agent
  <2>2. /\ t \in PskCall /\ t # Psk!Idle /\ t.pc = "end" /\ t.acc = was.acc /\ t.key = was.key /\ t.file = was.file
    BY <1>1, PskTypes, PskFields
  <2> HIDE DEF t
  <2>3. KeyOfCall(t, pskPskByPeer')
    BY <1>1, <2>2 DEF KeyOfCall, KeyOrNone
  <2>4. KeysOfRows' /\ Psk!PeerHasKeyOfText'
    BY <1>1, <2>1 DEF PskInv, KeysOfRows, Psk!PeerHasKeyOfText
  <2>5. /\ pskFiles' \subseteq 1..MaxFiles /\ pskExcused' \subseteq 1..MaxFiles /\ pskMade' \in 0..MaxFiles
        /\ pskFaults' \in 0..MaxFaults /\ Psk!NoFile \notin pskFiles'
        /\ pskFiles' \subseteq pskFiles \cup pskExcused' /\ pskExcused \subseteq pskExcused'
    BY <2>1, PskTypes
  <2> QED BY <1>1, <2>1, <2>2, <2>3, <2>4, <2>5, PskTypes, OneCallMoves
<1> QED BY <1>5, <1>6, <1>7

(* The peer is set: with a file it has its key, and without one it keeps   *)
(* it, or was lost before.                                                 *)
LEMMA SetPeerStep ==
    ASSUME PskInv, NEW c \in Psk!Actors, Psk!SetPeer(c)
    PROVE  /\ PskInv'
           /\ \A a \in Accesses : pskAwg[a] = a /\ pskAwg'[a] # Psk!Absent => pskAwg'[a] = a
<1> DEFINE was == pskCall[c]
           t == [was EXCEPT !.pc = "end"]
<1>1. /\ was.pc = "set" /\ pskCall' = [pskCall EXCEPT ![c] = t]
      /\ pskAwg' = [pskAwg EXCEPT ![was.acc] = Psk!AfterSet(c)]
      /\ pskPeersByKey' = pskPeersByKey \cup {was.acc}
      /\ pskLost' = pskLost \cup {b \in Old : b # pskPskByPeer[b] /\ b # pskAwg'[b]}
      /\ UNCHANGED <<pskStatus, pskRow, pskPskByPeer, pskFiles, pskMade, pskFaults, pskRestarts, pskExcused>>
  BY DEF Psk!SetPeer, Psk!control, Psk!LostBy
<1>2. /\ was \in PskCall /\ was # Psk!Idle /\ was.acc \in Accesses /\ was.file \in 0..MaxFiles
      /\ t \in PskCall /\ t # Psk!Idle /\ t.pc = "end" /\ t.acc = was.acc /\ t.key = was.key /\ t.file = was.file
  BY <1>1, PskTypes, PskFields
<1> HIDE DEF t
<1>3. /\ was.file # Psk!NoFile => Psk!AfterSet(c) = was.acc
      /\ was.file = Psk!NoFile => was.acc \in Old /\ pskPskByPeer[was.acc] = Psk!NoKey
      /\ KeyOrNone(was.key, was.acc)
  BY <1>1, <1>2 DEF PskInv, KeyOfCall, Psk!AfterSet
<1>4. /\ was.file = Psk!NoFile /\ pskAwg[was.acc] # Psk!Absent => Psk!AfterSet(c) = pskAwg[was.acc]
      /\ was.file = Psk!NoFile /\ pskAwg[was.acc] = Psk!Absent => Psk!AfterSet(c) = Psk!NoKey
  BY DEF Psk!AfterSet
<1>5. Psk!AfterSet(c) \in Accesses \cup {Psk!NoKey}
  BY <1>2, <1>3, <1>4, PskTypes
<1>6. pskAwg' \in [Accesses -> Accesses \cup {Psk!NoKey, Psk!Absent}] /\ pskLost' \subseteq Old /\ pskPeersByKey' \subseteq Accesses
  BY <1>1, <1>2, <1>5, PskTypes
<1>7. \A a \in Accesses : pskAwg[a] = a /\ pskAwg'[a] # Psk!Absent => pskAwg'[a] = a
  BY <1>1, <1>2, <1>3, <1>4, PskTypes
<1>8. Psk!PeerHasKeyOfText'
  <2> SUFFICES ASSUME NEW a \in Accesses, a \notin pskLost' PROVE pskAwg'[a] \in {Psk!Absent, a}
    BY DEF Psk!PeerHasKeyOfText
  <2>1. pskAwg[a] \in {Psk!Absent, a}
    BY <1>1 DEF PskInv, Psk!PeerHasKeyOfText
  <2>2. CASE a # was.acc
    BY <1>1, <2>1, <2>2, PskTypes
  <2>3. CASE a = was.acc /\ was.file # Psk!NoFile
    BY <1>1, <1>3, <2>3, PskTypes
  <2>4. CASE a = was.acc /\ was.file = Psk!NoFile
    BY <1>1, <1>3, <2>4, PskTypes
  <2> QED BY <2>2, <2>3, <2>4
<1>9. KeysOfRows'
  BY <1>1, PskTypes DEF PskInv, KeysOfRows
<1>10. KeyOfCall(t, pskPskByPeer')
  BY <1>2, <1>3 DEF KeyOfCall
<1>11. PskInv'
  BY <1>1, <1>2, <1>6, <1>8, <1>9, <1>10, PskTypes, OneCallMoves
<1> QED BY <1>7, <1>11

(* A call fails at the peer, or comes to its end.                          *)
LEMMA EndSteps ==
    ASSUME PskInv, NEW c \in Psk!Actors, Psk!SetFails(c) \/ Psk!removeContainerFile(c)
    PROVE  PskInv'
<1> DEFINE was == pskCall[c]
<1>1. /\ was.pc \in {"set", "end"}
      /\ UNCHANGED <<pskRow, pskPskByPeer, pskPeersByKey, pskAwg, pskMade, pskRestarts, pskLost>>
  BY DEF Psk!SetFails, Psk!removeContainerFile, Psk!control, Psk!agent
<1>2. /\ was \in PskCall /\ was # Psk!Idle /\ was.acc \in Accesses /\ was.file \in 0..MaxFiles
      /\ KeyOrNone(was.key, was.acc)
  BY <1>1, PskTypes, PskFields DEF PskInv, KeyOfCall
<1>3. Psk!PeerHasKeyOfText'
  BY <1>1 DEF PskInv, Psk!PeerHasKeyOfText
<1>4. CASE Psk!SetFails(c)
  <2> DEFINE t == [was EXCEPT !.pc = "end"]
  <2>1. /\ pskCall' = [pskCall EXCEPT ![c] = t] /\ pskFaults < MaxFaults /\ pskFaults' = pskFaults + 1
        /\ UNCHANGED <<pskStatus, pskFiles, pskExcused>>
    BY <1>4 DEF Psk!SetFails, Psk!FailedSet, Psk!Fault, Psk!control
  <2>2. /\ t \in PskCall /\ t # Psk!Idle /\ t.pc = "end" /\ t.acc = was.acc /\ t.key = was.key /\ t.file = was.file
    BY <1>1, PskTypes, PskFields
  <2> HIDE DEF t
  <2>3. KeyOfCall(t, pskPskByPeer') /\ KeysOfRows' /\ pskFaults' \in 0..MaxFaults
    BY <1>1, <1>2, <2>1, <2>2, PskTypes DEF KeyOfCall, PskInv, KeysOfRows
  <2> QED BY <1>1, <1>3, <2>1, <2>2, <2>3, PskTypes, OneCallMoves
<1>5. CASE Psk!removeContainerFile(c)
  <2>1. /\ pskCall' = [pskCall EXCEPT ![c] = Psk!Idle] /\ pskStatus' \in Psk!Ended(c)
        /\ \/ pskFiles' = pskFiles \ {was.file} /\ UNCHANGED <<pskFaults, pskExcused>>
           \/ /\ was.file # Psk!NoFile /\ pskFaults < MaxFaults /\ pskFaults' = pskFaults + 1
              /\ pskExcused' = pskExcused \cup {was.file} /\ UNCHANGED pskFiles
    BY <1>5 DEF Psk!removeContainerFile, Psk!Fault
  <2>2. /\ pskStatus' \in [Accesses -> {"none", "pending", "active", "inactive"}]
        /\ \A a \in Accesses : pskStatus'[a] = "none" <=> pskStatus[a] = "none"
    <3>1. CASE c \in Pushers /\ pskStatus[was.acc] = "pending"
      <4>1. PICK s \in {"active", "inactive"} : pskStatus' = [pskStatus EXCEPT ![was.acc] = s]
        BY <2>1, <3>1 DEF Psk!Ended
      <4> QED BY <1>2, <3>1, <4>1, PskTypes
    <3>2. CASE ~(c \in Pushers /\ pskStatus[was.acc] = "pending")
      <4>1. pskStatus' = pskStatus
        BY <2>1, <3>2 DEF Psk!Ended
      <4> QED BY <4>1, PskTypes
    <3> QED BY <3>1, <3>2
  <2>3. KeyOfCall(Psk!Idle, pskPskByPeer') /\ KeysOfRows'
    BY <1>1, <2>2 DEF KeyOfCall, PskInv, KeysOfRows
  <2>4. /\ pskFaults' \in 0..MaxFaults /\ pskFiles' \subseteq pskFiles /\ pskFiles' \subseteq 1..MaxFiles
        /\ pskExcused \subseteq pskExcused' /\ pskExcused' \subseteq 1..MaxFiles
        /\ was.file \in pskFiles' => was.file \in pskExcused'
    BY <1>2, <2>1, PskTypes
  <2> QED BY <1>1, <1>3, <2>1, <2>2, <2>3, <2>4, PskTypes, OneCallMoves
<1> QED BY <1>4, <1>5

(* A restart ends every call of the agent, and the files of the calls are  *)
(* excused.                                                                *)
LEMMA PskRestartSteps ==
    ASSUME PskInv, Psk!AgentRestarts \/ Psk!ContainerRestarts
    PROVE  PskInv'
<1>1. pskRestarts' \in 0..MaxPskRestarts
  BY PskTypes DEF Psk!AgentRestarts, Psk!ContainerRestarts
<1>2. CASE Psk!AgentRestarts
  <2>1. /\ pskPskByPeer' = [a \in Accesses |-> Psk!NoKey] /\ pskPeersByKey' = {}
        /\ pskCall' = [c \in Psk!Actors |-> Psk!Idle]
        /\ pskExcused' = pskExcused \cup ({pskCall[c].file : c \in Psk!Actors} \ {Psk!NoFile})
        /\ pskLost' = pskLost \cup {b \in Old : b # pskPskByPeer'[b] /\ b # pskAwg[b]}
        /\ UNCHANGED <<pskRow, pskAwg, pskFiles, pskMade, pskFaults>>
    BY <1>2 DEF Psk!AgentRestarts, Psk!LostBy
  <2>2. PICK s \in {"active", "inactive"} :
            pskStatus' = [a \in Accesses |-> IF pskStatus[a] = "pending" THEN s ELSE pskStatus[a]]
    BY <1>2 DEF Psk!AgentRestarts
  <2>3. /\ pskStatus' \in [Accesses -> {"none", "pending", "active", "inactive"}]
        /\ \A a \in Accesses : pskStatus'[a] = "none" <=> pskStatus[a] = "none"
    BY <2>2, PskTypes
  <2>4. \A c \in Psk!Actors : pskCall[c].file \in 0..MaxFiles
    BY PskTypes DEF PskCall, Psk!Idle
  <2>5. pskExcused' \subseteq 1..MaxFiles /\ pskFiles \subseteq pskExcused'
    BY <2>1, <2>4, PskTypes DEF PskInv, Psk!FilesAreOfCalls
  <2>6. Psk!TypeOK'
    BY <1>1, <2>1, <2>3, <2>5, PskTypes DEF Psk!TypeOK, Psk!Keys
  <2>7. KeysOfRows' /\ Psk!PeerHasKeyOfText'
    BY <2>1, <2>3, PskTypes DEF PskInv, KeysOfRows, KeyOrNone, Psk!PeerHasKeyOfText
  <2>8. \A c \in Psk!Actors : KeyOfCall(pskCall'[c], pskPskByPeer')
    BY <2>1 DEF KeyOfCall
  <2>9. Psk!FilesAreOfCalls' /\ pskCall' \in [Psk!Actors -> {Psk!Idle} \cup PskCall]
    BY <2>1, <2>5 DEF Psk!FilesAreOfCalls
  <2> QED BY <2>6, <2>7, <2>8, <2>9, PskTypes DEF PskInv
<1>3. CASE Psk!ContainerRestarts
  <2>1. /\ pskAwg' = [a \in Accesses |-> Psk!Absent]
        /\ pskLost' = pskLost \cup {b \in Old : b # pskPskByPeer[b] /\ b # pskAwg'[b]}
        /\ UNCHANGED <<pskStatus, pskRow, pskCall, pskPskByPeer, pskPeersByKey, pskFiles, pskMade, pskFaults, pskExcused>>
    BY <1>3 DEF Psk!ContainerRestarts, Psk!LostBy, Psk!control, Psk!agent
  <2>2. pskAwg' \in [Accesses -> Accesses \cup {Psk!NoKey, Psk!Absent}] /\ pskLost' \subseteq Old
    BY <2>1, PskTypes
  <2>3. Psk!TypeOK'
    BY <1>1, <2>1, <2>2 DEF PskInv, Psk!TypeOK, Psk!Keys
  <2>4. KeysOfRows' /\ Psk!PeerHasKeyOfText'
    BY <2>1, PskTypes DEF PskInv, KeysOfRows, Psk!PeerHasKeyOfText
  <2> QED BY <2>1, <2>3, <2>4, PskTypes DEF PskInv, Psk!FilesAreOfCalls
<1> QED BY <1>2, <1>3

(* No call is under way, and an old access has its key on the interface.   *)
LEMMA PskStarts ==
    Psk!OldAreAccesses /\ Psk!AccessesAreKeys /\ Psk!BoundsAreNat /\ Psk!Init => PskInv
<1> SUFFICES ASSUME Psk!OldAreAccesses, Psk!AccessesAreKeys, Psk!BoundsAreNat, Psk!Init
             PROVE  PskInv
  OBVIOUS
<1>1. \A c \in Psk!Actors : pskCall[c] = Psk!Idle
  BY DEF Psk!Init
<1>2. Psk!TypeOK
  BY <1>1 DEF Psk!Init, Psk!TypeOK, Psk!Keys, Psk!OldAreAccesses, Psk!BoundsAreNat
<1>3. pskCall \in [Psk!Actors -> {Psk!Idle} \cup PskCall] /\ \A c \in Psk!Actors : KeyOfCall(pskCall[c], pskPskByPeer)
  BY <1>1 DEF Psk!Init, KeyOfCall
<1>4. KeysOfRows /\ Psk!PeerHasKeyOfText /\ Psk!FilesAreOfCalls
  BY DEF Psk!Init, KeysOfRows, KeyOrNone, Psk!PeerHasKeyOfText, Psk!FilesAreOfCalls, Psk!OldAreAccesses
<1> QED BY <1>2, <1>3, <1>4 DEF PskInv

(* Every step, of any of the actors.  Only SetPeer gives a peer a key.     *)
LEMMA PskGoesOn ==
    PskInv /\ [Psk!Next]_(Psk!vars)
    => /\ PskInv'
       /\ \A a \in Accesses : pskAwg[a] = a /\ pskAwg'[a] # Psk!Absent => pskAwg'[a] = a
<1> SUFFICES ASSUME PskInv, [Psk!Next]_(Psk!vars)
             PROVE  /\ PskInv'
                    /\ \A a \in Accesses : pskAwg[a] = a /\ pskAwg'[a] # Psk!Absent => pskAwg'[a] = a
  OBVIOUS
<1> DEFINE Kept == \A a \in Accesses : pskAwg'[a] \in {pskAwg[a], Psk!Absent}
<1>1. Kept => \A a \in Accesses : pskAwg[a] = a /\ pskAwg'[a] # Psk!Absent => pskAwg'[a] = a
  OBVIOUS
<1>2. CASE UNCHANGED Psk!vars
  <2>1. Kept
    BY <1>2 DEF Psk!vars
  <2>2. PskInv'
    BY <1>2 DEF PskInv, Psk!vars, Psk!TypeOK, KeysOfRows, KeyOfCall, Psk!PeerHasKeyOfText, Psk!FilesAreOfCalls,
       Psk!OldAreAccesses, Psk!AccessesAreKeys, Psk!BoundsAreNat
  <2> QED BY <1>1, <2>1, <2>2
<1>3. ASSUME NEW a \in Accesses, NEW p \in Pushers, Psk!CreateAccess(p, a)
      PROVE  PskInv' /\ Kept
  BY <1>3, CreateAccessStep DEF Psk!CreateAccess
<1>4. ASSUME NEW a \in Accesses, Psk!SwitchAccess(a) \/ Psk!Reconcile(a)
      PROVE  PskInv' /\ Kept
  BY <1>4, SwitchAccessStep, PskReconcileStep DEF Psk!SwitchAccess, Psk!Reconcile
<1>5. ASSUME NEW a \in Accesses, Psk!RevokePeer(a)
      PROVE  PskInv' /\ Kept
  <2>1. PskInv'
    BY <1>5, PskRevokeStep
  <2>2. Kept
    BY <1>5, PskTypes, SMTT(30) DEF Psk!RevokePeer
  <2> QED BY <2>1, <2>2
<1>6. ASSUME NEW c \in Psk!Actors, Psk!NoFileNeeded(c) \/ Psk!writePresharedKeyFile(c) \/ Psk!WriteFails(c)
      PROVE  PskInv' /\ Kept
  BY <1>6, FileSteps DEF Psk!NoFileNeeded, Psk!writePresharedKeyFile, Psk!WriteFails
<1>7. ASSUME NEW c \in Psk!Actors, Psk!SetFails(c) \/ Psk!removeContainerFile(c)
      PROVE  PskInv' /\ Kept
  BY <1>7, EndSteps DEF Psk!SetFails, Psk!removeContainerFile
<1>8. CASE Psk!AgentRestarts \/ Psk!ContainerRestarts
  <2>1. PskInv'
    BY <1>8, PskRestartSteps
  <2>2. Kept
    BY <1>8 DEF Psk!AgentRestarts, Psk!ContainerRestarts
  <2> QED BY <1>1, <2>1, <2>2
<1> HIDE DEF Kept
<1>9. CASE Psk!Next
  BY <1>1, <1>3, <1>4, <1>5, <1>6, <1>7, <1>8, <1>9, SetPeerStep DEF Psk!Next, Psk!Apply
<1> QED BY <1>2, <1>9

(* For any accesses, old or new, any operations at a time, and whatever    *)
(* fails and restarts: a peer on the interface has the key of its user's   *)
(* text unless that key was in the memory of the agent and in the          *)
(* interface alone and both are gone, no step takes the key from a peer    *)
(* that stays, and no key file is left behind without a fault.             *)
THEOREM KeysStay == Psk!Spec => KeysFollowText
<1>1. PskInv => Psk!TypeOK /\ Psk!PeerHasKeyOfText /\ Psk!FilesAreOfCalls
  BY DEF PskInv
<1>2. PskInv /\ [Psk!Next]_(Psk!vars)
      => [\A a \in Accesses : pskAwg[a] = a /\ pskAwg'[a] # Psk!Absent => pskAwg'[a] = a]_(Psk!vars)
  BY PskGoesOn
<1>3. Psk!OldAreAccesses /\ Psk!AccessesAreKeys /\ Psk!BoundsAreNat
  BY PartsAssume
<1> QED BY <1>1, <1>2, <1>3, PskStarts, PskGoesOn, PTL
        DEF Psk!Spec, KeysFollowText, Psk!KeysFollowText, Psk!KeyIsNeverTaken

--------------------------------------------------------------------------------
(***************************************************************************)
(* The document of Xray: what the calls of the agent do to it, for any     *)
(* documents, settings and requests.                                       *)
(***************************************************************************)
(* A set of numbers has a least one.                                      *)
LEMMA LeastNumber ==
    ASSUME NEW T, T \subseteq Nat, NEW n \in T
    PROVE  \E m \in T : \A k \in T : m <= k
<1> DEFINE P == {0..m : m \in {k \in T : k <= n}}
<1>1. IsFiniteSet(0..n) /\ P \subseteq SUBSET (0..n) /\ 0..n \in P
  <2>1. IsFiniteSet(0..n)
    BY FS_Interval
  <2>2. \A m \in Nat : m <= n => 0..m \subseteq 0..n
    OBVIOUS
  <2> QED BY <2>1, <2>2
<1>2. IsWellFoundedOn(StrictSubsetOrdering(0..n), SUBSET (0..n))
  BY <1>1, FS_StrictSubsetOrderingWellFounded, FS_FiniteSubsetsOfFinite
<1>3. PICK s \in P : \A y \in P : ~(<<y, s>> \in StrictSubsetOrdering(0..n))
  BY <1>1, <1>2, WFMin
<1>4. PICK m \in T : m <= n /\ s = 0..m
  BY <1>3
<1>5. \A k \in T : m <= k
  <2> SUFFICES ASSUME NEW k \in T, k < m PROVE FALSE
    OBVIOUS
  <2>1. 0..k \in P /\ 0..k \subseteq 0..m /\ m \in 0..m /\ m \notin 0..k
    BY <1>4
  <2>2. <<0..k, 0..m>> \in StrictSubsetOrdering(0..n)
    BY <1>1, <1>3, <1>4, <2>1 DEF StrictSubsetOrdering
  <2> QED BY <1>3, <1>4, <2>1, <2>2
<1> QED BY <1>5

(* What the loop over the clients holds after each of them.                *)
LEMMA KeptByStep ==
    ASSUME NEW cs, Len(cs) \in Nat, NEW u
    PROVE  /\ Xray!Kept(cs, u)[0] = <<>>
           /\ \A n \in 1..Len(cs) :
                 Xray!Kept(cs, u)[n] =
                     IF Xray!Names(cs[n], u) THEN Xray!Kept(cs, u)[n - 1]
                     ELSE Append(Xray!Kept(cs, u)[n - 1], cs[n])
<1> DEFINE S(x, k) == IF Xray!Names(cs[k], u) THEN x ELSE Append(x, cs[k])
           G(n, f) == f = [k \in 0..n |-> IF k = 0 THEN <<>> ELSE S(f[k - 1], k)]
           bad == {n \in Nat : ~\E f : G(n, f)}
<1>1. Xray!Kept(cs, u) = CHOOSE f : G(Len(cs), f)
  BY DEF Xray!Kept
<1> HIDE DEF S
<1>2. bad = {}
  <2> SUFFICES ASSUME NEW b \in bad PROVE FALSE
    OBVIOUS
  <2>1. PICK m \in bad : \A k \in bad : m <= k
    BY LeastNumber
  <2>2. m # 0
    <3>1. G(0, [k \in 0..0 |-> <<>>])
      OBVIOUS
    <3> QED BY <2>1, <3>1
  <2>3. m - 1 \in Nat /\ m - 1 \notin bad
    <3>1. m \in Nat
      OBVIOUS
    <3> HIDE DEF bad
    <3> QED BY <2>1, <2>2, <3>1
  <2>4. PICK f : G(m - 1, f)
    BY <2>3
  <2> DEFINE h == [k \in 0..m |-> IF k = m THEN S(f[m - 1], m) ELSE f[k]]
  <2>5. \A k \in 0..m : h[k] = IF k = 0 THEN <<>> ELSE S(h[k - 1], k)
    <3>1. \A k \in 0..(m - 1) : f[k] = IF k = 0 THEN <<>> ELSE S(f[k - 1], k)
      BY <2>4
    <3>2. \A k \in 0..m : k # m => h[k] = f[k] /\ k \in 0..(m - 1)
      OBVIOUS
    <3>3. \A k \in 0..m : k # 0 => k - 1 \in 0..m /\ k - 1 # m
      OBVIOUS
    <3>4. m \in 0..m /\ h[m] = S(f[m - 1], m)
      BY <2>3
    <3> HIDE DEF h
    <3>5. \A k \in 0..m : k # 0 => h[k - 1] = f[k - 1]
      BY <3>2, <3>3
    <3> QED BY <2>2, <3>1, <3>2, <3>4, <3>5
  <2>6. G(m, h)
    <3>1. h = [k \in 0..m |-> h[k]]
      OBVIOUS
    <3> HIDE DEF h
    <3> QED BY <2>5, <3>1
  <2> QED BY <2>1, <2>6
<1>3. \E f : G(Len(cs), f)
  BY <1>2
<1>4. G(Len(cs), Xray!Kept(cs, u))
  <2> HIDE DEF G
  <2> QED BY <1>1, <1>3
<1> DEFINE K == Xray!Kept(cs, u)
<1>5. \A k \in 0..Len(cs) : K[k] = IF k = 0 THEN <<>> ELSE S(K[k - 1], k)
  <2> HIDE DEF K
  <2>1. G(Len(cs), K)
    BY <1>4 DEF K
  <2> QED BY <2>1
<1>6. K[0] = <<>> /\ \A k \in 1..Len(cs) : K[k] = S(K[k - 1], k)
  <2> HIDE DEF K
  <2> QED BY <1>5
<1> QED BY <1>6 DEF S


(* Induction over the places of a sequence.                                *)
LEMMA PlaceByPlace ==
    ASSUME NEW N \in Nat, NEW G, 0 \in G, \A n \in 1..N : n - 1 \in G => n \in G
    PROVE  \A n \in 0..N : n \in G
<1> DEFINE bad == {n \in 0..N : n \notin G}
<1> SUFFICES ASSUME NEW n \in bad PROVE FALSE
  OBVIOUS
<1>1. bad \subseteq Nat
  OBVIOUS
<1>2. PICK m \in bad : \A k \in bad : m <= k
  <2> HIDE DEF bad
  <2> QED BY <1>1, LeastNumber
<1>3. m \in 1..N /\ m - 1 \in 0..N
  OBVIOUS
<1>4. m - 1 \notin bad
  <2> HIDE DEF bad
  <2> QED BY <1>2, <1>3
<1> QED BY <1>3, <1>4

(* What is kept are the clients that do not name the id.                   *)
LEMMA KeptClients ==
    ASSUME NEW cs \in Seq(Xray!Client), NEW u
    PROVE  \A n \in 0..Len(cs) :
               /\ Xray!Kept(cs, u)[n] \in Seq(Xray!Client)
               /\ \A k \in DOMAIN Xray!Kept(cs, u)[n] :
                     \E i \in 1..n : cs[i] = Xray!Kept(cs, u)[n][k] /\ ~Xray!Names(cs[i], u)
               /\ \A i \in 1..n : ~Xray!Names(cs[i], u)
                     => \E k \in DOMAIN Xray!Kept(cs, u)[n] : cs[i] = Xray!Kept(cs, u)[n][k]
<1> DEFINE K == Xray!Kept(cs, u)
           C == Xray!Client
           N(e) == Xray!Names(e, u)
           G == {n \in 0..Len(cs) :
                   /\ K[n] \in Seq(C)
                   /\ \A k \in DOMAIN K[n] : \E i \in 1..n : cs[i] = K[n][k] /\ ~N(cs[i])
                   /\ \A i \in 1..n : ~N(cs[i]) => \E k \in DOMAIN K[n] : cs[i] = K[n][k]}
<1>1. /\ K[0] = <<>>
      /\ \A n \in 1..Len(cs) : K[n] = IF N(cs[n]) THEN K[n - 1] ELSE Append(K[n - 1], cs[n])
  BY KeptByStep
<1>2. \A n \in 1..Len(cs) : cs[n] \in C
  OBVIOUS
<1>6. Len(cs) \in Nat
  OBVIOUS
<1> HIDE DEF K, C, N
<1>3. 0 \in G
  <2>1. <<>> \in Seq(C) /\ DOMAIN <<>> = {} /\ 1..0 = {} /\ 0 \in 0..Len(cs)
    OBVIOUS
  <2> QED BY <1>1, <2>1
<1>4. ASSUME NEW n \in 1..Len(cs), n - 1 \in G PROVE n \in G
  <2>1. CASE N(cs[n])
    <3>1. K[n] = K[n - 1]
      BY <1>1, <2>1
    <3>2. /\ K[n - 1] \in Seq(C)
          /\ \A k \in DOMAIN K[n - 1] : \E i \in 1..(n - 1) : cs[i] = K[n - 1][k] /\ ~N(cs[i])
          /\ \A i \in 1..(n - 1) : ~N(cs[i]) => \E k \in DOMAIN K[n - 1] : cs[i] = K[n - 1][k]
      BY <1>4
    <3>3. \A i \in 1..n : i \in 1..(n - 1) \/ i = n
      OBVIOUS
    <3>4. 1..(n - 1) \subseteq 1..n /\ n \in 0..Len(cs)
      OBVIOUS
    <3>5. /\ K[n] \in Seq(C)
          /\ \A k \in DOMAIN K[n] : \E i \in 1..n : cs[i] = K[n][k] /\ ~N(cs[i])
      BY <3>1, <3>2, <3>4
    <3>6. \A i \in 1..n : ~N(cs[i]) => \E k \in DOMAIN K[n] : cs[i] = K[n][k]
      BY <2>1, <3>1, <3>2, <3>3
    <3> QED BY <3>4, <3>5, <3>6
  <2>2. CASE ~N(cs[n])
    <3> DEFINE s == K[n - 1]
    <3>1. K[n] = Append(s, cs[n])
      BY <1>1, <2>2
    <3>2. /\ s \in Seq(C)
          /\ \A k \in DOMAIN s : \E i \in 1..(n - 1) : cs[i] = s[k] /\ ~N(cs[i])
          /\ \A i \in 1..(n - 1) : ~N(cs[i]) => \E k \in DOMAIN s : cs[i] = s[k]
      BY <1>4
    <3> HIDE DEF s
    <3>3. /\ K[n] \in Seq(C) /\ DOMAIN K[n] = 1..(Len(s) + 1) /\ DOMAIN s = 1..Len(s) /\ Len(s) \in Nat
          /\ \A k \in DOMAIN s : K[n][k] = s[k]
          /\ K[n][Len(s) + 1] = cs[n]
      BY <1>2, <3>1, <3>2, SMTT(30)
    <3>4. \A k \in DOMAIN K[n] : \E i \in 1..n : cs[i] = K[n][k] /\ ~N(cs[i])
      <4> TAKE k \in DOMAIN K[n]
      <4>1. CASE k \in DOMAIN s
        <5>1. PICK i \in 1..(n - 1) : cs[i] = s[k] /\ ~N(cs[i])
          BY <3>2, <4>1
        <5> QED BY <3>3, <4>1, <5>1
      <4>2. CASE k = Len(s) + 1
        BY <2>2, <3>3, <4>2
      <4> QED BY <3>3, <4>1, <4>2
    <3>5. \A i \in 1..n : ~N(cs[i]) => \E k \in DOMAIN K[n] : cs[i] = K[n][k]
      <4> SUFFICES ASSUME NEW i \in 1..n, ~N(cs[i]) PROVE \E k \in DOMAIN K[n] : cs[i] = K[n][k]
        OBVIOUS
      <4>1. CASE i = n
        BY <3>3, <4>1
      <4>2. CASE i # n
        <5>1. PICK k \in DOMAIN s : cs[i] = s[k]
          BY <3>2, <4>2
        <5> QED BY <3>3, <5>1
      <4> QED BY <4>1, <4>2
    <3>6. K[n] \in Seq(C) /\ n \in 0..Len(cs)
      BY <3>3
    <3> QED BY <3>4, <3>5, <3>6
  <2> QED BY <2>1, <2>2
<1>5. \A n \in 0..Len(cs) : n \in G
  <2> HIDE DEF G
  <2> QED BY <1>3, <1>4, <1>6, PlaceByPlace
<1> QED BY <1>5 DEF K, C, N

(* Clients that name the id make no difference.                            *)
LEMMA KeptAlike ==
    ASSUME NEW cs, NEW ds, Len(cs) \in Nat, Len(ds) \in Nat, NEW u, NEW m \in Nat,
           m <= Len(cs), m <= Len(ds),
           \A i \in 1..m : cs[i] = ds[i] \/ (Xray!Names(cs[i], u) /\ Xray!Names(ds[i], u))
    PROVE  Xray!Kept(cs, u)[m] = Xray!Kept(ds, u)[m]
<1> DEFINE K == Xray!Kept(cs, u)
           L == Xray!Kept(ds, u)
           N(e) == Xray!Names(e, u)
           G == {n \in Nat : K[n] = L[n]}
<1>1. /\ K[0] = <<>> /\ L[0] = <<>>
      /\ \A n \in 1..Len(cs) : K[n] = IF N(cs[n]) THEN K[n - 1] ELSE Append(K[n - 1], cs[n])
      /\ \A n \in 1..Len(ds) : L[n] = IF N(ds[n]) THEN L[n - 1] ELSE Append(L[n - 1], ds[n])
  BY KeptByStep
<1>2. \A i \in 1..m : cs[i] = ds[i] \/ (N(cs[i]) /\ N(ds[i]))
  OBVIOUS
<1> HIDE DEF K, L, N
<1>3. 0 \in G
  BY <1>1
<1>4. \A n \in 1..m : n - 1 \in G => n \in G
  BY <1>1, <1>2
<1>5. \A n \in 0..m : n \in G
  <2> HIDE DEF G
  <2> QED BY <1>3, <1>4, PlaceByPlace
<1> QED BY <1>5 DEF K, L

(* Where none names the id nothing is taken out.                           *)
LEMMA KeptWhole ==
    ASSUME NEW cs \in Seq(Xray!Client), NEW u,
           \A i \in 1..Len(cs) : ~Xray!Names(cs[i], u)
    PROVE  Xray!Without(cs, u) = cs
<1> DEFINE K == Xray!Kept(cs, u)
           G == {n \in Nat : K[n] = [i \in 1..n |-> cs[i]]}
<1>7. Len(cs) \in Nat
  OBVIOUS
<1>1. K[0] = <<>> /\ \A n \in 1..Len(cs) : K[n] = Append(K[n - 1], cs[n])
  <2>1. /\ K[0] = <<>>
        /\ \A n \in 1..Len(cs) :
              K[n] = IF Xray!Names(cs[n], u) THEN K[n - 1] ELSE Append(K[n - 1], cs[n])
    BY <1>7, KeptByStep
  <2> HIDE DEF K
  <2> QED BY <2>1
<1> HIDE DEF K
<1>3. 0 \in G
  BY <1>1
<1>4. ASSUME NEW n \in 1..Len(cs), n - 1 \in G PROVE n \in G
  <2>1. K[n] = Append([i \in 1..(n - 1) |-> cs[i]], cs[n])
    BY <1>1, <1>4
  <2>2. [i \in 1..(n - 1) |-> cs[i]] \in Seq(Xray!Client) /\ cs[n] \in Xray!Client
    OBVIOUS
  <2>3. Append([i \in 1..(n - 1) |-> cs[i]], cs[n]) = [i \in 1..n |-> cs[i]]
    <3> DEFINE s == [i \in 1..(n - 1) |-> cs[i]]
    <3>1. s \in Seq(Xray!Client) /\ Len(s) = n - 1 /\ \A i \in 1..(n - 1) : s[i] = cs[i]
      BY <2>2
    <3> HIDE DEF s
    <3> DEFINE t == Append(s, cs[n])
    <3>2. /\ t \in Seq(Xray!Client) /\ DOMAIN t = 1..n
          /\ \A i \in 1..(n - 1) : t[i] = s[i]
          /\ t[n] = cs[n]
      BY <2>2, <3>1
    <3> HIDE DEF t
    <3>3. t = [i \in 1..n |-> t[i]]
      BY <3>2
    <3>4. \A i \in 1..n : t[i] = cs[i]
      BY <3>1, <3>2
    <3>5. t = [i \in 1..n |-> cs[i]]
      BY <3>3, <3>4
    <3> QED BY <3>5 DEF t, s
  <2>4. K[n] = [i \in 1..n |-> cs[i]] /\ n \in Nat
    BY <2>1, <2>3
  <2> QED BY <2>4
<1>5. \A n \in 0..Len(cs) : n \in G
  <2> HIDE DEF G
  <2> QED BY <1>3, <1>4, <1>7, PlaceByPlace
<1>6. cs = [i \in 1..Len(cs) |-> cs[i]]
  OBVIOUS
<1> QED BY <1>5, <1>6 DEF K, Xray!Without

(* The first entry of an id, the one that an apply looks at.               *)
IsFirst(cs, v, i) ==
    /\ i \in DOMAIN cs /\ Xray!Names(cs[i], v)
    /\ \A j \in DOMAIN cs : j < i => ~Xray!Names(cs[j], v)

(* It stays the first when the entries of another id go.                   *)
LEMMA KeptFirst ==
    ASSUME NEW cs \in Seq(Xray!Client), NEW u, NEW v, u # v, NEW i \in 1..Len(cs), IsFirst(cs, v, i)
    PROVE  \E k : IsFirst(Xray!Without(cs, u), v, k) /\ Xray!Without(cs, u)[k] = cs[i]
<1> DEFINE K == Xray!Kept(cs, u)
           C == Xray!Client
           N(e) == Xray!Names(e, u)
           M(e) == Xray!Names(e, v)
           First(s, k) == k \in DOMAIN s /\ M(s[k]) /\ \A j \in DOMAIN s : j < k => ~M(s[j])
           G == {n \in 0..Len(cs) : n >= i => \E k : First(K[n], k) /\ K[n][k] = cs[i]}
<1>1. /\ K[0] = <<>>
      /\ \A n \in 1..Len(cs) : K[n] = IF N(cs[n]) THEN K[n - 1] ELSE Append(K[n - 1], cs[n])
  BY KeptByStep
<1>2. \A n \in 0..Len(cs) :
         /\ K[n] \in Seq(C)
         /\ \A k \in DOMAIN K[n] : \E j \in 1..n : cs[j] = K[n][k]
  BY KeptClients
<1>3. M(cs[i]) /\ ~N(cs[i]) /\ \A j \in 1..Len(cs) : j < i => ~M(cs[j])
  BY DEF IsFirst, Xray!Names
<1>4. \A n \in 1..Len(cs) : cs[n] \in C
  OBVIOUS
<1>9. Len(cs) \in Nat
  OBVIOUS
<1> HIDE DEF K, C, N, M
<1>5. 0 \in G
  OBVIOUS
<1>6. ASSUME NEW n \in 1..Len(cs), n - 1 \in G PROVE n \in G
  <2> SUFFICES ASSUME n >= i PROVE \E k : First(K[n], k) /\ K[n][k] = cs[i]
    OBVIOUS
  <2> DEFINE s == K[n - 1]
  <2>1. s \in Seq(C) /\ n - 1 \in 0..Len(cs) /\ \A k \in DOMAIN s : \E j \in 1..(n - 1) : cs[j] = s[k]
    BY <1>2
  <2>2. K[n] = IF N(cs[n]) THEN s ELSE Append(s, cs[n])
    BY <1>1
  <2>3. n > i => \E k : First(s, k) /\ s[k] = cs[i]
    BY <1>6
  <2> HIDE DEF s
  <2>4. ~N(cs[n]) => /\ DOMAIN K[n] = 1..(Len(s) + 1) /\ DOMAIN s = 1..Len(s) /\ Len(s) \in Nat
                     /\ \A k \in DOMAIN s : K[n][k] = s[k]
                     /\ K[n][Len(s) + 1] = cs[n]
    BY <1>4, <2>1, <2>2
  <2>5. CASE n = i
    <3>1. \A k \in DOMAIN s : ~M(s[k])
      <4> TAKE k \in DOMAIN s
      <4>1. PICK j \in 1..(n - 1) : cs[j] = s[k]
        BY <2>1
      <4> QED BY <1>3, <2>5, <4>1
    <3>2. First(K[n], Len(s) + 1) /\ K[n][Len(s) + 1] = cs[i]
      BY <1>3, <2>4, <2>5, <3>1
    <3> QED BY <3>2
  <2>6. CASE n > i
    <3>1. PICK k : First(s, k) /\ s[k] = cs[i]
      BY <2>3, <2>6
    <3>2. CASE N(cs[n])
      BY <2>2, <3>1, <3>2
    <3>3. CASE ~N(cs[n])
      <4>1. First(K[n], k) /\ K[n][k] = cs[i]
        BY <2>4, <3>1, <3>3
      <4> QED BY <4>1
    <3> QED BY <3>2, <3>3
  <2> QED BY <2>5, <2>6
<1>7. \A n \in 0..Len(cs) : n \in G
  <2> HIDE DEF G
  <2> QED BY <1>5, <1>6, <1>9, PlaceByPlace
<1>8. \E k : First(K[Len(cs)], k) /\ K[Len(cs)][k] = cs[i]
  BY <1>7
<1> QED BY <1>8 DEF K, M, Xray!Without, IsFirst


(* What a call makes of the clients of its inbound: those of other ids     *)
(* stay.                                                                   *)
Edited(cs, new, u) ==
    /\ new \in Seq(Xray!Client)
    /\ Xray!Without(new, u) = Xray!Without(cs, u)
    /\ \A v : v # u => ((\E i \in DOMAIN cs : Xray!Names(cs[i], v))
                            <=> (\E i \in DOMAIN new : Xray!Names(new[i], v)))
    /\ \A v, i : v # u /\ IsFirst(cs, v, i) => \E k : IsFirst(new, v, k) /\ new[k] = cs[i]

(* The id is there and the first entry is as the settings have it; or it   *)
(* is gone.                                                                *)
Shown(cs, u)  == \E i : IsFirst(cs, u, i) /\ Xray!SameXrayClient(cs[i], u)
Gone(cs, u)   == \A i \in DOMAIN cs : ~Xray!Names(cs[i], u)

(* What the assumptions say of the constants.                              *)
LEMMA DocConstants ==
    /\ Missing # NoArray /\ Missing \notin Seq(Xray!Client) /\ NoArray \notin Seq(Xray!Client)
    /\ NoId \notin Uuids /\ Nil \notin Xray!Entry
    /\ Docs \subseteq Seq(Xray!Inbound)
    /\ \A a \in Agents : a.flow \in {"vision", "own"}
<1>1. Agents \subseteq Xray!Agent
  BY PartsAssume DEF Xray!AgentsAreTyped
<1>2. \A a \in Xray!Agent : a.flow \in {"vision", "own"}
  <2>1. \A a \in Xray!Agent : a.flow \in Xray!Flows \ {""}
    BY DEF Xray!Agent
  <2> QED BY <2>1, Zenon DEF Xray!Flows
<1>3. Missing # NoArray /\ Missing \notin Seq(Xray!Client) /\ NoArray \notin Seq(Xray!Client)
  BY PartsAssume DEF Xray!NoneIsList, Xray!NoList
<1> QED BY <1>1, <1>2, <1>3, PartsAssume DEF Xray!NoneIsEntry, Xray!DocsAreTyped

(* The entry a call writes names its id alone.                             *)
LEMMA FreshEntry ==
    ASSUME docAgent \in Agents, NEW u \in Uuids
    PROVE  /\ Xray!Fresh(u) \in Xray!Client /\ Xray!Names(Xray!Fresh(u), u)
           /\ \A v : Xray!Names(Xray!Fresh(u), v) => v = u
           /\ Xray!SameXrayClient(Xray!Fresh(u), u)
<1> DEFINE e == [id |-> u, flow |-> docAgent.flow, form |-> "exact"]
<1>1. docAgent.flow \in Xray!Flows
  <2>1. docAgent.flow \in {"vision", "own"}
    BY DocConstants
  <2> QED BY <2>1, Zenon DEF Xray!Flows
<1>2. e \in Xray!Entry /\ e.id = u /\ e.flow = docAgent.flow /\ e.form # "fields"
  BY <1>1 DEF Xray!Entry
<1>3. Xray!Fresh(u) = e
  BY DEF Xray!Fresh
<1> HIDE DEF e
<1> QED BY <1>2, <1>3, DocConstants DEF Xray!Client, Xray!Names, Xray!IsEntry, Xray!SameXrayClient

(* A new entry goes to the end, ...                                        *)
LEMMA AppendEdits ==
    ASSUME docAgent \in Agents, NEW u \in Uuids, NEW cs \in Seq(Xray!Client), Gone(cs, u)
    PROVE  /\ Edited(cs, Append(cs, Xray!Fresh(u)), u)
           /\ Shown(Append(cs, Xray!Fresh(u)), u)
<1> DEFINE f == Xray!Fresh(u)
           new == Append(cs, f)
           n == Len(cs)
<1>1. /\ f \in Xray!Client /\ Xray!Names(f, u) /\ Xray!SameXrayClient(f, u)
      /\ \A v : Xray!Names(f, v) => v = u
  BY FreshEntry
<1> HIDE DEF f
<1>2. /\ n \in Nat /\ new \in Seq(Xray!Client) /\ Len(new) = n + 1
      /\ DOMAIN new = 1..(n + 1) /\ DOMAIN cs = 1..n
      /\ new[n + 1] = f /\ \A i \in 1..n : new[i] = cs[i]
  BY <1>1
<1> HIDE DEF new, n
<1>3. Xray!Without(new, u) = Xray!Without(cs, u)
  <2>1. Xray!Kept(new, u)[n] = Xray!Kept(cs, u)[n]
    <3>1. n = Len(cs) /\ n <= Len(cs) /\ n <= Len(new) /\ Len(new) \in Nat
      BY <1>2 DEF n
    <3> QED BY <1>2, <3>1, KeptAlike
  <2>2. Xray!Kept(new, u)[n + 1] = Xray!Kept(new, u)[n]
    <3>1. n + 1 \in 1..Len(new) /\ n + 1 - 1 = n /\ Len(new) \in Nat
      BY <1>2
    <3>2. Xray!Kept(new, u)[n + 1] = Xray!Kept(new, u)[n + 1 - 1]
      BY <1>1, <1>2, <3>1, KeptByStep
    <3> QED BY <3>1, <3>2
  <2> QED BY <1>2, <2>1, <2>2 DEF Xray!Without, n
<1>4. ASSUME NEW v, v # u
      PROVE  (\E i \in DOMAIN cs : Xray!Names(cs[i], v)) <=> (\E i \in DOMAIN new : Xray!Names(new[i], v))
  <2>1. \A i \in DOMAIN new : i \in DOMAIN cs \/ i = n + 1
    BY <1>2
  <2>2. \A i \in DOMAIN cs : i \in DOMAIN new
    BY <1>2
  <2> QED BY <1>1, <1>2, <1>4, <2>1, <2>2
<1>5. ASSUME NEW v, NEW i, v # u, IsFirst(cs, v, i) PROVE IsFirst(new, v, i) /\ new[i] = cs[i]
  BY <1>1, <1>2, <1>5 DEF IsFirst
<1>6. IsFirst(new, u, n + 1)
  BY <1>1, <1>2 DEF IsFirst, Gone
<1>7. Edited(cs, new, u)
  BY <1>2, <1>3, <1>4, <1>5 DEF Edited
<1>8. Shown(new, u)
  BY <1>1, <1>2, <1>6 DEF Shown
<1> QED BY <1>7, <1>8 DEF new, f

(* ... or to the place of the first that has its id, ...                   *)
LEMMA ReplaceEdits ==
    ASSUME docAgent \in Agents, NEW u \in Uuids, NEW cs \in Seq(Xray!Client), NEW p, IsFirst(cs, u, p)
    PROVE  /\ Edited(cs, [cs EXCEPT ![p] = Xray!Fresh(u)], u)
           /\ Shown([cs EXCEPT ![p] = Xray!Fresh(u)], u)
<1> DEFINE f == Xray!Fresh(u)
           new == [cs EXCEPT ![p] = f]
           n == Len(cs)
<1>1. /\ f \in Xray!Client /\ Xray!Names(f, u) /\ Xray!SameXrayClient(f, u)
      /\ \A v : Xray!Names(f, v) => v = u
  BY FreshEntry
<1> HIDE DEF f
<1>2. /\ n \in Nat /\ new \in Seq(Xray!Client) /\ Len(new) = n
      /\ DOMAIN new = 1..n /\ DOMAIN cs = 1..n /\ p \in 1..n
      /\ new[p] = f /\ \A i \in 1..n : i # p => new[i] = cs[i]
  BY <1>1 DEF IsFirst
<1>3. Xray!Names(cs[p], u) /\ \A v : v # u => ~Xray!Names(cs[p], v)
  BY DEF IsFirst, Xray!Names
<1> HIDE DEF new, n
<1>4. Xray!Without(new, u) = Xray!Without(cs, u)
  <2>1. \A i \in 1..n : new[i] = cs[i] \/ (Xray!Names(new[i], u) /\ Xray!Names(cs[i], u))
    BY <1>1, <1>2, <1>3
  <2>2. n = Len(cs) /\ n = Len(new) /\ n <= n
    BY <1>2 DEF n
  <2>3. Xray!Kept(new, u)[n] = Xray!Kept(cs, u)[n]
    BY <1>2, <2>1, <2>2, KeptAlike
  <2> QED BY <2>2, <2>3 DEF Xray!Without
<1>5. ASSUME NEW v, v # u
      PROVE  (\E i \in DOMAIN cs : Xray!Names(cs[i], v)) <=> (\E i \in DOMAIN new : Xray!Names(new[i], v))
  BY <1>1, <1>2, <1>3, <1>5
<1>6. ASSUME NEW v, NEW i, v # u, IsFirst(cs, v, i) PROVE IsFirst(new, v, i) /\ new[i] = cs[i]
  BY <1>1, <1>2, <1>3, <1>6 DEF IsFirst
<1>7. IsFirst(new, u, p)
  BY <1>1, <1>2 DEF IsFirst
<1>8. Edited(cs, new, u)
  BY <1>2, <1>4, <1>5, <1>6 DEF Edited
<1>9. Shown(new, u)
  BY <1>1, <1>2, <1>7 DEF Shown
<1> QED BY <1>8, <1>9 DEF new, f

(* ... or nothing is to do; ...                                            *)
LEMMA NothingEdits == ASSUME NEW cs \in Seq(Xray!Client), NEW u PROVE Edited(cs, cs, u)
  BY DEF Edited, IsFirst

(* ... or all that have it go.                                             *)
LEMMA WithoutEdits ==
    ASSUME NEW cs \in Seq(Xray!Client), NEW u
    PROVE  /\ Edited(cs, Xray!Without(cs, u), u)
           /\ Gone(Xray!Without(cs, u), u)
<1> DEFINE new == Xray!Without(cs, u)
           n == Len(cs)
<1>1. /\ new \in Seq(Xray!Client) /\ n \in Nat /\ DOMAIN cs = 1..n
      /\ \A k \in DOMAIN new : \E i \in 1..n : cs[i] = new[k] /\ ~Xray!Names(cs[i], u)
      /\ \A i \in 1..n : ~Xray!Names(cs[i], u) => \E k \in DOMAIN new : cs[i] = new[k]
  <2>1. Len(cs) \in 0..Len(cs) /\ Len(cs) \in Nat /\ DOMAIN cs = 1..Len(cs)
    OBVIOUS
  <2> QED BY <2>1, KeptClients, SMTT(30) DEF Xray!Without
<1>2. \A v, i : v # u /\ IsFirst(cs, v, i) => \E k : IsFirst(new, v, k) /\ new[k] = cs[i]
  <2>1. \A v, i : IsFirst(cs, v, i) => i \in 1..Len(cs)
    BY DEF IsFirst
  <2> QED BY <2>1, KeptFirst
<1> HIDE DEF new
<1>3. Gone(new, u)
  BY <1>1 DEF Gone
<1>4. Xray!Without(new, u) = new
  <2>1. \A i \in 1..Len(new) : ~Xray!Names(new[i], u)
    BY <1>1, <1>3 DEF Gone
  <2> QED BY <1>1, <2>1, KeptWhole
<1>5. \A e, v : Xray!Names(e, v) /\ v # u => ~Xray!Names(e, u)
  BY DEF Xray!Names
<1>6. ASSUME NEW v, v # u
      PROVE  (\E i \in DOMAIN cs : Xray!Names(cs[i], v)) <=> (\E i \in DOMAIN new : Xray!Names(new[i], v))
  BY <1>1, <1>5, <1>6
<1> QED BY <1>1, <1>2, <1>3, <1>4, <1>6 DEF Edited, new


(* A document with other clients in one inbound.                           *)
Rewritten(doc, d, s, new) ==
    /\ d \in Seq(Xray!Inbound) /\ DOMAIN d = DOMAIN doc
    /\ \A j \in DOMAIN doc : /\ d[j].tag = doc[j].tag /\ d[j].proto = doc[j].proto
                             /\ d[j].sound = doc[j].sound
                             /\ j # s => d[j].clients = doc[j].clients
    /\ d[s].clients = new

(* A write, and none, of the clients of one inbound is such a change.      *)
LEMMA WithRewrites ==
    ASSUME NEW doc \in Seq(Xray!Inbound), NEW s \in DOMAIN doc, NEW new \in Seq(Xray!Client)
    PROVE  Rewritten(doc, Xray!With(doc, s, new), s, new)
<1> DEFINE in == [doc[s] EXCEPT !.clients = new]
           d == [doc EXCEPT ![s] = in]
<1>1. Xray!With(doc, s, new) = d
  BY DEF Xray!With
<1>2. doc[s] \in Xray!Inbound
  OBVIOUS
<1>3. /\ in \in Xray!Inbound /\ in.clients = new
      /\ in.tag = doc[s].tag /\ in.proto = doc[s].proto /\ in.sound = doc[s].sound
  BY <1>2, Zenon DEF Xray!Inbound
<1> HIDE DEF in
<1>4. /\ d \in Seq(Xray!Inbound) /\ DOMAIN d = DOMAIN doc
      /\ d[s] = in /\ \A j \in DOMAIN doc : j # s => d[j] = doc[j]
  BY <1>3
<1> HIDE DEF d
<1>5. \A j \in DOMAIN doc : /\ d[j].tag = doc[j].tag /\ d[j].proto = doc[j].proto
                            /\ d[j].sound = doc[j].sound
                            /\ j # s => d[j].clients = doc[j].clients
  BY <1>3, <1>4
<1>6. d[s].clients = new
  BY <1>3, <1>4
<1> QED BY <1>1, <1>4, <1>5, <1>6 DEF Rewritten

LEMMA SameRewrites ==
    ASSUME NEW doc \in Seq(Xray!Inbound), NEW s
    PROVE  Rewritten(doc, doc, s, doc[s].clients)
  BY DEF Rewritten

(* What the clients of an inbound may be.                                  *)
LEMMA ClientsOf ==
    ASSUME NEW doc \in Seq(Xray!Inbound), NEW j \in DOMAIN doc
    PROVE  doc[j].clients \in {Missing, NoArray} \cup Seq(Xray!Client)
<1>1. doc[j] \in Xray!Inbound
  OBVIOUS
<1> QED BY <1>1 DEF Xray!Inbound, Xray!NoList

(* Min is the least, and the only least.                                   *)
LEMMA LeastIs ==
    ASSUME NEW S, S \subseteq Nat, S # {}
    PROVE  /\ Xray!Min(S) \in S /\ \A y \in S : Xray!Min(S) <= y
           /\ \A i \in S : (\A y \in S : i <= y) => i = Xray!Min(S)
<1>1. PICK n \in S : TRUE
  OBVIOUS
<1>2. \E m \in S : \A k \in S : m <= k
  BY <1>1, LeastNumber
<1>3. Xray!Min(S) \in S /\ \A y \in S : Xray!Min(S) <= y
  BY <1>2 DEF Xray!Min
<1> HIDE DEF Xray!Min
<1>4. ASSUME NEW i \in S, \A y \in S : i <= y PROVE i = Xray!Min(S)
  <2>1. i \in Nat /\ Xray!Min(S) \in Nat /\ i <= Xray!Min(S) /\ Xray!Min(S) <= i
    BY <1>3, <1>4
  <2> QED BY <2>1
<1> QED BY <1>3, <1>4

(* The inbound that a call goes to is one of the document, ...             *)
LEMMA SelectedIs ==
    ASSUME NEW doc \in Seq(Xray!Inbound)
    PROVE  Xray!SelectXrayVLESSInbound(doc) = 0 \/ Xray!SelectXrayVLESSInbound(doc) \in DOMAIN doc
<1> DEFINE tagged == {i \in DOMAIN doc : doc[i].tag = docAgent.tag}
<1>1. DOMAIN doc \subseteq Nat
  OBVIOUS
<1>2. Xray!Cardinality(Xray!Vless(doc)) = 1 => Xray!Vless(doc) # {}
  <2>1. \A S : Xray!Cardinality(S) = Cardinality(S)
    BY DEF Xray!Cardinality, Cardinality
  <2>2. Cardinality({}) = 0
    BY FS_EmptySet
  <2>3. Xray!Cardinality({}) = 0
    BY <2>1, <2>2
  <2> DEFINE V == Xray!Vless(doc)
  <2> HIDE DEF V
  <2>4. Xray!Cardinality(V) = 1 => V # {}
    <3> SUFFICES ASSUME V = {} PROVE Xray!Cardinality(V) # 1
      OBVIOUS
    <3>1. Xray!Cardinality(V) = 0
      BY <2>3
    <3> QED BY <3>1
  <2> QED BY <2>4 DEF V
<1>3. tagged \subseteq DOMAIN doc /\ Xray!Vless(doc) \subseteq DOMAIN doc
  BY DEF Xray!Vless
<1>4. \/ tagged # {} /\ Xray!SelectXrayVLESSInbound(doc) = Xray!Min(tagged)
      \/ Xray!Vless(doc) # {} /\ Xray!SelectXrayVLESSInbound(doc) = Xray!Min(Xray!Vless(doc))
      \/ Xray!SelectXrayVLESSInbound(doc) = 0
  BY <1>2 DEF Xray!SelectXrayVLESSInbound
<1> HIDE DEF tagged
<1> QED BY <1>1, <1>3, <1>4, LeastIs

(* ... and neither it nor what the listing looks at changes by a call.     *)
LEMMA SelectionStays ==
    ASSUME NEW doc, NEW d, NEW s, NEW new, Rewritten(doc, d, s, new)
    PROVE  /\ Xray!SelectXrayVLESSInbound(d) = Xray!SelectXrayVLESSInbound(doc)
           /\ Xray!Looked(d) = Xray!Looked(doc)
<1>1. DOMAIN d = DOMAIN doc /\ \A j \in DOMAIN doc : d[j].tag = doc[j].tag /\ d[j].proto = doc[j].proto
  BY DEF Rewritten
<1>2. {i \in DOMAIN d : d[i].tag = docAgent.tag} = {i \in DOMAIN doc : doc[i].tag = docAgent.tag}
  BY <1>1
<1>3. Xray!Vless(d) = Xray!Vless(doc)
  BY <1>1 DEF Xray!Vless
<1>4. {i \in DOMAIN d : d[i].tag = "vless-reality"} = {i \in DOMAIN doc : doc[i].tag = "vless-reality"}
  BY <1>1
<1>5. Xray!Looked(d) = Xray!Looked(doc)
  BY <1>3, <1>4, Zenon DEF Xray!Looked
<1>6. Xray!SelectXrayVLESSInbound(d) = Xray!SelectXrayVLESSInbound(doc)
  BY <1>2, <1>3, Zenon DEF Xray!SelectXrayVLESSInbound
<1> QED BY <1>5, <1>6

(* The ids of an inbound are those its clients name.                       *)
LEMMA IdsNamed ==
    ASSUME NEW in, in.clients \in {Missing, NoArray} \cup Seq(Xray!Client), NEW v
    PROVE  v \in Xray!IdsIn(in) <=> /\ in.clients \in Seq(Xray!Client) /\ v # NoId
                                    /\ \E i \in DOMAIN in.clients : Xray!Names(in.clients[i], v)
<1>1. Xray!IsList(in.clients) <=> in.clients \in Seq(Xray!Client)
  BY DocConstants DEF Xray!IsList, Xray!NoList
<1> DEFINE cs == in.clients
<1>2. Xray!Range(cs) = {cs[i] : i \in DOMAIN cs}
  BY DEF Xray!Range
<1>3. v \in {e.id : e \in {f \in Xray!Range(cs) : Xray!IsEntry(f)}} <=> \E i \in DOMAIN cs : Xray!Names(cs[i], v)
  BY <1>2 DEF Xray!Names
<1> QED BY <1>1, <1>3 DEF Xray!IdsIn

(* What a call makes of the document when it finds its inbound.            *)
ListOf(in) == IF in.clients = Missing THEN <<>> ELSE in.clients

Effect(doc, d, action, u) ==
    LET s == Xray!SelectXrayVLESSInbound(doc)
    IN  /\ s \in DOMAIN doc /\ doc[s].clients # NoArray
        /\ \/ action = "revoke" /\ d = doc /\ doc[s].clients = Missing
           \/ \E new : /\ Rewritten(doc, d, s, new) /\ Edited(ListOf(doc[s]), new, u)
                       /\ action = "apply" => Shown(new, u)
                       /\ action = "revoke" => Gone(new, u)

(* Both calls have such an effect when they find their inbound.            *)
LEMMA ApplyEffect ==
    ASSUME docAgent \in Agents, NEW u \in Uuids, NEW doc \in Seq(Xray!Inbound),
           Xray!EnsureXrayClientInConfig(doc, u).ok
    PROVE  Effect(doc, Xray!EnsureXrayClientInConfig(doc, u).doc, "apply", u)
<1> DEFINE s == Xray!SelectXrayVLESSInbound(doc)
           cs == ListOf(doc[s])
           at == Xray!Positions(cs, u)
           r == Xray!EnsureXrayClientInConfig(doc, u)
<1>1. r = IF s = 0 \/ doc[s].clients = NoArray THEN Xray!Failed
          ELSE IF at = {} THEN Xray!Result(Xray!With(doc, s, Append(cs, Xray!Fresh(u))))
          ELSE IF Xray!SameXrayClient(cs[Xray!Min(at)], u) THEN Xray!Result(doc)
          ELSE Xray!Result(Xray!With(doc, s, [cs EXCEPT ![Xray!Min(at)] = Xray!Fresh(u)]))
  BY Zenon DEF Xray!EnsureXrayClientInConfig, ListOf
<1>2. ~Xray!Failed.ok /\ \A d : Xray!Result(d).doc = d
  BY DEF Xray!Failed, Xray!Result
<1>3. s = 0 \/ s \in DOMAIN doc
  BY SelectedIs
<1>4. r.ok
  OBVIOUS
<1> HIDE DEF r, at, s
<1>5. s # 0 /\ doc[s].clients # NoArray /\ s \in DOMAIN doc
  BY <1>1, <1>2, <1>3, <1>4
<1>6. cs \in Seq(Xray!Client) /\ (doc[s].clients # Missing => cs = doc[s].clients)
  <2>1. <<>> \in Seq(Xray!Client)
    OBVIOUS
  <2> QED BY <1>5, <2>1, ClientsOf DEF ListOf
<1> HIDE DEF cs
<1>7. CASE at = {}
  <2> DEFINE new == Append(cs, Xray!Fresh(u))
  <2>1. r.doc = Xray!With(doc, s, new)
    BY <1>1, <1>2, <1>5, <1>7
  <2>2. Gone(cs, u)
    BY <1>7 DEF at, Gone, Xray!Positions
  <2>3. Edited(cs, new, u) /\ Shown(new, u)
    BY <1>6, <2>2, AppendEdits
  <2> HIDE DEF new
  <2>4. Rewritten(doc, r.doc, s, new)
    BY <1>5, <2>1, <2>3, WithRewrites DEF Edited
  <2> QED BY <1>5, <2>3, <2>4 DEF Effect, s, r, cs
<1>8. CASE at # {}
  <2> DEFINE p == Xray!Min(at)
  <2>1. IsFirst(cs, u, p)
    <3>1. at \subseteq Nat /\ at \subseteq DOMAIN cs /\ \A i \in at : Xray!Names(cs[i], u)
      BY <1>6 DEF at, Xray!Positions
    <3>2. p \in at /\ \A y \in at : p <= y
      BY <1>8, <3>1, LeastIs
    <3>3. \A j \in DOMAIN cs : Xray!Names(cs[j], u) => j \in at
      BY DEF at, Xray!Positions
    <3>4. DOMAIN cs \subseteq Nat
      BY <1>6
    <3> HIDE DEF p
    <3> QED BY <3>1, <3>2, <3>3, <3>4 DEF IsFirst
  <2> HIDE DEF p
  <2>2. CASE Xray!SameXrayClient(cs[p], u)
    <3>1. r.doc = doc
      BY <1>1, <1>2, <1>5, <1>8, <2>2 DEF p
    <3>2. doc[s].clients # Missing
      <4> SUFFICES ASSUME doc[s].clients = Missing PROVE FALSE
        OBVIOUS
      <4>1. cs = <<>>
        BY DEF cs, ListOf
      <4> QED BY <2>1, <4>1 DEF IsFirst
    <3>3. Rewritten(doc, r.doc, s, cs)
      BY <1>6, <3>1, <3>2, SameRewrites
    <3>4. Edited(cs, cs, u) /\ Shown(cs, u)
      BY <1>6, <2>1, <2>2, NothingEdits DEF Shown
    <3> QED BY <1>5, <3>3, <3>4 DEF Effect, s, r, cs
  <2>3. CASE ~Xray!SameXrayClient(cs[p], u)
    <3> DEFINE new == [cs EXCEPT ![p] = Xray!Fresh(u)]
    <3>1. r.doc = Xray!With(doc, s, new)
      BY <1>1, <1>2, <1>5, <1>8, <2>3 DEF p
    <3>2. Edited(cs, new, u) /\ Shown(new, u)
      BY <1>6, <2>1, ReplaceEdits
    <3> HIDE DEF new
    <3>3. Rewritten(doc, r.doc, s, new)
      BY <1>5, <3>1, <3>2, WithRewrites DEF Edited
    <3> QED BY <1>5, <3>2, <3>3 DEF Effect, s, r, cs
  <2> QED BY <2>2, <2>3
<1> QED BY <1>7, <1>8

LEMMA RevokeEffect ==
    ASSUME docAgent \in Agents, NEW u \in Uuids, NEW doc \in Seq(Xray!Inbound),
           Xray!RemoveXrayClientFromConfig(doc, u).ok
    PROVE  Effect(doc, Xray!RemoveXrayClientFromConfig(doc, u).doc, "revoke", u)
<1> DEFINE s == Xray!SelectXrayVLESSInbound(doc)
           cs == doc[s].clients
           at == Xray!Positions(cs, u)
           r == Xray!RemoveXrayClientFromConfig(doc, u)
<1>1. r = IF s = 0 \/ cs = NoArray THEN Xray!Failed
          ELSE IF cs = Missing \/ at = {} THEN Xray!Result(doc)
          ELSE Xray!Result(Xray!With(doc, s, Xray!Without(cs, u)))
  BY Zenon DEF Xray!RemoveXrayClientFromConfig
<1>2. ~Xray!Failed.ok /\ \A d : Xray!Result(d).doc = d
  BY DEF Xray!Failed, Xray!Result
<1>3. s = 0 \/ s \in DOMAIN doc
  BY SelectedIs
<1>4. r.ok
  OBVIOUS
<1> HIDE DEF r, at, s
<1>5. s # 0 /\ cs # NoArray /\ s \in DOMAIN doc
  BY <1>1, <1>2, <1>3, <1>4
<1>6. cs = Missing \/ cs \in Seq(Xray!Client)
  BY <1>5, ClientsOf
<1>7. CASE cs = Missing
  <2>1. r.doc = doc
    BY <1>1, <1>2, <1>5, <1>7
  <2> QED BY <1>5, <1>7, <2>1 DEF Effect, s, r
<1>8. CASE cs # Missing
  <2>1. cs \in Seq(Xray!Client) /\ ListOf(doc[s]) = cs
    BY <1>6, <1>8 DEF ListOf
  <2> HIDE DEF cs
  <2>2. CASE at = {}
    <3>1. r.doc = doc
      BY <1>1, <1>2, <1>5, <2>2
    <3>2. Gone(cs, u)
      BY <2>2 DEF at, Gone, Xray!Positions
    <3>3. Edited(cs, cs, u) /\ Rewritten(doc, r.doc, s, cs)
      BY <2>1, <3>1, NothingEdits, SameRewrites DEF cs
    <3> QED BY <1>5, <2>1, <3>2, <3>3 DEF Effect, s, r, cs
  <2>3. CASE at # {}
    <3> DEFINE new == Xray!Without(cs, u)
    <3>1. r.doc = Xray!With(doc, s, new)
      BY <1>1, <1>2, <1>5, <1>8, <2>3
    <3>2. Edited(cs, new, u) /\ Gone(new, u)
      BY <2>1, WithoutEdits
    <3> HIDE DEF new
    <3>3. Rewritten(doc, r.doc, s, new)
      BY <1>5, <3>1, <3>2, WithRewrites DEF Edited
    <3> QED BY <1>5, <2>1, <3>2, <3>3 DEF Effect, s, r, cs
  <2> QED BY <2>2, <2>3
<1> QED BY <1>7, <1>8


(* With the type: an applied id is there as the settings have it, in the   *)
(* inbound that the calls go to, and a revoked one is gone from it.        *)
Target == Xray!SelectXrayVLESSInbound(docFile)

AppliedIsShown ==
    \A u \in Uuids : docLast[u] = "apply" =>
        /\ Target \in DOMAIN docFile /\ docFile[Target].clients \in Seq(Xray!Client)
        /\ Shown(docFile[Target].clients, u)

RevokedHasGone ==
    \A u \in Uuids : docLast[u] = "revoke" =>
        /\ Target \in DOMAIN docFile /\ docFile[Target].clients # NoArray
        /\ docFile[Target].clients \in Seq(Xray!Client) => Gone(docFile[Target].clients, u)

DocInv == Xray!TypeOK /\ AppliedIsShown /\ RevokedHasGone

(* It says what the property says of the states.                           *)
LEMMA DocInvHolds == DocInv => Xray!TypeOK /\ Xray!AppliedStays /\ Xray!RevokedIsGone
<1> SUFFICES ASSUME DocInv PROVE Xray!AppliedStays /\ Xray!RevokedIsGone
  BY DEF DocInv
<1>1. docFile \in Seq(Xray!Inbound)
  BY DEF DocInv, Xray!TypeOK
<1>2. ASSUME NEW u \in Uuids, docLast[u] = "apply"
      PROVE  LET cs == docFile[Target].clients
                 at == Xray!Positions(cs, u)
             IN  at # {} /\ cs[Xray!Min(at)].flow = docAgent.flow /\ cs[Xray!Min(at)].form # "fields"
  <2> DEFINE cs == docFile[Target].clients
             at == Xray!Positions(cs, u)
  <2>1. cs \in Seq(Xray!Client) /\ Shown(cs, u)
    BY <1>2 DEF DocInv, AppliedIsShown
  <2> HIDE DEF cs
  <2>2. PICK i : IsFirst(cs, u, i) /\ Xray!SameXrayClient(cs[i], u)
    BY <2>1 DEF Shown
  <2>3. DOMAIN cs \subseteq Nat
    BY <2>1
  <2>4. at \subseteq Nat /\ i \in at /\ \A y \in at : i <= y
    BY <2>2, <2>3 DEF IsFirst, Xray!Positions
  <2> HIDE DEF at
  <2>5. i = Xray!Min(at)
    BY <2>4, LeastIs
  <2> QED BY <2>2, <2>4, <2>5 DEF Xray!SameXrayClient, cs, at
<1>3. ASSUME NEW u \in Uuids, docLast[u] = "revoke" PROVE u \notin Xray!IdsIn(docFile[Target])
  <2> DEFINE in == docFile[Target]
  <2>1. Target \in DOMAIN docFile /\ (in.clients \in Seq(Xray!Client) => Gone(in.clients, u))
    BY <1>3 DEF DocInv, RevokedHasGone
  <2>2. in.clients \in {Missing, NoArray} \cup Seq(Xray!Client)
    BY <1>1, <2>1, ClientsOf
  <2> HIDE DEF in
  <2>3. u \notin Xray!IdsIn(in)
    BY <2>1, <2>2, IdsNamed DEF Gone
  <2> QED BY <2>3 DEF in
<1>4. Xray!AppliedStays
  BY <1>2 DEF Xray!AppliedStays, Target
<1>5. Xray!RevokedIsGone
  BY <1>3 DEF Xray!RevokedIsGone, Target
<1> QED BY <1>4, <1>5

(* Every document begins so, ...                                           *)
LEMMA DocStarts == Xray!Init => DocInv
<1> SUFFICES ASSUME Xray!Init PROVE DocInv
  OBVIOUS
<1>1. docFile \in Seq(Xray!Inbound) /\ docAgent \in Agents /\ docKnown = {} /\ docCalls = 0 /\ docChanges = 0
  BY DocConstants DEF Xray!Init
<1>2. docLast \in [Uuids -> {"none", "apply", "revoke"}] /\ \A u \in Uuids : docLast[u] = "none"
  BY DEF Xray!Init
<1>3. MaxCalls \in Nat /\ MaxDocChanges \in Nat
  BY PartsAssume DEF Xray!CallsAreNat
<1> QED BY <1>1, <1>2, <1>3 DEF DocInv, Xray!TypeOK, AppliedIsShown, RevokedHasGone

(* A call that is accepted, and one that is not.                           *)
Called(action, u) ==
    /\ docCalls < MaxCalls /\ docCalls' = docCalls + 1 /\ docAgent' = docAgent
    /\ docDone'.action = action /\ docDone'.uuid = u
    /\ \/ /\ ~docDone'.ok /\ docFile' = docFile /\ docLast' = docLast
       \/ /\ docDone'.ok /\ Effect(docFile, docFile', action, u)
          /\ docFile' # docFile => Xray!ValidateXrayConfig(docFile')
          /\ docLast' = [docLast EXCEPT ![u] = action]

(* Every request is such a call.                                           *)
LEMMA AnswerIsCall ==
    ASSUME NEW u \in Uuids, NEW action, NEW r, Xray!Answer(action, u, r),
           r.ok => Effect(docFile, r.doc, action, u)
    PROVE  Called(action, u)
<1>1. /\ docCalls < MaxCalls /\ docCalls' = docCalls + 1 /\ docAgent' = docAgent
      /\ docDone' = [action |-> action, uuid |-> u, ok |-> Xray!Accepted(r)]
      /\ docFile' = IF Xray!Accepted(r) THEN r.doc ELSE docFile
      /\ docLast' = IF Xray!Accepted(r) THEN [docLast EXCEPT ![u] = action] ELSE docLast
  BY DEF Xray!Answer
<1>2. docDone'.action = action /\ docDone'.uuid = u
  BY <1>1
<1>3. docDone'.ok <=> Xray!Accepted(r)
  BY <1>1, Zenon
<1>4. CASE Xray!Accepted(r)
  <2>1. r.ok /\ (r.doc = docFile \/ Xray!ValidateXrayConfig(r.doc))
    BY <1>4 DEF Xray!Accepted
  <2>2. docFile' = r.doc
    BY <1>1, <1>4, SMTT(30)
  <2>3. docFile' # docFile => Xray!ValidateXrayConfig(docFile')
    BY <2>1, <2>2 DEF Xray!ValidateXrayConfig, Xray!Looked, Xray!Vless
  <2>4. Effect(docFile, docFile', action, u)
    BY <2>1, <2>2
  <2> QED BY <1>1, <1>2, <1>3, <1>4, <2>3, <2>4 DEF Called
<1>5. CASE ~Xray!Accepted(r)
  BY <1>1, <1>2, <1>3, <1>5 DEF Called
<1> QED BY <1>4, <1>5

LEMMA CallsOnly ==
    ASSUME DocInv, NEW u \in Uuids, Xray!ApplyXrayClient(u) \/ Xray!RevokeXrayClient(u)
    PROVE  /\ Called("apply", u) \/ Called("revoke", u)
           /\ docKnown' \subseteq Uuids /\ docChanges' = docChanges
<1>1. docFile \in Seq(Xray!Inbound) /\ docAgent \in Agents /\ docKnown \subseteq Uuids
  BY DEF DocInv, Xray!TypeOK
<1>2. CASE Xray!ApplyXrayClient(u)
  <2> DEFINE r == Xray!EnsureXrayClientInConfig(docFile, u)
  <2>1. Xray!Answer("apply", u, r) /\ docKnown' \subseteq Uuids
    BY <1>1, <1>2 DEF Xray!ApplyXrayClient
  <2>2. r.ok => Effect(docFile, r.doc, "apply", u)
    BY <1>1, ApplyEffect
  <2> HIDE DEF r
  <2> QED BY <2>1, <2>2, AnswerIsCall DEF Xray!Answer
<1>3. CASE Xray!RevokeXrayClient(u)
  <2> DEFINE r == Xray!RemoveXrayClientFromConfig(docFile, u)
  <2>1. Xray!Answer("revoke", u, r) /\ docKnown' \subseteq Uuids
    BY <1>1, <1>3 DEF Xray!RevokeXrayClient
  <2>2. r.ok => Effect(docFile, r.doc, "revoke", u)
    BY <1>1, RevokeEffect
  <2> HIDE DEF r
  <2> QED BY <2>1, <2>2, AnswerIsCall DEF Xray!Answer
<1> QED BY <1>2, <1>3

(* What holds of the inbound of a call after it, for every id.             *)
LEMMA EffectOnIds ==
    ASSUME NEW doc \in Seq(Xray!Inbound), NEW d, NEW action \in {"apply", "revoke"}, NEW u,
           Effect(doc, d, action, u)
    PROVE  LET s == Xray!SelectXrayVLESSInbound(doc)
           IN  /\ s \in DOMAIN doc /\ d \in Seq(Xray!Inbound) /\ DOMAIN d = DOMAIN doc
               /\ Xray!SelectXrayVLESSInbound(d) = s /\ Xray!Looked(d) = Xray!Looked(doc)
               /\ \A j \in DOMAIN doc : d[j].sound = doc[j].sound /\ (j # s => d[j].clients = doc[j].clients)
               /\ ListOf(doc[s]) \in Seq(Xray!Client) /\ doc[s].clients # NoArray
               /\ d[s].clients # NoArray /\ Edited(ListOf(doc[s]), ListOf(d[s]), u)
               /\ action = "apply" => d[s].clients \in Seq(Xray!Client) /\ Shown(d[s].clients, u)
               /\ action = "revoke" => Gone(ListOf(d[s]), u)
               /\ doc[s].clients \in Seq(Xray!Client) => d[s].clients \in Seq(Xray!Client)
<1> DEFINE s == Xray!SelectXrayVLESSInbound(doc)
<1>1. s \in DOMAIN doc /\ doc[s].clients # NoArray
  BY DEF Effect
<1>2. <<>> \in Seq(Xray!Client) /\ Gone(<<>>, u)
  BY DEF Gone
<1>3. ListOf(doc[s]) \in Seq(Xray!Client)
  BY <1>1, <1>2, ClientsOf DEF ListOf
<1>4. CASE action = "revoke" /\ d = doc /\ doc[s].clients = Missing
  <2>1. ListOf(doc[s]) = <<>> /\ ListOf(d[s]) = <<>>
    BY <1>4 DEF ListOf
  <2>2. Edited(<<>>, <<>>, u)
    BY <1>2, NothingEdits
  <2> QED BY <1>1, <1>2, <1>3, <1>4, <2>1, <2>2
<1>5. ASSUME NEW new, Rewritten(doc, d, s, new), Edited(ListOf(doc[s]), new, u),
             action = "apply" => Shown(new, u), action = "revoke" => Gone(new, u)
      PROVE  LET t == Xray!SelectXrayVLESSInbound(doc)
             IN  /\ d \in Seq(Xray!Inbound) /\ DOMAIN d = DOMAIN doc
                 /\ Xray!SelectXrayVLESSInbound(d) = t /\ Xray!Looked(d) = Xray!Looked(doc)
                 /\ \A j \in DOMAIN doc : d[j].sound = doc[j].sound /\ (j # t => d[j].clients = doc[j].clients)
                 /\ d[t].clients = new /\ new \in Seq(Xray!Client) /\ new # NoArray /\ ListOf(d[t]) = new
  <2>1. new \in Seq(Xray!Client)
    BY <1>5 DEF Edited
  <2>2. new # NoArray /\ new # Missing
    BY <2>1, DocConstants
  <2>3. /\ d \in Seq(Xray!Inbound) /\ DOMAIN d = DOMAIN doc /\ d[s].clients = new
        /\ \A j \in DOMAIN doc : d[j].sound = doc[j].sound /\ (j # s => d[j].clients = doc[j].clients)
    BY <1>5 DEF Rewritten
  <2>4. ListOf(d[s]) = new
    BY <2>2, <2>3 DEF ListOf
  <2>5. Xray!SelectXrayVLESSInbound(d) = s /\ Xray!Looked(d) = Xray!Looked(doc)
    BY <1>5, SelectionStays
  <2> QED BY <2>1, <2>2, <2>3, <2>4, <2>5
<1>6. CASE \E new : /\ Rewritten(doc, d, s, new) /\ Edited(ListOf(doc[s]), new, u)
                    /\ action = "apply" => Shown(new, u)
                    /\ action = "revoke" => Gone(new, u)
  BY <1>1, <1>3, <1>5, <1>6
<1> QED BY <1>4, <1>6 DEF Effect


(* A call keeps what holds of the ids, its own and others.                 *)
LEMMA CallKeeps ==
    ASSUME DocInv, NEW action \in {"apply", "revoke"}, NEW u \in Uuids, Called(action, u),
           docKnown' \subseteq Uuids, docChanges' = docChanges
    PROVE  DocInv'
<1>1. /\ docFile \in Seq(Xray!Inbound) /\ docAgent \in Agents
      /\ docLast \in [Uuids -> {"none", "apply", "revoke"}]
      /\ docCalls \in 0..MaxCalls /\ docChanges \in 0..MaxDocChanges
  BY DEF DocInv, Xray!TypeOK
<1>2. docAgent' = docAgent /\ docCalls' \in 0..MaxCalls
  BY <1>1, PartsAssume DEF Called, Xray!CallsAreNat
<1>3. Target' = Xray!SelectXrayVLESSInbound(docFile')
  BY <1>2 DEF Target, Xray!SelectXrayVLESSInbound, Xray!Vless
<1>4. CASE docFile' = docFile /\ docLast' = docLast
  <2>1. Xray!TypeOK'
    BY <1>1, <1>2, <1>4 DEF Xray!TypeOK
  <2>2. Target' = Target
    BY <1>3, <1>4 DEF Target
  <2>3. \A cs, v : Shown(cs, v)' <=> Shown(cs, v)
    BY <1>2 DEF Shown, Xray!SameXrayClient
  <2> QED BY <1>4, <2>1, <2>2, <2>3 DEF DocInv, AppliedIsShown, RevokedHasGone, Shown, Xray!SameXrayClient
<1>5. CASE Effect(docFile, docFile', action, u) /\ docLast' = [docLast EXCEPT ![u] = action]
  <2> DEFINE s == Target
             d == docFile'
             old == ListOf(docFile[s])
             new == ListOf(d[s])
  <2>1. /\ s \in DOMAIN docFile /\ d \in Seq(Xray!Inbound) /\ DOMAIN d = DOMAIN docFile
        /\ Xray!SelectXrayVLESSInbound(d) = s
        /\ docFile[s].clients # NoArray /\ d[s].clients # NoArray /\ Edited(old, new, u)
        /\ action = "apply" => d[s].clients \in Seq(Xray!Client) /\ Shown(d[s].clients, u)
        /\ action = "revoke" => Gone(new, u)
        /\ docFile[s].clients \in Seq(Xray!Client) => d[s].clients \in Seq(Xray!Client)
    BY <1>1, <1>5, EffectOnIds DEF Target
  <2>2. /\ docFile[s].clients \in Seq(Xray!Client) => old = docFile[s].clients
        /\ d[s].clients \in Seq(Xray!Client) => new = d[s].clients
    BY DocConstants DEF ListOf
  <2>3. docLast' \in [Uuids -> {"none", "apply", "revoke"}]
        /\ docLast'[u] = action /\ \A v \in Uuids : v # u => docLast'[v] = docLast[v]
    BY <1>1, <1>5
  <2>4. Target' = s
    BY <1>3, <2>1
  <2>5. ASSUME NEW v \in Uuids, docLast'[v] = "apply"
        PROVE  d[s].clients \in Seq(Xray!Client) /\ Shown(d[s].clients, v)
    <3>1. CASE v = u
      BY <2>1, <2>3, <2>5, <3>1
    <3>2. CASE v # u
      <4>1. docFile[s].clients \in Seq(Xray!Client) /\ Shown(docFile[s].clients, v)
        BY <2>3, <2>5, <3>2 DEF DocInv, AppliedIsShown
      <4>2. Shown(old, v) /\ d[s].clients \in Seq(Xray!Client) /\ new = d[s].clients
        BY <2>1, <2>2, <4>1
      <4> HIDE DEF s, d, old, new
      <4>3. PICK i : IsFirst(old, v, i) /\ Xray!SameXrayClient(old[i], v)
        BY <4>2 DEF Shown
      <4>4. PICK k : IsFirst(new, v, k) /\ new[k] = old[i]
        BY <2>1, <3>2, <4>3 DEF Edited
      <4>5. Shown(new, v)
        BY <4>3, <4>4 DEF Shown
      <4> QED BY <4>2, <4>5
    <3> QED BY <3>1, <3>2
  <2>6. ASSUME NEW v \in Uuids, docLast'[v] = "revoke", d[s].clients \in Seq(Xray!Client)
        PROVE  Gone(d[s].clients, v)
    <3>1. CASE v = u
      BY <2>1, <2>2, <2>3, <2>6, <3>1
    <3>2. CASE v # u
      <4>1. docFile[s].clients \in Seq(Xray!Client) => Gone(docFile[s].clients, v)
        BY <2>3, <2>6, <3>2 DEF DocInv, RevokedHasGone
      <4>2. Gone(old, v)
        <5>1. CASE docFile[s].clients = Missing
          BY <5>1 DEF Gone, ListOf
        <5>2. CASE docFile[s].clients \in Seq(Xray!Client)
          BY <2>2, <4>1, <5>2
        <5> QED BY <1>1, <2>1, <5>1, <5>2, ClientsOf
      <4>3. new = d[s].clients
        BY <2>2, <2>6
      <4> HIDE DEF s, d, old, new
      <4>4. Gone(new, v)
        BY <2>1, <3>2, <4>2 DEF Edited, Gone
      <4> QED BY <4>3, <4>4
    <3> QED BY <3>1, <3>2
  <2>7. \A cs, v : Shown(cs, v)' <=> Shown(cs, v)
    BY <1>2 DEF Shown, Xray!SameXrayClient
  <2>8. Xray!TypeOK'
    BY <1>1, <1>2, <2>1, <2>3 DEF Xray!TypeOK
  <2> HIDE DEF s
  <2>9. AppliedIsShown'
    <3> SUFFICES ASSUME NEW v \in Uuids, docLast'[v] = "apply"
                 PROVE  /\ Target' \in DOMAIN docFile' /\ docFile'[Target'].clients \in Seq(Xray!Client)
                        /\ Shown(docFile[Target].clients, v)'
      BY DEF AppliedIsShown
    <3>1. Target' \in DOMAIN docFile' /\ docFile'[Target'].clients \in Seq(Xray!Client)
      BY <2>1, <2>4, <2>5
    <3>2. Shown(docFile'[s].clients, v)
      BY <2>5
    <3>3. PICK i : IsFirst(docFile'[s].clients, v, i) /\ Xray!SameXrayClient(docFile'[s].clients[i], v)
      BY <3>2 DEF Shown
    <3>4. IsFirst(docFile[Target].clients, v, i)' /\ Xray!SameXrayClient(docFile[Target].clients[i], v)'
      BY <1>2, <2>4, <3>3 DEF Xray!SameXrayClient, IsFirst, Xray!Names, Xray!IsEntry
    <3>5. Shown(docFile[Target].clients, v)'
      BY <3>4 DEF Shown
    <3> QED BY <3>1, <3>5
  <2>10. RevokedHasGone'
    BY <2>1, <2>4, <2>6 DEF RevokedHasGone
  <2> QED BY <2>8, <2>9, <2>10 DEF DocInv
<1> QED BY <1>4, <1>5 DEF Called

(* ... and stays so, by calls and by whoever edits or restarts.            *)
LEMMA DocGoesOn == DocInv /\ [Xray!Next]_(Xray!vars) => DocInv'
<1> SUFFICES ASSUME DocInv, [Xray!Next]_(Xray!vars) PROVE DocInv'
  OBVIOUS
<1>1. docFile \in Seq(Xray!Inbound) /\ docAgent \in Agents /\ docKnown \subseteq Uuids
      /\ docCalls \in 0..MaxCalls /\ docChanges \in 0..MaxDocChanges
      /\ docLast \in [Uuids -> {"none", "apply", "revoke"}]
  BY DEF DocInv, Xray!TypeOK
<1>2. CASE UNCHANGED Xray!vars
  <2>1. /\ docFile' = docFile /\ docAgent' = docAgent /\ docKnown' = docKnown /\ docLast' = docLast
        /\ docCalls' = docCalls /\ docChanges' = docChanges
    BY <1>2 DEF Xray!vars
  <2>2. Target' = Target
    BY <2>1 DEF Target, Xray!SelectXrayVLESSInbound, Xray!Vless
  <2>3. Xray!TypeOK'
    BY <1>1, <2>1 DEF Xray!TypeOK
  <2> QED BY <2>1, <2>2, <2>3 DEF DocInv, AppliedIsShown, RevokedHasGone, Shown, Xray!SameXrayClient
<1>3. CASE \E u \in Uuids : Xray!ApplyXrayClient(u) \/ Xray!RevokeXrayClient(u)
  BY <1>3, CallsOnly, CallKeeps
<1>4. CASE Xray!EditByHand \/ Xray!RestartAgent
  <2>1. /\ docCalls' = docCalls /\ docChanges' \in 0..MaxDocChanges
        /\ docLast' = [v \in Uuids |-> "none"]
    BY <1>1, <1>4, PartsAssume DEF Xray!EditByHand, Xray!RestartAgent, Xray!Change, Xray!CallsAreNat
  <2>2. docFile' \in Seq(Xray!Inbound) /\ docAgent' \in Agents /\ docKnown' \subseteq Uuids
    BY <1>1, <1>4, DocConstants DEF Xray!EditByHand, Xray!RestartAgent
  <2>3. docLast' \in [Uuids -> {"none", "apply", "revoke"}] /\ \A v \in Uuids : docLast'[v] = "none"
    BY <2>1
  <2>4. Xray!TypeOK'
    BY <1>1, <2>1, <2>2, <2>3 DEF Xray!TypeOK
  <2> QED BY <2>3, <2>4 DEF DocInv, AppliedIsShown, RevokedHasGone
<1> QED BY <1>2, <1>3, <1>4 DEF Xray!Next

(* A step that counts a call is one.                                       *)
LEMMA CountedIsCall ==
    ASSUME DocInv, [Xray!Next]_(Xray!vars), docCalls' # docCalls
    PROVE  \E u \in Uuids, action \in {"apply", "revoke"} : Called(action, u)
<1>1. ~UNCHANGED Xray!vars
  BY DEF Xray!vars
<1>2. ~(Xray!EditByHand \/ Xray!RestartAgent)
  BY DEF Xray!EditByHand, Xray!RestartAgent, Xray!Change
<1>3. PICK u \in Uuids : Xray!ApplyXrayClient(u) \/ Xray!RevokeXrayClient(u)
  BY <1>1, <1>2 DEF Xray!Next
<1> QED BY <1>3, CallsOnly

(* The ids of an inbound without a list are none.                          *)
LEMMA IdsOfList ==
    ASSUME NEW doc \in Seq(Xray!Inbound), NEW j \in DOMAIN doc, doc[j].clients # NoArray, NEW v
    PROVE  v \in Xray!IdsIn(doc[j])
               <=> v # NoId /\ \E i \in DOMAIN ListOf(doc[j]) : Xray!Names(ListOf(doc[j])[i], v)
<1> DEFINE in == doc[j]
<1>1. in.clients \in {Missing, NoArray} \cup Seq(Xray!Client) /\ in.clients # NoArray
  BY ClientsOf
<1> HIDE DEF in
<1>2. v \in Xray!IdsIn(in) <=> /\ in.clients \in Seq(Xray!Client) /\ v # NoId
                               /\ \E i \in DOMAIN in.clients : Xray!Names(in.clients[i], v)
  BY <1>1, IdsNamed
<1>3. CASE in.clients = Missing
  <2>1. DOMAIN ListOf(in) = {}
    BY <1>3 DEF ListOf
  <2> QED BY <1>2, <1>3, <2>1, DocConstants DEF in
<1>4. CASE in.clients \in Seq(Xray!Client)
  <2>1. ListOf(in) = in.clients
    BY <1>4, DocConstants DEF ListOf
  <2> QED BY <1>2, <1>4, <2>1 DEF in
<1> QED BY <1>1, <1>3, <1>4

(* What a call does to the listing, ...                                    *)
LEMMA ListedIdsStep ==
    ASSUME DocInv, NEW action \in {"apply", "revoke"}, NEW u \in Uuids, Called(action, u),
           Xray!Looked(docFile) = {Xray!SelectXrayVLESSInbound(docFile)}
    PROVE  LET seen == Xray!ListXrayClientStats(docFile)
               now  == Xray!ListXrayClientStats(docFile')
           IN  now = IF ~docDone'.ok THEN seen
                     ELSE IF docDone'.action = "apply" THEN seen \cup {docDone'.uuid}
                     ELSE seen \ {docDone'.uuid}
<1> DEFINE s == Xray!SelectXrayVLESSInbound(docFile)
           d == docFile'
           seen == Xray!ListXrayClientStats(docFile)
           now == Xray!ListXrayClientStats(docFile')
<1>1. docFile \in Seq(Xray!Inbound)
  BY DEF DocInv, Xray!TypeOK
<1>2. docDone'.action = action /\ docDone'.uuid = u
  BY DEF Called
<1>3. CASE ~docDone'.ok
  <2>1. docFile' = docFile
    BY <1>3 DEF Called
  <2>2. now = seen
    BY <2>1
  <2> HIDE DEF now, seen
  <2> QED BY <1>3, <2>2 DEF now, seen
<1>4. CASE docDone'.ok
  <2>1. Effect(docFile, d, action, u)
    BY <1>4 DEF Called
  <2> DEFINE old == ListOf(docFile[s])
             new == ListOf(d[s])
  <2>2. /\ s \in DOMAIN docFile /\ d \in Seq(Xray!Inbound) /\ DOMAIN d = DOMAIN docFile
        /\ Xray!Looked(d) = Xray!Looked(docFile)
        /\ docFile[s].clients # NoArray /\ d[s].clients # NoArray /\ Edited(old, new, u)
        /\ action = "apply" => d[s].clients \in Seq(Xray!Client) /\ Shown(d[s].clients, u)
        /\ action = "revoke" => Gone(new, u)
    BY <1>1, <2>1, EffectOnIds
  <2>3. seen = Xray!IdsIn(docFile[s]) /\ now = Xray!IdsIn(d[s])
    <3> HIDE DEF s
    <3>1. Xray!Looked(docFile) = {s} /\ Xray!Looked(d) = {s}
      BY <2>2 DEF s
    <3> QED BY <3>1 DEF Xray!ListXrayClientStats
  <2>4. \A v : /\ v \in seen <=> v # NoId /\ \E i \in DOMAIN old : Xray!Names(old[i], v)
               /\ v \in now <=> v # NoId /\ \E i \in DOMAIN new : Xray!Names(new[i], v)
    BY <1>1, <2>2, <2>3, IdsOfList
  <2>5. action = "apply" => \E i \in DOMAIN new : Xray!Names(new[i], u)
    <3>1. d[s].clients \in Seq(Xray!Client) => new = d[s].clients
      BY DocConstants DEF ListOf
    <3> QED BY <2>2, <3>1 DEF Shown, IsFirst
  <2> HIDE DEF s, seen, now, d, old, new
  <2>6. u # NoId
    BY DocConstants
  <2>7. \A v : v # u => (v \in now <=> v \in seen)
    BY <2>2, <2>4 DEF Edited
  <2>8. CASE action = "apply"
    <3>1. u \in now
      BY <2>4, <2>5, <2>6, <2>8
    <3>2. now = seen \cup {u}
      BY <2>7, <3>1
    <3> QED BY <1>2, <1>4, <2>8, <3>2 DEF now, seen
  <2>9. CASE action = "revoke"
    <3>1. u \notin now
      BY <2>2, <2>4, <2>9 DEF Gone
    <3>2. now = seen \ {u}
      BY <2>7, <3>1
    <3> QED BY <1>2, <1>4, <2>9, <3>2 DEF now, seen
  <2> QED BY <2>8, <2>9
<1> QED BY <1>3, <1>4

(* ... to the clients of other ids, ...                                    *)
LEMMA OthersStep ==
    ASSUME DocInv, NEW action \in {"apply", "revoke"}, NEW u \in Uuids, Called(action, u)
    PROVE  /\ DOMAIN docFile' = DOMAIN docFile
           /\ \A i \in DOMAIN docFile :
                 LET others(cs) == IF Xray!IsList(cs) THEN Xray!Without(cs, docDone'.uuid) ELSE <<>>
                 IN  others(docFile'[i].clients) = others(docFile[i].clients)
<1>1. docFile \in Seq(Xray!Inbound) /\ docDone'.uuid = u
  BY DEF DocInv, Xray!TypeOK, Called
<1>2. CASE docFile' = docFile
  BY <1>2
<1>3. CASE Effect(docFile, docFile', action, u)
  <2> DEFINE s == Xray!SelectXrayVLESSInbound(docFile)
             d == docFile'
             others(cs) == IF Xray!IsList(cs) THEN Xray!Without(cs, u) ELSE <<>>
  <2>1. /\ s \in DOMAIN docFile /\ d \in Seq(Xray!Inbound) /\ DOMAIN d = DOMAIN docFile
        /\ docFile[s].clients # NoArray /\ d[s].clients # NoArray
        /\ \A j \in DOMAIN docFile : j # s => d[j].clients = docFile[j].clients
        /\ Edited(ListOf(docFile[s]), ListOf(d[s]), u)
    BY <1>1, <1>3, EffectOnIds
  <2>2. Xray!Without(<<>>, u) = <<>>
    BY KeptByStep DEF Xray!Without
  <2>3. \A doc \in Seq(Xray!Inbound) : \A j \in DOMAIN doc :
            doc[j].clients # NoArray => others(doc[j].clients) = Xray!Without(ListOf(doc[j]), u)
    <3> SUFFICES ASSUME NEW doc \in Seq(Xray!Inbound), NEW j \in DOMAIN doc, doc[j].clients # NoArray
                 PROVE  others(doc[j].clients) = Xray!Without(ListOf(doc[j]), u)
      OBVIOUS
    <3>1. CASE doc[j].clients = Missing
      BY <2>2, <3>1 DEF ListOf, Xray!IsList, Xray!NoList
    <3>2. CASE doc[j].clients # Missing
      BY <3>2 DEF ListOf, Xray!IsList, Xray!NoList
    <3> QED BY <3>1, <3>2
  <2> HIDE DEF s, d, others
  <2>4. others(d[s].clients) = others(docFile[s].clients)
    BY <1>1, <2>1, <2>3 DEF Edited
  <2>5. \A i \in DOMAIN docFile : others(d[i].clients) = others(docFile[i].clients)
    BY <2>1, <2>4
  <2> QED BY <1>1, <2>1, <2>5 DEF d, others
<1> QED BY <1>2, <1>3 DEF Called

(* ... and to the inbound a start looks at.                                *)
LEMMA WrittenStep ==
    ASSUME DocInv, NEW action \in {"apply", "revoke"}, NEW u \in Uuids, Called(action, u),
           docFile' # docFile
    PROVE  \A i \in Xray!Looked(docFile) :
              (\A j \in Xray!Looked(docFile) : i <= j)
              => docFile'[i].sound /\ Xray!IsList(docFile'[i].clients)
<1> DEFINE S == Xray!Looked(docFile)
           d == docFile'
<1>1. docFile \in Seq(Xray!Inbound)
  BY DEF DocInv, Xray!TypeOK
<1>2. Effect(docFile, d, action, u) /\ Xray!ValidateXrayConfig(d)
  BY DEF Called
<1>3. Xray!Looked(d) = S
  BY <1>1, <1>2, EffectOnIds
<1>4. d[Xray!Min(S)].sound /\ Xray!IsList(d[Xray!Min(S)].clients)
  <2> HIDE DEF S, d
  <2> QED BY <1>2, <1>3 DEF Xray!ValidateXrayConfig
<1>5. S \subseteq Nat
  <2>1. DOMAIN docFile \subseteq Nat
    BY <1>1
  <2> QED BY <2>1 DEF Xray!Looked, Xray!Vless
<1> HIDE DEF S, d
<1> SUFFICES ASSUME NEW i \in S, \A j \in S : i <= j PROVE d[i].sound /\ Xray!IsList(d[i].clients)
  BY DEF S, d
<1>6. i = Xray!Min(S)
  BY <1>5, LeastIs
<1> QED BY <1>4, <1>6

(* For any documents, settings, requests and bounds: an applied id stays   *)
(* shown as the settings have it and a revoked one gone, whatever calls    *)
(* for others come between; a call changes the listing by its own id only  *)
(* and leaves every other client, readable or not, in its order; and what  *)
(* is written can be started from.                                         *)
THEOREM DocumentsFollow == Xray!Spec => DocumentFollowsCalls
<1> DEFINE Listing ==
               /\ docDone'.action # "none" /\ docCalls' # docCalls
               /\ Xray!Looked(docFile) = {Xray!SelectXrayVLESSInbound(docFile)}
               => LET seen == Xray!ListXrayClientStats(docFile)
                      now  == Xray!ListXrayClientStats(docFile')
                  IN  now = IF ~docDone'.ok THEN seen
                            ELSE IF docDone'.action = "apply" THEN seen \cup {docDone'.uuid}
                            ELSE seen \ {docDone'.uuid}
           Others == docCalls' # docCalls =>
               /\ DOMAIN docFile' = DOMAIN docFile
               /\ \A i \in DOMAIN docFile :
                     LET others(cs) == IF Xray!IsList(cs) THEN Xray!Without(cs, docDone'.uuid) ELSE <<>>
                     IN  others(docFile'[i].clients) = others(docFile[i].clients)
           Written == docCalls' # docCalls /\ docFile' # docFile =>
               \A i \in Xray!Looked(docFile) :
                   (\A j \in Xray!Looked(docFile) : i <= j)
                   => docFile'[i].sound /\ Xray!IsList(docFile'[i].clients)
<1>1. DocInv /\ [Xray!Next]_(Xray!vars) => Listing
  BY CountedIsCall, ListedIdsStep
<1>2. DocInv /\ [Xray!Next]_(Xray!vars) => Others
  BY CountedIsCall, OthersStep
<1>3. DocInv /\ [Xray!Next]_(Xray!vars) => Written
  BY CountedIsCall, WrittenStep
<1>4. [][Listing]_(Xray!vars) <=> Xray!ListingFollowsCalls
  BY DEF Xray!ListingFollowsCalls
<1>5. [][Others]_(Xray!vars) <=> Xray!OthersKept
  BY DEF Xray!OthersKept
<1>6. [][Written]_(Xray!vars) <=> Xray!WrittenIsComplete
  BY DEF Xray!WrittenIsComplete
<1> HIDE DEF Listing, Others, Written
<1> QED BY <1>1, <1>2, <1>3, <1>4, <1>5, <1>6, DocStarts, DocGoesOn, DocInvHolds, PTL
        DEF Xray!Spec, DocumentFollowsCalls, Xray!DocumentFollowsCalls

================================================================================
