---------------------------- MODULE NodeCallProofs ----------------------------
(***************************************************************************)
(* That the control plane believes no node that did nothing, and no node   *)
(* does a thing twice, for any operations, adapters, retries and faults.   *)
(* What makes AnswersAreTrue inductive is where a request can be: an       *)
(* attempt is on its way or at the agent, never both, and the first        *)
(* attempt is not answered from a table that only it has entered.  And that*)
(* addresses go round: none is handed out twice while Redis remembers, and *)
(* none is refused while one is free, for any subnet and any calls.        *)
(***************************************************************************)
EXTENDS MCNodeCall, Integers, TLAPS

(* Attempts are counted from the call's beginning to the last retry.       *)
Counted ==
    \A o \in Ops : /\ call[o].pc = "new" => call[o].n = 0
                   /\ call[o].pc = "backoff" => call[o].n < Attempts

(* An attempt is in one place, and was made.                               *)
InOnePlace ==
    /\ \A req \in net : req.n <= call[req.op].n
    /\ \A s \in serving : s.req.n <= call[s.req.op].n /\ s.req \notin net
    /\ \A s, t \in serving : s.req = t.req => s = t

Running(o) == \E s \in serving : s.req.op = o /\ s.pc = "running"

(* An operation in the table came with an attempt.  While it is the only   *)
(* one, none of its requests is still to be looked up.                     *)
TableFilled ==
    \A o \in table :
        /\ call[o].n >= 1
        /\ call[o].n = 1 => /\ \A req \in net : req.op # o
                            /\ \A s \in serving : s.req.op = o => s.pc = "running"

Tabled == adapter \in {"wireguard", "mock"}

(* Where operations are looked up, a running one is in the table and alone,*)
(* and each life of the agent had at most one of it.                       *)
OncePerLife ==
    Tabled =>
        /\ \A s \in serving : s.pc = "running" => s.req.op \in table
        /\ \A s, t \in serving : s.pc = "running" /\ t.pc = "running"
                                 /\ s.req.op = t.req.op => s = t
        /\ \A o \in Ops : o \notin table \/ Running(o) => ran[o] <= restarts

(* The mock enters an operation only together with its effect.             *)
MockDoes == adapter = "mock" => \A o \in table : ran[o] > 0

(* An answer of success tells of an effect, or of a table that knew the    *)
(* operation from another attempt.                                         *)
Told(o) == ran[o] > 0 \/ (adapter = "wireguard" /\ call[o].n > 1)

TrueAnswers == \A a \in answers : a.status = 200 => Told(a.req.op)

CallsInv == /\ AnswersAreTrue /\ Counted /\ InOnePlace /\ TableFilled
            /\ OncePerLife /\ MockDoes /\ TrueAnswers

RestartsAreFaults == restarts <= faults

IInv == CallsInv /\ RestartsAreFaults

--------------------------------------------------------------------------------
LEMMA Facts ==
    /\ Attempts \in Nat /\ 1 <= Attempts /\ MaxFaults \in Nat
    /\ \A req \in Request : req.op \in Ops /\ req.n \in Nat /\ req.n >= 1
    /\ \A r1, r2 \in Request : r1.op = r2.op /\ r1.n = r2.n => r1 = r2
BY BoundsAreNat DEF Attempts, Request

LEMMA ServedShape ==
    ASSUME NEW s \in Served
    PROVE  /\ s.req \in Request /\ s.pc \in {"arrived", "running"}
           /\ [s EXCEPT !.pc = "running"] \in Served
           /\ [s EXCEPT !.pc = "running"].req = s.req
           /\ [s EXCEPT !.pc = "running"].pc = "running"
           /\ [s EXCEPT !.gone = TRUE] \in Served
           /\ [s EXCEPT !.gone = TRUE].req = s.req
           /\ [s EXCEPT !.gone = TRUE].pc = s.pc
BY DEF Served

LEMMA ArrivalShape ==
    ASSUME NEW req \in Request, NEW gone \in BOOLEAN
    PROVE  LET s == [req |-> req, pc |-> "arrived", gone |-> gone] IN
           s \in Served /\ s.req = req /\ s.pc = "arrived"
BY DEF Served

LEMMA CallShape ==
    ASSUME call \in [Ops -> Call], NEW o \in Ops
    PROVE  /\ call[o].n \in Nat /\ call[o].n <= Attempts
           /\ call[o].pc \in {"new", "sent", "backoff", "ok", "error"}
BY Facts DEF Call

(* What the client makes of the end of an attempt.                         *)
LEMMA CallMoves ==
    ASSUME call \in [Ops -> Call], NEW o \in Ops,
           NEW pc \in {"new", "sent", "backoff", "ok", "error"},
           call' = [call EXCEPT ![o].pc = pc]
    PROVE  /\ call' \in [Ops -> Call]
           /\ call'[o].pc = pc /\ call'[o].n = call[o].n
           /\ \A p \in Ops \ {o} : call'[p] = call[p]
<1>1. [call[o] EXCEPT !.pc = pc] \in Call
  BY DEF Call
<1>2. call' = [call EXCEPT ![o] = [call[o] EXCEPT !.pc = pc]]
  OBVIOUS
<1>3. call'[o] = [call[o] EXCEPT !.pc = pc]
  BY <1>2
<1>4. QED
  BY <1>1, <1>2, <1>3 DEF Call

LEMMA Begins == Init => CallsInv
<1> SUFFICES ASSUME Init PROVE CallsInv
  OBVIOUS
<1>1. TypeOK
  <2>1. call \in [Ops -> Call]
    BY Facts DEF Init, Call
  <2>2. on \in BOOLEAN /\ knows \in BOOLEAN
    BY Zenon DEF Init
  <2>3. ran \in [Ops -> Nat] /\ restarts \in 0..MaxFaults /\ faults \in 0..MaxFaults
    BY Facts DEF Init
  <2>4. QED
    BY <2>1, <2>2, <2>3 DEF Init, TypeOK
<1>2. AnswersAreTrue
  BY <1>1 DEF Init, AnswersAreTrue, SuccessIsApplied, OnceUnlessForgotten
<1>3. Counted /\ InOnePlace /\ TableFilled /\ OncePerLife /\ MockDoes /\ TrueAnswers
  BY DEF Init, Counted, InOnePlace, TableFilled, OncePerLife, Running, MockDoes, TrueAnswers
<1>4. QED
  BY <1>2, <1>3 DEF CallsInv
--------------------------------------------------------------------------------
(***************************************************************************)
(* The client.                                                             *)
(***************************************************************************)
(* A call goes on in a step that sends nothing: requests and answers may   *)
(* vanish, and those at the agent may learn that the client is gone.       *)
LEMMA GoesOn ==
    ASSUME CallsInv, NEW o \in Ops, NEW pc \in {"backoff", "ok", "error"},
           call' = [call EXCEPT ![o].pc = pc],
           pc = "backoff" => call[o].n < Attempts,
           pc = "ok" => Told(o),
           net' \subseteq net, answers' \subseteq answers,
           serving' \subseteq Served,
           \A s \in serving' : \E t \in serving :
               s.req = t.req /\ s.pc = t.pc /\ \A q \in serving' : q.req = s.req => q = s,
           UNCHANGED <<adapter, table, ran, restarts>>
    PROVE  /\ SuccessIsApplied' /\ OnceUnlessForgotten'
           /\ Counted' /\ InOnePlace' /\ TableFilled' /\ OncePerLife' /\ MockDoes' /\ TrueAnswers'
<1>0. TypeOK
  BY DEF CallsInv, AnswersAreTrue
<1>1. /\ call' \in [Ops -> Call] /\ call'[o].pc = pc
      /\ \A p \in Ops : call'[p].n = call[p].n
      /\ \A p \in Ops \ {o} : call'[p].pc = call[p].pc
  BY <1>0, CallMoves DEF TypeOK
<1>2. \A p \in Ops : Told(p)' <=> Told(p)
  BY <1>1 DEF Told
<1>3. SuccessIsApplied'
  BY <1>1, <1>2 DEF CallsInv, AnswersAreTrue, SuccessIsApplied, Told
<1>4. OnceUnlessForgotten' /\ MockDoes'
  BY DEF CallsInv, AnswersAreTrue, OnceUnlessForgotten, MockDoes
<1>5. Counted'
  BY <1>1 DEF CallsInv, Counted
<1>6. /\ \A s \in serving' : s.req \in Request
      /\ net \subseteq Request /\ answers \subseteq Response /\ table \subseteq Ops
  BY <1>0, ServedShape DEF TypeOK
<1>7. InOnePlace'
  BY <1>1, <1>6, Facts DEF CallsInv, InOnePlace
<1>8. TableFilled'
  BY <1>1, <1>6 DEF CallsInv, TableFilled
<1>9. OncePerLife'
  <2>1. \A p : Running(p)' => Running(p)
    BY DEF Running
  <2>2. ASSUME NEW s \in serving', NEW t \in serving', Tabled,
               s.pc = "running", t.pc = "running", s.req.op = t.req.op
        PROVE  s = t
    <3>1. PICK s1 \in serving : s.req = s1.req /\ s.pc = s1.pc
      BY <2>2
    <3>2. PICK t1 \in serving : t.req = t1.req /\ t.pc = t1.pc
      BY <2>2
    <3>3. s1 = t1
      BY <2>2, <3>1, <3>2 DEF CallsInv, OncePerLife
    <3>4. QED
      BY <3>1, <3>2, <3>3
  <2>3. Tabled => \A s \in serving' : s.pc = "running" => s.req.op \in table
    BY DEF CallsInv, OncePerLife
  <2>4. QED
    BY <2>1, <2>2, <2>3 DEF CallsInv, OncePerLife, Tabled
<1>10. TrueAnswers'
  <2>1. \A a \in answers : a.req.op \in Ops
    BY <1>6, Facts DEF Response
  <2>2. QED
    BY <1>2, <2>1 DEF CallsInv, TrueAnswers
<1>11. QED
  BY <1>3, <1>4, <1>5, <1>7, <1>8, <1>9, <1>10

LEMMA SendStep == ASSUME CallsInv, NEW o \in Ops, Send(o) PROVE CallsInv'
<1> DEFINE c == [pc |-> "sent", n |-> call[o].n + 1]
           req == [op |-> o, n |-> call[o].n + 1]
<1>0. TypeOK
  BY DEF CallsInv, AnswersAreTrue
<1>1. /\ call' = [call EXCEPT ![o] = c] /\ net' = net \cup {req}
      /\ UNCHANGED <<adapter, table, on, knows, ran, failed, row, serving, answers, want,
                     restarts, faults>>
  BY <1>0 DEF Send, node, TypeOK
<1>2. call[o].n \in Nat /\ call[o].n < Attempts /\ call[o].pc \in {"new", "backoff"}
  BY <1>0, CallShape, Facts DEF Send, TypeOK, CallsInv, Counted
<1>3. c \in Call /\ c.pc = "sent" /\ c.n = call[o].n + 1
  BY <1>2, Facts DEF Call
<1>4. req \in Request /\ req.op = o /\ req.n = call[o].n + 1
  BY <1>2, Facts DEF Request
<1> HIDE DEF c, req
<1>5. /\ call' \in [Ops -> Call] /\ call'[o].pc = "sent" /\ call'[o].n = call[o].n + 1
      /\ \A p \in Ops \ {o} : call'[p] = call[p]
  BY <1>0, <1>1, <1>3 DEF TypeOK
<1>6. TypeOK'
  <2>1. on' \in BOOLEAN /\ knows' \in BOOLEAN
    BY Zenon, <1>0, <1>1 DEF TypeOK
  <2>2. QED
    BY <1>0, <1>1, <1>4, <1>5, <2>1 DEF TypeOK
<1>7. \A p \in Ops : call[p].n \in Nat /\ call'[p].n \in Nat
  BY <1>0, <1>5, CallShape, <1>2 DEF TypeOK
<1>8. \A p \in Ops : Told(p) => Told(p)'
  BY <1>1, <1>2, <1>5 DEF Told
<1>9. AnswersAreTrue'
  BY <1>1, <1>5, <1>6, <1>8 DEF CallsInv, AnswersAreTrue, SuccessIsApplied, OnceUnlessForgotten, Told
<1>10. Counted'
  BY <1>5 DEF CallsInv, Counted
<1>11. /\ \A s \in serving : s.req \in Request /\ s.req.op \in Ops /\ s.req.n \in Nat
       /\ \A q \in net : q.op \in Ops /\ q.n \in Nat
  BY <1>0, ServedShape, Facts DEF TypeOK
<1>12. InOnePlace'
  <2>1. \A q \in net' : q.n <= call'[q.op].n
    BY <1>1, <1>2, <1>4, <1>5, <1>7, <1>11 DEF CallsInv, InOnePlace
  <2>2. \A s \in serving : s.req.n <= call'[s.req.op].n /\ s.req \notin net'
    BY <1>1, <1>2, <1>4, <1>5, <1>7, <1>11 DEF CallsInv, InOnePlace
  <2>3. QED
    BY <1>1, <2>1, <2>2 DEF CallsInv, InOnePlace
<1>13. TableFilled'
  <2>1. ASSUME NEW p \in table
        PROVE  /\ call'[p].n >= 1
               /\ call'[p].n = 1 => /\ \A q \in net' : q.op # p
                                    /\ \A s \in serving : s.req.op = p => s.pc = "running"
    <3>1. p \in Ops /\ call[p].n >= 1
      BY <1>0 DEF TypeOK, CallsInv, TableFilled
    <3>2. CASE p = o
      BY <1>2, <1>5, <3>1, <3>2
    <3>3. CASE p # o
      BY <1>1, <1>4, <1>5, <3>1, <3>3 DEF CallsInv, TableFilled
    <3>4. QED
      BY <3>2, <3>3
  <2>2. QED
    BY <1>1, <2>1 DEF TableFilled
<1>14. OncePerLife' /\ MockDoes'
  BY <1>1 DEF CallsInv, OncePerLife, Running, Tabled, MockDoes
<1>15. TrueAnswers'
  <2>1. \A a \in answers : a.req.op \in Ops
    BY <1>0, Facts DEF TypeOK, Response
  <2>2. QED
    BY <1>1, <1>8, <2>1 DEF CallsInv, TrueAnswers
<1>16. QED
  BY <1>9, <1>10, <1>12, <1>13, <1>14, <1>15 DEF CallsInv

(* How a call goes on after an attempt, and what row it may leave.         *)
LEMMA CallEnding ==
    ASSUME TypeOK, NEW o \in Ops,
           \/ TryAgain(o)
           \/ \E ok \in BOOLEAN : EndCall(o, ok) /\ (ok => Told(o))
    PROVE  /\ \E pc \in {"backoff", "ok", "error"} :
                  /\ call' = [call EXCEPT ![o].pc = pc]
                  /\ pc = "backoff" => call[o].n < Attempts
                  /\ pc = "ok" => Told(o)
           /\ row' \in {"pending", "active", "error", "revoked"}
<1>1. ASSUME NEW ok \in BOOLEAN, EndCall(o, ok), ok => Told(o)
      PROVE  /\ \E pc \in {"backoff", "ok", "error"} :
                    /\ call' = [call EXCEPT ![o].pc = pc]
                    /\ pc = "backoff" => call[o].n < Attempts
                    /\ pc = "ok" => Told(o)
             /\ row' \in {"pending", "active", "error", "revoked"}
  <2>1. row' \in {"pending", "active", "error", "revoked"}
    BY <1>1 DEF EndCall, Outcome, TypeOK
  <2>2. CASE ok
    <3>1. call' = [call EXCEPT ![o].pc = "ok"]
      BY <1>1, <2>2 DEF EndCall
    <3>2. QED
      BY <1>1, <2>1, <2>2, <3>1
  <2>3. CASE ~ok
    <3>1. call' = [call EXCEPT ![o].pc = "error"]
      BY <1>1, <2>3 DEF EndCall
    <3>2. QED
      BY <2>1, <3>1
  <2>4. QED
    BY <2>2, <2>3
<1>2. CASE TryAgain(o)
  <2>1. CASE call[o].n < Attempts
    BY <1>2, <2>1 DEF TryAgain, TypeOK
  <2>2. CASE ~(call[o].n < Attempts)
    BY <1>1, <1>2, <2>2 DEF TryAgain
  <2>3. QED
    BY <2>1, <2>2
<1>3. QED
  BY <1>1, <1>2

LEMMA ReceiveStep == ASSUME CallsInv, NEW o \in Ops, Receive(o) PROVE CallsInv'
<1>0. TypeOK
  BY DEF CallsInv, AnswersAreTrue
<1>1. PICK a \in answers :
        /\ a.req = [op |-> o, n |-> call[o].n] /\ answers' = answers \ {a}
        /\ IF Retriable(a.status) THEN TryAgain(o) ELSE EndCall(o, a.status = 200)
  BY DEF Receive
<1>2. UNCHANGED <<adapter, table, on, knows, ran, failed, net, serving, want, restarts, faults>>
  BY DEF Receive, node
<1>3. a.status = 200 => Told(o)
  BY <1>1 DEF CallsInv, TrueAnswers
<1>4. \/ TryAgain(o)
      \/ \E ok \in BOOLEAN : EndCall(o, ok) /\ (ok => Told(o))
  BY <1>1, <1>3
<1>5. row' \in {"pending", "active", "error", "revoked"}
  BY <1>0, <1>4, CallEnding
<1>6. PICK pc \in {"backoff", "ok", "error"} :
        /\ call' = [call EXCEPT ![o].pc = pc]
        /\ pc = "backoff" => call[o].n < Attempts
        /\ pc = "ok" => Told(o)
  BY <1>0, <1>4, CallEnding
<1>7. TypeOK'
  <2>1. on' \in BOOLEAN /\ knows' \in BOOLEAN
    BY Zenon, <1>0, <1>2 DEF TypeOK
  <2>2. call' \in [Ops -> Call]
    BY <1>0, <1>6, CallMoves DEF TypeOK
  <2>3. QED
    BY <1>0, <1>1, <1>2, <1>5, <2>1, <2>2 DEF TypeOK
<1>8. /\ serving' \subseteq Served
      /\ \A s \in serving' : \E t \in serving :
               s.req = t.req /\ s.pc = t.pc /\ \A q \in serving' : q.req = s.req => q = s
  BY <1>0, <1>2 DEF CallsInv, InOnePlace, TypeOK
<1>9. net' \subseteq net /\ answers' \subseteq answers
  BY <1>1, <1>2
<1>10. QED
  BY <1>2, <1>6, <1>7, <1>8, <1>9, GoesOn DEF CallsInv, AnswersAreTrue

LEMMA AttemptFailsStep == ASSUME CallsInv, NEW o \in Ops, AttemptFails(o) PROVE CallsInv'
<1> DEFINE req == [op |-> o, n |-> call[o].n]
           mine == {s \in serving : s.req = req}
<1>0. TypeOK
  BY DEF CallsInv, AnswersAreTrue
<1>1. /\ TryAgain(o) /\ (Fault \/ UNCHANGED faults)
      /\ net' \in {net, net \ {req}}
      /\ serving' \in {serving, (serving \ mine) \cup {[s EXCEPT !.gone = TRUE] : s \in mine}}
      /\ answers' = {a \in answers : a.req # req}
      /\ UNCHANGED <<adapter, table, on, knows, ran, failed, want, restarts>>
  BY DEF AttemptFails, node
<1>2. row' \in {"pending", "active", "error", "revoked"}
  BY <1>0, <1>1, CallEnding
<1>3. PICK pc \in {"backoff", "ok", "error"} :
        /\ call' = [call EXCEPT ![o].pc = pc]
        /\ pc = "backoff" => call[o].n < Attempts
        /\ pc = "ok" => Told(o)
  BY <1>0, <1>1, CallEnding
<1>4. /\ serving' \subseteq Served
      /\ \A s \in serving' : \E t \in serving :
               s.req = t.req /\ s.pc = t.pc /\ \A q \in serving' : q.req = s.req => q = s
  <2>1. CASE serving' = serving
    BY <1>0, <2>1 DEF TypeOK, CallsInv, InOnePlace
  <2>2. CASE serving' = (serving \ mine) \cup {[s EXCEPT !.gone = TRUE] : s \in mine}
    <3>1. \A s \in mine : s \in Served /\ s \in serving /\ s.req = req
      BY <1>0 DEF TypeOK
    <3> DEFINE marked == {[s EXCEPT !.gone = TRUE] : s \in mine}
    <3>2. \A q \in marked : \E t \in mine : q = [t EXCEPT !.gone = TRUE]
      OBVIOUS
    <3>3. ASSUME NEW q \in marked
          PROVE  \E t \in mine : q \in Served /\ q.req = t.req /\ q.pc = t.pc
      <4>1. PICK t \in mine : q = [t EXCEPT !.gone = TRUE]
        BY <3>2
      <4>2. t \in Served
        BY <3>1
      <4>3. q \in Served /\ q.req = t.req /\ q.pc = t.pc
        BY <4>1, <4>2, ServedShape
      <4>4. QED
        BY <4>3
    <3>4. \A q, r \in marked : q = r
      BY <3>1, <3>2 DEF CallsInv, InOnePlace
    <3> HIDE DEF marked
    <3>5. serving' = (serving \ mine) \cup marked
      BY <2>2 DEF marked
    <3>6. \A s \in serving \ mine : s.req # req
      OBVIOUS
    <3>61. serving \subseteq Served
      BY <1>0 DEF TypeOK
    <3> HIDE DEF mine, req
    <3>7. \A s, t \in serving : s.req = t.req => s = t
      BY DEF CallsInv, InOnePlace
    <3>8. QED
      BY <3>1, <3>3, <3>4, <3>5, <3>6, <3>61, <3>7
  <2>3. QED
    BY <1>1, <2>1, <2>2
<1>5. TypeOK'
  <2>1. on' \in BOOLEAN /\ knows' \in BOOLEAN
    BY Zenon, <1>0, <1>1 DEF TypeOK
  <2>2. call' \in [Ops -> Call]
    BY <1>0, <1>3, CallMoves DEF TypeOK
  <2>3. faults' \in 0..MaxFaults
    BY <1>0, <1>1, Facts DEF TypeOK, Fault
  <2>4. QED
    BY <1>0, <1>1, <1>2, <1>4, <2>1, <2>2, <2>3 DEF TypeOK
<1>6. net' \subseteq net /\ answers' \subseteq answers
  BY <1>1
<1>7. QED
  BY <1>1, <1>3, <1>4, <1>5, <1>6, GoesOn DEF CallsInv, AnswersAreTrue

LEMMA AbandonedStep == ASSUME CallsInv, NEW o \in Ops, Abandoned(o) PROVE CallsInv'
<1>0. TypeOK
  BY DEF CallsInv, AnswersAreTrue
<1>1. /\ EndCall(o, FALSE) /\ Fault
      /\ UNCHANGED <<adapter, table, on, knows, ran, failed, net, serving, answers, want, restarts>>
  BY DEF Abandoned, node
<1>2. \E ok \in BOOLEAN : EndCall(o, ok) /\ (ok => Told(o))
  BY <1>1
<1>3. row' \in {"pending", "active", "error", "revoked"}
  BY <1>0, <1>2, CallEnding
<1>4. PICK pc \in {"backoff", "ok", "error"} :
        /\ call' = [call EXCEPT ![o].pc = pc]
        /\ pc = "backoff" => call[o].n < Attempts
        /\ pc = "ok" => Told(o)
  BY <1>0, <1>2, CallEnding
<1>5. TypeOK'
  <2>1. on' \in BOOLEAN /\ knows' \in BOOLEAN
    BY Zenon, <1>0, <1>1 DEF TypeOK
  <2>2. call' \in [Ops -> Call]
    BY <1>0, <1>4, CallMoves DEF TypeOK
  <2>3. faults' \in 0..MaxFaults
    BY <1>0, <1>1, Facts DEF TypeOK, Fault
  <2>4. QED
    BY <1>0, <1>1, <1>3, <2>1, <2>2, <2>3 DEF TypeOK
<1>6. QED
  BY <1>0, <1>1, <1>4, <1>5, GoesOn DEF CallsInv, AnswersAreTrue, InOnePlace, TypeOK
--------------------------------------------------------------------------------
(***************************************************************************)
(* The agent.                                                              *)
(***************************************************************************)
LEMMA InRange ==
    ASSUME CallsInv
    PROVE  /\ TypeOK
           /\ \A o \in Ops : call[o].n \in Nat /\ ran[o] \in Nat
           /\ \A q \in net : q \in Request /\ q.op \in Ops /\ q.n \in Nat /\ q.n >= 1
           /\ \A s \in serving : /\ s \in Served /\ s.req \in Request /\ s.req.op \in Ops
                                 /\ s.req.n \in Nat /\ s.req.n >= 1
                                 /\ s.pc \in {"arrived", "running"}
           /\ \A a \in answers : a.req.op \in Ops
           /\ table \subseteq Ops /\ restarts \in Nat
<1>1. TypeOK
  BY DEF CallsInv, AnswersAreTrue
<1>2. \A a \in answers : a.req.op \in Ops
  BY <1>1, Facts DEF TypeOK, Response
<1>3. \A s \in serving : s \in Served /\ s.req \in Request /\ s.pc \in {"arrived", "running"}
  BY <1>1, ServedShape DEF TypeOK
<1>4. QED
  BY <1>1, <1>2, <1>3, CallShape, Facts DEF TypeOK

(* The only attempt of an operation is nowhere else.                       *)
LEMMA OnlyAttempt ==
    ASSUME CallsInv, NEW s \in serving, call[s.req.op].n = 1
    PROVE  /\ s.req.n = 1
           /\ \A q \in net : q.op # s.req.op
           /\ \A t \in serving : t.req.op = s.req.op => t = s
<1>1. \A q \in net : q.op = s.req.op => q.n = 1
  BY InRange DEF CallsInv, InOnePlace
<1>2. \A t \in serving : t.req.op = s.req.op => t.req.n = 1
  BY InRange DEF CallsInv, InOnePlace
<1>3. s.req.n = 1
  BY <1>2
<1>4. \A q \in net : q.op = s.req.op => q = s.req
  BY <1>1, <1>3, InRange, Facts
<1>5. \A t \in serving : t.req.op = s.req.op => t.req = s.req
  BY <1>2, <1>3, InRange, Facts
<1>6. QED
  BY <1>3, <1>4, <1>5 DEF CallsInv, InOnePlace

LEMMA RespondShape ==
    ASSUME CallsInv, NEW s \in serving, NEW status \in {200, 401, 500, 501, 503}, Respond(s, status)
    PROVE  /\ serving' = serving \ {s} /\ serving' \subseteq Served /\ answers' \subseteq Response
           /\ \A a \in answers' : a \in answers \/ (a.req = s.req /\ a.status = status)
<1> DEFINE a0 == [req |-> s.req, status |-> status]
<1>1. a0 \in Response /\ a0.req = s.req /\ a0.status = status
  <2>1. s.req \in Request
    BY InRange
  <2>2. QED
    BY <2>1 DEF Response
<1>2. answers' \subseteq answers \cup {a0} /\ serving' = serving \ {s}
  BY DEF Respond
<1> HIDE DEF a0
<1>3. serving \subseteq Served /\ answers \subseteq Response
  BY InRange DEF TypeOK
<1>4. QED
  BY <1>1, <1>2, <1>3

RanOnce(o) == ran' = [ran EXCEPT ![o] = @ + 1]

(* A request is answered: without doing anything, after its command ran or *)
(* failed, or after the mock did it.                                       *)
LEMMA Answered ==
    ASSUME CallsInv, NEW s \in serving, NEW status \in {200, 401, 500, 501, 503},
           Respond(s, status), UNCHANGED <<adapter, call, net, restarts>>,
           \/ /\ UNCHANGED <<table, ran>>
              /\ status = 200 => Told(s.req.op)
           \/ /\ s.pc = "running" /\ UNCHANGED table
              /\ UNCHANGED ran \/ RanOnce(s.req.op)
              /\ status = 200 => RanOnce(s.req.op)
           \/ /\ adapter = "mock" /\ s.req.op \notin table
              /\ table' = table \cup {s.req.op} /\ RanOnce(s.req.op)
    PROVE  /\ SuccessIsApplied' /\ OnceUnlessForgotten'
           /\ Counted' /\ InOnePlace' /\ TableFilled' /\ OncePerLife' /\ MockDoes' /\ TrueAnswers'
           /\ ran' \in [Ops -> Nat]
<1> DEFINE op == s.req.op
<1>1. /\ serving' = serving \ {s}
      /\ \A a \in answers' : a \in answers \/ (a.req = s.req /\ a.status = status)
  BY RespondShape
<1>2. op \in Ops /\ ran \in [Ops -> Nat]
  BY InRange DEF TypeOK
<1>3. /\ ran' \in [Ops -> Nat] /\ ran'[op] \in {ran[op], ran[op] + 1}
      /\ \A p \in Ops \ {op} : ran'[p] = ran[p]
      /\ RanOnce(op) => ran'[op] = ran[op] + 1
  BY <1>2 DEF RanOnce
<1>4. \A p \in Ops : Told(p) => Told(p)'
  BY <1>2, <1>3 DEF Told
<1>5. status = 200 => Told(op)'
  BY <1>2, <1>3, <1>4 DEF Told
<1>6. SuccessIsApplied'
  BY <1>4 DEF CallsInv, AnswersAreTrue, SuccessIsApplied, Told
<1>7. Counted'
  BY DEF CallsInv, Counted
<1>8. InOnePlace'
  BY <1>1 DEF CallsInv, InOnePlace
<1>9. TrueAnswers'
  BY <1>1, <1>4, <1>5, InRange DEF CallsInv, TrueAnswers
<1>10. TableFilled'
  <2>1. CASE table' = table
    BY <1>1, <2>1 DEF CallsInv, TableFilled
  <2>2. CASE table' = table \cup {op}
    <3>1. call[op].n >= 1
      BY InRange DEF CallsInv, InOnePlace
    <3>2. call[op].n = 1 => /\ \A q \in net : q.op # op
                            /\ \A t \in serving' : t.req.op # op
      BY <1>1, OnlyAttempt
    <3>3. QED
      BY <1>1, <2>2, <3>1, <3>2 DEF CallsInv, TableFilled
  <2>3. QED
    BY <2>1, <2>2
<1>11. \A p : Running(p)' => Running(p)
  BY <1>1 DEF Running
<1>12. Tabled' <=> Tabled
  BY DEF Tabled
<1>13. ASSUME Tabled, ran' # ran
       PROVE  op \in table' /\ ~Running(op)' /\ ran[op] <= restarts
  <2>1. CASE s.pc = "running"
    <3>1. op \in table /\ table \subseteq table'
      BY <1>13, <2>1 DEF CallsInv, OncePerLife
    <3>2. Running(op)
      BY <2>1 DEF Running
    <3>3. ~Running(op)'
      BY <1>1, <1>13, <2>1 DEF CallsInv, OncePerLife, Running
    <3>4. QED
      BY <1>2, <1>13, <3>1, <3>2, <3>3 DEF CallsInv, OncePerLife
  <2>2. CASE op \notin table /\ table' = table \cup {op}
    <3>1. ~Running(op)
      BY <1>13, <2>2 DEF CallsInv, OncePerLife, Running
    <3>2. QED
      BY <1>2, <1>11, <1>13, <2>2, <3>1 DEF CallsInv, OncePerLife
  <2>3. QED
    BY <1>13, <2>1, <2>2
<1>14. OnceUnlessForgotten'
  <2> SUFFICES ASSUME Tabled, NEW p \in Ops PROVE ran'[p] <= 1 + restarts
    BY <1>12 DEF OnceUnlessForgotten, Tabled
  <2>1. ran[p] <= 1 + restarts
    BY DEF CallsInv, AnswersAreTrue, OnceUnlessForgotten, Tabled
  <2>2. QED
    BY <1>2, <1>3, <1>13, <2>1, InRange
<1>15. OncePerLife'
  <2> SUFFICES ASSUME Tabled PROVE OncePerLife'
    BY <1>12 DEF OncePerLife
  <2>1. /\ \A t \in serving' : t.pc = "running" => t.req.op \in table'
        /\ \A t, q \in serving' : t.pc = "running" /\ q.pc = "running"
                                  /\ t.req.op = q.req.op => t = q
    BY <1>1 DEF CallsInv, OncePerLife
  <2>2. \A p \in Ops : p \notin table' \/ Running(p)' => ran'[p] <= restarts
    BY <1>2, <1>3, <1>11, <1>13 DEF CallsInv, OncePerLife
  <2>3. QED
    BY <2>1, <2>2 DEF OncePerLife
<1>16. MockDoes'
  <2>1. \A p \in table' : p \in Ops
    BY <1>2, InRange
  <2>2. CASE table' = table
    BY <1>2, <1>3, <2>1, <2>2 DEF CallsInv, MockDoes
  <2>3. CASE table' = table \cup {op} /\ RanOnce(op)
    BY <1>2, <1>3, <2>1, <2>3 DEF CallsInv, MockDoes
  <2>4. QED
    BY <2>2, <2>3
<1>17. QED
  BY <1>3, <1>6, <1>7, <1>8, <1>9, <1>10, <1>14, <1>15, <1>16

LEMMA HandlerStep == ASSUME CallsInv, NEW s \in serving,
                            Decline(s) \/ Repeat(s) \/ Mock(s) \/ Run(s) \/ RunFails(s)
                     PROVE  CallsInv'
<1>0. TypeOK /\ s.req.op \in Ops
  BY InRange
<1>1. \E status \in {200, 401, 500, 501, 503} :
        /\ Respond(s, status)
        /\ \/ /\ UNCHANGED <<table, ran>>
              /\ status = 200 => Told(s.req.op)
           \/ /\ s.pc = "running" /\ UNCHANGED table
              /\ UNCHANGED ran \/ RanOnce(s.req.op)
              /\ status = 200 => RanOnce(s.req.op)
           \/ /\ adapter = "mock" /\ s.req.op \notin table
              /\ table' = table \cup {s.req.op} /\ RanOnce(s.req.op)
  <2>1. CASE Decline(s)
    BY <2>1 DEF Decline, node
  <2>2. CASE Repeat(s)
    <3>1. s.pc = "arrived" /\ adapter \in {"wireguard", "mock"} /\ s.req.op \in table
      BY <2>2 DEF Repeat, Seen
    <3>2. ASSUME adapter = "mock" PROVE Told(s.req.op)
      BY <3>1, <3>2 DEF CallsInv, MockDoes, Told
    <3>3. ASSUME adapter = "wireguard" PROVE Told(s.req.op)
      <4>1. call[s.req.op].n >= 1 /\ call[s.req.op].n # 1
        BY <3>1 DEF CallsInv, TableFilled
      <4>2. call[s.req.op].n > 1
        BY <1>0, <4>1, InRange
      <4>3. QED
        BY <3>3, <4>2 DEF Told
    <3>4. Told(s.req.op)
      BY <3>1, <3>2, <3>3
    <3>5. QED
      BY <2>2, <3>4 DEF Repeat, node
  <2>3. CASE Mock(s)
    BY <2>3 DEF Mock, Seen, TakesEffect, RanOnce
  <2>4. CASE Run(s)
    BY <2>4 DEF Run, TakesEffect, RanOnce
  <2>5. CASE RunFails(s)
    BY <2>5 DEF RunFails, TakesEffect, RanOnce
  <2>6. QED
    BY <2>1, <2>2, <2>3, <2>4, <2>5
<1>2. UNCHANGED <<adapter, call, row, net, want, restarts>>
  BY DEF Decline, Repeat, Mock, Run, RunFails, node, control
<1>3. /\ SuccessIsApplied' /\ OnceUnlessForgotten'
      /\ Counted' /\ InOnePlace' /\ TableFilled' /\ OncePerLife' /\ MockDoes' /\ TrueAnswers'
      /\ ran' \in [Ops -> Nat]
  BY <1>1, <1>2, Answered
<1>4. /\ serving' \subseteq Served /\ answers' \subseteq Response
      /\ table' \subseteq Ops
  BY <1>0, <1>1, RespondShape DEF TypeOK
<1>5. on' \in BOOLEAN /\ knows' \in BOOLEAN
  <2>1. on \in BOOLEAN /\ knows \in BOOLEAN
    BY <1>0 DEF TypeOK
  <2>2. (s.req.op \in Applies) \in BOOLEAN
    OBVIOUS
  <2>3. on' \in {on, s.req.op \in Applies} /\ knows' \in {knows, s.req.op \in Applies}
    BY Zenon DEF Decline, Repeat, Mock, Run, RunFails, TakesEffect, node
  <2>4. QED
    BY Zenon, <2>1, <2>2, <2>3
<1>6. failed' \subseteq Ops /\ faults' \in 0..MaxFaults
  BY <1>0, Facts DEF Decline, Repeat, Mock, Run, RunFails, Fault, node, TypeOK
<1>7. TypeOK'
  BY <1>0, <1>2, <1>3, <1>4, <1>5, <1>6 DEF TypeOK
<1>8. QED
  BY <1>3, <1>7 DEF CallsInv, AnswersAreTrue

LEMMA BeginStep == ASSUME CallsInv, NEW s \in serving, Begin(s) PROVE CallsInv'
<1> DEFINE op == s.req.op
           s1 == [s EXCEPT !.pc = "running"]
<1>0. TypeOK /\ op \in Ops /\ s \in Served
  BY InRange
<1>1. /\ s.pc = "arrived" /\ adapter \in {"wireguard", "xray"} /\ ~Seen(s)
      /\ table' = (IF adapter = "xray" THEN table ELSE table \cup {op})
      /\ serving' = (serving \ {s}) \cup {s1}
      /\ UNCHANGED <<adapter, call, row, on, knows, ran, failed, net, answers, want,
                     restarts, faults>>
  BY DEF Begin, control
<1>2. s1 \in Served /\ s1.req = s.req /\ s1.pc = "running"
  BY <1>0, ServedShape
<1> HIDE DEF s1
<1>3. TypeOK'
  <2>1. on' \in BOOLEAN /\ knows' \in BOOLEAN
    BY Zenon, <1>0, <1>1 DEF TypeOK
  <2>2. serving' \subseteq Served /\ table' \subseteq Ops
    BY <1>0, <1>1, <1>2 DEF TypeOK
  <2>3. QED
    BY <1>0, <1>1, <2>1, <2>2 DEF TypeOK
<1>4. AnswersAreTrue' /\ Counted' /\ TrueAnswers'
  BY <1>1, <1>3 DEF CallsInv, AnswersAreTrue, SuccessIsApplied, OnceUnlessForgotten, Counted,
                    TrueAnswers, Told
<1>5. InOnePlace'
  BY <1>1, <1>2 DEF CallsInv, InOnePlace
<1>6. TableFilled'
  <2>1. \A p \in table : /\ call[p].n >= 1
                         /\ call[p].n = 1 => /\ \A q \in net : q.op # p
                                             /\ \A t \in serving' : t.req.op = p => t.pc = "running"
    BY <1>1, <1>2 DEF CallsInv, TableFilled
  <2>2. call[op].n >= 1
    BY <1>0, InRange DEF CallsInv, InOnePlace
  <2>3. call[op].n = 1 => /\ \A q \in net : q.op # op
                          /\ \A t \in serving' : t.req.op = op => t.pc = "running"
    BY <1>1, <1>2, OnlyAttempt
  <2>4. QED
    BY <1>1, <2>1, <2>2, <2>3 DEF TableFilled
<1>7. OncePerLife' /\ MockDoes'
  <2>1. CASE adapter = "xray"
    BY <1>1, <2>1 DEF OncePerLife, MockDoes, Tabled
  <2>2. CASE adapter = "wireguard"
    <3>1. op \notin table /\ Tabled /\ table' = table \cup {op}
      BY <1>1, <2>2 DEF Seen, Tabled
    <3>2. \A t \in serving : t.pc = "running" => t.req.op # op
      BY <3>1 DEF CallsInv, OncePerLife
    <3>3. ran[op] <= restarts
      BY <1>0, <3>1 DEF CallsInv, OncePerLife
    <3>4. \A p \in Ops \ {op} : Running(p)' => Running(p)
      BY <1>1, <1>2 DEF Running
    <3>5. QED
      BY <1>1, <1>2, <2>2, <3>1, <3>2, <3>3, <3>4 DEF CallsInv, OncePerLife, MockDoes, Tabled
  <2>3. QED
    BY <1>1, <2>1, <2>2
<1>8. QED
  BY <1>4, <1>5, <1>6, <1>7 DEF CallsInv

LEMMA DeliverStep == ASSUME CallsInv, NEW req \in net, Deliver(req) PROVE CallsInv'
<1>1. PICK gone \in BOOLEAN :
        serving' = serving \cup {[req |-> req, pc |-> "arrived", gone |-> gone]}
  BY DEF Deliver
<1> DEFINE s == [req |-> req, pc |-> "arrived", gone |-> gone]
<1>2. /\ net' = net \ {req}
      /\ UNCHANGED <<adapter, table, on, knows, ran, failed, call, row, answers, want,
                     restarts, faults>>
  BY DEF Deliver, node, control
<1>3. s \in Served /\ s.req = req /\ s.pc = "arrived"
  BY InRange, ArrivalShape
<1> HIDE DEF s
<1>4. serving' = serving \cup {s}
  BY <1>1 DEF s
<1>5. TypeOK'
  <2>1. on' \in BOOLEAN /\ knows' \in BOOLEAN
    BY Zenon, <1>2, InRange DEF TypeOK
  <2>2. QED
    BY <1>2, <1>3, <1>4, <2>1, InRange DEF TypeOK
<1>6. AnswersAreTrue' /\ Counted' /\ TrueAnswers' /\ MockDoes'
  BY <1>2, <1>5 DEF CallsInv, AnswersAreTrue, SuccessIsApplied, OnceUnlessForgotten, Counted,
                    TrueAnswers, Told, MockDoes
<1>7. InOnePlace' /\ TableFilled'
  BY <1>2, <1>3, <1>4 DEF CallsInv, InOnePlace, TableFilled
<1>8. OncePerLife'
  BY <1>2, <1>3, <1>4 DEF CallsInv, OncePerLife, Running, Tabled
<1>9. QED
  BY <1>6, <1>7, <1>8 DEF CallsInv

LEMMA RefuseStep == ASSUME CallsInv, NEW req \in net, Refuse(req) PROVE CallsInv'
<1> DEFINE a == [req |-> req, status |-> 401]
<1>1. /\ net' = net \ {req} /\ answers' = answers \cup {a} /\ Fault
      /\ UNCHANGED <<adapter, table, on, knows, ran, failed, call, row, serving, want, restarts>>
  BY DEF Refuse, node, control
<1>2. a \in Response /\ a.status = 401
  <2>1. req \in Request
    BY InRange
  <2>2. QED
    BY <2>1 DEF Response
<1> HIDE DEF a
<1>3. TypeOK'
  <2>1. on' \in BOOLEAN /\ knows' \in BOOLEAN
    BY Zenon, <1>1, InRange DEF TypeOK
  <2>2. faults' \in 0..MaxFaults
    BY <1>1, InRange, Facts DEF TypeOK, Fault
  <2>3. QED
    BY <1>1, <1>2, <2>1, <2>2, InRange DEF TypeOK
<1>4. AnswersAreTrue' /\ Counted' /\ MockDoes' /\ OncePerLife'
  BY <1>1, <1>3 DEF CallsInv, AnswersAreTrue, SuccessIsApplied, OnceUnlessForgotten, Counted,
                    MockDoes, OncePerLife, Running, Tabled
<1>5. InOnePlace' /\ TableFilled'
  BY <1>1 DEF CallsInv, InOnePlace, TableFilled
<1>6. TrueAnswers'
  BY <1>1, <1>2 DEF CallsInv, TrueAnswers, Told
<1>7. QED
  BY <1>4, <1>5, <1>6 DEF CallsInv

LEMMA RestartStep == ASSUME CallsInv, RestartsAreFaults, RestartAgent PROVE CallsInv'
<1>1. /\ Fault /\ restarts' = restarts + 1 /\ table' = {} /\ serving' = {} /\ want' = "none"
      /\ UNCHANGED <<adapter, call, row, ran, failed, net, answers>>
  BY DEF RestartAgent, control
<1>2. TypeOK'
  <2>1. on' \in BOOLEAN /\ knows' \in BOOLEAN
    BY Zenon, InRange DEF RestartAgent, TypeOK
  <2>2. faults' \in 0..MaxFaults /\ restarts' \in 0..MaxFaults
    BY <1>1, InRange, Facts DEF TypeOK, Fault, RestartsAreFaults
  <2>3. QED
    BY <1>1, <2>1, <2>2, InRange DEF TypeOK
<1>3. AnswersAreTrue'
  BY <1>1, <1>2, InRange DEF CallsInv, AnswersAreTrue, SuccessIsApplied, OnceUnlessForgotten
<1>4. OncePerLife'
  BY <1>1, InRange
     DEF CallsInv, AnswersAreTrue, OnceUnlessForgotten, OncePerLife, Running, Tabled
<1>5. Counted' /\ InOnePlace' /\ TableFilled' /\ MockDoes' /\ TrueAnswers'
  BY <1>1 DEF CallsInv, Counted, InOnePlace, TableFilled, MockDoes, TrueAnswers, Told
<1>6. QED
  BY <1>3, <1>4, <1>5 DEF CallsInv

LEMMA LoopStep == ASSUME CallsInv, FetchDesired \/ Reconcile PROVE CallsInv'
<1>1. UNCHANGED <<adapter, table, ran, failed, call, row, net, serving, answers, restarts, faults>>
  BY DEF FetchDesired, Reconcile, node, control
<1>2. TypeOK'
  <2>1. on' \in BOOLEAN /\ knows' \in BOOLEAN
    BY Zenon, InRange DEF FetchDesired, Reconcile, node, TypeOK
  <2>2. want' \in {"none", "on", "off"}
    BY DEF FetchDesired, Reconcile
  <2>3. QED
    BY <1>1, <2>1, <2>2, InRange DEF TypeOK
<1>3. QED
  BY <1>1, <1>2 DEF CallsInv, AnswersAreTrue, SuccessIsApplied, OnceUnlessForgotten, Counted,
     InOnePlace, TableFilled, OncePerLife, Running, Tabled, MockDoes, TrueAnswers, Told

LEMMA StutterStep == ASSUME CallsInv, UNCHANGED vars PROVE CallsInv'
<1>1. UNCHANGED <<adapter, table, on, knows, ran, failed, call, row, net, serving, answers,
                  want, restarts, faults>>
  BY DEF vars, node, control
<1>2. TypeOK'
  BY Zenon, <1>1, InRange DEF TypeOK
<1>3. QED
  BY <1>1, <1>2 DEF CallsInv, AnswersAreTrue, SuccessIsApplied, OnceUnlessForgotten, Counted,
     InOnePlace, TableFilled, OncePerLife, Running, Tabled, MockDoes, TrueAnswers, Told

LEMMA RestartsStep == ASSUME IInv, [Next]_vars PROVE RestartsAreFaults'
<1>1. restarts \in Nat /\ faults \in Nat /\ restarts <= faults
  BY InRange, Facts DEF IInv, TypeOK, RestartsAreFaults
<1>2. \/ UNCHANGED restarts /\ (UNCHANGED faults \/ Fault)
      \/ restarts' = restarts + 1 /\ Fault
  BY DEF Next, Client, Handler, Loop, Send, Receive, AttemptFails, Abandoned, Deliver, Refuse,
     Decline, Repeat, Begin, Mock, Run, RunFails, RestartAgent, FetchDesired, Reconcile, vars
<1>3. QED
  BY <1>1, <1>2 DEF Fault, RestartsAreFaults

LEMMA StepKeepsIInv == IInv /\ [Next]_vars => IInv'
<1> SUFFICES ASSUME IInv, [Next]_vars PROVE IInv'
  OBVIOUS
<1>0. CallsInv /\ RestartsAreFaults
  BY DEF IInv
<1>1. ASSUME NEW o \in Ops, Client(o) \/ Abandoned(o) PROVE CallsInv'
  BY <1>0, <1>1, SendStep, ReceiveStep, AttemptFailsStep, AbandonedStep DEF Client
<1>2. ASSUME Handler PROVE CallsInv'
  BY <1>0, <1>2, HandlerStep, BeginStep DEF Handler
<1>3. ASSUME Loop PROVE CallsInv'
  BY <1>0, <1>3, LoopStep DEF Loop
<1>4. ASSUME RestartAgent PROVE CallsInv'
  BY <1>0, <1>4, RestartStep
<1>5. ASSUME NEW req \in net, Deliver(req) \/ Refuse(req) PROVE CallsInv'
  BY <1>0, <1>5, DeliverStep, RefuseStep
<1>6. ASSUME UNCHANGED vars PROVE CallsInv'
  BY <1>0, <1>6, StutterStep
<1>7. CallsInv'
  BY <1>1, <1>2, <1>3, <1>4, <1>5, <1>6 DEF Next
<1>8. QED
  BY <1>7, RestartsStep DEF IInv

(***************************************************************************)
(* Whatever is lost, late, repeated or cut off by a restart, a call that   *)
(* succeeded had its command take effect on the node, or is a repeated     *)
(* attempt for a WireGuard peer; and a command whose operation is looked up*)
(* runs at most once in each life of the agent.                            *)
(***************************************************************************)
THEOREM AnswersTrue == Spec => []AnswersAreTrue
<1>1. Init => IInv
  BY Begins DEF IInv, RestartsAreFaults, Init
<1>2. IInv /\ [Next]_vars => IInv'
  BY StepKeepsIInv
<1>3. IInv => AnswersAreTrue
  BY DEF IInv, CallsInv
<1>4. QED
  BY <1>1, <1>2, <1>3, PTL DEF Spec

--------------------------------------------------------------------------------
(***************************************************************************)
(* The addresses of IPAllocator.  A call keeps no list of the hosts it     *)
(* tried, so what is inductive is said of the counter instead: reading it  *)
(* backwards, as many hosts as a steady call has made increments are each  *)
(* in the set or at the hands of a call (NoneLeftOut).  After Capacity     *)
(* increments that is a whole round, whoever made the ones in between.     *)
(***************************************************************************)
(* What is assumed of the subnet and the bounds.                           *)
SubnetAssumed ==
    /\ Capacity \in Nat \ {0} /\ Usable \subseteq 1..Capacity
    /\ MaxAsked \in Nat /\ MaxForgets \in Nat /\ MaxFaults \in Nat

(* Every instance of the module assumes it.                                *)
LEMMA SubnetIsAssumed == SubnetAssumed
  BY PartsAssume DEF SubnetAssumed, Ip!CapacityIsPositive, Ip!UsableAreHosts, Ip!BoundsAreNat

(* The host that counter value n gave, k increments before it.             *)
Behind(n, k) == IF k <= n THEN n - k + 1 ELSE n - k + 1 + Capacity

(* The increments of a call so far.                                        *)
Made(f) == IF f.pc = "sadd" THEN f.tries + 1 ELSE f.tries

(* A host is in the set, or on its way there.                              *)
Spoken(h) == h \in ipUsed \/ \E d \in Calls : ipCall[d].host = h

(* A steady call and those beside it leave no host out between them: its   *)
(* own last increments were of so many hosts, and each is spoken for.      *)
NoneLeftOut ==
    \A c \in ipSteady : \A k \in 1..Capacity :
        k <= Made(ipCall[c]) /\ Behind(ipCounter, k) \in Usable => Spoken(Behind(ipCounter, k))

(* Who has a host is about to add it.                                      *)
HostIsAdded ==
    \A c \in Calls : /\ ipCall[c].pc = "sadd" => ipCall[c].host \in Usable /\ ipCall[c].tries < Capacity
                     /\ ipCall[c].pc # "sadd" => ipCall[c].host = 0
                     /\ ipCall[c].pc = "idle" => ipCall[c].tries = 0

(* A host in the set has at most one holder for each memory of Redis, one  *)
(* that is not there one less.                                             *)
HoldersCounted ==
    \A h \in Ip!Hosts : ipGiven[h] <= ipForgets + (IF h \in ipUsed THEN 1 ELSE 0)

(* What a step keeps of the addresses.                                    *)
IpInv == Ip!TypeOK /\ HostIsAdded /\ HoldersCounted /\ NoneLeftOut

(* One increment puts what was behind the counter one further back.        *)
LEMMA BehindMoves ==
    ASSUME SubnetAssumed, NEW n \in 0..Capacity - 1
    PROVE  LET m == (n + 1) % Capacity
           IN  /\ m \in 0..Capacity - 1 /\ Behind(m, 1) = Ip!Host(n)
               /\ \A k \in 1..Capacity : k # 1 => k - 1 \in 1..Capacity /\ Behind(m, k) = Behind(n, k - 1)
<1> DEFINE m == (n + 1) % Capacity
<1>1. Capacity \in Nat /\ Capacity > 0 /\ n \in Nat /\ n <= Capacity - 1
  BY DEF SubnetAssumed
<1>2. m = IF n = Capacity - 1 THEN 0 ELSE n + 1
  BY <1>1
<1> HIDE DEF m
<1>3. m \in 0..Capacity - 1
  BY <1>1, <1>2
<1>4. Behind(m, 1) = Ip!Host(n)
  BY <1>1, <1>2 DEF Behind, Ip!Host
<1>5. \A k \in 1..Capacity : k # 1 => k - 1 \in 1..Capacity /\ Behind(m, k) = Behind(n, k - 1)
  BY <1>1, <1>2 DEF Behind
<1> QED BY <1>3, <1>4, <1>5 DEF m

(* A round of the counter is all hosts.                                    *)
LEMMA BehindIsAll ==
    ASSUME SubnetAssumed, NEW n \in 0..Capacity - 1, NEW h \in Usable
    PROVE  \E k \in 1..Capacity : Behind(n, k) = h
<1>1. Capacity \in Nat /\ n \in Nat /\ n <= Capacity - 1 /\ h \in Nat /\ 1 <= h /\ h <= Capacity
  BY DEF SubnetAssumed
<1>2. CASE h <= n
  <2>1. n - h + 1 \in 1..Capacity /\ Behind(n, n - h + 1) = h
    BY <1>1, <1>2 DEF Behind
  <2> QED BY <2>1
<1>3. CASE ~(h <= n)
  <2>1. n - h + 1 + Capacity \in 1..Capacity /\ Behind(n, n - h + 1 + Capacity) = h
    BY <1>1, <1>3 DEF Behind
  <2> QED BY <2>1
<1> QED BY <1>2, <1>3

(* The parts of its types.                                                 *)
LEMMA IpTypes ==
    ASSUME IpInv
    PROVE  /\ ipCounter \in 0..Capacity - 1 /\ ipUsed \subseteq Usable /\ ipCall \in [Calls -> Ip!Call]
           /\ ipGiven \in [Ip!Hosts -> Nat] /\ ipAsked \in 0..MaxAsked /\ ipForgets \in 0..MaxForgets
           /\ ipFaults \in 0..MaxFaults /\ ipSteady \subseteq Calls
  BY DEF IpInv, Ip!TypeOK

(* A call's own record becomes f: the others are as they were.             *)
LEMMA CallBecomes ==
    ASSUME IpInv, NEW c \in Calls, NEW f \in Ip!Call, Ip!Becomes(c, f),
           f.pc = "sadd" => f.host \in Usable /\ f.tries < Capacity,
           f.pc # "sadd" => f.host = 0, f.pc = "idle" => f.tries = 0
    PROVE  /\ ipCall' \in [Calls -> Ip!Call] /\ HostIsAdded'
           /\ ipCall'[c] = f /\ \A d \in Calls : d # c => ipCall'[d] = ipCall[d]
<1>1. ipCall' = [ipCall EXCEPT ![c] = f] /\ ipCall \in [Calls -> Ip!Call]
  BY IpTypes DEF Ip!Becomes
<1>2. ipCall'[c] = f /\ \A d \in Calls : d # c => ipCall'[d] = ipCall[d]
  BY <1>1
<1> QED BY <1>1, <1>2 DEF IpInv, HostIsAdded

(* Where the counter stays, steady calls have made no more increments, and *)
(* no host falls out of what is spoken for, none is left out.              *)
LEMMA StillNoneLeftOut ==
    ASSUME IpInv, ipCounter' = ipCounter,
           \A c \in ipSteady' : Made(ipCall'[c]) = 0 \/ (c \in ipSteady /\ Made(ipCall'[c]) = Made(ipCall[c])),
           ipSteady' # {} => \A h \in Usable : Spoken(h) => Spoken(h)'
    PROVE  NoneLeftOut'
<1> SUFFICES ASSUME NEW c \in ipSteady', NEW k \in 1..Capacity, k <= Made(ipCall'[c]),
                    Behind(ipCounter, k) \in Usable
             PROVE  Spoken(Behind(ipCounter, k))'
  BY DEF NoneLeftOut, Behind
<1>1. ~(k <= 0)
  OBVIOUS
<1>2. c \in ipSteady /\ Made(ipCall'[c]) = Made(ipCall[c])
  BY <1>1
<1>3. Spoken(Behind(ipCounter, k))
  BY <1>2 DEF IpInv, NoneLeftOut
<1> HIDE DEF Spoken
<1> QED BY <1>3

(* A new call has made no increment yet.                                   *)
LEMMA IpAllocates == ASSUME SubnetAssumed, IpInv, NEW c \in Calls, Ip!Allocate(c) PROVE IpInv'
<1> DEFINE f == [Ip!Idle EXCEPT !.pc = "incr"]
<1>1. /\ ipCall[c].pc = "idle" /\ ipAsked < MaxAsked /\ Ip!Becomes(c, f) /\ ipAsked' = ipAsked + 1
      /\ ipSteady' = ipSteady \cup {c} /\ UNCHANGED <<ipCounter, ipUsed, ipGiven, ipForgets, ipFaults>>
  BY DEF Ip!Allocate
<1>2. f \in Ip!Call /\ f.pc = "incr" /\ f.host = 0 /\ f.tries = 0
  BY DEF Ip!Idle, Ip!Call, SubnetAssumed
<1> HIDE DEF f
<1>3. /\ ipCall' \in [Calls -> Ip!Call] /\ HostIsAdded'
      /\ ipCall'[c] = f /\ \A d \in Calls : d # c => ipCall'[d] = ipCall[d]
  BY <1>1, <1>2, CallBecomes
<1>4. ipCall[c].host = 0
  BY <1>1 DEF IpInv, HostIsAdded
<1>5. \A h \in Usable : Spoken(h) => Spoken(h)'
  BY <1>1, <1>2, <1>3, <1>4 DEF Spoken
<1>6. \A d \in ipSteady' : Made(ipCall'[d]) = 0 \/ (d \in ipSteady /\ Made(ipCall'[d]) = Made(ipCall[d]))
  <2>1. Made(f) = 0
    BY <1>2 DEF Made
  <2> QED BY <1>1, <1>3, <2>1, IpTypes
<1>7. NoneLeftOut'
  BY <1>1, <1>5, <1>6, StillNoneLeftOut
<1>8. Ip!TypeOK'
  <2>1. ipAsked' \in 0..MaxAsked
    BY <1>1, IpTypes DEF SubnetAssumed
  <2> QED BY <1>1, <1>3, <2>1, IpTypes DEF Ip!TypeOK
<1>9. HoldersCounted'
  BY <1>1 DEF IpInv, HoldersCounted
<1> QED BY <1>3, <1>7, <1>8, <1>9 DEF IpInv

(* An increment: what it leaves behind is with the call that made it.      *)
LEMMA IpIncrements == ASSUME SubnetAssumed, IpInv, NEW c \in Calls, Ip!Incr(c) PROVE IpInv'
<1> DEFINE h == Ip!Host(ipCounter)
           f == IF h \in Usable THEN [ipCall[c] EXCEPT !.pc = "sadd", !.host = h] ELSE Ip!NextTry(c)
<1>1. /\ ipCall[c].pc = "incr" /\ ipCall[c].tries < Capacity /\ ipCounter' = (ipCounter + 1) % Capacity
      /\ Ip!Becomes(c, f)
      /\ UNCHANGED <<ipUsed, ipGiven, ipAsked, ipForgets, ipFaults, ipSteady>>
  BY DEF Ip!Incr, Ip!MoreTries
<1>2. ipCall[c] \in Ip!Call /\ ipCounter \in 0..Capacity - 1 /\ Capacity \in Nat /\ ipCall[c].host = 0
  BY <1>1, IpTypes DEF SubnetAssumed, IpInv, HostIsAdded
<1>3. /\ ipCounter' \in 0..Capacity - 1 /\ Behind(ipCounter', 1) = h
      /\ \A k \in 1..Capacity : k # 1 => k - 1 \in 1..Capacity /\ Behind(ipCounter', k) = Behind(ipCounter, k - 1)
  BY <1>1, <1>2, BehindMoves
<1> HIDE DEF h
<1>4. /\ f \in Ip!Call /\ f.pc # "idle" /\ Made(f) = Made(ipCall[c]) + 1
      /\ (h \in Usable => f.host = h) /\ (f.pc = "sadd" => f.host \in Usable /\ f.tries < Capacity)
      /\ (f.pc # "sadd" => f.host = 0)
  <2>1. CASE h \in Usable
    <3>1. f = [ipCall[c] EXCEPT !.pc = "sadd", !.host = h] /\ h \in 0..Capacity
      BY <2>1 DEF SubnetAssumed
    <3> HIDE DEF f
    <3>2. f \in Ip!Call /\ f.pc = "sadd" /\ f.host = h /\ f.tries = ipCall[c].tries
      BY <1>2, <3>1 DEF Ip!Call
    <3> QED BY <1>1, <2>1, <3>2 DEF Made
  <2>2. CASE h \notin Usable
    <3>1. f = [pc |-> "incr", host |-> 0, tries |-> ipCall[c].tries + 1]
      BY <2>2 DEF Ip!NextTry
    <3>2. ipCall[c].tries + 1 \in 0..Capacity
      BY <1>1, <1>2 DEF Ip!Call
    <3> HIDE DEF f
    <3>3. f \in Ip!Call /\ f.pc = "incr" /\ f.host = 0 /\ f.tries = ipCall[c].tries + 1
      BY <1>2, <3>1, <3>2 DEF Ip!Call
    <3> QED BY <1>1, <2>2, <3>3 DEF Made
  <2> QED BY <2>1, <2>2
<1> HIDE DEF f
<1>5. /\ ipCall' \in [Calls -> Ip!Call] /\ HostIsAdded'
      /\ ipCall'[c] = f /\ \A d \in Calls : d # c => ipCall'[d] = ipCall[d]
  BY <1>1, <1>4, CallBecomes
<1>6. Ip!TypeOK'
  BY <1>1, <1>3, <1>5, IpTypes DEF Ip!TypeOK
<1>7. HoldersCounted'
  BY <1>1 DEF IpInv, HoldersCounted
<1>8. \A g \in Usable : Spoken(g) => Spoken(g)'
  <2>1. 0 \notin Usable
    BY DEF SubnetAssumed
  <2> QED BY <1>1, <1>2, <1>5, <2>1 DEF Spoken
<1>9. \A d \in Calls : Made(ipCall[d]) \in Nat /\ Made(ipCall'[d]) <= Made(ipCall[d]) + 1
  <2>1. \A d \in Calls : Made(ipCall[d]) \in Nat
    BY IpTypes DEF Made, Ip!Call
  <2> QED BY <1>4, <1>5, <2>1
<1>10. NoneLeftOut'
  <2> DEFINE Then(g) == g \in ipUsed' \/ \E e \in Calls : ipCall'[e].host = g
  <2> SUFFICES ASSUME NEW d \in ipSteady, NEW k \in 1..Capacity, k <= Made(ipCall'[d]),
                      Behind(ipCounter', k) \in Usable
               PROVE  Then(Behind(ipCounter', k))
    BY <1>1 DEF NoneLeftOut, Behind, Spoken
  <2>1. CASE k = 1
    <3>1. Behind(ipCounter', k) = h /\ h \in Usable
      BY <1>3, <2>1
    <3>2. ipCall'[c].host = h
      BY <1>4, <1>5, <3>1
    <3> QED BY <3>2, <3>1
  <2>2. CASE k # 1
    <3>1. k - 1 \in 1..Capacity /\ Behind(ipCounter', k) = Behind(ipCounter, k - 1)
      BY <1>3, <2>2
    <3>2. d \in Calls /\ k - 1 <= Made(ipCall[d])
      <4>1. d \in Calls
        BY IpTypes
      <4>2. Made(ipCall[d]) \in Nat /\ Made(ipCall'[d]) <= Made(ipCall[d]) + 1 /\ Made(ipCall'[d]) \in Int
        <5>1. Made(ipCall'[d]) \in Int
          BY <1>5, <4>1 DEF Made, Ip!Call
        <5> QED BY <1>9, <4>1, <5>1
      <4> QED BY <4>1, <4>2
    <3>3. Spoken(Behind(ipCounter, k - 1))
      BY <3>1, <3>2 DEF IpInv, NoneLeftOut
    <3> DEFINE b == Behind(ipCounter, k - 1)
    <3>4. b \in Usable /\ Behind(ipCounter', k) = b /\ Spoken(b)
      BY <3>1, <3>3
    <3> HIDE DEF b
    <3>5. Then(b)
      BY <1>8, <3>4 DEF Spoken
    <3> QED BY <3>4, <3>5
  <2> QED BY <2>1, <2>2
<1> QED BY <1>5, <1>6, <1>7, <1>10 DEF IpInv

(* A host is added, and given if it was not there; or its answer is lost,  *)
(* and the repeated command finds it there.                                *)
LEMMA IpAdds ==
    ASSUME SubnetAssumed, IpInv, NEW c \in Calls, Ip!SAdd(c) \/ Ip!AnswerLost(c)
    PROVE  IpInv'
<1> DEFINE h == ipCall[c].host
           gives == ipGiven' = [ipGiven EXCEPT ![h] = @ + 1] /\ h \notin ipUsed
<1>1. /\ ipCall[c].pc = "sadd" /\ ipUsed' = ipUsed \cup {h}
      /\ \/ Ip!Becomes(c, Ip!NextTry(c)) /\ ipGiven' = ipGiven
         \/ Ip!Becomes(c, Ip!Idle) /\ gives
      /\ \/ UNCHANGED <<ipFaults, ipSteady>>
         \/ ipFaults < MaxFaults /\ ipFaults' = ipFaults + 1 /\ ipSteady' = {}
      /\ UNCHANGED <<ipCounter, ipAsked, ipForgets>>
  BY DEF Ip!SAdd, Ip!AnswerLost, Ip!Fault
<1>2. ipCall[c] \in Ip!Call /\ h \in Usable /\ ipCall[c].tries < Capacity /\ Capacity \in Nat
      /\ h \in Ip!Hosts
  BY <1>1, IpTypes DEF IpInv, HostIsAdded, SubnetAssumed, Ip!Hosts
<1> DEFINE f == IF Ip!Becomes(c, Ip!NextTry(c)) THEN Ip!NextTry(c) ELSE Ip!Idle
<1>3. Ip!Becomes(c, f)
  BY <1>1
<1>4. /\ f \in Ip!Call /\ f.pc # "sadd" /\ f.host = 0 /\ (f.pc = "idle" => f.tries = 0)
      /\ f.pc = "idle" \/ f.tries = ipCall[c].tries + 1
  <2>1. ipCall[c].tries + 1 \in 0..Capacity
    BY <1>2 DEF Ip!Call
  <2>2. /\ Ip!NextTry(c) \in Ip!Call /\ Ip!NextTry(c).pc = "incr" /\ Ip!NextTry(c).host = 0
        /\ Ip!NextTry(c).tries = ipCall[c].tries + 1
    BY <1>2, <2>1 DEF Ip!NextTry, Ip!Call
  <2>3. /\ Ip!Idle \in Ip!Call /\ Ip!Idle.pc = "idle" /\ Ip!Idle.host = 0 /\ Ip!Idle.tries = 0
    BY <1>2 DEF Ip!Idle, Ip!Call
  <2> QED BY <2>2, <2>3
<1> HIDE DEF f
<1>5. /\ ipCall' \in [Calls -> Ip!Call] /\ HostIsAdded'
      /\ ipCall'[c] = f /\ \A d \in Calls : d # c => ipCall'[d] = ipCall[d]
  BY <1>3, <1>4, CallBecomes
<1>6. \A g \in Usable : Spoken(g) => Spoken(g)'
  BY <1>1, <1>5 DEF Spoken
<1>7. \A d \in ipSteady' : Made(ipCall'[d]) = 0 \/ (d \in ipSteady /\ Made(ipCall'[d]) = Made(ipCall[d]))
  <2>1. Made(f) = 0 \/ Made(f) = Made(ipCall[c])
    BY <1>1, <1>4 DEF Made
  <2> QED BY <1>1, <1>5, <2>1, IpTypes
<1>8. NoneLeftOut'
  BY <1>1, <1>6, <1>7, StillNoneLeftOut
<1>9. ipGiven' \in [Ip!Hosts -> Nat] /\ HoldersCounted'
  <2>1. ipGiven \in [Ip!Hosts -> Nat] /\ ipForgets \in Nat
        /\ \A g \in Ip!Hosts : ipGiven[g] <= ipForgets + (IF g \in ipUsed THEN 1 ELSE 0)
    BY IpTypes DEF IpInv, HoldersCounted, SubnetAssumed
  <2> HIDE DEF h
  <2>2. CASE ipGiven' = ipGiven
    BY <1>1, <2>1, <2>2 DEF HoldersCounted
  <2>3. CASE gives
    <3>1. ipGiven' \in [Ip!Hosts -> Nat] /\ ipGiven'[h] = ipGiven[h] + 1
          /\ \A g \in Ip!Hosts : g # h => ipGiven'[g] = ipGiven[g]
      BY <1>2, <2>1, <2>3
    <3>2. ipGiven[h] <= ipForgets
      BY <1>2, <2>1, <2>3
    <3> QED BY <1>1, <1>2, <2>1, <3>1, <3>2 DEF HoldersCounted
  <2> QED BY <1>1, <2>2, <2>3
<1>10. Ip!TypeOK'
  <2>1. ipFaults' \in 0..MaxFaults
    BY <1>1, IpTypes DEF SubnetAssumed
  <2> QED BY <1>1, <1>2, <1>5, <1>9, <2>1, IpTypes DEF Ip!TypeOK
<1> QED BY <1>5, <1>8, <1>9, <1>10 DEF IpInv

(* A call ends without an address, for want of one or by an error.         *)
LEMMA IpEnds ==
    ASSUME SubnetAssumed, IpInv, NEW c \in Calls, Ip!Exhausted(c) \/ Ip!CommandFails(c)
    PROVE  IpInv'
<1>1. /\ Ip!Becomes(c, Ip!Idle) /\ UNCHANGED <<ipGiven, ipAsked, ipForgets>>
      /\ \/ ipCall[c].pc = "incr" /\ UNCHANGED <<ipFaults, ipSteady, ipCounter, ipUsed>>
         \/ /\ ipFaults < MaxFaults /\ ipFaults' = ipFaults + 1 /\ ipSteady' = {}
            /\ ipCounter' \in {ipCounter, (ipCounter + 1) % Capacity}
            /\ \/ ipUsed' = ipUsed
               \/ ipCall[c].pc = "sadd" /\ ipUsed' = ipUsed \cup {ipCall[c].host}
  BY DEF Ip!Exhausted, Ip!CommandFails, Ip!Fault
<1>2. /\ Ip!Idle \in Ip!Call /\ Ip!Idle.pc = "idle" /\ Ip!Idle.host = 0 /\ Ip!Idle.tries = 0
  BY DEF Ip!Idle, Ip!Call, SubnetAssumed
<1>3. /\ ipCall' \in [Calls -> Ip!Call] /\ HostIsAdded'
      /\ ipCall'[c] = Ip!Idle /\ \A d \in Calls : d # c => ipCall'[d] = ipCall[d]
  BY <1>1, <1>2, CallBecomes
<1>4. ipCall[c].pc = "incr" => ipCall[c].host = 0
  BY DEF IpInv, HostIsAdded
<1>5. ipUsed \subseteq ipUsed' /\ ipUsed' \subseteq Usable
  BY <1>1, IpTypes DEF IpInv, HostIsAdded
<1>6. ipCounter' \in 0..Capacity - 1
  BY <1>1, IpTypes, BehindMoves
<1>7. NoneLeftOut'
  <2>1. CASE ipSteady' = {}
    BY <2>1 DEF NoneLeftOut
  <2>2. CASE ipCall[c].pc = "incr" /\ UNCHANGED <<ipSteady, ipCounter, ipUsed>>
    <3>1. 0 \notin Usable
      BY DEF SubnetAssumed
    <3>2. \A g \in Usable : Spoken(g) => Spoken(g)'
      BY <1>3, <1>4, <2>2, <3>1 DEF Spoken
    <3>3. Made(Ip!Idle) = 0
      BY <1>2 DEF Made
    <3>4. \A d \in ipSteady' : Made(ipCall'[d]) = 0 \/ (d \in ipSteady /\ Made(ipCall'[d]) = Made(ipCall[d]))
      BY <1>3, <2>2, <3>3, IpTypes
    <3> QED BY <2>2, <3>2, <3>4, StillNoneLeftOut
  <2> QED BY <1>1, <2>1, <2>2
<1>8. HoldersCounted'
  <2>1. ipGiven \in [Ip!Hosts -> Nat] /\ ipForgets \in Nat
        /\ \A g \in Ip!Hosts : ipGiven[g] <= ipForgets + (IF g \in ipUsed THEN 1 ELSE 0)
    BY IpTypes DEF IpInv, HoldersCounted, SubnetAssumed
  <2> QED BY <1>1, <1>5, <2>1 DEF HoldersCounted
<1>9. Ip!TypeOK'
  <2>1. ipFaults' \in 0..MaxFaults
    BY <1>1, IpTypes DEF SubnetAssumed
  <2>2. ipSteady' \subseteq Calls
    BY <1>1, IpTypes
  <2> QED BY <1>1, <1>3, <1>5, <1>6, <2>1, <2>2, IpTypes DEF Ip!TypeOK
<1> QED BY <1>3, <1>7, <1>8, <1>9 DEF IpInv

(* The counter goes, or Redis forgets both keys.                           *)
LEMMA IpForgets == ASSUME SubnetAssumed, IpInv, Ip!CounterExpires \/ Ip!RedisForgets PROVE IpInv'
<1>1. /\ ipCounter' = 0 /\ ipSteady' = {} /\ UNCHANGED <<ipCall, ipGiven, ipAsked>>
      /\ \/ ipFaults < MaxFaults /\ ipFaults' = ipFaults + 1 /\ UNCHANGED <<ipUsed, ipForgets>>
         \/ ipForgets < MaxForgets /\ ipForgets' = ipForgets + 1 /\ ipUsed' = {} /\ UNCHANGED ipFaults
  BY DEF Ip!CounterExpires, Ip!RedisForgets, Ip!Fault
<1>2. NoneLeftOut' /\ HostIsAdded'
  BY <1>1 DEF IpInv, HostIsAdded, NoneLeftOut
<1>3. HoldersCounted'
  <2>1. ipGiven \in [Ip!Hosts -> Nat] /\ ipForgets \in Nat
        /\ \A g \in Ip!Hosts : ipGiven[g] <= ipForgets + (IF g \in ipUsed THEN 1 ELSE 0)
    BY IpTypes DEF IpInv, HoldersCounted, SubnetAssumed
  <2> QED BY <1>1, <2>1 DEF HoldersCounted
<1>4. Ip!TypeOK'
  <2>1. ipFaults' \in 0..MaxFaults /\ ipForgets' \in 0..MaxForgets /\ ipCounter' \in 0..Capacity - 1
    BY <1>1, IpTypes DEF SubnetAssumed
  <2> QED BY <1>1, <2>1, IpTypes DEF Ip!TypeOK
<1> QED BY <1>2, <1>3, <1>4 DEF IpInv

(* Nothing is given, and no one has asked.                                 *)
LEMMA IpStarts == Ip!Init /\ SubnetAssumed => IpInv
<1> SUFFICES ASSUME Ip!Init, SubnetAssumed PROVE IpInv
  OBVIOUS
<1>1. /\ ipCounter = 0 /\ ipUsed = {} /\ ipCall = [c \in Calls |-> Ip!Idle] /\ ipGiven = [h \in Ip!Hosts |-> 0]
      /\ ipAsked = 0 /\ ipForgets = 0 /\ ipFaults = 0 /\ ipSteady = {}
  BY DEF Ip!Init
<1>2. /\ Ip!Idle \in Ip!Call /\ Ip!Idle.pc = "idle" /\ Ip!Idle.host = 0 /\ Ip!Idle.tries = 0
  BY DEF Ip!Idle, Ip!Call, SubnetAssumed
<1>3. Ip!TypeOK
  <2>1. 0 \in 0..Capacity - 1 /\ 0 \in 0..MaxAsked /\ 0 \in 0..MaxForgets /\ 0 \in 0..MaxFaults
    BY DEF SubnetAssumed
  <2> QED BY <1>1, <1>2, <2>1 DEF Ip!TypeOK
<1>4. HostIsAdded /\ NoneLeftOut /\ HoldersCounted
  BY <1>1, <1>2 DEF HostIsAdded, NoneLeftOut, HoldersCounted
<1> QED BY <1>3, <1>4 DEF IpInv

(* Every step keeps it.                                                    *)
LEMMA IpGoesOn == IpInv /\ SubnetAssumed /\ [Ip!Next]_(Ip!vars) => IpInv'
<1>1. IpInv /\ UNCHANGED Ip!vars => IpInv'
  BY DEF IpInv, Ip!TypeOK, HostIsAdded, HoldersCounted, NoneLeftOut, Spoken, Ip!vars
<1> QED BY <1>1, IpAllocates, IpIncrements, IpAdds, IpEnds, IpForgets DEF Ip!Next, Ip!Step

(* Whoever is refused has been round all hosts.                            *)
LEMMA RefusedWentRound ==
    ASSUME SubnetAssumed, IpInv, NEW c \in Calls, Ip!Exhausted(c), c \in ipSteady
    PROVE  Usable \subseteq ipUsed \cup {ipCall[d].host : d \in Calls}
<1>1. /\ Made(ipCall[c]) = ipCall[c].tries /\ ~(ipCall[c].tries < Capacity)
      /\ ipCall[c].tries \in 0..Capacity /\ Capacity \in Nat /\ ipCounter \in 0..Capacity - 1
  BY IpTypes DEF Ip!Exhausted, Ip!MoreTries, Made, Ip!Call, SubnetAssumed
<1>2. ASSUME NEW h \in Usable PROVE Spoken(h)
  <2>1. PICK k \in 1..Capacity : Behind(ipCounter, k) = h
    BY <1>1, BehindIsAll
  <2>2. k <= Made(ipCall[c])
    BY <1>1
  <2> QED BY <2>1, <2>2 DEF IpInv, NoneLeftOut
<1> QED BY <1>2 DEF Spoken

(* However creations interleave and commands fail, an address is handed out*)
(* once between two restarts of Redis, and refused only when each is in the*)
(* set or on its way there: RedisIPAllocator.Allocate, for any subnet, also*)
(* one with hosts it has no address for, and any calls side by side.       *)
THEOREM AddressesGoRound == Ip!Spec => AddressesHold
<1> DEFINE Taken == \A c \in Calls : Ip!Exhausted(c) /\ c \in ipSteady
                       => Usable \subseteq ipUsed \cup {ipCall[d].host : d \in Calls}
           Safe == Ip!TypeOK /\ Ip!OneHolderPerMemory
<1>1. SubnetAssumed
  BY SubnetIsAssumed
<1>2. IpInv /\ SubnetAssumed => Safe
  <2> SUFFICES ASSUME IpInv, SubnetAssumed PROVE Ip!OneHolderPerMemory
    BY DEF IpInv
  <2>1. ipGiven \in [Ip!Hosts -> Nat] /\ ipForgets \in Nat
        /\ \A g \in Ip!Hosts : ipGiven[g] <= ipForgets + (IF g \in ipUsed THEN 1 ELSE 0)
    BY IpTypes DEF IpInv, HoldersCounted, SubnetAssumed
  <2> QED BY <2>1 DEF Ip!OneHolderPerMemory
<1>3. IpInv /\ SubnetAssumed /\ [Ip!Next]_(Ip!vars) => [Taken]_(Ip!vars)
  BY RefusedWentRound
<1>4. Ip!Spec => []Safe /\ [][Taken]_(Ip!vars)
  <2> HIDE DEF Safe, Taken
  <2> QED BY <1>1, <1>2, <1>3, IpStarts, IpGoesOn, PTL DEF Ip!Spec
<1>5. [][Taken]_(Ip!vars) <=> Ip!RefusedMeansTaken
  BY DEF Ip!RefusedMeansTaken
<1> HIDE DEF Taken
<1> QED BY <1>4, <1>5 DEF AddressesHold, Ip!AddressesHold

================================================================================
