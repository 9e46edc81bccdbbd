--------------------------------- MODULE Dialogue ---------------------------------
(***************************************************************************)
(* The dialogue of the Telegram bot.  The webhook answers at once and      *)
(* handles every update in a goroutine of its own, so the updates of a     *)
(* sender may be handled in any order; a lock in memory lets one of them   *)
(* in and turns the others away.  What a text means depends on a state in  *)
(* Redis that an earlier button has set.                                   *)
(*                                                                         *)
(* Abstractions.  A text is one of the kinds that are told apart; a button *)
(* that sets a state is named after it, "nav" stands for those that only   *)
(* show something and "config" for those that start the flows of           *)
(* AccessControl, ConfigTokens and Invites, whose own steps are there.     *)
(***************************************************************************)
EXTENDS Integers, FiniteSets

CONSTANTS
    Senders, Admins,
    Texts,      \* kinds of texts that are sent
    Buttons,    \* buttons that are pressed
    None,
    MaxSent,    \* bound: updates of a sender
    MaxFaults   \* bound: failing calls and restarts

AdminsSend   == Admins \subseteq Senders
KnownTexts   == Texts \subseteq {"start", "word", "code", "name", "stranger", "amount"}
KnownButtons == Buttons \subseteq {"nav", "config", "code", "confirm", "yes", "no",
                                          "lookup", "adjust", "batch", "revoke", "block",
                                          "unblock", "reissue"}
NoneIsNoUpdate == None \notin Texts \cup Buttons
BoundsAreNat == {MaxSent, MaxFaults} \subseteq Nat

VARIABLES
    state,      \* the state of each sender in Redis
    inbox,      \* goroutines that have not asked for the lock
    cur,        \* the update of each sender that holds it
    sent,       \* updates sent so far
    prompt,     \* history: the last question of the bot, and what was done on it
    effect,     \* history: what an admin's text did last, and on which question
    faults      \* history: failing calls and restarts

vars == <<state, inbox, cur, sent, prompt, effect, faults>>

States == {"idle", "code", "confirm", "lookup", "adjust", "batch", "revoke", "block", "unblock"}
Kinds  == {"text", "button"}
Update == [from: Senders, id: 1..MaxSent, kind: Kinds, what: Texts \cup Buttons]
Cur    == [pc: {"free", "set", "say", "read", "act", "reset"},
           kind: Kinds, what: Texts \cup Buttons \cup {"code", "confirm", None}, st: States]
Free   == [pc |-> "free", kind |-> "text", what |-> None, st |-> "idle"]

TypeOK ==
    /\ state \in [Senders -> States]
    /\ inbox \subseteq Update
    /\ cur \in [Senders -> Cur]
    /\ sent \in [Senders -> 0..MaxSent]
    /\ prompt \in [Senders -> [kind: States \cup {"reissue"}, used: Nat]]
    /\ effect \in [Senders -> [did: States, asked: States \cup {"reissue"}]]
    /\ faults \in 0..MaxFaults

Init ==
    /\ state = [s \in Senders |-> "idle"]
    /\ inbox = {}
    /\ cur = [s \in Senders |-> Free]
    /\ sent = [s \in Senders |-> 0]
    /\ prompt = [s \in Senders |-> [kind |-> "idle", used |-> 0]]
    /\ effect = [s \in Senders |-> [did |-> "idle", asked |-> "idle"]]
    /\ faults = 0

history == <<prompt, effect>>

Fault    == faults < MaxFaults /\ faults' = faults + 1
Pc(s, p) == cur' = [cur EXCEPT ![s].pc = p]
Leave(s) == cur' = [cur EXCEPT ![s] = Free]

AdminButtons == {"lookup", "adjust", "batch", "revoke", "block", "unblock", "reissue"}
--------------------------------------------------------------------------------
(***************************************************************************)
(* Updates come in.                                                        *)
(***************************************************************************)
ServeHTTP(s, kind, what) ==
    /\ sent[s] < MaxSent
    /\ what \in IF kind = "text" THEN Texts ELSE Buttons
    /\ sent' = [sent EXCEPT ![s] = @ + 1]
    /\ inbox' = inbox \cup {[from |-> s, id |-> sent[s] + 1, kind |-> kind, what |-> what]}
    /\ UNCHANGED <<state, cur, history, faults>>

(* Mutant: every update is let in. *)
tryLockUserAlways(s) == TRUE

tryLockUser(s) == cur[s] = Free

(* An admin's text asks the state first; every other update is looked at   *)
(* for what it is. *)
FirstStep(s, u) ==
    IF u.kind = "text"
    THEN IF s \in Admins THEN "read" ELSE "act"
    ELSE IF u.what \in {"nav", "config"} \/ (u.what \in AdminButtons /\ s \notin Admins)
         THEN "act"
         ELSE IF u.what = "reissue" THEN "say" ELSE "set"

(* An update that finds another one of its sender being handled is         *)
(* answered and forgotten. *)
HandleUpdate(u) ==
    LET s == u.from
    IN  /\ u \in inbox
        /\ inbox' = inbox \ {u}
        /\ IF tryLockUser(s)
           THEN cur' = [cur EXCEPT ![s] = [pc |-> FirstStep(s, u), kind |-> u.kind,
                                           what |-> u.what, st |-> "idle"]]
           ELSE UNCHANGED cur
        /\ UNCHANGED <<state, sent, history, faults>>

(* ensureUser fails: the sender is told to try later. *)
EnsureUserFails(u) ==
    /\ u \in inbox /\ tryLockUser(u.from)
    /\ inbox' = inbox \ {u}
    /\ Fault
    /\ UNCHANGED <<state, cur, sent, history>>
--------------------------------------------------------------------------------
(***************************************************************************)
(* Buttons.                                                                *)
(***************************************************************************)
StateOf(b) == IF b \in {"yes", "no"} THEN "idle" ELSE b

(* The error of Redis is not looked at. *)
SetState(s, st) ==
    \/ state' = [state EXCEPT ![s] = st] /\ UNCHANGED faults
    \/ Fault /\ UNCHANGED state

handleCallback(s) ==
    /\ cur[s].pc = "set"
    /\ SetState(s, StateOf(cur[s].what))
    /\ Pc(s, "say")
    /\ UNCHANGED <<inbox, sent, history>>

(* The question that goes with the state, or with none ("reissue"). *)
SendMessage(s) ==
    /\ cur[s].pc = "say"
    /\ prompt' = [prompt EXCEPT ![s] = [kind |-> StateOf(cur[s].what), used |-> 0]]
    /\ Leave(s)
    /\ UNCHANGED <<state, inbox, sent, effect, faults>>
--------------------------------------------------------------------------------
(***************************************************************************)
(* Texts of an admin.                                                      *)
(***************************************************************************)
(* An error of Redis makes the state one that waits for nothing. *)
GetState(s) ==
    /\ cur[s].pc = "read"
    /\ \/ cur' = [cur EXCEPT ![s].st = state[s], ![s].pc = "act"] /\ UNCHANGED faults
       \/ Pc(s, "act") /\ Fault
    /\ UNCHANGED <<state, inbox, sent, history>>

Waiting == {"lookup", "adjust", "batch", "revoke", "block", "unblock"}

(* Whether a text in a state is what was asked for and does something. *)
Fits(st, what) ==
    \/ st \in {"revoke", "block"} /\ what = "name"
    \/ st = "adjust" /\ what = "amount"
    \/ st = "batch" /\ what = "code"

Does(s) ==
    IF Fits(cur[s].st, cur[s].what)
    THEN /\ effect' = [effect EXCEPT ![s] = [did |-> cur[s].st, asked |-> prompt[s].kind]]
         /\ prompt' = [prompt EXCEPT ![s].used = @ + 1]
    ELSE UNCHANGED <<effect, prompt>>

(* A state that waits takes any text, a command too; a number of codes that*)
(* is none is asked for again, everything else ends the state. *)
handleAdminText(s) ==
    /\ cur[s].pc = "act" /\ cur[s].kind = "text" /\ cur[s].st \in Waiting
    /\ Does(s)
    /\ IF cur[s].st = "batch" /\ cur[s].what # "code"
       THEN Leave(s)
       ELSE Pc(s, "reset")
    /\ UNCHANGED <<state, inbox, sent, faults>>

SetIdle(s) ==
    /\ cur[s].pc = "reset"
    /\ SetState(s, "idle")
    /\ Leave(s)
    /\ UNCHANGED <<inbox, sent, history>>
--------------------------------------------------------------------------------
(***************************************************************************)
(* Texts and buttons of everybody.                                         *)
(***************************************************************************)
(* "/start" ends a state; a code is activated in any state, and ends it if *)
(* that succeeds; a menu word may ask for a code or for a deletion.        *)
handleMessage(s) ==
    /\ cur[s].pc = "act" /\ cur[s].kind = "text" /\ cur[s].st \notin Waiting
    /\ \/ /\ cur[s].what \in {"start", "code"}
          /\ Pc(s, "reset")
       \/ /\ cur[s].what = "word"
          /\ \E b \in {"code", "confirm"} :
                 cur' = [cur EXCEPT ![s].pc = "set", ![s].what = b]
       \/ /\ cur[s].what # "start"
          /\ Leave(s)
    /\ UNCHANGED <<state, inbox, sent, prompt, effect, faults>>

(* A button that shows something, or an unknown one. *)
ShowSomething(s) ==
    /\ cur[s].pc = "act" /\ cur[s].kind = "button"
    /\ Leave(s)
    /\ UNCHANGED <<state, inbox, sent, prompt, effect, faults>>
--------------------------------------------------------------------------------
(***************************************************************************)
(* Time and restarts.                                                      *)
(***************************************************************************)
(* The TTL of the state, or a restart of Redis, which keeps nothing. *)
Expire(s) ==
    /\ state[s] # "idle"
    /\ state' = [state EXCEPT ![s] = "idle"]
    /\ UNCHANGED <<inbox, cur, sent, history, faults>>

(* The control plane forgets what it was handling and has answered 200 to. *)
Restart ==
    /\ inbox # {} \/ \E s \in Senders : cur[s] # Free
    /\ inbox' = {}
    /\ cur' = [s \in Senders |-> Free]
    /\ Fault
    /\ UNCHANGED <<state, sent, history>>

Handle(s) ==
    \/ handleCallback(s) \/ SendMessage(s) \/ GetState(s)
    \/ handleAdminText(s) \/ SetIdle(s) \/ handleMessage(s) \/ ShowSomething(s)

Next ==
    \/ \E s \in Senders :
          \/ \E kind \in Kinds, what \in Texts \cup Buttons : ServeHTTP(s, kind, what)
          \/ Handle(s) \/ Expire(s)
    \/ \E u \in inbox : HandleUpdate(u) \/ EnsureUserFails(u)
    \/ Restart

Spec == Init /\ [][Next]_vars
--------------------------------------------------------------------------------
(***************************************************************************)
(* Without a fault, a text that revokes, changes a balance or makes codes  *)
(* answers the last question its sender was shown, however buttons and     *)
(* texts overtake each other and whenever states run out.  The question    *)
(* "reissue" does not count: it sets no state, so that an answer to it is  *)
(* taken for one to the question before.                                   *)
(***************************************************************************)
EffectMatchesPrompt ==
    faults = 0 => \A s \in Senders : effect[s].asked \in {effect[s].did, "reissue"}

(***************************************************************************)
(* A question is worth one revocation, one change of a balance or one pack *)
(* of codes; each fault may cost one more, because the state is reset only *)
(* after the deed.                                                         *)
(***************************************************************************)
OneEffectPerPrompt == \A s \in Senders : prompt[s].used <= 1 + faults

(* Deeds and questions correspond.                                         *)
AnswersMatchQuestions == TypeOK /\ EffectMatchesPrompt /\ OneEffectPerPrompt
================================================================================
