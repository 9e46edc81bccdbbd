------------------------------ MODULE InviteCodes ------------------------------
(***************************************************************************)
(* The codes admins make: one, or as many as they type.  A code is four    *)
(* random digits, tried again when the table has it; a batch is made code  *)
(* by code and answered at the end.  The handler of an update has a        *)
(* deadline, after which neither statements nor messages go out.           *)
(*                                                                         *)
(* Abstractions.  A command is one press or one text, and tells its codes  *)
(* in one answer.  The activation of codes is Invites; that an admin has   *)
(* one command at a time is Dialogue.  A batch whose answer is too long    *)
(* for a message has more than Fits codes.                                 *)
(***************************************************************************)
EXTENDS Naturals, FiniteSets

CONSTANTS
    Codes,      \* the numbers of four digits
    Admins,
    Api,        \* who creates codes at POST /admin/invite-codes
    Tries,      \* 50
    Sizes,      \* sizes of batches that are typed
    Fits,       \* codes of the longest answer, of 3500 bytes
    Shown,      \* 200: codes of a longer batch that are shown
    MaxCommands,\* bound: commands
    MaxFaults   \* bound: failing statements and messages, restarts

ActorsDiffer == Api \notin Admins
SizesAreNat  == Sizes \subseteq Nat \ {0} /\ {Tries, Fits, Shown} \subseteq Nat \ {0}
ShownFits    == Shown <= Fits
BoundsAreNat == {MaxCommands, MaxFaults} \subseteq Nat

VARIABLES
    row,      \* invite_codes: the command that made a code, or 0
    job,      \* the command of each admin
    command,  \* history: commands so far
    told,     \* history: the codes each command's answers list
    counted,  \* history: what an answer of a failed batch said
    excused,  \* history: commands that did not run to their end
    faults    \* history: faults so far

vars == <<row, job, command, told, counted, excused, faults>>

Commands == 1..MaxCommands
Pcs      == {"idle", "insert", "answer", "failed", "callback"}
Job      == [pc: Pcs, id: 0..MaxCommands, single: BOOLEAN, want: Nat,
             made: SUBSET Codes, tries: 0..Tries, late: BOOLEAN]
Idle     == [pc |-> "idle", id |-> 0, single |-> FALSE, want |-> 0,
             made |-> {}, tries |-> 0, late |-> FALSE]

(* Every variable has its type, and a command never makes more than it was *)
(* asked for. *)
TypeOK ==
    /\ row \in [Codes -> 0..MaxCommands]
    /\ \A a \in Admins : job[a] \in Job /\ Cardinality(job[a].made) <= job[a].want
    /\ command \in 0..MaxCommands
    /\ told \in [Commands -> SUBSET Codes]
    /\ counted \in [Commands -> 0..(Cardinality(Codes) + 1)]
    /\ excused \subseteq Commands
    /\ faults \in 0..MaxFaults

Unsaid == Cardinality(Codes) + 1

Init ==
    /\ row = [c \in Codes |-> 0]
    /\ job = [a \in Admins |-> Idle]
    /\ command = 0
    /\ told = [k \in Commands |-> {}]
    /\ counted = [k \in Commands |-> Unsaid]
    /\ excused = {}
    /\ faults = 0

answers == <<told, counted>>

Fault         == faults < MaxFaults /\ faults' = faults + 1
FaultOrLate(a) ==
    IF job[a].late THEN UNCHANGED faults ELSE Fault
Becomes(a, j) == job' = [job EXCEPT ![a] = j]
Excuse(a)     == excused' = excused \cup {job[a].id}
--------------------------------------------------------------------------------
(***************************************************************************)
(* Commands.                                                               *)
(***************************************************************************)
Begin(a, single, n) ==
    /\ job[a] = Idle /\ command < MaxCommands
    /\ command' = command + 1
    /\ Becomes(a, [Idle EXCEPT !.pc = "insert", !.id = command', !.single = single, !.want = n])
    /\ UNCHANGED <<row, answers, excused, faults>>

createSingleCode(a) == Begin(a, TRUE, 1)
createBatchCodes(a) == \E n \in Sizes : Begin(a, FALSE, n)

(* The API inserts one code, and does not look for another when it exists. *)
ApiCreate ==
    /\ command < MaxCommands
    /\ command' = command + 1
    /\ \E c \in {d \in Codes : row[d] = 0} :
           /\ row' = [row EXCEPT ![c] = command']
           /\ told' = [told EXCEPT ![command'] = {c}]
    /\ UNCHANGED <<job, counted, excused, faults>>
--------------------------------------------------------------------------------
(***************************************************************************)
(* One code.                                                               *)
(***************************************************************************)
(* Mutant: a number that exists is taken over. *)
TakenNever(c) == FALSE

(* The UNIQUE constraint on invite_codes.code. *)
Taken(c) == row[c] # 0

Complete(a, made) == Cardinality(made) = job[a].want

Inserted(a, c) ==
    row' = [row EXCEPT ![c] = job[a].id]

Create(a) ==
    /\ job[a].pc = "insert" /\ ~job[a].late
    /\ \E c \in Codes :
           /\ ~Taken(c)
           /\ Inserted(a, c)
           /\ LET made == job[a].made \cup {c}
              IN  Becomes(a, [job[a] EXCEPT !.made = made, !.tries = 0,
                                  !.pc = IF Complete(a, made)
                                         THEN "answer" ELSE "insert"])
    /\ UNCHANGED <<command, answers, excused, faults>>

TryAgain(a) ==
    /\ job[a].pc = "insert" /\ ~job[a].late
    /\ \E c \in Codes : Taken(c)
    /\ IF job[a].tries + 1 < Tries
       THEN Becomes(a, [job[a] EXCEPT !.tries = @ + 1]) /\ UNCHANGED excused
       ELSE Becomes(a, [job[a] EXCEPT !.tries = @ + 1, !.pc = "failed"]) /\ Excuse(a)
    /\ UNCHANGED <<row, command, answers, faults>>

(* The statement fails, or was committed and its answer is lost. *)
CreateFails(a) ==
    /\ job[a].pc = "insert"
    /\ FaultOrLate(a)
    /\ \/ UNCHANGED row
       \/ ~job[a].late /\ \E c \in Codes : ~Taken(c) /\ Inserted(a, c)
    /\ Becomes(a, [job[a] EXCEPT !.pc = "failed"])
    /\ Excuse(a)
    /\ UNCHANGED <<command, answers>>

(* 55 seconds have passed.  One code never takes so long. *)
Deadline(a) ==
    /\ job[a].pc \notin {"idle", "callback"} /\ ~job[a].single /\ ~job[a].late
    /\ Becomes(a, [job[a] EXCEPT !.late = TRUE])
    /\ Excuse(a)
    /\ UNCHANGED <<row, command, answers, faults>>
--------------------------------------------------------------------------------
(***************************************************************************)
(* Answers.                                                                *)
(***************************************************************************)
(* How many of the codes an answer lists.  The order of creation is not     *)
(* modelled, so the first of a long batch are some of it. *)
Listed(made, s) ==
    Cardinality(s) = IF Cardinality(made) > Fits THEN Shown ELSE Cardinality(made)

After(a) == IF job[a].single THEN [job[a] EXCEPT !.pc = "callback"] ELSE Idle

Answer(a) ==
    /\ job[a].pc = "answer" /\ ~job[a].late
    /\ \E s \in SUBSET job[a].made :
           Listed(job[a].made, s) /\ told' = [told EXCEPT ![job[a].id] = s]
    /\ Becomes(a, After(a))
    /\ UNCHANGED <<row, command, counted, excused, faults>>

Count(a) == Cardinality(job[a].made)

(* "Создано k/n кодов, далее ошибка" *)
AnswerFailure(a) ==
    /\ job[a].pc = "failed" /\ ~job[a].late
    /\ counted' = IF job[a].single THEN counted ELSE [counted EXCEPT ![job[a].id] = Count(a)]
    /\ Becomes(a, After(a))
    /\ UNCHANGED <<row, command, told, excused, faults>>

(* SendMessage fails, and its error is dropped. *)
AnswerLost(a) ==
    /\ job[a].pc \in {"answer", "failed"}
    /\ FaultOrLate(a)
    /\ Becomes(a, After(a)) /\ Excuse(a)
    /\ UNCHANGED <<row, command, answers>>

(* The button is answered whatever came of it. *)
AnswerCallbackQuery(a) ==
    /\ job[a].pc = "callback"
    /\ Becomes(a, Idle)
    /\ UNCHANGED <<row, command, told, counted, excused, faults>>

Restart ==
    /\ Fault
    /\ job' = [a \in Admins |-> Idle]
    /\ excused' = excused \cup {job[a].id : a \in {b \in Admins : job[b] # Idle}}
    /\ UNCHANGED <<row, command, answers>>
--------------------------------------------------------------------------------
Step(a) ==
    \/ Create(a) \/ TryAgain(a) \/ CreateFails(a)
    \/ Answer(a) \/ AnswerFailure(a) \/ AnswerLost(a) \/ AnswerCallbackQuery(a)

Next ==
    \/ ApiCreate \/ Restart
    \/ \E a \in Admins : createSingleCode(a) \/ createBatchCodes(a) \/ Deadline(a) \/ Step(a)

(* A goroutine of the webhook runs until it ends. *)
Spec     == Init /\ [][Next]_vars
Fairness == \A a \in Admins : WF_vars(Step(a))
FairSpec == Spec /\ Fairness
--------------------------------------------------------------------------------
(***************************************************************************)
(* Properties.                                                             *)
(***************************************************************************)
Done(k) == k <= command /\ \A a \in Admins : job[a].id # k
MadeBy(k) == {c \in Codes : row[c] = k}

(* No code is handed out twice: what two commands tell differs, however    *)
(* their goroutines and the API interleave. *)
NoCodeTwice == \A k, m \in Commands : k # m => told[k] \cap told[m] = {}

(* A command that ran to its end has told every code it made, unless they  *)
(* did not fit in one message. *)
NoneHidden ==
    \A k \in Commands :
        Done(k) /\ k \notin excused /\ Cardinality(MadeBy(k)) <= Fits => MadeBy(k) \subseteq told[k]

(* The number that the answer of a failed batch says is what it made, or   *)
(* one less when a statement was committed without an answer. *)
CountIsWithinOne ==
    \A k \in Commands :
        counted[k] # Unsaid =>
            Cardinality(MadeBy(k)) \in {counted[k], counted[k] + 1}

(* Every command comes to its end, also when every code is taken. *)
CommandsEnd == \A a \in Admins : job[a] # Idle ~> job[a] = Idle

(* Every code that was made is told to the one who asked for it, and to    *)
(* nobody else.                                                            *)
CodesAreTold ==
    TypeOK /\ NoCodeTwice /\ NoneHidden /\ CountIsWithinOne

================================================================================
