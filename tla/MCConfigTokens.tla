------------------------------ MODULE MCConfigTokens -------------------------------
(* What the bot does, shows and hands out: ConfigTokens, and beside it the     *)
(* texts of ConfigExport, the cards of Panel, the pages of Figures, the rows   *)
(* of AuditTrail, the questions and answers of Dialogue and the registrations  *)
(* of Users, which share no state with it. One of them moves in a behaviour,   *)
(* the others stay as they began.                                              *)
EXTENDS ConfigTokens, TLC

CONSTANTS
    Scenes,  \* the components that may move, one in a behaviour
    Nil, t1, e1,
    Devices, Settings, NodeRows, MaxExportStarts,   \* those of ConfigExport
    NoDevice, MaxChanges,           \* those of Panel
    Week, Month, Opening, MaxDevices, MaxDay, MaxAdded, \* those of Figures
    Procs, TrailProtocols, Batch, NoAccess, MaxJobs, \* those of AuditTrail
    Senders, Admins, Texts, TalkButtons, MaxSent,   \* those of Dialogue
    Accounts, Names, NoName, NoRow, Goroutines, MaxHits, MaxRenames \* those of Users

VARIABLES
    scene,  \* the component that moves
    exportEnv, exportRow, exportDev, exportWg, exportXray, exportSent, exportMade,
    exportStarts,
    panelDev, panelAcc, panelGrant, panelJob, panelSaid, panelOutlived,
    panelChanges, panelFaults,
    pageDay, pageUsage, pageNewest, pagePass, pageBalance, pageDevices, pageCharged,
    pageCharging, pagePage, pageChanges, pageFaults,
    trailHeld, trailDevice, trailAccess, trailConfig, trailFlow, trailDeed,
    trailTrail, trailClosed, trailOpened, trailStray, trailJobs, trailFaults,
    talkState, talkInbox, talkCur, talkSent, talkPrompt, talkEffect, talkFaults,
    usersName, usersRows, usersTask, usersLocked, usersAdmin, usersHits,
    usersGivenUp, usersRenames, usersFaults

exportVars == <<exportEnv, exportRow, exportDev, exportWg, exportXray, exportSent,
                exportMade, exportStarts>>
panelVars == <<panelDev, panelAcc, panelGrant, panelJob, panelSaid, panelOutlived,
               panelChanges, panelFaults>>
pageVars == <<pageDay, pageUsage, pageNewest, pagePass, pageBalance, pageDevices,
              pageCharged, pageCharging, pagePage, pageChanges, pageFaults>>
trailVars == <<trailHeld, trailDevice, trailAccess, trailConfig, trailFlow,
               trailDeed, trailTrail, trailClosed, trailOpened, trailStray,
               trailJobs, trailFaults>>
talkVars == <<talkState, talkInbox, talkCur, talkSent, talkPrompt, talkEffect,
              talkFaults>>
usersVars == <<usersName, usersRows, usersTask, usersLocked, usersAdmin, usersHits,
               usersGivenUp, usersRenames, usersFaults>>
allVars == <<scene, vars, exportVars, panelVars, pageVars, trailVars, talkVars,
             usersVars>>

(* One link and one request for it, for the starts of the control plane. *)
OneLink ==
    /\ \A t \in Tokens \ {t1} : tok'[t].st = "none"
    /\ \A e \in Downloads \ {e1} : down'[e].pc = "idle"

(* Settings and rows that differ in what the configs take from them. *)
Plain == [host |-> "name", port |-> 443, key |-> "k1", mtu |-> 1280, awg |-> "a1",
          xhost |-> "", xport |-> 0, xpub |-> "x1", master |-> "m1"]

MCSettings ==
    { Plain,
      [Plain EXCEPT !.mtu = 0, !.awg = "a2", !.xhost = "ip4", !.xport = 8443, !.xpub = "x2"],
      [Plain EXCEPT !.host = "lan", !.port = 0, !.xpub = ""],
      [Plain EXCEPT !.host = "ip6", !.port = 65535, !.xhost = "placeholder", !.xport = 8443],
      [Plain EXCEPT !.key = "k2", !.port = 65536, !.xport = 65536],
      [Plain EXCEPT !.key = "", !.master = "m2", !.xhost = "name", !.xport = -1] }

MCNodeRows ==
    { [host |-> "", port |-> 0, key |-> ""],
      [host |-> "ip4", port |-> 51820, key |-> "k1"],
      [host |-> "lan", port |-> 0, key |-> "k2"],
      [host |-> "", port |-> 65536, key |-> "k1"] }

Export == INSTANCE ConfigExport WITH
    Rows <- NodeRows, NoText <- Nil, MaxStarts <- MaxExportStarts,
    env <- exportEnv, row <- exportRow, dev <- exportDev, wg <- exportWg,
    xray <- exportXray, sent <- exportSent, made <- exportMade,
    starts <- exportStarts

Panel == INSTANCE Panel WITH
    dev <- panelDev, acc <- panelAcc, grant <- panelGrant, job <- panelJob,
    said <- panelSaid, outlived <- panelOutlived, changes <- panelChanges,
    faults <- panelFaults

Pages == INSTANCE Figures WITH
    day <- pageDay, usage <- pageUsage, newest <- pageNewest, pass <- pagePass,
    balance <- pageBalance, devices <- pageDevices, charged <- pageCharged,
    charging <- pageCharging, page <- pagePage, changes <- pageChanges,
    faults <- pageFaults

(* Traffic without money, and money without traffic and for fewer days. *)
OnlyTraffic == pageBalance' = pageBalance /\ pageDevices' = pageDevices
OnlyMoney   == pageUsage' = pageUsage /\ pageDay' <= 1 /\ pageChanges' <= 1

Trail == INSTANCE AuditTrail WITH
    Protocols <- TrailProtocols,
    held <- trailHeld, device <- trailDevice, access <- trailAccess,
    config <- trailConfig, flow <- trailFlow, deed <- trailDeed,
    trail <- trailTrail, closed <- trailClosed, opened <- trailOpened,
    stray <- trailStray, jobs <- trailJobs, faults <- trailFaults

Talk == INSTANCE Dialogue WITH
    Buttons <- TalkButtons, None <- Nil,
    state <- talkState, inbox <- talkInbox, cur <- talkCur, sent <- talkSent,
    prompt <- talkPrompt, effect <- talkEffect,
    faults <- talkFaults

Anyone == INSTANCE Dialogue WITH
    Senders <- {"boss", "user"}, Admins <- {"boss"}, Texts <- {"word", "code"},
    Buttons <- {"nav", "yes", "revoke"}, None <- Nil, MaxSent <- 2, MaxFaults <- 0,
    state <- talkState, inbox <- talkInbox, cur <- talkCur, sent <- talkSent,
    prompt <- talkPrompt, effect <- talkEffect,
    faults <- talkFaults

Registry == INSTANCE Users WITH
    Handlers <- Goroutines,
    name <- usersName, rows <- usersRows, task <- usersTask, locked <- usersLocked,
    admin <- usersAdmin, hits <- usersHits, givenUp <- usersGivenUp,
    renames <- usersRenames, faults <- usersFaults

ASSUME PartsAssume ==
    /\ Export!SettingsAreTyped
    /\ Export!StartsAreNat
    /\ Export!NoTextIsNone
    /\ Panel!NoDeviceIsNone
    /\ Panel!BoundsAreNat
    /\ Pages!WindowsAreOrdered
    /\ Pages!BoundsAreNat
    /\ Trail!BatchIsMore
    /\ Trail!NoneIsNew
    /\ Trail!BoundsAreNat
    /\ Trail!FiniteProcs
    /\ Talk!AdminsSend
    /\ Talk!KnownTexts
    /\ Talk!KnownButtons
    /\ Talk!NoneIsNoUpdate
    /\ Talk!BoundsAreNat
    /\ Anyone!AdminsSend
    /\ Anyone!KnownTexts
    /\ Anyone!KnownButtons
    /\ Anyone!NoneIsNoUpdate
    /\ Anyone!BoundsAreNat
    /\ Registry!NoNameIsNoName
    /\ Registry!BoundsAreNat

AllInit ==
    /\ scene \in Scenes
    /\ Init
    /\ scene = "tokens" \/ scene = "starts" \/ key[FirstNode] = FirstKey
    /\ Export!Init
    /\ scene = "export" \/ (exportEnv = Plain /\ exportRow.host = "" /\ exportRow.port = 0 /\ \A d \in Devices : exportDev[d] = "none")
    /\ Panel!Init
    /\ Pages!Init
    /\ scene = "money" \/ (pageBalance = 0 /\ pageDevices = 0)
    /\ Trail!Init
    /\ IF scene = "talk_anyone" THEN Anyone!Init ELSE Talk!Init
    /\ Registry!Init
    /\ scene = "users" \/ (usersTask["h1"].who = "a1" /\ \A a \in {"a1", "a2"} : usersName[a] = "")

AllNext ==
    \/ /\ scene = "tokens"
       /\ Next /\ starts' = 0
       /\ UNCHANGED <<scene, exportVars, panelVars, pageVars, trailVars, talkVars, usersVars>>
    \/ /\ scene = "starts"
       /\ Next /\ OneLink
       /\ UNCHANGED <<scene, exportVars, panelVars, pageVars, trailVars, talkVars, usersVars>>
    \/ /\ scene = "export" /\ Export!Next
       /\ UNCHANGED <<scene, vars, panelVars, pageVars, trailVars, talkVars, usersVars>>
    \/ /\ scene = "panel" /\ Panel!Next
       /\ UNCHANGED <<scene, vars, exportVars, pageVars, trailVars, talkVars, usersVars>>
    \/ /\ scene = "usage" /\ Pages!Next /\ OnlyTraffic
       /\ UNCHANGED <<scene, vars, exportVars, panelVars, trailVars, talkVars, usersVars>>
    \/ /\ scene = "money" /\ Pages!Next /\ OnlyMoney
       /\ UNCHANGED <<scene, vars, exportVars, panelVars, trailVars, talkVars, usersVars>>
    \/ /\ scene = "trail" /\ Trail!Next
       /\ UNCHANGED <<scene, vars, exportVars, panelVars, pageVars, talkVars, usersVars>>
    \/ /\ scene = "talk" /\ Talk!Next
       /\ UNCHANGED <<scene, vars, exportVars, panelVars, pageVars, trailVars, usersVars>>
    \/ /\ scene = "talk_anyone" /\ Anyone!Next
       /\ UNCHANGED <<scene, vars, exportVars, panelVars, pageVars, trailVars, usersVars>>
    \/ /\ scene = "users" /\ Registry!Next
       /\ UNCHANGED <<scene, vars, exportVars, panelVars, pageVars, trailVars, talkVars>>

AllSpec == AllInit /\ [][AllNext]_allVars

------------------------------------------------------------------------------------
(* File, key and link tell of one tunnel that can be dialled, and no request   *)
(* loses a config or comes back without one that is there.                     *)
TextsAgree == Export!TextsAgree

(* What a card says, and what its buttons send, is right when it arrives.      *)
CardsStayTrue == Panel!CardsStayTrue

(* The figures of a page do not contradict each other, and the balance lasts   *)
(* for the estimated number of charges.                                        *)
FiguresAgree == Pages!FiguresAgree

(* Rows of the audit trail and deeds correspond, as far as faults allow.       *)
TrailFollowsDeeds == Trail!TrailFollowsDeeds

(* A text of an administrator answers the last question it was asked, and a    *)
(* question is worth one deed; only a fault may cost more.                     *)
AnswersMatchQuestions ==
    /\ scene = "talk" => Talk!AnswersMatchQuestions
    /\ scene = "talk_anyone" => Anyone!AnswersMatchQuestions

(* Updates and commands meet the rows they mean.                               *)
UsersAreMet == Registry!UsersAreMet

====================================================================================
