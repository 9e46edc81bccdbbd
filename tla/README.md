# RyazanVPN in TLA+

This directory is the formal model of RyazanVPN: a control plane (a Telegram bot,
billing, a registry of nodes, an API, with PostgreSQL and Redis behind them) and, on
every VPN node, an agent that configures an AmneziaWG container and an Xray container
through `docker`. The repository holds two nearly identical Go trees; what the agent
does is modelled from `src/split/node-agent`, what the control plane does from
`src/split/control-plane`.

Contents: [inventory](#inventory), [modules](#modules), [runs and
bounds](#runs-and-bounds), [fairness](#fairness), [what the runs
found](#what-the-runs-found), [where code and documents
differ](#where-the-code-and-its-documents-differ), [proofs](#proofs),
[only model-checked](#only-model-checked), [not modelled](#not-modelled),
[plan](#plan).

## Inventory

| component | state | operations | hard behaviour |
|---|---|---|---|
| Node runtime adapter (agent, `internal/agent/runtime`) | maps `operations`, `peersByKey`, `pskByPeer` in memory; peers of the interface; Xray `config.json`; the running Xray process | `ApplyPeer`, `RevokePeer`, `ListPeerStats` | `mu` is not held across commands, `xrayMu` is held across read, change, write and restart of one file; commands fail or time out half done; the agent forgets, the containers do not |
| Preshared keys | the row of the access, the text of the user, a file in the container, the memory of the agent | from creation to the interface | three copies that are updated apart; files left behind |
| Reconcile loop (agent, `cmd/node-agent/main.go`) | the desired state fetched, the peers listed | fetch, list, apply, revoke, revoke orphans, report | works on stale copies while pushes change the same runtime |
| Node client (`internal/infra/nodeclient`, agent's `httpnode`) | attempts of a call, the table of operation ids | apply, revoke, with retries | a given-up attempt may still be executed; answers get lost |
| Node fleet and node operations (`node_health_worker.go`, `node_assignment_service.go`, `usecase_execute_node_operations.go`) | `vpn_nodes.status`, `current_load`, `node_operations` | register, heartbeat, poll, switch, assign, execute, report | several writers of one status; load read and written back; rows of one operation written one by one |
| Device accesses (`usecase_device_flows.go`, the bot) | `devices`, `device_accesses`, `processingUsers` | create and delete a device, revoke a user | many statements without a transaction, each of which may fail; a goroutine per update; 55 s for an update; billing writes the same rows |
| Billing (`finance_service.go`) | `users.status`, `balance_kopecks`, `user_ledger` | payment, bonus, adjustment, set balance, daily charge | row locks, once a day, a pass that the first error ends |
| Invites and access grants (`usecase_activate_invite_code.go`) | `invite_codes`, activations, `access_grants` | activate, repair the bonus, create and revoke | the transaction locks the code, not the user; the bonus is a second transaction |
| Making of invite codes | `invite_codes` | one code, a batch, the API | ten thousand codes, tries, answers that are cut |
| Config issue and download tokens (`usecase_device_config_download.go`) | config blobs, `config_download_tokens` | render, issue, check, download, revoke | check and mark are apart; the configs outlive node and key |
| Config rendering, keys and encryption (`configrenderer`, `vpnkey`, `crypto`) | settings of the process, texts of the configs | render, export, parse | defaults at several places; a new master key |
| Address allocation (`ip_allocator.go`) | a counter and a set in Redis | allocate | concurrent tries; Redis forgets |
| Traffic collection (`traffic_collector_worker.go`) | snapshots, three usage tables, samples | a pass per interval | counters that start again; statements of their own; late passes |
| Figures of users and traffic (`router.go`) | none of its own | the pages | a page is several statements |
| Peer consistency worker | none of its own | a pass over a node | rows and peers read at two moments |
| Telegram dialogue state (`state_store.go`, `dispatcher.go`) | the awaited input and the lock of a sender | buttons and texts | updates are handled in any order |
| Device panel | cards in the chat | the pages and buttons of devices | a button pressed long after its card was drawn |
| Users (`user_repository.go`) | `users` | register, find | look-up and insert are apart; names change hands |
| Audit trail | `audit_logs` | one row per deed | written last, by a call whose error is dropped |
| Notices of a node that is switched off | the list of accesses read | one message per user | devices change meanwhile; one deadline for all |
| Database connections and shutdown | the pool | acquire, release, shut down | a list that keeps its connection while each row asks for another |
| Start-up of the control plane (`cmd/control-plane/main.go`) | `NODE_ID`, the rows of nodes and accesses | `ensureSingleNode`, then serve | four statements, each of which may be the last |
| API middleware (`router.go`) | rate windows, marks of requests | limit, check age, mark | two windows meet; marks end |
| Operations log (`oplog/store.go`) | one file per day, compressed later | append, compress, remove | crash between two files; late records |
| Mock and shell runtimes (agent) | the table of the mock | apply, revoke | what the control plane takes their answers for |

How they interact. The bot writes the database and calls the agent over HTTP
(`nodeclient`), which repeats a request on a timeout, a 429 or a 5xx with the same
operation id. The agent's loop pulls the active accesses of its node
(`/nodes/desired-state`) and repairs the runtime; it registers, sends heartbeats and posts
what it applied. Billing changes only the database; the node follows through the loop. The
workers of the control plane (health poll, collector, consistency, daily charge) poll nodes
and rows by tickers of their own. Everything shares one pool of connections.

What makes each correct. The runtime does each operation at most once, loses no concurrent
update and takes no key away; the loop converges. The control plane believes no node that
did nothing. Loads, operations and accesses tell one story, and a node is down only for a
reason of its own. A user has one device; what is deleted is off, what is revoked stays
revoked, suspension follows the balance, nobody stays locked out. The ledger adds up and a
day is charged once. A code is not used more often than allowed and its bonus comes. A token
is used once and dies with its access, and key, link and file of a config agree. An address
is given once. No traffic is counted twice. Pages, cards, notices, answers and the audit
trail say what is so. A start leaves no access on a dead node, the log keeps its records, a
request is handled once, and the process ends when told to.

## Modules

Each component has a module with its state as variables, an action per statement, remote
call or critical section, and at its end the properties. The properties of a component are
named parts, joined in one conjunction that a run checks (`BooksBalance ==
TypeOK /\ LedgerExplainsBalance /\ ...`). Eight of the components have an `MC` module that
EXTENDS them and takes the smaller components beside them by INSTANCE, with variables and
constants of their own:

| MC module | extends | beside it |
|---|---|---|
| `MCNodeRuntime` | `NodeRuntime` (refines `ClientStore`) | `XrayConfig`, `PresharedKeys` |
| `MCReconcileLoop` | `ReconcileLoop`, which extends `NodeRuntime` | `PeerConsistency`, for its liveness |
| `MCAccessControl` | `AccessControl` (refines `AccessLifecycle`) | |
| `MCNodeCall` | `NodeCall` | `NodeFleet`, `IPAllocator` |
| `MCBilling` | `Billing` | `Traffic` |
| `MCInvites` | `Invites` | `InviteCodes`, `Notices`, `Pool` |
| `MCConfigTokens` | `ConfigTokens` | `ConfigExport`, `Panel`, `Figures`, `AuditTrail`, `Dialogue`, `Users` |
| `MCNodeOperations` | `NodeOperations` | `NodeFleet`, `StartRepair`, `OpLog`, `Guard`, `Throughput`, `PeerConsistency` |

The constants of the components beside it are constants of the MC module, given values in its
configuration, and bear the component's name for them or one close to it (`SendDeadline` is the
`Deadline` of Notices, `PskLoop` the `Loop` of PresharedKeys); where a module has two instances
with different values, the values stand in the MC module. `PartsAssume` states the assumptions of all of them.

The components of one MC module share no state. The variable `scene` picks the one that
moves in a behaviour; the others stay as they began, so the states of a run are the sum and
not the product of theirs. The fairness is that of the component that moves
(`SceneFairness`). Where components do share state in the program, one module has both:
`ReconcileLoop` is on top of `NodeRuntime`, `AccessControl` has the billing transactions
among its actions, `NodeCall` the pass of the loop, `Billing` the number of devices,
`NodeOperations` the rows of the accesses.

### On the node

**NodeRuntime** models `AmneziaDockerRuntime`. A *call* is a goroutine inside the
runtime; its `pc` stands between two places where the code holds no lock, or between two
commands inside `xrayMu`. `AdmitWg`/`ReplayWg` are the critical section that looks the
operation id up and records it; `AwgSet`/`AwgSetFails` the `awg set` command (which may
take effect and still be reported as failed); `RecordWg` the second critical section.
`LockXray`, `ReadXray`, `WriteXray`, `RestartXray`, `FinishXray` are the steps of
`applyXrayClient` and `revokeXrayClient` under `xrayMu`, `XrayFails` an error of any of
them. `AgentRestart`, `AwgLost` and `XrayBounced` are the environment. A key stands for an
access and its peer at once.

**ClientStore** is what the Xray half promises: a set changed by atomic single-client
jobs, each acknowledged only after its effect. NodeRuntime implements it (`XrayStoreSpec`)
with the file as the set.

**XrayConfig** looks closer at that file: which inbound a call changes, which entries of it,
and what a listing reads. It shows under which documents the file is the set NodeRuntime
takes it for.

**PresharedKeys** follows the key of a peer from the row of its access through the
operation, the file in the container and the memory of the agent to the interface. It
assumes of accesses made before the column existed (migration 16) that their key is on the
interface and in memory; the `preshared_key` of the desired state is always null.

**ReconcileLoop** puts the control loop on top: the loop is one caller of NodeRuntime, the
HTTP handlers are the others. The loop fetches (`LoopFetch`), lists in two steps
(`LoopDump` without a lock, `LoopAttach` under `mu`), applies, revokes known extra peers,
revokes orphans, reports. The order in which the keys of a phase are visited is free, as
it is for Go maps. Pushes and changes of the desired state are independent of each other,
since the control plane does not make them atomic either.

**PeerConsistency** is the control plane's worker that compares rows and peers: read the
rows, ask the agent, look unknown peers up again, tell the counts.

### Between control plane and node

**NodeCall** is one call end to end: the attempts of the client with their timeouts, the
request on its way, at the agent's table of operation ids and at one of the five adapters,
the answer, which may be lost, and what the outcome does to the row of the access, with the
pass of the loop behind both. A given-up attempt stays where it is and goes on.

**NodeFleet** has the writers of a node's status: `Register` and heartbeats of the agent,
with the copies that outlive its timeout, the health poll (list, check, write later), an
admin, and `EnsureSingleNode`.

**NodeOperations** has the create and revoke flows as far as they concern operations and
loads: pick a node by the loads listed, queue, run and settle each operation, change the
access, read the load, write it back. Apply reports come in between.

**StartRepair** is `ensureSingleNode` statement by statement, with failures and crashes
after each, and the service between two starts. Two stale rows of one access make the
relinking break the unique index: the repair then gives up at every start.

**IPAllocator** is `Allocate` over its counter and its set, with several calls at once.

**Guard** is the middleware a node's request passes: the window of the limiter, the age, the
mark in Redis. It remembers when requests were let in and handled, as sequences of times, so
that its properties speak of any stretch of time. How far the sender's clock is ahead and how
long a delivery may stall between check and mark are constants: without either (`OnTime`) a
request is handled once, with them once per life of a mark.

**OpLog** is the operations log: appending, compressing and removing files, with crashes
in the middle.

### Devices, money and invites

**AccessControl** models the bot's flows over the database, one action per statement or
remote call that matters, with the sender's lock (`Begin`, `End`), a flow being cut off
anywhere (`GiveUp`: failed statement or timeout of the update), a restart of the control
plane, a node that does not confirm (`CreatePeerFails`, `RevokeFails`) and the billing
transactions, each of which is atomic because it locks the user's row.
An update that is refused because its sender is busy changes nothing and is not an action.

**AccessLifecycle** is the abstract status machine of an access. AccessControl implements
it (`FollowsLifecycle`).

**Billing** has the transactions themselves: `Lock`, the changes, `Commit` or a failure,
for API, bot and worker alike; the worker lists whom to charge and for how many devices
first, then charges user by user.

**Traffic** is a pass of the collector over one fetched list of counters: resolve, newest
snapshot, store a snapshot, add to three tables. **Throughput** is the samples of a node
made by the same pass: intervals, late passes, clean-up, and the pages that add them up.

**Invites** is the activation of a code inside the dispatcher's lock and the transaction's
lock on the code, the bonus in its own transaction, the repair the dispatcher guesses to be
due, and what admins do meanwhile. **InviteCodes** is the making of codes with its tries
and deadline; with more than 694 codes in the table only the newest 200 are shown, and the
codes of a batch that failed in the middle are not shown at all. **Notices** is the switch
of a node: status, list, look-ups, messages, summary, before one deadline.

**Pool** is the pool of connections: who holds one while waiting for another, and the
shutdown.

### The bot and the pages

**ConfigTokens** is the WireGuard config from rendering to download: issue, check of the
server key, tokens, two-statement downloads, revocation, restarts with another node or key.
**ConfigExport** is what is in its text and what file, key and link make of it. **Panel** is
cards and buttons read by read, **Users** registration and look-up, **Figures** the statements
of a page against collector, midnight, charge and money. **Dialogue** is states, locks and
questions; the question of its button "reissue" asks for a user and sets no state
(`dispatcher.go:484`), so the text that follows may answer an older question, and the button
is in no menu of the present code. **AuditTrail** has deeds and their rows; what a goroutine
has done and not written yet is `Untold`, and a deletion of a device that is not there
(`DeviceMissing`) ends before it does anything.

## Runs and bounds

| run | checks | instance |
|---|---|---|
| `node_runtime` | `TypeOK`, `AtMostOncePerOp`, `XraySettled`, `XrayStoreSpec` (refinement), `DocumentFollowsCalls`, `KeysFollowText` | 2 callers, 1 WireGuard key, 2 Xray clients, 2 operation ids, 1 fault, 1 restart, WireGuard and Xray in scenes of their own; documents of up to two inbounds, 3 calls, 1 change by hand; keys: 1 old and 1 new access, 2 pushers, 3 files, 1 fault, 2 restarts |
| `reconcile` | `LoopTypeOK`, `OnePassConverges`, `NothingStaysWrong` (`RuntimeConverges`, `LossNoticed`) | the loop and 1 handler, 2 WireGuard keys (one whose desired address compares equal with the dump), 1 Xray client, 1 fault, 1 restart, 2 changes, 1 push; consistency: 2 devices, 3 changes, 1 fault |
| `access` | `TypeOK`, `OneActiveDevice`, `SuspendedOwnerBlocked`, `CleanDelete`, `FollowsLifecycle` (refinement), `LockReleased` | 1 user, 1 admin, 2 devices, 2 goroutines, 1 fault, 2 billing transactions |
| `node_call` | `AnswersAreTrue`, `CallsSettle`, `OthersSettle` (`StatusFollowsAgent`, `AllocationsEnd`), `AddressesHold` | 1 apply and 1 revoke, any of the 5 adapters, 1 retry, 1 fault; fleet: 1 node, 2 faults, 1 admin change; addresses: 2 calls, capacity 4 of which 3 usable, 3 asked for, Redis forgets once, 1 fault |
| `billing` | `BooksBalance`, `TrafficIsCounted`, `WorkersCatchUp` | 2 users, 1 client and the worker, amount 2, target 0, 1 device each, 1 midnight, 1 row per user and request, 1 fault; traffic: 2 devices, 2 bytes, 1 reset, 1 fault |
| `invites` | `ActivationsCounted`, `CodesAreTold`, `NoticesReach`, `EverythingEnds` | 2 users on 1 code and 1 user on 2 codes, 2 handlers, a bonus of 2 charges, 1 fault; making: 3 codes, 2 admins, 2 tries, 2 commands; notices: 2 users, 3 devices, a deadline of 3, at most 2 per message; pool: 2 connections with 2 pages, and 3 with 1 page |
| `bot` | `TokensClose`, `TextsAgree`, `CardsStayTrue`, `FiguresAgree`, `TrailFollowsDeeds`, `AnswersMatchQuestions`, `UsersAreMet` | tokens: 1 access, 2 tokens, 2 downloads, 2 nodes, 2 keys, 1 fault; starts: 1 link and 1 further start; export: 2 devices, 6 settings, 4 rows of the node, 2 starts; panel: 2 devices, 2 changes, 1 fault; figures: a week of 2 days and a month of 3, 1 fault; trail: 2 goroutines, 3 jobs, 1 fault; talk: 1 admin with 4 updates, 2 senders with 2; users: 2 accounts, 2 names, 2 handlers |
| `node_rows` | `RowsAgree`, `DownIsExplained`, `RequestsAreGuarded`, `RepairKeepsAccess`, `LogKeepsRecords`, `SamplesAddUp`, `PassIsTrue` | operations: 2 nodes, 2 devices, 3 rows (symmetric), 2 goroutines, 1 fault, 1 report; fleet: 2 nodes; repair: 2 nodes, 3 rows, 2 starts, 1 fault; log: 2 requests, days of 2 ticks, retention 4, until 9; limiter: limit 1, window 2, 4 copies; marks: skew 2, in scene `replay` with clocks right, in `gate` with one ahead by 1 and stalls of up to 2; samples: interval 2, a day of 4, retention 5, until 7; consistency: 2 devices, 3 changes, 1 fault |
| `node_ack` | `NoAckOfFailedOp` is violated | 2 callers, 1 key, 1 id, 1 fault |
| `access_payment` | `DeletedStaysOff` is violated | 1 user, 1 device, 2 transactions |
| `traffic_xray` | `NeverOvercounts` is violated | as `billing`, with an Xray client beside a peer |
| `invites_repair` | `OneBonusPerActivation` is violated | 1 user, 2 codes, 1 handler |

Why the bounds are enough. Every property relates two callers, flows, handlers, devices or
keys at a time, so two of each show every conflict; where a third matters (a third address,
a third row of one repair, a fourth copy in two windows) there are three or four. The
`Max...` constants count events the code has no bound for: faults, restarts, changes,
pushes, transactions. One or two let an event fall between any two steps of a call that
started before and ended after it. Where a theorem below states the property, it holds for
every value of the constants.

`node_rows` declares the rows of operations symmetric: no property or step tells one row
from another, and the run has no liveness property.

Deadlock is checked in `reconcile` and `access`. The other runs have CHECK_DEADLOCK FALSE
because their bounded scenes end: when no request, event or fault is left, the component
has nothing to do and the others of the MC module do not move.

What the runs show, one by one:

- `node_runtime`: an operation is done at most once in a life of the agent, no update of the
  shared file is lost, file, process and map agree whenever the mutex is free and nothing
  failed, and a call is acknowledged only after its effect. The document of others stays,
  the container can start from it, and the key on the interface is the one in the user's
  text unless a fault or a restart excuses it.
- `reconcile`: an undisturbed pass is enough, whatever the state before; and when faults,
  pushes and changes end, the node arrives and stays, in the keys it can know of. The
  consistency worker overlooks no loss that lasts.
- `access`: a user has one active device although check and insert are apart, only blocked
  users have suspended accesses, a user's delete leaves nothing active behind, statuses
  follow the abstract machine, and no sender stays locked.
- `node_call`: success is told only of what was done, nothing is done twice in one life of
  the table, calls end and the node follows the rows in the end; a dead node goes down and
  a healthy one comes back; an address is handed out once while Redis remembers, and
  refused only when a call has tried them all, and every call ends.
- `billing`: the ledger explains the balance, one charge a day, nobody without money is
  unblocked, everybody is charged in the end; no traffic is counted twice, the tables agree
  unless a statement failed, and what can be counted is.
- `invites`: uses, grants and bonuses add up; codes are unique and told once, a user is told
  once and only those out of sight are missed; commands, pages, updates and the stop of the
  process end, with a pool that has a connection to spare.
- `bot`: a token is used once but for overlapping downloads, no config outlives its access,
  fresh configs are accepted; file, key and link agree; cards, figures, rows of the trail,
  answers and registrations are right up to the faults named in their properties.
- `node_rows`: loads are what the accesses say, up to what a goroutine is about to write or
  a fault has taken; a node is down for its own reasons; limits and marks hold with
  exactly the slack the code has; repair, log and samples lose nothing they may not; what
  the consistency worker tells of a device nothing happened to during its pass is so, and
  it tells what is so.

## Fairness

Weak fairness is assumed of steps that the code's scheduling brings about: steps of a
goroutine inside a call (every command, statement and remote call has a timeout), the
tickers of loop, poll, collector and consistency worker, the client's timeouts, and the end
of a flow. Weak fairness of each caller is enough even for `xrayMu`, because the holder is
never blocked and handlers stop calling. `Billing` assumes strong fairness of `Lock` and of
the charge of each user, because PostgreSQL serves the waiters of a row in turn, and `Pool`
of `Acquire`, because `pgxpool` does the same with its waiters. No fairness is assumed of
faults, restarts, lost messages, requests, midnights or users. The convergence properties
have the form `<>[]` or `~>`: bounded faults and changes end, and from then on the system has
to arrive.

## What the runs found

Four runs expect a violation; each shows a place where the code and a document or test of
the repository disagree (details and quotations in `PROJECT.json`, `findings`).

1. `node_ack`: an operation id is recorded before its command runs and is kept when the
   command fails (`amnezia_docker_runtime.go:137`); the repeated request is answered as
   applied.
2. `access_payment`: a delete lists only active accesses
   (`device_access_repository.go:137`) and misses a suspended one; the next payment
   (`finance_service.go:203`) resumes it on the deleted device.
3. `traffic_xray`: the previous snapshot is the newest one of the device, of either protocol
   (`traffic_collector_worker.go:87`), and Xray clients are listed with zeros, so traffic is
   counted again.
4. `invites_repair`: the dispatcher takes the repair of a bonus to be due whenever the balance
   is not positive (`dispatcher.go:590`), and pays a bonus twice.

## Where the code and its documents differ

Differences met while modelling. The modules follow the code; no run is spent on them.

On the node:
- An Xray client without a known access id is never revoked (`main.go:406`); `lifecycle.md:32`
  says stale peers are.
- The Xray container is restarted only when the file changed (`amnezia_docker_runtime.go:549`),
  so a client whose restart failed is not served until the next change; `lifecycle.md:31`.
- The report of an apply pass names operations the agent made up, which update no row
  (`router.go:847`); `lifecycle.md:38`. An entry that changed nothing is stored as failed
  (`router.go:822`); `observability-metrics.md:25`.
- A WireGuard retry is answered from the table of operations, also when its command failed.

Nodes and operations:
- The poll renews `last_seen_at` of a node that is down (`node_health_worker.go:111`);
  `observability-metrics.md:10`.
- A heartbeat overwrites the status an admin has set (`router.go:710`); the bot says it is set
  (`dispatcher.go:1286`), and counts devices of both protocols twice (`dispatcher.go:1280`).
- The load may exceed the capacity, since assignment and count are apart
  (`node_assignment_service.go:33`; `node-selection.md:7`), and is never reconciled
  (`usecase_execute_node_operations.go:147`; `node-selection.md:14`).
- A start with another key does not update `server_public_key` (`main.go:366`), which the check of
  configs compares with (`dispatcher.go:1868`).
- The consistency worker takes an Xray row for a peer's row (`peer_consistency_worker.go:124`)
  and tells it missing in the runtime.

The bot:
- An admin's revoke takes the first of the active accesses only (`dispatcher.go:1192`;
  `admin-flows.md:41`).
- The error of `Devices.Revoke` is dropped and the user told of a deletion
  (`dispatcher.go:861`; `messages.md:16-18`).
- A card shows speed and health without an active access (`dispatcher.go:707`), and "reissued"
  reissues nothing (`dispatcher.go:757`).
- An admin's awaited input consumes `/start` (`dispatcher.go:287`; `user-flows.md:21`), one button
  asks without setting a state (`dispatcher.go:485`), and a message "sent" may have no
  receiver (`dispatcher.go:299`).
- "Код создан" is said though none was (`dispatcher.go:504`).
- The repair of a bonus looks at the balance where its comment speaks of the bonus
  (`dispatcher.go:596`, `:598`).
- Notices share the 55 seconds of the update (`dispatcher.go:1286`): with many users some
  get none.
- A user's name is never updated (`usecase_register_telegram_user.go:22`; `user-flows.md:16`).

Configs, grants, logs:
- A token serves two overlapping downloads (`usecase_device_config_download.go:355`, `:356`).
- A revocation by an admin before the config is stored leaves the config
  (`usecase_device_flows.go:426`; `usecases_test.go:221`). So does a stop between its statements.
- The endpoint of an IPv6 host is written without brackets (`amneziawg.go:86`).
- Grants never expire (`usecase_access_grants.go:22`) though pages tell a date
  (`dispatcher.go:1093`); the overview counts by that date, the list of active users does not.
- A record that comes late makes the file of its day anew, and the next compression replaces the
  compressed one (`oplog/store.go:70`, `:201`; `logging-format.md:52`).
- The rate of a sample divides by the interval, whatever time passed
  (`traffic_collector_worker.go:137`; `observability-metrics.md:8`).
- The pages of top errors and noisy nodes (`router.go:300-396`) compare a UUID with a text and
  always fail; they are not modelled.
- The page of nodes holds a connection while asking for another (`router.go:174`): with as many
  pages as connections, all wait until their requests end.

## Proofs

TLAPS proves the following for every value of the constants. A proof module extends the
component's module or, where it also proves something of the components beside it, the MC
module, whose constants are as free in a proof as any; only the values in a configuration bind
them. A theorem about a component beside it has the specification of that instance as its
hypothesis (`Fleet!Spec => []DownIsExplained`) and takes its assumptions from `PartsAssume`.
`AnswersMatchQuestions` and `RequestsAreGuarded` say of each scene what is true in it, over
variables that two instances share, and their theorems therefore name the scene they are
about: `[](scene = "talk")` and `[](scene = "gate")`, which is so in every behaviour of the
run that begins in it.

The assumptions are the named ones of the modules: sets that are disjoint (keys of the two
protocols, applies and revokes), values that stand for nothing (`Nobody`, `FreshOp`, `None`,
`NoNode`) being new, bounds being natural numbers, amounts being integers, and
`FiniteDevices`, without which a load could not be a number. Each invariant is too weak to
be kept by a step on its own; the strengthening is `IInv`, or `TrafficInv`, `FigInv`, `IpInv` and
so on for a component beside another. Those of the components the MC modules extend, and `DocInv`, were
checked by TLC on the instances of the runs before they were proved.

**NodeRuntimeProofs**
- `TypeCorrect`: `Spec => []TypeOK`. Strengthened by `OwnProtocol` (a call inside the
  runtime works on a key of its own protocol), without which `awg` could not be typed.
- `OperationsSafe`: `Spec => [](OpNamesOneRequest /\ AtMostOncePerOp)`. Neither is
  inductive alone: `RanRecorded` says that an id whose command ran is recorded, which the
  code never undoes within one life of the agent.
- `XraySettles`: `Spec => []XraySettled`. Strengthened by `MutexHeld`, `FreshCopy` (what
  a writer has read is what the file has) and what is missing of the property while a
  caller is inside the critical section.
- `XrayStoreImplemented`: `Spec => XrayStoreSpec`, the refinement of ClientStore, from
  `MutexHeld` and `FreshCopy`.
- `KeysStay`: `Psk!Spec => KeysFollowText`. `PskInv` says where the key of an access may be:
  a new one has it in its row, an old one on the interface or in the agent's memory unless the
  history says that both are gone (`KeysOfRows`); a call that sets a peer without a key file
  is one of an old access the agent does not remember (`KeyOfCall`), so that it never
  clears a key; and every key file is of a call or was excused.
- `DocumentsFollow`: `Xray!Spec => DocumentFollowsCalls`, for documents, lists and entries of any
  number. `DocInv` adds to the type that an applied id is in the inbound the calls go to, and its
  first entry as the settings have it, and that a revoked id has none there. `Effect` is what
  the two calls have in common: one inbound gets other clients (`Rewritten`), of which those
  of other ids are the same, in their order, and their first ones stay first (`Edited`). What the
  loop over the clients keeps (`Kept`) is shown place by place: a least place at which a fact
  about it were false leads to a contradiction (`LeastNumber`, `PlaceByPlace`). It was this proof that
  found the listing stated with a CASE whose arms overlapped; it is an IF now.

**ReconcileLoopProofs** builds on those: steps of the loop are steps of the runtime or leave
it alone (`RuntimeMoves`), so what NodeRuntimeProofs shows of the runtime holds below the loop.
- `LoopTypeCorrect`: `LoopSpec => []LoopTypeOK`.
- `OnePassIsEnough`: `LoopSpec => []OnePassConverges`. `IInv` adds that the loop's own fresh ids
  are never recorded (`FreshIsFresh`), that the loop is idle between its calls
  (`LoopWaits`), and, while a pass is undisturbed (`calm`), what it has achieved: nobody else
  is inside the runtime and the desired state is the one fetched (`Undisturbed`), nothing
  present is unlisted (`NothingNew`), a desired key is present, in the call or still to be
  visited (`Applying`, `Applied`), and an extra one is gone, in the call or still to be visited
  (`Revoking`, `Revoked`). Earlier passes, pushes, faults and restarts may have left anything
  behind: a calm pass begins with whatever there is.

**AccessControlProofs**
- `Inductive`: `Spec => []IInv`, from which the next four follow. `IInv` adds to the
  properties: `LockInv` (a busy goroutine holds its sender's lock, alone), `RowInv` (rows
  that do not exist have neither owner nor accesses) and, for each flow, what it relies on
  between two statements: whom it acts for and on which device (`FlowOk`), that the check
  before the insert still holds (`CheckOk`), that a creating flow finds its accesses as it
  left them (`CreateOk`), that what it is about to revoke was active once (`TodoOk`) and
  what is missing of `CleanDelete` between its calls (`CleanOk`). The crux is the lemma
  `Alone`: the creator of a device is the only flow that minds its rows, because owner,
  user and sender coincide and the lock admits one flow per sender; `Bystander` then
  shows that a flow is not disturbed by the others. An admin who is also a user is
  allowed.
- `TypeCorrect`, `OneDevicePerUser`, `NoneLeftSuspended`, `DeleteComplete`: `TypeOK`,
  `OneActiveDevice`, `SuspendedOwnerBlocked` and `CleanDelete`. `OneActiveDevice` is not
  inductive without `CheckOk`, nor `CheckOk` without `LockInv`.
- `LifecycleImplemented`: `Spec => FollowsLifecycle`, the refinement of AccessLifecycle,
  from `CreateOk` and `TodoOk`.

**BillingProofs**
- `BooksBalanced`: `Spec => []BooksBalance`, from `InvariantHolds`. A commit writes what its
  transaction read when it locked the row, and the worker charges for what it listed when
  its pass began. `IInv` adds that what a transaction read still stands while it holds the
  row, and that two transactions never hold one row (`RowsHeld`), that the worker charges
  users and devices of its list on the day of its pass (`WorkerOnCourse`), and that no date
  in the tables lies ahead (`DatesPast`).

- `TrafficCountedOnce`: `XrayToo = {} /\ Traffic!Spec => []TrafficIsCounted`. The hypothesis, each
  device has one counter on the node, is needed: `traffic_xray` shows what happens else.
  `TrafficInv` says that what is being measured was transferred and is in no table yet, also
  when the counter has started again since (`Backed`; `Grew` is what a counter is taken to have
  grown by), that the fetched list has a device once and ahead of the pass (`Waits`), that
  the snapshot is stored before the three tables grow one after the other (`InOrder`), and,
  while nothing was lost, that a table shows what the newest snapshot says or what the one
  before it said (`Exact`). The order of the tables is stated per device, from which that of
  the sums a page shows follows and is not stated; that the sums are
  equal while nothing was lost is proved, since the tables are then the same functions.

**NodeCallProofs**
- `AnswersTrue`: `Spec => []AnswersAreTrue`. `IInv` adds where a request can be: no more of
  them than attempts were made (`Counted`), an attempt on its way or at the agent and never
  both (`InOnePlace`); what the table means: who runs is in it (`TableFilled`), a command ran
  at most as often as the agent lived (`OncePerLife`), the mock records what it did
  (`MockDoes`); and that an answer 200 is only given for what was done (`TrueAnswers`) - or,
  by the wireguard adapter, to a further attempt, which is the disagreement of `node_ack`.
  Restarts are counted among the faults (`RestartsAreFaults`).
- `AddressesGoRound`: `Ip!Spec => AddressesHold`, for any subnet, also one with hosts it has no
  address for. A call keeps no list of the hosts it tried, and others increment the same
  counter in between, so the invariant reads the counter backwards: of the last hosts the
  counter gave, as many as a steady call has made increments are each in the set or at the
  hands of a call (`NoneLeftOut`). After as many as the capacity that is a whole round. A host has
  one holder less than the memories Redis had if it is not in the set (`HoldersCounted`).

**InvitesProofs**
- `ActivationsAddUp`: `Spec => ActivationsCounted`, the invariants and the action property
  `RevokedIsFinal`. `IInv` adds what the two locks keep true between check and commit: a
  sender has one handler (`SenderHeld`), a locked code one transaction (`CodeHeld`), so what
  was checked is still so at the commit (`CheckStillGood`), and a user gets no second grant
  although no lock is on the user's row (`OneActive`). `BonusDue` says who owes a bonus that
  has not come.

- `NoticesComeOnce`: `Notices!Spec => []NoticesReach`. `NoticesInv` adds that who is still to be
  told was not told by this command (`NotTwice`), and that who has an active device on a node
  switched off is told, on a list that is still to be worked through, or excused (`Listed`).
- `CodesToldOnce`: `Making!Spec => []CodesAreTold`. `MakingInv` adds that two commands never have
  one number (`IdsApart`), that the codes a command has made are in the table under its number and
  as many as it counts, but for the one on its way (`JobTrue`), and what of a command's codes
  is still to be told (`ToldTrue`). The number a failed batch reports is proved by counting.

**ConfigTokensProofs**
- `ServedAndAccepted`: whoever revokes, a token serves twice only to overlapping downloads, and a
  config the bot accepted is refused only after the node or its key has changed.
- `LinksClose`: `Spec /\ Handlers = {"user"} => []TokensClose`. The hypothesis is needed: an admin
  who revokes between the peer and the config of a new device leaves the config behind
  (TLC shows it; see above). The updates of one user come one by one, which is what
  `MakingIsOpen` and `ClosedInTurn` rest on.

- `UsersMeetTheirRows`: `Registry!Spec => []UsersAreMet`. `RegistryInv`: a handler that looks up
  or inserts has its sender's lock, alone (`SendersLocked`); no two accounts bear one name at
  a time (`NamesApart`); and every name in a row, an update or a command was borne by its
  account (`NamesBorne`, `CommandOf`), so that who is met by a name either bears it or gave it up.
- `CardsStayRight`: `Panel!Spec => []CardsStayTrue`. `PanelInv`: a user has one active device
  (`OneDevice`), what was read as deleted stays so (`DeletedForGood`), accesses outlive their
  device only where the history says so (`LeftIsKnown`), and a link on its way is that of the
  card's device (`LinkIsMeant`).
- `AnswersMeetQuestions`: `Talk!Spec /\ [](scene = "talk") => []AnswersMatchQuestions`. `TalkInv`
  follows a sender from button to deed: without a fault the state is that of the last question
  except between the two writes (`Matched`), and a question that was answered waits again only
  for a fault (`Spent`).
- `DeedsAreTold`: `Trail!Spec => []TrailFollowsDeeds`. `TrailInv` says where each kind of request
  may be and what it has counted (`JobFits`), what it relies on (`JobMeets`), and that per kind
  the rows, the rows to come and the strays are as many as the deeds, or fewer after a
  fault (`BooksKept`). The rows to come are a set of pairs of a goroutine and a number
  (`Untold`); `PairsMove` counts how it grows and shrinks when one goroutine moves, and
  `TrailMoves` reduces each action to three facts: what the goroutine becomes, what the rows
  of device and accesses become, and what is done and written.
- `FiguresFit`: `Pages!Spec => []FiguresAgree`. `FigInv` says what a page that is being made has
  read so far, as long as nothing came between (`FiguresRead`), and whatever came between
  (`DayRead`); that traffic of a date has a snapshot of it or of a later date
  (`SnapshotsFirst`); and that the balance of a quiet page is less by its charges
  (`BalanceLasts`). That a week is part of a month is a fact about sums, for which see below.
- `TextsFit`: `Export!Spec => TextsAgree`. What ties the settings a config was rendered with to
  those it is sent with is what every stored config keeps (`ConfigsStored`): its device, a host
  that can be dialled, and the MTU and the obfuscation of the settings it was made from.
  `NoTextIsNone` assumes that the value for no text is no text.

**NodeOperationsProofs**
- `StoryHolds`: `Spec => []RowsAgree`. The load is read and written back in two steps after the
  access it is counted for. `IInv` says of every goroutine what it has done so far and what
  the rows look like that it is going to write (`CreateGoesOn`, `RevokeGoesOn`, `OpsHeld`),
  that no other goroutine writes them (`CreatorsApart`, `RevokersApart`), that a load is
  counted by one goroutine at a time unless the history says otherwise (`CountedAlone`), and
  which accesses are counted already (`Accounts`); `LoadCounts` follows by counting
  (`LoadFollows`).
- `NodesDownForAReason`: `Fleet!Spec => []DownIsExplained`. A node that was not blamed is well:
  its agent and containers are up, and neither a heartbeat on the wire nor a goroutine of
  the poll is about to say otherwise (`NodeWell`). Whatever is stale is of the node it blames.
- `RequestsPassTheGuard`: `Gate!Spec /\ [](scene = "gate") => []RequestsAreGuarded`. `WindowsApart`
  places the requests let in against the windows: those of the current one are the last, and
  all but the last `Limit` of the others came more than a window before it opened, so that no
  stretch as long as a window sees more than twice the limit. `MarksStand` says that a request's mark is of
  the last time it was handled, `CheckedYoung` and `StampsPast` that without stalls and with a
  right clock who was found young is marked in time.
- `RepairIsKind`: `Repair!Spec => RepairKeepsAccess`. `RepairDone` says of a repair that got through
  that what is alive elsewhere, or suspended and may come alive there, was suspended while it
  ran; `StaleAreTwins` that before the last statement whatever it will revoke is there twice.
- `RecordsAreKept`: `Log!Spec => LogKeepsRecords`. A record is in the file of its day, or there is
  only the compressed one, younger than the record, and has it, or its time is over
  (`RecordKept`); where a compression broke off and left both, it is due to be made good
  (`HalfDone`), which a write does before it looks at anything else.
- `SamplesFit`: `Samples!Spec => SamplesAddUp`. The samples and what a pass is about to add to them
  are no more than was counted (`CountedOnce`, `PassRead`); as long as no pass is late, each begins
  with its tick and finds no sample of its step (`Punctual`).
- `PassTellsTheTruth`: `Peers!Spec => PassIsTrue`. Rows, peers and look-ups are read at three
  moments. `KnowsOf` says of a device nothing happened to since the pass began what each set of
  the pass means of the present, and that a listed peer is still to be looked at or settled
  (`LookedAt`): ticked off, counted, or with an active Xray row.

Sums and loops. The prover cannot use the library's induction theorems, which a sum over a set of
any size, or a loop over a sequence of any length, seems to need. Figures and Throughput get by
with least sets: if a fact about the sum over a finite set were false of some subset, it would
be false of a least one (`WellFoundedInduction` gives that, as a fact about a relation and not
about a formula), and taking one element out of that leads to a contradiction. `XrayConfig`
does the same with least places. `AuditTrail` and `NodeOperations` count sets instead.

## Only model-checked

- Everything under fairness: `RuntimeConverges` and `LossNoticed`, `LockReleased`, `CallsSettle`,
  `StatusFollowsAgent` and `AllocationsEnd`, `WorkersCatchUp`, `EverythingEnds` (with `Pool`). The prover has
  no rules for fairness and ENABLED.
- What a recursive definition computes for every input, other than the sums above and the loop over the
  clients of a document: the modules
  write recursion as folds and functions, and TLC evaluates them on the instances.
- That the sums over all devices of the three tables of `Traffic` are in their order: it is stated
  and proved per device.

## Not modelled

- Hazards seen and left to tests, because no state of the model tells them: nil pointers
  (`usecase_device_flows.go:82`, `:155`, `:169`), the data race on the maps read by
  `amnezia_docker_runtime.go:946`, the Telegram calls at `dispatcher.go:952` and `:1813`,
  the answer before the work at `webhook_handler.go:39`, `finance_service.go:133`,
  `amnezia_docker_runtime.go:225`.
- The duplicate trees: the agent's copy of the control plane (`app`, `infra`, `httpcontrol`,
  `domain` under `node-agent`) and the control plane's copy of the agent. Nothing calls them.
- Functions nothing calls: `ensureXrayBootstrapUser` and its helpers
  (`amnezia_docker_runtime.go:829-1132`), `ReissueDeviceConfigByProtocol`, `resolveProtocolAccess`,
  `AssignNodeForDevice`, `CreateDeviceAccess`, `ExpireAccessGrants`, `UnitOfWork`.
- Signatures, key pairs, ciphers and the bytes of the vpn:// key: taken to match. The
  application log, metrics pages, configuration parsing, the HTTP client of Telegram,
  deployment: wording or I/O.
- Details the modules leave out, by name: a container made anew is not told from one
  restarted; the process exits at once when its listener fails; a failing statement in
  `/nodes/apply` ends the batch; an Xray client whose command failed after the file was
  written is unknown to the loop; codes made through the API with an unknown
  `X-Admin-User-ID` leave no row in the audit trail; a failed row about a new device tells the
  user that nothing came of it; on the figures of a page the month need not reach the total.

## Plan

Every invariant and every safety property the runs check has a theorem. What is left is
liveness, once the prover has rules for it, and the parts listed under "Not modelled". When the
code changes, the lines named in `map` tell which definitions to look at, the runs whether the
properties still hold, and the lemmas named after the actions which steps have to be proved
again.
