# Device Platform: TLA+ specifications

Specifications, TLC runs and TLAPS proofs for the backend of Device Platform, which
accepts Commands for smart locks, hands each to a Provider (WWTIOT cloud API, Omni
TCP, or a Simulator) at most once, records what is known about its outcome, and tells
the owning Project by signed webhooks. PostgreSQL is the only coordination between the
server processes: all of them serve the same requests and run the same loops against the
same tables, so nearly everything that can go wrong is an interleaving of transactions,
row locks, leases, crashes and clocks. The exception is the first installation, which has to
keep two files and the database in step. `src/` below is the repository's root.

## The system

| Component | State | Operations | Talks to |
|---|---|---|---|
| `commandservice` | rows of `device_commands` | Create (idempotent), Cancel, reads | worker through the table |
| `commandworker` | Attempts (`claimed`, `dispatching`, `completed`) with lease tokens | DispatchNext (claim, prepare, commit, dispatch, persist), RecoverNext, ExpireNextQueued, ExpireNextResultObservation | adapters; writes an Event and its Delivery with each change |
| adapters (`wwtiot`, `omni`, `simulator`) | Omni: TCP sessions | Configured, Prepare, Dispatch | the device cloud or the lock |
| `commandresultservice` | `device_command_results` | Record (deduplicated, late or timely) | Command aggregate |
| `webhookworker` | `webhook_deliveries`, their attempts, leases | RecoverNext, ExhaustNext, DispatchNext | the Project's endpoint |
| `webhookaudit` | the same | ReplayDead, reads | creates Deliveries |
| `projectservice` | target, configuration version, secret versions, API key, manager | Create, Update, RotateAPIKey, RotateWebhookSecret, Transfer | read by whoever creates Deliveries |
| `userservice`, sessions | users, session generation, login failures | create, status, login, refresh, logout | projects |
| `deviceservice` | devices, lifecycle, states | create, lifecycle, lists | commandservice checks the device |
| Omni listener, registry, recorder | connections, sessions per IMEI, raw messages | accept, register, replace, record | Omni adapter |
| setup, setup recovery | `.env`, its backup, the journal, the marker `.installed`, schema, administrator | install, roll back, recover | server start |
| server (`cmd/server`) | the published runtime, `recoveryNeeded`, `installMu` | start, readiness gate, publish, activate, shut down | everything above |
| `devicecore`, `gateway` | in-memory device registry and gateway | heartbeat, offline scan, mock transport | only without persistent services |

What is hard: several processes run every loop; a process may stop between any two
transactions and, worse, between committing a dispatch and sending it; leases expire
while their holder is still working; `now()` is the time a transaction *began*, so a
transaction that waited for a row lock judges leases by an old clock; `queued_at` is
written by the application's clock and compared with the database's; a rejected CHECK
rolls a whole transaction back, and a loop that always takes its oldest row first then
tries the same row for ever; a request is authorised by a token and a row that others may
change before its transaction commits; foreign keys take locks that no line of Go asks for,
and the services lock in different orders; an installation may stop after any of some twenty
durable effects. `PROJECT.json` lists the hazards with their lines and the
properties that would catch them.

## Modules

| Module | Models |
|---|---|
| `CommandDomain` | `domain/lifecycle.go`, the outcome tables of `postgres_command_event.go`, what each adapter may answer, and the CHECK constraints of `device_commands` (migrations 002, 008, 009) |
| `CommandLifecycle` | Create, Cancel, the worker's dispatch loop, the recovery loop, Device results, for any number of Commands and worker processes |
| `CommandContract` | the abstract promise to a caller: open, then withdrawn (never sent) or committed (sent at most once), then closed |
| `MCCommandLifecycle` | TLC instances |
| `CommandLifecycle_proofs` | proofs of every safety property of `CommandLifecycle` |
| `CommandContract_proofs` | proof that `CommandLifecycle` implements `CommandContract` |
| `WebhookDelivery` | webhook configuration and secrets of a Project, Deliveries, their attempts, the worker's loop, replay |
| `MCWebhookDelivery` | TLC instances |
| `WebhookDelivery_proofs` | proofs of every safety property of `WebhookDelivery` |
| `OmniSession` | the Omni runtime of one process: listeners, connection handlers, inbound recorder, session registry, adapter, shutdown |
| `MCOmniSession` | TLC instances |
| `OmniSession_proofs` | proofs of every safety property of `OmniSession` |
| `RowLocks` | PostgreSQL's row and advisory locks, as the two modules below use them (external) |
| `RowLocks_proofs` | lemmas about a list of locks still to be taken, for the two proof modules below |
| `ProjectAccess` | login and its limits, refresh, logout, Users, Projects and their managers, lock by lock |
| `MCProjectAccess` | TLC instance |
| `ProjectAccess_proofs` | proofs of every safety property of `ProjectAccess` |
| `DeviceIntake` | creation and update of Devices, creation and cancellation of Commands, lock by lock |
| `MCDeviceIntake` | TLC instance |
| `DeviceIntake_proofs` | proofs of every safety property of `DeviceIntake` |
| `SetupInstall` | installation, rollback and recovery; start, readiness and end of a server process |
| `MCSetupInstall` | TLC instances |
| `SetupInstall_proofs` | proofs of every safety property of `SetupInstall` |

### CommandLifecycle and the code

State: `command` is the row of `device_commands`, `attempt` the latest Attempt of each
Command, `events` the Events written with it, `results` the stored Device results,
`online` the Device's connection status, `worker` the local variables of each
`dispatchClaimed` call, and `wire` counts requests that left an adapter. `wire` is the
only variable the program does not store: it is what the properties are about.

Each action is one database transaction, with everything that transaction writes, or
one step of an adapter. A worker's transaction is split in two: one action begins it
and reads the clock into `now` (`ClaimSelect`, `BeginFail`, `BeginCommit`,
`DispatchReturns`), the other applies it under the row locks with that old `now`
(`ClaimNext`, `FailBeforeDispatch`, `MarkDispatching` or `FailNotOnline`,
`PersistResult`). The scanners and Cancel only ask whether something *has* expired,
which stays true, so one action is enough. `Abandon` is every way in which a worker
drops what it was doing: a lost claim, `ErrLeaseLost`, a rollback, a cancelled context,
a crash. Every row that is written is tested with `RowAllowed`, the conjunction of the
CHECK constraints; a row that fails one does not change anything, as in the database.

Data that no property tells apart is left out: payloads, request summaries, project and
device identity, audit rows of commands. Lease tokens are random UUIDs; the model draws
the next unused number. A second Create with the same idempotency key writes nothing and
is a stutter. `Record` requires that a request was sent: a Device answers only what it
received. That is an assumption about the world; the code itself checks the status.

### WebhookDelivery and the code

One Project with its target, configuration version and secret versions; Deliveries with
their attempt history. A worker is in one of `runNext`'s places (`recovering`,
`exhausting`, `claiming`) or works on a claim (`claimed`, `completing`). Processes may be
configured with different `WEBHOOK_MAX_ATTEMPTS`, as they are during a rolling change.
The POST is part of `DispatchClaimed`: it touches nothing another actor reads, so it
commutes with all of them. The answers (`Answers`) cover target and secret failures, transport
errors with and without an arrived POST, HTTP errors, success, and an HTTP status that
cannot be stored; `Learned` says which of them an instance has. The attempt number stands for the lease token (each claim opens the
next attempt under a new token).

### OmniSession and the code

Everything here happens inside one process, between goroutines: `TCPListener.Run` (`listener`),
`TCPListener.Close` under its `Once` (`closing`, `toClose`), one `handleConnection` per
connection (`conn`), `Runtime.Run` (`runtime`, `healthy`) and the worker's calls of the adapter
(`dispatch`). `sessions` and `generation` are the registry, `slots` and `active` the listener's
channel and set, `raw` and `audits` the rows of the inbound recorder. `stream`, who wrote each
byte of a connection, is not stored by the program; it is what the write properties speak of.

An action is what a goroutine does between two points at which another can see or change
something: the admission of a connection takes three (`Accept`, `Admit`, `Track`), the end of a
handler three (`Unregister`, `CloseConn`, `Release`, in the order of the deferred calls), `Close`
two (copying the active connections under `activeMu`, then closing sockets), a write one to look,
one to take `writeMu` and one per `Write` call. `WriteUnique` keeps the identity's read lock until
it returns; `Register` and `Unregister` therefore wait while a dispatch is `locked` or `writing`.
Go's preference for waiting writers is left out: it only removes behaviours, and no goroutine
takes the read lock twice. Each Accept, Record and map operation under a lock is atomic. A Device
stands for its IMEI, since the unique index keeps the identity of deleted Devices too, and its
Project never changes. A frame is a command and an IMEI, or `Garbled` (whatever does not parse, is
too long or is cut off by the end of the stream). `lifecycle` is the only part of the Device
service that is modelled here; its Events and audit rows are in `DeviceIntake`. Opening the
sockets is a step of `SetupInstall`.

### ProjectAccess, DeviceIntake and the code

Both modules have one variable per table and one record per HTTP request. A request runs one
transaction (`Transfer` up to `MaxTransfers`, one after another): it takes its locks one by
one in the order of the code's statements (`todo`, `Acquire`), decides on the rows it has
locked (`Decide...`, `Check...`) and commits everything it wrote at once (`Commit...`). Reads
before the transaction (`ParseToken`, `Begin`) are steps of their own, so what they saw may be
stale at the commit. `Abort` is a context that ends or a connection that breaks; PostgreSQL
resolves a cycle of waits by aborting one transaction (`DeadlockVictim`).

`RowLocks` holds what the code relies on: the four row lock modes with their conflicts,
advisory locks, and the wait of an INSERT for another one of the same unique key. Two effects
that the Go source does not show are modelled because they are what the SQL does:

- Foreign keys lock. The audit row of a commit locks the acting User `FOR KEY SHARE`, an Event
  locks its Project and its Device `FOR KEY SHARE` (`EventLocks`, `CreationLocks`), and
  `CreateDelivery` then locks the Project `FOR UPDATE`.
- `SELECT ... FROM projects p JOIN users ... FOR UPDATE OF p` re-reads only the Project after
  its wait and joins it with the User of its snapshot. If a transfer committed meanwhile, it
  finds nothing and the request is answered `project_not_found` although the Project is there.

`ProjectAccess` has the tokens the clients hold. `ended` marks a token whose session a logout or
a disabling has ended, also one that a login or refresh is about to issue; the program does not
store it, the properties speak of it. Password hashes, signatures and the expiry of tokens are
left out: a client knows the password or not. `Update` stands for `Update`, `RotateAPIKey` and
`RotateWebhookSecret`, whose effect on the configuration is in `WebhookDelivery`.

In `DeviceIntake` a Device stands for its provider identity and the row it may get. The rounds
`first`, `second` and `third` are the stretches of a transaction between two checks. A Command is
named by the request that created it; its later life is `CommandLifecycle`. Transfers, and reports
of the connection, are the environment; `SetConnectionStatus` has no caller in the tree yet. The
syntax of names, identities and payloads is taken as valid, and an API request is one whose key
was accepted.

The services do not lock in one order. `docs/domain-model-contract.md:227` asks for Users before
the Project; the audit row locks the acting User last, creating a Command locks Project then
Device while a lifecycle change locks Device then Project, the Event of a cancellation locks the Project
and waits for a Device that a lifecycle change holds `FOR UPDATE` while it waits for that Project, and two
transactions that both hold the Project `FOR KEY SHARE` both ask for it `FOR UPDATE`. Each can end in a deadlock that PostgreSQL
resolves with an error for one request. The runs contain them; `RequestsAnswered` says that
nothing worse follows: whoever waits does so for a lock that comes free or in a cycle. In
`intake_requests` it also says that creations of Commands never wait for each other in a cycle, and that
breaking a cycle never has to cost one: they take `FOR UPDATE` at once where a shared lock first would
block both of two.

### SetupInstall and the code

An actor is the main goroutine of a process or one install request. `installMu` excludes the
actors of a process, a flock those of a directory, an advisory lock those of the database. Each
step of an actor is one durable effect (a file renamed into place, a statement, a lock), in the
order of `performInstall`, `rollbackInstallBeforeMarker` and `recoverInstallationLocked`, and
`Crash` may fall between any two. `Store` is `writeFileDurable`: a failed call has changed nothing,
or has renamed the file and failed to sync the directory. `LoseDatabaseLock` ends the session that
holds the advisory lock while its holder goes on. `Leave` are the deferred unlocks. A failed database
call may have been applied. An install id, the administrator and the `.env` of one installation go
together and are one value; secrets and addresses are not modelled.

The runtime factory binds the Omni listeners before the durable steps. An installation that fails
afterwards does not close them (`BuildRuntime`), and the next attempt in the process finds the
addresses in use until the garbage collector has finalised the sockets (`Collect`).

## Runs

| Run | Instance | Shows |
|---|---|---|
| `command_crash` | 1 `online_only` WWTIOT Command, 2 workers, skew 1, clock to 6, fairness | at most one request and none for a withdrawn Command (`AtMostOneDispatch`, `UnsentIsUnsent`); no row is left where no loop looks (`NothingStranded`); nobody passes a valid claim and an Attempt ends once (`LeaseRespected`); the contract implemented; every Command ends |
| `command_results` | 1 Omni Command, 1 worker, 2 result keys, skew 1, clock to 6 | a timely final result decides once (`ResultsDecide`); every status is announced; evidence never falls |
| `command_late_result` | 1 Simulator Command, 1 worker, 1 result key | **violated**: see Findings |
| `command_acked_stuck` | the same, fairness | **violated**: see Findings |
| `command_transport_error` | 1 WWTIOT Command, 1 worker, no clock skew | **violated**: see Findings |
| `webhook_dispatch` | 1 Event, a Delivery and its replay, 2 workers with limits 1 and 2, 1 target that is set and removed and a secret that is rotated (2 changes), clock to 8, fairness | Delivery, attempts, audit rows and POSTs agree and never stop the loop (`RowsConsistent`); outcomes are true; a Delivery carries one snapshot, one secret is active, only the dead are replayed (`ConfigurationSound`); leases respected and history never rewritten (`LeasesKeepHistory`); every Delivery is delivered or dies |
| `omni_writes` | 1 listener, 2 connections, 2 Commands for one lock, frames of 2 bytes | a frame goes only to the lock's one session; frames never mix; "not sent" means that no byte left; registry, sockets and slots match the handlers (`Bookkeeping`) |
| `omni_runtime` | 2 listeners, 2 Devices of one profile, 1 connection, 2 Commands that contend for it, changing lifecycles, fairness | messages belong to the Device of the handshake, one per frame (`MessagesFaithful`); shutdown completes; a write to a silent peer ends and lets the next one write (`DispatchEnds`) |
| `access_requests` | 3 requests at a time out of `Contention`, fairness | managers stay active and the audit log chains (`ManagersAccounted`); nobody writes after losing the Project; ended sessions stay ended; login limits hold; every request is answered |
| `intake_requests` | 3 requests at a time out of `Contention`, fairness | Events tell a Device's life without gaps; a key names one Command; a Command is created only for what holds at its commit (`CommandsWellFounded`); every request is answered, and no creation of a Command has to be given up for it |
| `setup_install` | 2 processes with their own directories and one database, 1 request at a time, 2 faults at any step but the directory syncs of the fresh journal and of the marker, fairness | marker and readiness stand for a whole installation (`InstalledIsComplete`); a fault leaves nothing or a journal that suffices (`NothingHalfInstalled`); the completion fact is final; a process gets ready and every journal is worked off |
| `setup_marker_sync` | the same, 1 fault, the sync after the marker may fail | **violated**: see Findings |

Bounds. One Command is enough for the properties of `command_crash`: no transaction
touches two Commands, and the theorems below hold for any number. Two workers are needed
for a takeover, and a third would only repeat the second, since all state a worker shares
is in the Attempt's one token and lease. With a lease of 1 and a dispatch deadline of 3 a
claim can expire and be taken over twice before the deadline, and the clock reaches 6, past
the observation deadline of the last possible dispatch. `LastCreate`, `MaxClock`, `MaxConfig` and
`Learned` are bounds of the models, not of the code.

In `webhook_dispatch` two attempts under limits of 1 and 2 are the least with which a process retries
what another already counts as exhausted; the code's limit of 5 adds nothing but length, and the clock's
bound lets every attempt expire. `Learned` lists the answers of an attempt: success, an HTTP error, an
unusable secret and an HTTP status that cannot be stored. The others are written by the same branches (a
transport error as an HTTP error, a refused target and a missing secret as an unusable one but without its audit row).
Deliveries get their ids in a fixed order (`NextId`). Each change of the configuration, each Event and each
replay takes the Project's row and keeps it to its commit; it is one action, so the run has every order of
them, not their waits.

For Omni, two connections are the least for a reconnect or a second claim to an IMEI, two bytes for
a torn frame; a record depends on its own connection only, so one is enough in `omni_runtime`. There the
second Command is dispatched before frames other than handshakes arrive and before a Device changes
(`Undisturbed`): the bound holds back peers, administrators and workers, of whose steps no fairness is
assumed, so what must end is still required to. A Command is dispatched once and a runtime stops once;
`[]<>` of the final state therefore says the same as "leads to it". No run
has more connections than its listener admits: the refusal at the limit was checked with the constants
of `omni_writes` changed to two listeners, frames of 1 byte, one Command and a limit of 1 (480 thousand
states, `Bookkeeping` holds), and `OmniTypeCorrect` is proved with it. `PeerFrames` and `Managed` restrict what the peers send and which
Devices change in the runs that are not about it. Connections are used once, so the model ends and
deadlock is not checked there. Symmetry is used for connections and for Commands to one Device, and
never in a run with a liveness property.

`access_requests` and `intake_requests` start with any three requests of the scenario sets in
their MC modules: pairs that contend for the same rows, with a third that changes what they have
read. Three is the least for a race between two to be disturbed by another and for the deadlocks
above. The limits are 1 failure per email and address, 2 per address, a window of 1 and two
attempts of a transfer, so that each is reached. Requests end, so deadlock is not checked; that they
end is `RequestsAnswered`.

`setup_install` allows two faults of any kind: one to interrupt an installation, one to interrupt its
compensation or recovery. Four install ids are as many as the faults let be in use. A failed sync after
the marker (`"marker"` in `SyncFaults`) is left to `setup_marker_sync`. A failed sync of the prepared
journal (`"prepare"`) is excluded too: the code then removes the backup, best effort, and a journal that
did reach the disk has nothing to restore from, so that recovery fails until an operator removes it; no
document speaks of this case. (The theorems `InstallationsComplete` and `InstallationsFinal` allow it.) The safety part also holds with two concurrent requests
(1.3 million states under `Spec`), which is too large to keep with the liveness property.

Fairness. `commandworker.Run` polls its recovery functions for ever in every process, and
an error only ends the round. The `FairSpec` of `CommandLifecycle` therefore assumes weak fairness of
the clock and of each of the three recovery transactions, and nothing of the dispatch loop: a worker may
stop at any step. A row that a scanner cannot write would break the assumption for all others; that none
exists is part of `NothingStranded`. For webhooks each loop as a whole is weakly fair
(`Run` restarts at every tick of its timer, HTTP calls have a timeout), not the completion of
an attempt: `Abandon` may hit every one. For Omni a goroutine that can run does run; a blocked write
is only assumed to return once its own deadline passed (the worker's context always has one) or its
socket was closed, and a read once its socket was closed. Nothing is assumed of the peers, not even
the read timeout. For requests each handler runs on, a free lock is granted and a cycle is broken (weak
fairness of each request's steps). In `DeviceIntake` the last is assumed only of requests that do not
create a Command. For setup the faults are finitely many; goroutines run, a supervisor
restarts a process that ended, the operator repeats the request and restarts a process that asks for it,
the garbage collector runs; the steps that poll for a lock every 25 ms are strongly fair, as the lock is
free again and again.

## Findings

- **A late result is not stored** (`command_late_result`). `docs/domain-model-contract.md:164`
  says a trusted result that arrives after a terminal status is appended with `late=true` and
  may raise the evidence. `ApplyResult` (`postgres_command_event.go:688`) raises
  `confirmation_level` to `device_final` while the reason stays, for example,
  `result_observation_timeout`; `chk_device_commands_reason_evidence` (migration 009) does not
  allow that pair, and the rollback takes the Result and its Event with it.
- **An early acknowledgement is never timed out** (`command_acked_stuck`). The same document
  (line 236) says expired `sent` and `acked` Commands become `timeout`. If the acknowledgement
  is stored while the Attempt is still `dispatching`, both transactions that could complete the
  Attempt require status `sent`, and the scanner skips Commands with an incomplete Attempt.
- **A request that left is reported as unsent** (`command_transport_error`).
  `docs/domain-model-contract.md:135` says that `provider_transport_error` means the request was provably
  not sent, and `docs/providers/wwtiot.md:59` that what cannot be proved unwritten counts as possibly
  sent. `Client.Dispatch` (`wwtiot/client.go:134-147`) takes a `WroteRequest` hook that has not run as the
  proof. `net/http` runs it after the frames of an HTTP/2 request, or the first part of a request larger
  than its write buffer, have left; a timeout in between closes the Command as unsent. A small
  request over HTTP/1 is flushed after the hook and is not exposed. `UnsentReasons` are
  therefore the reasons for which the code does keep the promise (`UnsentIsUnsent`).
- **A completed installation is rolled back** (`setup_marker_sync`). `docs/api-contract.md:92` says
  that once the completion fact is written it must not be rolled back to "not installed".
  `createInstallLock` renames `.installed` into place and then syncs the directory
  (`setup_recovery.go:396-428`). When only the sync fails, `performInstall` (`setup.go:461`) takes the
  path for failures before the marker: the administrator is deleted and `.env` restored, while the
  marker is on disk. After a restart that installation counts as complete without either.

The late result and the stuck acknowledgement cannot happen in the present wiring, in which nothing calls
`commandresultservice`; both will once a Provider's results are connected.

## Proofs

Every invariant and every action property that a passing run checks on a small instance is proved for
all values of the constants, with TLAPS. The assumptions on them are named where they are declared, and
TLC evaluates them in every run:

- `ConstantsAssumption`: any sets of Commands and workers, any positive deadlines and leases, any skew.
- `WebhookAssumption`, `LearnedAssumption`: any Deliveries, Events, targets and workers, each process with
  its own limit, any positive retry delays, any of the answers.
- `OmniAssumption`, `PeerFramesAssumption`: any listeners, Devices, connections and Commands, any frame
  size and limit.
- `AccessAssumption`, `IntakeAssumption`: any Users, Projects, Devices, limits and requests. `Rank` is
  the order of ids in which `SELECT ... ORDER BY id FOR UPDATE` locks; ids differ. `Requests` is finite
  in `ProjectAccess`, since a session generation counts the requests that raised it.
- `SetupAssumption`: any processes, requests and directories, shared or not, any number of faults.

Two theorems hold only under a condition, and a finding says why: `NothingIsStranded` needs
`ResultKeys = {}` (nothing calls `commandresultservice` today; with results `command_acked_stuck` is what
happens), and the theorems on a finished installation need that `createInstallLock` does not fail after
the marker is in place (`setup_marker_sync`). `AttemptsRecoverable` also excludes the failed sync of a
fresh journal, described under Runs; `AttemptsAccounted` is what remains true with it.

### CommandLifecycle

- `TypeCorrect`; `DispatchedAtMostOnce` (`AtMostOneDispatch`), `UnsentStaysUnsent` (`UnsentIsUnsent`).
  Neither of the last two is inductive: that a worker sends only once needs to know
  that no *other* worker may send for the same Command. The inductive invariant `DispatchInv`
  adds `SenderInv` (a worker that may still send or that waits for an answer works on a Command
  that was committed; two such workers never share a Command, since the Attempt left `claimed`
  when the first committed and nothing brings it back) and `WireInv` (a request on the wire
  belongs to a committed Command and excludes a worker that is still to send it).
- `LifecycleRefinesContract` (`RefinesContract`), in `CommandContract_proofs`. Every action maps to one
  step of the contract or to a stutter; the only delicate case is `Dispatch`, which is the contract's
  `Send` and needs `DispatchInv` to know that the Command is committed and was not sent.
- `StatusesAnnounced`, `EvidenceNeverFalls` (`EvidenceMonotone`), `LeasesRespected`, `OneResultDecides`
  (`ResultsDecide`). They rest on one lemma, `StepWrites`: whatever the step, a Command's row keeps
  what it was, or is opened, withdrawn, sent, answered, given up as unobserved, decided by a result or
  touched by a late one, each with what the row, the Attempt and the Events become. A second one,
  `AttemptStep`, does the same for Attempts in `LeasesRespected`. `RowInv` says which
  evidence each status and reason goes with; `ResultInv` ties the stored results to the row, which is
  what makes a second final result late.
- `AnswersFit`: an adapter's answer and the observation scanner's update always pass the tables of the
  repository and the CHECK constraints. `TimeInv` (no worker's clock and no `sent_at` lies ahead of the
  database's clock) is needed for the timing constraints. With `ClosedCommandClosesAttempt` this is
  `NothingIsStranded`.

### WebhookDelivery

`WebhookTypeCorrect`, `RowsAgree` (`RowsConsistent`), `DeliveredIsTrue` (`OutcomeIsTrue`),
`SnapshotsSound` (`ConfigurationSound`), `HistoryAndLeases` (`LeasesKeepHistory`). The base is
inductive together: types, the CHECK of the row (`RowInv`), what a worker remembers (`WorkerInv`), the
one active secret (`VersionInv`) and the correspondence of Delivery and attempts. On it stand `AcceptInv`
(a worker that is about to store a success has seen one), `SnapInv` (a Delivery of the present version
has the present target and secret), `AuditInv`, and for the number of POSTs a count: `PostInv` says that
the POSTs so far and the workers that may still send one, `Holders`, are together no more than the
attempts opened.

### OmniSession

- `OmniTypeCorrect`, `SoleSessionWhileWriting` (`UniqueWhileWriting`). The inductive invariant
  `SessionInv` adds `LockInv` (whoever holds the read lock of an identity, "locked" as well as "writing",
  finds exactly its own session under its key: `WriteUnique` tested it, and `Register` and `Unregister`
  wait for the write lock) and `ProfileInv` (a connection is bound only to a Device of its listener's
  profile, is bound before it registers, and so no session of a Device is filed under another profile).
  The second is what makes the property hold under *every* profile, although the lock covers one key;
  types need it too, because `Register` uses the Device the handshake resolved.
- `UnsentIsNoByte`, `FramesStayWhole` (`FramesContiguous`): `ByteInv` says that a
  dispatch has bytes on its session's connection exactly when it counts some as written, and on no other,
  and that only one dispatch writes to a connection at a time.
- `BooksBalance` (`Bookkeeping`): `BookInv` gives the registry, the slots, the active set, the sockets
  `Close` has to reach and a returned listener as functions of the places of the handlers.
- `MessagesStayFaithful` (`MessagesFaithful`): an audit row of the handshake stands behind every bound
  connection, and one of the message behind every stored frame.

### ProjectAccess and DeviceIntake

`AccessTypeCorrect`, `ManagersKept` (`ManagersAccounted`), `UpdatesAuthorised` (`AuthorisedAtCommit`),
`SessionsStayEnded` (`EndedSessionsStayEnded`), `FailuresBounded` (`FailuresWithinLimits`);
`IntakeTypeCorrect`, `EventsComplete` (`EventsTellLifecycle`), `KeysNameCommands`
(`KeyNamesOneCommand`), `CommandsFounded` (`CommandsWellFounded`). Both follow the same line:

1. `LockInv`: what an operation needs is still on its list or held, and conflicting modes have one holder.
2. `CommitInv`, `VerdictInv`: what a request has decided on stays true until it commits, because whoever
   would change it needs a lock that the request holds. This is where an order or a lock mode that is
   too weak would show.
3. The property, from what is true at the commit.

Sessions need that a token's generation is at most its User's, and less once its session was ended, also
that of a token still in a request's hands (`SessionInv`). The types need that a generation never exceeds
the number of answered requests (`GenerationInv`). Failures need that a login decides under the advisory locks of its keys (`FailureInv`).
Deadlocks need no argument: an aborted transaction has written nothing.

### SetupInstall

`SetupTypeCorrect` needs no condition. `InstallationsComplete` (`InstalledIsComplete`),
`AttemptsRecoverable` (`NothingHalfInstalled`) and `InstallationsFinal` (`InstallationIsFinal`) follow
from `SetupInv`. An actor between its flock and the release of it is alone in its directory
(`LockInv`), so the place it has reached says what the directory holds (`StepInv`), and what the
directory holds is at any moment enough to recover from (`DiskInv`). Directories share only the table
of users: an install id belongs to one directory (`ClaimInv`), so that nobody deletes another one's
administrator. `RuntimeInv` ties a process with a runtime to its directory's marker. The advisory lock
is not used in the argument: it can be lost at any time, and the unique index on the super
administrator is what keeps a second one out. `LifeInv` (requests only on a process that serves) is
needed where a process ends or loads its configuration.

### Only model-checked

Liveness (`EventuallyTerminal`, `EventuallyFinished`, `EventuallyReady`, `ShutdownCompletes`,
`DispatchEnds`, both `RequestsAnswered`), which needs fairness and `ENABLED`; and the four violations.

## Not modelled, and the plan

- The egress policy of `transport.go`: address arithmetic; a refusal is one of the model's answers.
- Request signing, encoding, HTTP decoding, response formats, hashing and encryption: pure
  conversions of data no property here tells apart. A frame of the Omni protocol parses or does not.
- Read-only queries and lists, the project's IP whitelist, the configuration of the Simulator.
- The in-memory `webhookaudit.Service`, used by its tests only, and the in-memory device core and
  gateway, which the router reaches only without the persistent services.
- The WWTIOT callback, which production refuses, and methods without a caller (`ReclaimAttempt`,
  `UpdateProviderAcceptanceFromVerifiedMessage`).
- Checksums of the migrations runner; its files are modelled by the constraints they leave.
- The frontend, a client without state of the system.

What is left to prove:

1. What `ClosedCommandClosesAttempt` becomes when Device results are connected: which rows the early
   acknowledgement leaves behind, and that there are no others.
2. An abstract specification of a Delivery (open, delivered or dead, replayed) that `WebhookDelivery`
   implements, as `CommandContract` is for Commands.
