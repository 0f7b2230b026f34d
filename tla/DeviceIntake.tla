------------------------------ MODULE DeviceIntake ------------------------------
(***************************************************************************)
(* The Device service and the intake of the Command service: creation and  *)
(* update of Devices, creation and cancellation of Commands, each as the   *)
(* transaction it runs with the locks PostgreSQL takes for its statements, *)
(* beside the transfers of the Project and the reports of the connection   *)
(* that change what they have read.                                        *)
(*                                                                         *)
(* A transaction goes through up to three rounds of locks.  What it read   *)
(* is checked between the rounds; all it wrote appears with its commit.    *)
(***************************************************************************)
EXTENDS RowLocks

CONSTANTS
    Users,
    Admin,          \* the super administrator
    Projects,
    Devices,        \* provider identities, each with the Device row it may get
    IdempotencyKeys,
    Requests,       \* API requests in flight
    Scenarios,      \* the operations the requests may carry out together
    InitialManager, \* manager of each Project
    InitialDevices, \* Project and connection of the Devices that exist at first
    Unsupported,    \* <<Device, action>> that its Provider's profile does not map
    Rank            \* order of the Users' ids

Machine == "project"   \* the scope of a Project's API key
Nobody == "nobody"
Nothing == "nothing"
Lifecycles == {"active", "disabled", "deleted"}
Actions == {"unlock", "query_status"}

\* The requests that change something, as their handlers pass them on: for a
\* Device, for a Command with a User's token or a Project's API key, and what
\* else changes the rows they read.
DeviceRequests ==
    [kind : {"create_device"}, user : Users, project : Projects, device : Devices]
    \cup [kind : {"update_device"}, user : Users, device : Devices, rename : BOOLEAN,
          to : Lifecycles \cup {"same"}]
CommandRequests(callers) ==
    [kind : {"create_command"}, user : callers, project : Projects,
     device : Devices, key : IdempotencyKeys, action : Actions]
    \cup [kind : {"cancel_command"}, user : callers, project : Projects, key : IdempotencyKeys]
OpenCommandRequests == CommandRequests({Machine})
OtherRequests ==
    [kind : {"transfer"}, user : {Admin}, project : Projects, target : Users]
    \cup [kind : {"connection"}, device : Devices, to : {"online", "offline"}]
Operations == DeviceRequests \cup CommandRequests(Users) \cup OpenCommandRequests \cup OtherRequests

ASSUME IntakeAssumption ==
    /\ Admin \in Users /\ Machine \notin Users /\ Nobody \notin Users
    /\ Scenarios \subseteq [Requests -> Operations]
    /\ InitialManager \in [Projects -> Users]
    /\ DOMAIN InitialDevices \subseteq Devices
    /\ \A d \in DOMAIN InitialDevices :
          InitialDevices[d].project \in Projects /\ InitialDevices[d].connection \in {"unknown", "online"}
    /\ Unsupported \subseteq Devices \X Actions
    /\ Rank \in [Users -> Nat]
    /\ \A x, y \in Users : x # y => Rank[x] # Rank[y]

VARIABLES
    manager,   \* manager of each Project
    device,    \* the Device rows
    events,    \* lifecycle Events of each Device: <<project, from, to>>
    commands,  \* the Command rows, named by the request that created them
    locks,     \* locks held by open transactions
    request    \* the requests

vars == <<manager, device, events, commands, locks, request>>
rows == <<manager, device, events, commands>>

-----------------------------------------------------------------------------
Blockers(r, l) == LockedBy(locks, r, l)
Held(r) == {k \in locks : k.by = r}

Identity(d) == <<"identity", d>>
CommandRow(p, k) == <<"command", p, k>>
Rows == Users \cup Projects \cup Devices \cup {Identity(d) : d \in Devices}
        \cup {CommandRow(p, k) : p \in Projects, k \in IdempotencyKeys}

Op(r) == request[r].op
HasLocks(r, kind, round) == Op(r).kind = kind /\ request[r].pc = round /\ request[r].todo = <<>>

\* access.Scope; an API key opens the Project it belongs to, which op names.
CanAccessProject(op, p) == op.user \in {Admin, Machine} \/ manager[p] = op.user

\* Rows with the unique key (project_id, idempotency_key).
CommandsOf(op) == {c \in commands : c.project = op.project /\ c.key = op.key}

\* Mutant: creating a Command reads the Project without locking it.
MutantFirstLocksUnlockedProject(op) ==
    CASE op.kind = "create_device" -> <<Lock(Identity(op.device), "advisory")>>
      [] op.kind = "update_device" -> <<Lock(op.device, "update")>>
      [] op.kind = "create_command" -> <<>>
      [] op.kind = "cancel_command" -> <<Lock(CommandRow(op.project, op.key), "update")>>
      [] op.kind = "transfer" ->
            Append(InOrder(Rank, {manager[op.project], op.target}, "update"), Lock(op.project, "update"))
      [] op.kind = "connection" -> <<Lock(op.device, "no_key_update")>>

\* Mutant: creating a Command locks its Project in a mode that others may share.
MutantFirstLocksShared(op) ==
    CASE op.kind = "create_device" -> <<Lock(Identity(op.device), "advisory")>>
      [] op.kind = "update_device" -> <<Lock(op.device, "update")>>
      [] op.kind = "create_command" -> <<Lock(op.project, "share")>>
      [] op.kind = "cancel_command" -> <<Lock(CommandRow(op.project, op.key), "update")>>
      [] op.kind = "transfer" ->
            Append(InOrder(Rank, {manager[op.project], op.target}, "update"), Lock(op.project, "update"))
      [] op.kind = "connection" -> <<Lock(op.device, "no_key_update")>>

\* The first round: the row an operation starts from.  Creating a Device starts
\* with its INSERT, which waits for another one of the same identity.
FirstLocks(op) ==
    CASE op.kind = "create_device" -> <<Lock(Identity(op.device), "advisory")>>
      [] op.kind = "update_device" -> <<Lock(op.device, "update")>>
      [] op.kind = "create_command" -> <<Lock(op.project, "update")>>
      [] op.kind = "cancel_command" -> <<Lock(CommandRow(op.project, op.key), "update")>>
      [] op.kind = "transfer" ->
            Append(InOrder(Rank, {manager[op.project], op.target}, "update"), Lock(op.project, "update"))
      [] op.kind = "connection" -> <<Lock(op.device, "no_key_update")>>

\* A new Device: the foreign keys of devices and of device_events lock the Project,
\* then CreateDelivery locks it for the webhook configuration.  The Device row itself
\* is the transaction's own.
CreationLocks(p) == <<Lock(p, "key_share"), Lock(p, "update")>>

\* An Event about a Device or its Command: the foreign keys of device_events lock the
\* Project and the Device (a Command is the transaction's own by then), then
\* CreateDelivery locks the Project.
EventLocks(p, d) == <<Lock(p, "key_share"), Lock(d, "key_share"), Lock(p, "update")>>

\* INSERT INTO audit_logs: foreign keys to the Project and to the acting User.
AuditLocks(op, p) ==
    <<Lock(p, "key_share")>> \o IF op.user = Machine THEN <<>> ELSE <<Lock(op.user, "key_share")>>

\* seen: the manager in the snapshot of the statement that locks the Project, or
\* that a transfer has read before it locks.
Fresh(op) ==
    [op |-> op, pc |-> "new", todo |-> <<>>, seen |-> Nobody, result |-> "none", command |-> Nothing]

Init ==
    /\ manager = InitialManager
    /\ device = [d \in Devices |->
                   IF d \in DOMAIN InitialDevices
                   THEN [project |-> InitialDevices[d].project, lifecycle |-> "active",
                         connection |-> InitialDevices[d].connection]
                   ELSE [project |-> Nothing, lifecycle |-> "absent", connection |-> "unknown"]]
    /\ events = [d \in Devices |->
                   IF d \in DOMAIN InitialDevices THEN <<<<InitialDevices[d].project, "absent", "active">>>>
                   ELSE <<>>]
    /\ commands = {}
    /\ locks = {}
    /\ \E scenario \in Scenarios : request = [r \in Requests |-> Fresh(scenario[r])]

-----------------------------------------------------------------------------
Answered(r, result, c) ==
    [request EXCEPT ![r] = [Fresh(Op(r)) EXCEPT !.pc = "done", !.result = result, !.command = c]]

\* Mutant: a transaction that ends does not give its locks back.
MutantEndsKeepsLocks(r, result, c) == request' = Answered(r, result, c) /\ UNCHANGED locks

\* The answer; the transaction's locks are gone with its commit or rollback.
Ends(r, result, c) == request' = Answered(r, result, c) /\ locks' = locks \ Held(r)

Fails(r, result) == Ends(r, result, Nothing) /\ UNCHANGED rows

Proceed(r, round, todo) ==
    /\ request' = [request EXCEPT ![r].pc = round, ![r].todo = todo]
    /\ UNCHANGED <<manager, device, events, commands, locks>>

\* Validation has passed.  Creating a Device reads the Project without a lock.
Begin(r) ==
    LET op == Op(r) IN
    /\ request[r].pc = "new"
    /\ IF op.kind = "create_device" /\ ~CanAccessProject(op, op.project)
       THEN Fails(r, "project_not_found")
       ELSE /\ request' = [request EXCEPT ![r].pc = "first", ![r].todo = FirstLocks(op),
                                          ![r].seen = IF op.kind = "transfer" THEN manager[op.project] ELSE @]
            /\ UNCHANGED <<manager, device, events, commands, locks>>

Locking(r) == request[r].pc \in {"first", "second", "third"} /\ request[r].todo # <<>>
NextLock(r) == Head(request[r].todo)

\* Projects.GetForUpdate joins the manager: a snapshot, before the wait.
JoinsManager(r) == Op(r).kind = "create_command" /\ request[r].pc = "first"
SelectProject(r) ==
    /\ Locking(r) /\ JoinsManager(r) /\ request[r].seen = Nobody
    /\ request' = [request EXCEPT ![r].seen = manager[Op(r).project]]
    /\ UNCHANGED <<manager, device, events, commands, locks>>

\* A row that is not there, or not yet committed, is not found.
Missing(l) ==
    \/ l.row \in Devices /\ device[l.row].lifecycle = "absent"
    \/ /\ \E p \in Projects, k \in IdempotencyKeys : l.row = CommandRow(p, k)
       /\ ~\E c \in commands : l.row = CommandRow(c.project, c.key)

\* A lock is granted once no other transaction holds a conflicting one.
Acquire(r) ==
    /\ Locking(r)
    /\ JoinsManager(r) => request[r].seen # Nobody
    /\ Blockers(r, NextLock(r)) = {}
    /\ CASE Missing(NextLock(r)) -> Fails(r, "not_found")
         [] ~Missing(NextLock(r)) /\ JoinsManager(r) /\ manager[Op(r).project] # request[r].seen ->
               Fails(r, "project_not_found")
         [] OTHER -> /\ locks' = locks \cup {[row |-> NextLock(r).row, mode |-> NextLock(r).mode, by |-> r]}
                     /\ request' = [request EXCEPT ![r].todo = Tail(@)]
                     /\ UNCHANGED rows

-----------------------------------------------------------------------------
\* deviceservice.Create.

\* Mutant: the unique identity is not enforced.
MutantCreateDeviceTwice(r) ==
    /\ HasLocks(r, "create_device", "first")
    /\ Proceed(r, "third", CreationLocks(Op(r).project) \o AuditLocks(Op(r), Op(r).project))

CreateDevice(r) ==
    LET op == Op(r) IN
    /\ HasLocks(r, "create_device", "first")
    /\ IF device[op.device].lifecycle # "absent"
       THEN Fails(r, "provider_device_conflict")
       ELSE Proceed(r, "third", CreationLocks(op.project) \o AuditLocks(op, op.project))

CommitDevice(r) ==
    LET op == Op(r) IN
    /\ HasLocks(r, "create_device", "third")
    /\ device' = [device EXCEPT ![op.device] =
                    [project |-> op.project, lifecycle |-> "active", connection |-> "unknown"]]
    /\ events' = [events EXCEPT ![op.device] = Append(@, <<op.project, "absent", "active">>)]
    /\ Ends(r, "ok", Nothing)
    /\ UNCHANGED <<manager, commands>>

-----------------------------------------------------------------------------
\* deviceservice.Update.
canTransitionLifecycle(from, to) ==
    \/ from = "active" /\ to \in {"disabled", "deleted"}
    \/ from = "disabled" /\ to \in {"active", "deleted"}

\* The Project is read without a lock.  A new name is audited at once.
CheckDevice(r) ==
    LET op == Op(r) d == device[op.device] IN
    /\ HasLocks(r, "update_device", "first")
    /\ CASE ~CanAccessProject(op, d.project) -> Fails(r, "not_found")
         [] CanAccessProject(op, d.project) /\ d.lifecycle = "deleted" -> Fails(r, "device_immutable")
         [] OTHER -> Proceed(r, "second", IF op.rename THEN AuditLocks(op, d.project) ELSE <<>>)

CheckTransition(r) ==
    LET op == Op(r) d == device[op.device] IN
    /\ HasLocks(r, "update_device", "second")
    /\ CASE op.to = "same" -> Proceed(r, "third", <<>>)
         [] op.to # "same" /\ ~canTransitionLifecycle(d.lifecycle, op.to) -> Fails(r, "lifecycle_transition")
         [] OTHER -> Proceed(r, "third", EventLocks(d.project, op.device) \o AuditLocks(op, d.project))

CommitUpdate(r) ==
    LET op == Op(r) d == device[op.device] IN
    /\ HasLocks(r, "update_device", "third")
    /\ \/ op.to = "same" /\ UNCHANGED <<device, events>>
       \/ /\ op.to # "same"
          /\ device' = [device EXCEPT ![op.device].lifecycle = op.to]
          /\ events' = [events EXCEPT ![op.device] = Append(@, <<d.project, d.lifecycle, op.to>>)]
    /\ Ends(r, "ok", Nothing)
    /\ UNCHANGED <<manager, commands>>

-----------------------------------------------------------------------------
\* commandservice.Create.

\* Mutant: the Device is read without locking it.
MutantCheckReplayUnlockedDevice(r) ==
    LET op == Op(r) IN
    /\ HasLocks(r, "create_command", "first")
    /\ CASE ~CanAccessProject(op, op.project) -> Fails(r, "project_not_found")
         [] CanAccessProject(op, op.project) /\ CommandsOf(op) # {} ->
               \E c \in CommandsOf(op) : Ends(r, "replayed", c.id) /\ UNCHANGED rows
         [] OTHER -> Proceed(r, "second", <<>>)

\* The same Device, action and payload (every action's payload is empty).
SameRequest(c, op) == c.device = op.device /\ c.action = op.action

\* findIdempotentReplay, under the lock of the Project.
CheckReplay(r) ==
    LET op == Op(r) IN
    /\ HasLocks(r, "create_command", "first")
    /\ CASE ~CanAccessProject(op, op.project) -> Fails(r, "project_not_found")
         [] CanAccessProject(op, op.project) /\ CommandsOf(op) # {} ->
               \E c \in CommandsOf(op) :
                  IF SameRequest(c, op)
                  THEN Ends(r, "replayed", c.id) /\ UNCHANGED rows
                  ELSE Fails(r, "idempotency_key_conflict")
         [] OTHER -> Proceed(r, "second", <<Lock(op.device, "update")>>)

\* The Device must be of the Project, active, mapped by its Provider and, for an
\* online_only action, online.
Supported(op) == <<op.device, op.action>> \notin Unsupported
DeliveryPolicy(action) == IF action = "query_status" THEN "dispatch_once" ELSE "online_only"

CheckCommand(r) ==
    LET op == Op(r) d == device[op.device] IN
    /\ HasLocks(r, "create_command", "second")
    /\ CASE d.project # op.project -> Fails(r, "not_found")
         [] d.project = op.project /\ d.lifecycle # "active" -> Fails(r, "device_disabled")
         [] d.project = op.project /\ d.lifecycle = "active" /\ ~Supported(op) ->
               Fails(r, "provider_action_unsupported")
         [] d.project = op.project /\ d.lifecycle = "active" /\ Supported(op)
               /\ DeliveryPolicy(op.action) = "online_only" /\ d.connection # "online" ->
               Fails(r, "device_not_online")
         [] OTHER -> Proceed(r, "third", EventLocks(op.project, op.device) \o AuditLocks(op, op.project))

CommitCommand(r) ==
    LET op == Op(r) IN
    /\ HasLocks(r, "create_command", "third")
    /\ IF CommandsOf(op) # {} THEN Fails(r, "duplicate_key")
       ELSE /\ commands' = commands \cup {[id |-> r, project |-> op.project, device |-> op.device,
                                           key |-> op.key, action |-> op.action, status |-> "queued"]}
            /\ Ends(r, "created", r)
            /\ UNCHANGED <<manager, device, events>>

\* commandservice.Cancel.  The Project is read without a lock.
CheckCancel(r) ==
    LET op == Op(r) IN
    /\ HasLocks(r, "cancel_command", "first")
    /\ CASE ~CanAccessProject(op, op.project) -> Fails(r, "not_found")
         [] CanAccessProject(op, op.project) /\ \A c \in CommandsOf(op) : c.status # "queued" ->
               Fails(r, "command_not_cancellable")
         [] OTHER -> \E c \in CommandsOf(op) :
               Proceed(r, "third", EventLocks(op.project, c.device) \o AuditLocks(op, op.project))

CommitCancel(r) ==
    /\ HasLocks(r, "cancel_command", "third")
    /\ commands' = {IF c \in CommandsOf(Op(r)) THEN [c EXCEPT !.status = "cancelled"] ELSE c : c \in commands}
    /\ Ends(r, "ok", Nothing)
    /\ UNCHANGED <<manager, device, events>>

-----------------------------------------------------------------------------
\* One attempt of a transfer, see ProjectAccess.
CommitTransfer(r) ==
    LET op == Op(r) IN
    /\ HasLocks(r, "transfer", "first")
    /\ IF manager[op.project] # request[r].seen \/ op.target = manager[op.project]
       THEN Fails(r, "unchanged")
       ELSE /\ manager' = [manager EXCEPT ![op.project] = op.target]
            /\ Ends(r, "ok", Nothing)
            /\ UNCHANGED <<device, events, commands>>

\* SetConnectionStatus, for a trusted report of the Device.
CommitConnection(r) ==
    /\ HasLocks(r, "connection", "first")
    /\ device' = [device EXCEPT ![Op(r).device].connection = Op(r).to]
    /\ Ends(r, "ok", Nothing)
    /\ UNCHANGED <<manager, events, commands>>

WaitsFor(r) == IF Locking(r) THEN Blockers(r, NextLock(r)) ELSE {}

\* PostgreSQL aborts a transaction of a cycle after deadlock_timeout.
DeadlockVictim(r) == InCycle([s \in Requests |-> WaitsFor(s)], r) /\ Fails(r, "error")

\* The context ends or the connection breaks before the commit.
Abort(r) == request[r].pc \in {"first", "second", "third"} /\ Fails(r, "error")

RequestStep(r) ==
    \/ Begin(r) \/ SelectProject(r) \/ Acquire(r)
    \/ CreateDevice(r) \/ CommitDevice(r)
    \/ CheckDevice(r) \/ CheckTransition(r) \/ CommitUpdate(r)
    \/ CheckReplay(r) \/ CheckCommand(r) \/ CommitCommand(r)
    \/ CheckCancel(r) \/ CommitCancel(r)
    \/ CommitTransfer(r) \/ CommitConnection(r)

Next == \E r \in Requests : RequestStep(r) \/ DeadlockVictim(r) \/ Abort(r)

Spec == Init /\ [][Next]_vars

\* Handlers run and PostgreSQL grants free locks.  It also breaks cycles of waits, but
\* of that no more is assumed than is needed: never that it gives up the creation of
\* a Command.
FairSpec ==
    /\ Spec
    /\ \A r \in Requests :
          WF_vars(RequestStep(r)) /\ WF_vars(Op(r).kind # "create_command" /\ DeadlockVictim(r))

-----------------------------------------------------------------------------
\* Locks belong to open transactions only.
TypeOK ==
    /\ manager \in [Projects -> Users]
    /\ device \in [Devices -> [project : Projects \cup {Nothing}, lifecycle : Lifecycles \cup {"absent"},
                               connection : {"unknown", "online", "offline"}]]
    /\ commands \subseteq [id : Requests, project : Projects, device : Devices, key : IdempotencyKeys,
                           action : Actions, status : {"queued", "cancelled"}]
    /\ locks \subseteq [row : Rows, mode : Modes, by : Requests]
    /\ \A r \in Requests : Op(r) \in Operations
    /\ \A k \in locks : request[k.by].pc \in {"first", "second", "third"}

\* The Events of a Device tell its life without gaps, in one Project: one
\* creation, then lifecycle changes each from where the one before led, up to the
\* status the row has; a deleted Device never comes back, and its identity is
\* never given out again.
EventsTellLifecycle ==
    \A d \in Devices :
        /\ events[d] = <<>> <=> device[d].lifecycle = "absent"
        /\ \A i \in 1 .. Len(events[d]) :
              /\ events[d][i][1] = device[d].project
              /\ events[d][i][2] = IF i = 1 THEN "absent" ELSE events[d][i - 1][3]
              /\ i > 1 => canTransitionLifecycle(events[d][i][2], events[d][i][3])
              /\ i = Len(events[d]) => events[d][i][3] = device[d].lifecycle

\* An idempotency key names one Command of its Project, for one Device and one
\* action: every request that is answered with a Command under the key is
\* answered with that one, and none runs into the unique index.
KeyNamesOneCommand ==
    /\ \A r \in Requests : request[r].result # "duplicate_key"
    /\ \A r \in Requests : request[r].result \in {"created", "replayed"} =>
          \E c \in commands :
             /\ request[r].command = c.id /\ CommandsOf(Op(r)) = {c}
             /\ c.device = Op(r).device /\ c.action = Op(r).action

\* A Command comes into being only for a Device that at that moment is of its
\* Project and active, and online where the action is online_only, and for a caller
\* who at that moment manages the Project, is the super administrator or holds the
\* Project's key, whatever happened since the request was accepted.
CommandsWellFounded ==
    [][\A c \in commands' : c.id \notin {b.id : b \in commands} =>
          LET d == device'[c.device] IN
          /\ d.project = c.project /\ d.lifecycle = "active"
          /\ DeliveryPolicy(c.action) = "online_only" => d.connection = "online"
          /\ CanAccessProject(Op(c.id), c.project)']_vars

\* Every request is answered.  Whoever waits for a lock gets it, or the wait is part of
\* a cycle that PostgreSQL breaks; no cycle consists of creations of Commands alone,
\* and none needs one of them as its victim.
RequestsAnswered == <>(\A r \in Requests : request[r].pc = "done")

=============================================================================
