-------------------------- MODULE DeviceIntake_proofs --------------------------
(***************************************************************************)
(* Proofs about DeviceIntake for any Users, Projects, Devices, idempotency *)
(* keys and concurrent requests.                                           *)
(***************************************************************************)
EXTENDS DeviceIntake, RowLocks_proofs

Rounds == {"first", "second", "third"}
LockRequests == [row : Rows, mode : Modes]
Results ==
    {"none", "ok", "error", "not_found", "project_not_found", "provider_device_conflict", "device_immutable",
     "lifecycle_transition", "replayed", "idempotency_key_conflict", "device_disabled",
     "provider_action_unsupported", "device_not_online", "duplicate_key", "created",
     "command_not_cancellable", "unchanged"}
RequestRecords ==
    [op : Operations, pc : Rounds \cup {"new", "done"}, todo : Seq(LockRequests), seen : Users \cup {Nobody},
     result : Results, command : Requests \cup {Nothing}]
DeviceRows ==
    [project : Projects \cup {Nothing}, lifecycle : Lifecycles \cup {"absent"},
     connection : {"unknown", "online", "offline"}]
EventRows == Projects \X (Lifecycles \cup {"absent"}) \X Lifecycles
CommandRows ==
    [id : Requests, project : Projects, device : Devices, key : IdempotencyKeys, action : Actions,
     status : {"queued", "cancelled"}]

TypeInv ==
    /\ manager \in [Projects -> Users]
    /\ device \in [Devices -> DeviceRows]
    /\ \A d \in Devices : device[d].lifecycle # "absent" => device[d].project \in Projects
    /\ events \in [Devices -> Seq(EventRows)]
    /\ commands \subseteq CommandRows
    /\ locks \subseteq [row : Rows, mode : Modes, by : Requests]
    /\ request \in [Requests -> RequestRecords]

\* What an operation carries.
LEMMA OperationTypes ==
    ASSUME NEW op \in Operations
    PROVE  /\ op.kind \in {"create_device", "update_device", "create_command", "cancel_command", "transfer", "connection"}
           /\ op.kind # "connection" => op.user \in Users \cup {Machine}
           /\ op.kind \in {"create_device", "create_command", "cancel_command", "transfer"} => op.project \in Projects
           /\ op.kind \in {"create_device", "update_device", "create_command", "connection"} => op.device \in Devices
           /\ op.kind = "update_device" => op.to \in Lifecycles \cup {"same"}
           /\ op.kind = "connection" => op.to \in {"online", "offline"}
           /\ op.kind \in {"create_command", "cancel_command"} => op.key \in IdempotencyKeys
           /\ op.kind = "create_command" => op.action \in Actions
           /\ op.kind = "transfer" => op.target \in Users
  BY IntakeAssumption DEF Operations, DeviceRequests, CommandRequests, OpenCommandRequests, OtherRequests

-----------------------------------------------------------------------------
(* Locks asked for.                                                        *)

\* The locks a property needs that an operation asks for in a round, and the ones it
\* has from the rounds before.
Asks(op, round, row, mode) ==
    \/ /\ round = "first"
       /\ \/ op.kind = "create_device" /\ row = Identity(op.device) /\ mode = "advisory"
          \/ op.kind = "update_device" /\ row = op.device /\ mode = "update"
          \/ op.kind \in {"create_command", "transfer"} /\ row = op.project /\ mode = "update"
          \/ op.kind = "connection" /\ row = op.device /\ mode = "no_key_update"
    \/ round = "second" /\ op.kind = "create_command" /\ row = op.device /\ mode = "update"

Owns(op, round, row, mode) ==
    \/ round \in {"second", "third"} /\ Asks(op, "first", row, mode)
    \/ round = "third" /\ Asks(op, "second", row, mode)

LEMMA RowsOf ==
    /\ Users \cup Projects \cup Devices \subseteq Rows
    /\ \A d \in Devices : Identity(d) \in Rows
    /\ \A p \in Projects, k \in IdempotencyKeys : CommandRow(p, k) \in Rows
    /\ \A m \in {"key_share", "share", "no_key_update", "update", "advisory"} : m \in Modes
  BY DEF Rows, Modes

LEMMA OneLock ==
    ASSUME NEW row \in Rows, NEW mode \in Modes
    PROVE  <<Lock(row, mode)>> \in Seq(LockRequests) /\ Pending(<<Lock(row, mode)>>, row, mode)
  <1>1. Lock(row, mode) \in LockRequests
    BY DEF Lock, LockRequests
  <1> QED
    BY <1>1 DEF Pending

LEMMA LaterLocks ==
    ASSUME NEW p \in Projects, NEW op, op.user \in Users \cup {Machine}
    PROVE  /\ CreationLocks(p) \o AuditLocks(op, p) \in Seq(LockRequests)
           /\ \A d \in Devices : EventLocks(p, d) \o AuditLocks(op, p) \in Seq(LockRequests)
           /\ AuditLocks(op, p) \in Seq(LockRequests)
  <1>1. /\ Lock(p, "key_share") \in LockRequests /\ Lock(p, "update") \in LockRequests
        /\ \A d \in Devices : Lock(d, "key_share") \in LockRequests
        /\ op.user # Machine => Lock(op.user, "key_share") \in LockRequests
    BY RowsOf DEF Lock, LockRequests
  <1>2. CreationLocks(p) \in Seq(LockRequests) /\ \A d \in Devices : EventLocks(p, d) \in Seq(LockRequests)
    BY <1>1 DEF CreationLocks, EventLocks
  <1>3. AuditLocks(op, p) \in Seq(LockRequests)
    BY <1>1 DEF AuditLocks
  <1> QED
    BY <1>2, <1>3

LEMMA FirstLocksAsked ==
    ASSUME TypeInv, NEW op \in Operations
    PROVE  /\ FirstLocks(op) \in Seq(LockRequests)
           /\ \A row, mode : Asks(op, "first", row, mode) => Pending(FirstLocks(op), row, mode)
  <1>1. CASE op.kind = "create_device"
    <2>1. Identity(op.device) \in Rows /\ "advisory" \in Modes
      BY <1>1, OperationTypes, RowsOf
    <2>2. FirstLocks(op) = <<Lock(Identity(op.device), "advisory")>>
      BY <1>1 DEF FirstLocks
    <2> QED
      BY <1>1, <2>1, <2>2, OneLock DEF Asks
  <1>2. CASE op.kind = "update_device"
    <2>1. op.device \in Rows /\ "update" \in Modes
      BY <1>2, OperationTypes, RowsOf
    <2>2. FirstLocks(op) = <<Lock(op.device, "update")>>
      BY <1>2 DEF FirstLocks
    <2> QED
      BY <1>2, <2>1, <2>2, OneLock DEF Asks
  <1>3. CASE op.kind = "create_command"
    <2>1. op.project \in Rows /\ "update" \in Modes
      BY <1>3, OperationTypes, RowsOf
    <2>2. FirstLocks(op) = <<Lock(op.project, "update")>>
      BY <1>3 DEF FirstLocks
    <2> QED
      BY <1>3, <2>1, <2>2, OneLock DEF Asks
  <1>4. CASE op.kind = "cancel_command"
    <2>1. CommandRow(op.project, op.key) \in Rows /\ "update" \in Modes
      BY <1>4, OperationTypes, RowsOf
    <2>2. FirstLocks(op) = <<Lock(CommandRow(op.project, op.key), "update")>>
      BY <1>4 DEF FirstLocks
    <2> QED
      BY <1>4, <2>1, <2>2, OneLock DEF Asks
  <1>5. CASE op.kind = "connection"
    <2>1. op.device \in Rows /\ "no_key_update" \in Modes
      BY <1>5, OperationTypes, RowsOf
    <2>2. FirstLocks(op) = <<Lock(op.device, "no_key_update")>>
      BY <1>5 DEF FirstLocks
    <2> QED
      BY <1>5, <2>1, <2>2, OneLock DEF Asks
  <1>6. CASE op.kind = "transfer"
    <2> DEFINE m == manager[op.project]
               s == InOrder(Rank, {m, op.target}, "update")
               l == Lock(op.project, "update")
    <2>1. op.project \in Projects /\ m \in Users /\ op.target \in Users
      BY <1>6, OperationTypes DEF TypeInv
    <2>2. FirstLocks(op) = Append(s, l)
      BY <1>6 DEF FirstLocks
    <2>3. \A row, mode : Asks(op, "first", row, mode) => row = op.project /\ mode = "update"
      BY <1>6 DEF Asks
    <2>4. Rank[m] \in Nat /\ Rank[op.target] \in Nat /\ (m # op.target => Rank[m] # Rank[op.target])
      BY <2>1, IntakeAssumption
    <2> HIDE DEF m
    <2>5. s \in Seq({Lock(m, "update"), Lock(op.target, "update")})
      BY <2>4, InOrderPair
    <2>6. l \in LockRequests /\ {Lock(m, "update"), Lock(op.target, "update")} \subseteq LockRequests
      BY <2>1, RowsOf DEF Lock, LockRequests
    <2> HIDE DEF s, l
    <2>7. s \in Seq(LockRequests)
      BY <2>5, <2>6
    <2>8. /\ Append(s, l) \in Seq(LockRequests) /\ Len(Append(s, l)) = Len(s) + 1 /\ Len(s) \in Nat
          /\ Append(s, l)[Len(s) + 1] = l
      BY <2>6, <2>7, AppendProperties
    <2>9. Pending(Append(s, l), op.project, "update")
      BY <2>8 DEF Pending, l
    <2> QED
      BY <2>2, <2>3, <2>8, <2>9
  <1> QED
    BY <1>1, <1>2, <1>3, <1>4, <1>5, <1>6, OperationTypes


-----------------------------------------------------------------------------
(* What a step of a request may be.                                        *)

\* What was checked before a round began.
Verdict(r, round) ==
    LET op == Op(r) IN
    /\ op.kind = "create_device" /\ round = "third" => device[op.device].lifecycle = "absent"
    /\ op.kind = "update_device" /\ round = "third" /\ op.to # "same" =>
          canTransitionLifecycle(device[op.device].lifecycle, op.to)
    /\ op.kind = "create_command" /\ round \in {"second", "third"} =>
          CanAccessProject(op, op.project) /\ CommandsOf(op) = {}
    /\ op.kind = "create_command" /\ round = "third" =>
          /\ device[op.device].project = op.project /\ device[op.device].lifecycle = "active"
          /\ DeliveryPolicy(op.action) = "online_only" => device[op.device].connection = "online"

Failed(r) ==
    \E result \in Results \ {"created", "replayed"} :
       /\ Fails(r, result)
       /\ result = "duplicate_key" => HasLocks(r, "create_command", "third") /\ CommandsOf(Op(r)) # {}

Replays(r) ==
    /\ Op(r).kind = "create_command"
    /\ \E c \in CommandsOf(Op(r)) : SameRequest(c, Op(r)) /\ Ends(r, "replayed", c.id)
    /\ UNCHANGED rows

Begins(r) ==
    /\ request[r].pc = "new"
    /\ \E seen \in Users \cup {Nobody} :
          request' = [request EXCEPT ![r].pc = "first", ![r].todo = FirstLocks(Op(r)), ![r].seen = seen]
    /\ UNCHANGED rows /\ UNCHANGED locks

Selects(r) ==
    /\ request[r].pc \in Rounds
    /\ \E m \in Users : request' = [request EXCEPT ![r].seen = m]
    /\ UNCHANGED rows /\ UNCHANGED locks

Grants(r) ==
    LET l == NextLock(r) IN
    /\ request[r].pc \in Rounds /\ request[r].todo # <<>>
    /\ Blockers(r, l) = {} /\ ~Missing(l)
    /\ locks' = locks \cup {[row |-> l.row, mode |-> l.mode, by |-> r]}
    /\ request' = [request EXCEPT ![r].todo = Tail(@)]
    /\ UNCHANGED rows

Proceeds(r) ==
    /\ request[r].pc \in Rounds /\ request[r].todo = <<>>
    /\ \E round \in {"second", "third"}, todo \in Seq(LockRequests) :
          /\ Proceed(r, round, todo) /\ Verdict(r, round)
          /\ Op(r).kind = "create_command" =>
                \/ request[r].pc = "first" /\ round = "second" /\ Pending(todo, Op(r).device, "update")
                \/ request[r].pc = "second" /\ round = "third"

\* The six transactions that write.
Commit(r) ==
    \/ CommitDevice(r) \/ CommitUpdate(r) \/ CommitCancel(r) \/ CommitConnection(r)
    \/ CommitCommand(r) /\ CommandsOf(Op(r)) = {}
    \/ CommitTransfer(r) /\ manager' # manager

LEMMA BeginCases ==
    ASSUME TypeInv, NEW r \in Requests,
           Begin(r) \/ SelectProject(r) \/ Acquire(r) \/ DeadlockVictim(r) \/ Abort(r)
    PROVE  Failed(r) \/ Begins(r) \/ Selects(r) \/ Grants(r)
  <1>0. Op(r) \in Operations /\ request[r] \in RequestRecords
    BY DEF TypeInv, RequestRecords, Op
  <1>1. ASSUME NEW result \in Results \ {"created", "replayed", "duplicate_key"}, Fails(r, result) PROVE Failed(r)
    BY <1>1 DEF Failed
  <1>2. CASE Begin(r)
    <2>1. CASE Op(r).kind = "create_device" /\ ~CanAccessProject(Op(r), Op(r).project)
      BY <1>1, <1>2, <2>1 DEF Begin, Results
    <2>2. CASE ~(Op(r).kind = "create_device" /\ ~CanAccessProject(Op(r), Op(r).project))
      <3> DEFINE seen == IF Op(r).kind = "transfer" THEN manager[Op(r).project] ELSE request[r].seen
      <3>1. seen \in Users \cup {Nobody}
        BY <1>0, OperationTypes DEF TypeInv, RequestRecords
      <3>2. /\ request' = [request EXCEPT ![r].pc = "first", ![r].todo = FirstLocks(Op(r)), ![r].seen = seen]
            /\ request[r].pc = "new" /\ UNCHANGED rows /\ UNCHANGED locks
        BY <1>0, <1>2, <2>2 DEF Begin, rows, TypeInv, RequestRecords
      <3> QED
        BY <3>1, <3>2 DEF Begins
    <2> QED
      BY <2>1, <2>2
  <1>3. CASE SelectProject(r)
    <2>1. manager[Op(r).project] \in Users
      BY <1>0, <1>3, OperationTypes DEF SelectProject, JoinsManager, TypeInv
    <2> QED
      BY <1>3, <2>1 DEF SelectProject, Selects, rows, Locking, Rounds
  <1>4. CASE Acquire(r)
    BY <1>1, <1>4 DEF Acquire, Grants, Locking, Rounds, Results
  <1>5. CASE DeadlockVictim(r) \/ Abort(r)
    BY <1>1, <1>5 DEF DeadlockVictim, Abort, Results
  <1> QED
    BY <1>2, <1>3, <1>4, <1>5

LEMMA CheckCases ==
    ASSUME TypeInv, NEW r \in Requests, Verdict(r, request[r].pc),
           Op(r).kind = "update_device" /\ request[r].pc \in Rounds /\ request[r].todo = <<>> =>
              device[Op(r).device].lifecycle # "absent",
           CreateDevice(r) \/ CheckDevice(r) \/ CheckTransition(r) \/ CheckReplay(r) \/ CheckCommand(r) \/ CheckCancel(r)
    PROVE  Failed(r) \/ Replays(r) \/ Proceeds(r)
  <1> DEFINE op == Op(r)
  <1>0. op \in Operations /\ request[r] \in RequestRecords /\ device \in [Devices -> DeviceRows]
    BY DEF TypeInv, RequestRecords, Op
  <1>1. ASSUME NEW result \in Results \ {"created", "replayed", "duplicate_key"}, Fails(r, result) PROVE Failed(r)
    BY <1>1 DEF Failed
  <1>2. ASSUME NEW round \in {"second", "third"}, NEW todo \in Seq(LockRequests), Proceed(r, round, todo),
               request[r].pc \in Rounds, request[r].todo = <<>>, op.kind # "create_command", Verdict(r, round)
        PROVE  Proceeds(r)
    BY <1>2 DEF Proceeds
  <1>3. \A p \in Projects : op.kind # "connection" =>
           /\ CreationLocks(p) \o AuditLocks(op, p) \in Seq(LockRequests)
           /\ \A d \in Devices : EventLocks(p, d) \o AuditLocks(op, p) \in Seq(LockRequests)
           /\ AuditLocks(op, p) \in Seq(LockRequests)
    BY <1>0, OperationTypes, LaterLocks
  <1>4. CASE CreateDevice(r)
    <2>1. op.kind = "create_device" /\ op.project \in Projects /\ request[r].pc \in Rounds /\ request[r].todo = <<>>
      BY <1>0, <1>4, OperationTypes DEF CreateDevice, HasLocks, Rounds
    <2>2. CASE device[op.device].lifecycle # "absent"
      BY <1>1, <1>4, <2>2 DEF CreateDevice, Results
    <2>3. CASE device[op.device].lifecycle = "absent"
      <3>1. Proceed(r, "third", CreationLocks(op.project) \o AuditLocks(op, op.project)) /\ Verdict(r, "third")
        BY <1>4, <2>1, <2>3 DEF CreateDevice, Verdict
      <3> QED
        BY <1>2, <1>3, <2>1, <3>1
    <2> QED
      BY <2>2, <2>3
  <1>5. CASE CheckDevice(r)
    <2> DEFINE d == device[op.device]
               todo == IF op.rename THEN AuditLocks(op, d.project) ELSE <<>>
    <2>1. /\ op.kind = "update_device" /\ op.device \in Devices /\ request[r].pc \in Rounds /\ request[r].todo = <<>>
          /\ d.project \in Projects
      BY <1>0, <1>5, OperationTypes DEF CheckDevice, HasLocks, Rounds, TypeInv
    <2>2. todo \in Seq(LockRequests)
      BY <1>3, <2>1
    <2>3. Verdict(r, "second")
      BY <2>1 DEF Verdict
    <2>4. Fails(r, "not_found") \/ Fails(r, "device_immutable") \/ Proceed(r, "second", todo)
      BY <1>5 DEF CheckDevice
    <2> HIDE DEF todo
    <2> QED
      BY <1>1, <1>2, <2>1, <2>2, <2>3, <2>4 DEF Results
  <1>6. CASE CheckTransition(r)
    <2> DEFINE d == device[op.device]
    <2>1. /\ op.kind = "update_device" /\ op.device \in Devices /\ request[r].pc \in Rounds /\ request[r].todo = <<>>
          /\ d.project \in Projects
      BY <1>0, <1>6, OperationTypes DEF CheckTransition, HasLocks, Rounds, TypeInv
    <2>2. CASE op.to = "same"
      <3>1. Proceed(r, "third", <<>>) /\ Verdict(r, "third") /\ <<>> \in Seq(LockRequests)
        BY <1>6, <2>1, <2>2 DEF CheckTransition, Verdict
      <3> QED
        BY <1>2, <2>1, <3>1
    <2>3. CASE op.to # "same" /\ ~canTransitionLifecycle(d.lifecycle, op.to)
      BY <1>1, <1>6, <2>3 DEF CheckTransition, Results
    <2>4. CASE op.to # "same" /\ canTransitionLifecycle(d.lifecycle, op.to)
      <3>1. Proceed(r, "third", EventLocks(d.project, op.device) \o AuditLocks(op, d.project)) /\ Verdict(r, "third")
        BY <1>6, <2>1, <2>4 DEF CheckTransition, Verdict
      <3> QED
        BY <1>2, <1>3, <2>1, <3>1
    <2> QED
      BY <2>2, <2>3, <2>4
  <1>7. CASE CheckReplay(r)
    <2>1. /\ op.kind = "create_command" /\ op.device \in Devices /\ request[r].pc = "first" /\ request[r].todo = <<>>
      BY <1>0, <1>7, OperationTypes DEF CheckReplay, HasLocks
    <2>2. CASE ~CanAccessProject(op, op.project)
      BY <1>1, <1>7, <2>2 DEF CheckReplay, Results
    <2>3. CASE CanAccessProject(op, op.project) /\ CommandsOf(op) # {}
      <3>1. PICK c \in CommandsOf(op) : IF SameRequest(c, op) THEN Ends(r, "replayed", c.id) /\ UNCHANGED rows
                                        ELSE Fails(r, "idempotency_key_conflict")
        BY <1>7, <2>3 DEF CheckReplay
      <3> QED
        BY <1>1, <2>1, <3>1 DEF Replays, Results
    <2>4. CASE CanAccessProject(op, op.project) /\ CommandsOf(op) = {}
      <3>1. Proceed(r, "second", <<Lock(op.device, "update")>>) /\ Verdict(r, "second")
        BY <1>7, <2>1, <2>4 DEF CheckReplay, Verdict
      <3>2. /\ <<Lock(op.device, "update")>> \in Seq(LockRequests)
            /\ Pending(<<Lock(op.device, "update")>>, op.device, "update")
        BY <2>1, OneLock, RowsOf
      <3> QED
        BY <2>1, <3>1, <3>2 DEF Proceeds, Rounds
    <2> QED
      BY <2>2, <2>3, <2>4
  <1>8. CASE CheckCommand(r)
    <2> DEFINE d == device[op.device]
    <2>1. /\ op.kind = "create_command" /\ op.project \in Projects /\ op.device \in Devices
          /\ request[r].pc = "second" /\ request[r].todo = <<>>
      BY <1>0, <1>8, OperationTypes DEF CheckCommand, HasLocks
    <2>2. CASE /\ d.project = op.project /\ d.lifecycle = "active" /\ Supported(op)
               /\ ~(DeliveryPolicy(op.action) = "online_only" /\ d.connection # "online")
      <3>1. Proceed(r, "third", EventLocks(op.project, op.device) \o AuditLocks(op, op.project))
        BY <1>8, <2>2 DEF CheckCommand
      <3>2. Verdict(r, "third")
        BY <2>1, <2>2 DEF Verdict
      <3> QED
        BY <1>3, <2>1, <3>1, <3>2 DEF Proceeds, Rounds
    <2>3. CASE ~ (/\ d.project = op.project /\ d.lifecycle = "active" /\ Supported(op)
                  /\ ~(DeliveryPolicy(op.action) = "online_only" /\ d.connection # "online"))
      <3>1. \/ Fails(r, "not_found") \/ Fails(r, "device_disabled") \/ Fails(r, "provider_action_unsupported")
            \/ Fails(r, "device_not_online")
        BY <1>8, <2>3 DEF CheckCommand
      <3> QED
        BY <1>1, <3>1 DEF Results
    <2> QED
      BY <2>2, <2>3
  <1>9. CASE CheckCancel(r)
    <2>1. /\ op.kind = "cancel_command" /\ op.project \in Projects /\ request[r].pc \in Rounds /\ request[r].todo = <<>>
      BY <1>0, <1>9, OperationTypes DEF CheckCancel, HasLocks, Rounds
    <2>2. Verdict(r, "third")
      BY <2>1 DEF Verdict
    <2>3. \/ Fails(r, "not_found") \/ Fails(r, "command_not_cancellable")
          \/ \E c \in CommandsOf(op) :
                Proceed(r, "third", EventLocks(op.project, c.device) \o AuditLocks(op, op.project))
      BY <1>9 DEF CheckCancel
    <2>4. \A c \in CommandsOf(op) : c.device \in Devices
      BY DEF CommandsOf, TypeInv, CommandRows
    <2>5. ASSUME NEW c \in CommandsOf(op),
                 Proceed(r, "third", EventLocks(op.project, c.device) \o AuditLocks(op, op.project))
          PROVE  Proceeds(r)
      <3>1. c.device \in Devices
        BY <2>4
      <3>2. EventLocks(op.project, c.device) \o AuditLocks(op, op.project) \in Seq(LockRequests)
        BY <1>3, <2>1, <3>1
      <3> QED
        BY <1>2, <2>1, <2>2, <2>5, <3>2
    <2> QED
      BY <1>1, <2>3, <2>5 DEF Results
  <1> QED
    BY <1>4, <1>5, <1>6, <1>7, <1>8, <1>9

\* Locks of a transaction: at most one holder of an exclusive lock, on a Device that
\* exists, held by an open transaction, which has what it asked for in earlier rounds
\* and has, or has still to ask for, what it needs in this one.
HeldBy(r, row, mode) == [row |-> row, mode |-> mode, by |-> r] \in locks

LockInv ==
    /\ \A k, l \in locks : k.row = l.row /\ (k.mode = "update" \/ (k.mode = "advisory" /\ l.mode = "advisory")) => k.by = l.by
    /\ \A k \in locks : k.row \in Devices => device[k.row].lifecycle # "absent"
    /\ \A k \in locks : request[k.by].pc \in Rounds
    /\ \A r \in Requests : \A row, mode : Asks(Op(r), request[r].pc, row, mode) =>
          Pending(request[r].todo, row, mode) \/ HeldBy(r, row, mode)
    /\ \A r \in Requests : \A row, mode : Owns(Op(r), request[r].pc, row, mode) => HeldBy(r, row, mode)

\* What was checked still holds, and will when the transaction commits.
VerdictInv == \A r \in Requests : Verdict(r, request[r].pc)

BaseInv == TypeInv /\ LockInv /\ VerdictInv

\* Without a lock left to ask for, a transaction has all it needs.
LEMMA LocksAtCheck ==
    ASSUME LockInv, NEW r \in Requests, request[r].todo = <<>>, NEW row, NEW mode,
           Asks(Op(r), request[r].pc, row, mode) \/ Owns(Op(r), request[r].pc, row, mode)
    PROVE  HeldBy(r, row, mode)
  BY DEF LockInv, Pending

LEMMA StepCases ==
    ASSUME BaseInv, NEW r \in Requests, RequestStep(r) \/ DeadlockVictim(r) \/ Abort(r)
    PROVE  Failed(r) \/ Replays(r) \/ Begins(r) \/ Selects(r) \/ Grants(r) \/ Proceeds(r) \/ Commit(r)
  <1>1. CASE Begin(r) \/ SelectProject(r) \/ Acquire(r) \/ DeadlockVictim(r) \/ Abort(r)
    BY <1>1, BeginCases DEF BaseInv
  <1>2. CASE CreateDevice(r) \/ CheckDevice(r) \/ CheckTransition(r) \/ CheckReplay(r) \/ CheckCommand(r) \/ CheckCancel(r)
    <2>1. ASSUME Op(r).kind = "update_device", request[r].pc \in Rounds, request[r].todo = <<>>
          PROVE  device[Op(r).device].lifecycle # "absent"
      <3>1. HeldBy(r, Op(r).device, "update")
        BY <2>1, LocksAtCheck DEF BaseInv, Asks, Owns, Rounds
      <3>2. Op(r).device \in Devices
        BY <2>1, OperationTypes DEF BaseInv, TypeInv, RequestRecords, Op
      <3> QED
        BY <3>1, <3>2 DEF BaseInv, LockInv, HeldBy
    <2> QED
      BY <1>2, <2>1, CheckCases DEF BaseInv, VerdictInv
  <1>3. CASE CommitCommand(r)
    <2>1. CASE CommandsOf(Op(r)) # {}
      <3>1. "duplicate_key" \in Results \ {"created", "replayed"}
        BY DEF Results
      <3>2. Fails(r, "duplicate_key") /\ HasLocks(r, "create_command", "third")
        BY <1>3, <2>1 DEF CommitCommand
      <3> QED
        BY <2>1, <3>1, <3>2 DEF Failed
    <2> QED
      BY <1>3, <2>1 DEF Commit
  <1>4. CASE CommitTransfer(r)
    <2>1. "unchanged" \in Results \ {"created", "replayed"} /\ "unchanged" # "duplicate_key"
      BY DEF Results
    <2>2. CASE manager[Op(r).project] # request[r].seen \/ Op(r).target = manager[Op(r).project]
      <3>1. Fails(r, "unchanged")
        BY <1>4, <2>2 DEF CommitTransfer
      <3> QED
        BY <2>1, <3>1 DEF Failed
    <2>3. CASE ~(manager[Op(r).project] # request[r].seen \/ Op(r).target = manager[Op(r).project])
      <3>1. manager' = [manager EXCEPT ![Op(r).project] = Op(r).target] /\ Op(r).target # manager[Op(r).project]
        BY <1>4, <2>3 DEF CommitTransfer
      <3>2. Op(r).project \in Projects
        BY <1>4, OperationTypes DEF CommitTransfer, HasLocks, BaseInv, TypeInv, RequestRecords, Op
      <3>3. manager' # manager
        BY <3>1, <3>2 DEF BaseInv, TypeInv
      <3> QED
        BY <1>4, <3>3 DEF Commit
    <2> QED
      BY <2>2, <2>3
  <1> QED
    BY <1>1, <1>2, <1>3, <1>4 DEF RequestStep, Commit


-----------------------------------------------------------------------------
(* What a step leaves of its request.                                      *)

Writes(r, rec) == request' = [request EXCEPT ![r] = rec] /\ rec \in RequestRecords /\ rec.op = Op(r)

Done(op, result, c) == [Fresh(op) EXCEPT !.pc = "done", !.result = result, !.command = c]

LEMMA OwnRecord ==
    ASSUME TypeInv, NEW r \in Requests, NEW rec, Writes(r, rec)
    PROVE  /\ request' \in [Requests -> RequestRecords] /\ request'[r] = rec /\ Op(r)' = Op(r)
           /\ \A s \in Requests \ {r} : request'[s] = request[s]
  BY DEF TypeInv, Writes, Op

LEMMA FreshRecord ==
    ASSUME NEW op \in Operations, NEW result \in Results, NEW c \in Requests \cup {Nothing}
    PROVE  /\ Fresh(op) \in RequestRecords /\ Fresh(op).op = op /\ Fresh(op).pc = "new" /\ Fresh(op).result = "none"
           /\ Done(op, result, c) \in RequestRecords /\ Done(op, result, c).op = op /\ Done(op, result, c).pc = "done"
           /\ Done(op, result, c).result = result /\ Done(op, result, c).command = c
  <1>1. <<>> \in Seq(LockRequests) /\ "none" \in Results
    BY DEF Results
  <1>2. Fresh(op) \in RequestRecords /\ Fresh(op).op = op /\ Fresh(op).pc = "new" /\ Fresh(op).result = "none"
    BY <1>1 DEF Fresh, RequestRecords
  <1> DEFINE rec == Done(op, result, c)
  <1>3. rec \in RequestRecords
    BY <1>2 DEF RequestRecords, Done
  <1>4. rec.op = op /\ rec.pc = "done" /\ rec.result = result /\ rec.command = c
    BY <1>2 DEF RequestRecords, Done
  <1> QED
    BY <1>2, <1>3, <1>4

LEMMA EndsWrites ==
    ASSUME TypeInv, NEW r \in Requests, NEW result \in Results, NEW c \in Requests \cup {Nothing}, Ends(r, result, c)
    PROVE  /\ Writes(r, Done(Op(r), result, c)) /\ Done(Op(r), result, c).pc = "done"
           /\ locks' = locks \ Held(r)
  <1>1. Op(r) \in Operations
    BY DEF TypeInv, RequestRecords, Op
  <1>2. /\ Done(Op(r), result, c) \in RequestRecords /\ Done(Op(r), result, c).op = Op(r)
        /\ Done(Op(r), result, c).pc = "done"
    BY <1>1, FreshRecord
  <1>3. request' = [request EXCEPT ![r] = Done(Op(r), result, c)] /\ locks' = locks \ Held(r)
    BY DEF Ends, Answered, Done
  <1> QED
    BY <1>2, <1>3 DEF Writes

\* A step that neither answers nor writes: the round, what is still to lock, what was seen.
Continues(r, rec) ==
    /\ Writes(r, rec) /\ UNCHANGED rows
    /\ rec.result = request[r].result /\ rec.command = request[r].command

LEMMA BeginsWrites ==
    ASSUME TypeInv, NEW r \in Requests, Begins(r)
    PROVE  \E rec : Continues(r, rec) /\ rec.pc = "first" /\ rec.todo = FirstLocks(Op(r))
  <1>1. PICK seen \in Users \cup {Nobody} :
           request' = [request EXCEPT ![r].pc = "first", ![r].todo = FirstLocks(Op(r)), ![r].seen = seen]
    BY DEF Begins
  <1>2. request[r] \in RequestRecords /\ Op(r) \in Operations
    BY DEF TypeInv, RequestRecords, Op
  <1> DEFINE rec == [request[r] EXCEPT !.pc = "first", !.todo = FirstLocks(Op(r)), !.seen = seen]
  <1>3. request' = [request EXCEPT ![r] = rec]
    BY <1>1
  <1>4. FirstLocks(Op(r)) \in Seq(LockRequests)
    BY <1>2, FirstLocksAsked
  <1>5. rec \in RequestRecords
    BY <1>2, <1>4 DEF RequestRecords, Rounds
  <1>6. /\ rec.op = Op(r) /\ rec.pc = "first" /\ rec.todo = FirstLocks(Op(r))
        /\ rec.result = request[r].result /\ rec.command = request[r].command
    BY <1>2 DEF RequestRecords, Op
  <1> HIDE DEF rec
  <1> QED
    BY <1>3, <1>5, <1>6 DEF Continues, Writes, Begins

LEMMA SelectsWrites ==
    ASSUME TypeInv, NEW r \in Requests, Selects(r)
    PROVE  \E rec : Continues(r, rec) /\ rec.pc = request[r].pc /\ rec.todo = request[r].todo
  <1>1. PICK m \in Users : request' = [request EXCEPT ![r].seen = m]
    BY DEF Selects
  <1>2. request[r] \in RequestRecords
    BY DEF TypeInv
  <1> DEFINE rec == [request[r] EXCEPT !.seen = m]
  <1>3. request' = [request EXCEPT ![r] = rec]
    BY <1>1
  <1>4. rec \in RequestRecords
    BY <1>2 DEF RequestRecords
  <1>5. /\ rec.op = Op(r) /\ rec.pc = request[r].pc /\ rec.todo = request[r].todo
        /\ rec.result = request[r].result /\ rec.command = request[r].command
    BY <1>2 DEF RequestRecords, Op
  <1> HIDE DEF rec
  <1> QED
    BY <1>3, <1>4, <1>5 DEF Continues, Writes, Selects

LEMMA GrantsWrites ==
    ASSUME TypeInv, NEW r \in Requests, Grants(r)
    PROVE  \E rec : Continues(r, rec) /\ rec.pc = request[r].pc /\ rec.todo = Tail(request[r].todo)
  <1>1. /\ request' = [request EXCEPT ![r].todo = Tail(@)] /\ request[r].todo # <<>>
    BY DEF Grants
  <1>2. request[r] \in RequestRecords /\ request[r].todo \in Seq(LockRequests)
    BY DEF TypeInv, RequestRecords
  <1> DEFINE rec == [request[r] EXCEPT !.todo = Tail(request[r].todo)]
  <1>3. request' = [request EXCEPT ![r] = rec]
    BY <1>1, <1>2 DEF TypeInv
  <1>4. Tail(request[r].todo) \in Seq(LockRequests)
    BY <1>1, <1>2
  <1>5. rec \in RequestRecords
    BY <1>2, <1>4 DEF RequestRecords
  <1>6. /\ rec.op = Op(r) /\ rec.pc = request[r].pc /\ rec.todo = Tail(request[r].todo)
        /\ rec.result = request[r].result /\ rec.command = request[r].command
    BY <1>2 DEF RequestRecords, Op
  <1> HIDE DEF rec
  <1> QED
    BY <1>3, <1>5, <1>6 DEF Continues, Writes, Grants

LEMMA ProceedsWrites ==
    ASSUME TypeInv, NEW r \in Requests, NEW round \in Rounds, NEW todo \in Seq(LockRequests), Proceed(r, round, todo)
    PROVE  \E rec : Continues(r, rec) /\ rec.pc = round /\ rec.todo = todo
  <1>1. request' = [request EXCEPT ![r].pc = round, ![r].todo = todo] /\ UNCHANGED rows
    BY DEF Proceed, rows
  <1>2. request[r] \in RequestRecords
    BY DEF TypeInv
  <1> DEFINE rec == [request[r] EXCEPT !.pc = round, !.todo = todo]
  <1>3. request' = [request EXCEPT ![r] = rec]
    BY <1>1
  <1>4. rec \in RequestRecords
    BY <1>2 DEF RequestRecords
  <1>5. /\ rec.op = Op(r) /\ rec.pc = round /\ rec.todo = todo
        /\ rec.result = request[r].result /\ rec.command = request[r].command
    BY <1>2 DEF RequestRecords, Op
  <1> HIDE DEF rec
  <1> QED
    BY <1>1, <1>3, <1>4, <1>5 DEF Continues, Writes

-----------------------------------------------------------------------------
(* What a commit does.                                                     *)

Creates(r) ==
    LET d == Op(r).device IN
    /\ HasLocks(r, "create_device", "third")
    /\ device' = [device EXCEPT ![d] = [project |-> Op(r).project, lifecycle |-> "active", connection |-> "unknown"]]
    /\ events' = [events EXCEPT ![d] = Append(@, <<Op(r).project, "absent", "active">>)]
    /\ UNCHANGED <<manager, commands>>

Changes(r) ==
    LET d == Op(r).device IN
    /\ HasLocks(r, "update_device", "third") /\ Op(r).to # "same"
    /\ \E row \in DeviceRows :
          /\ device' = [device EXCEPT ![d] = row]
          /\ row.project = device[d].project /\ row.lifecycle = Op(r).to /\ row.connection = device[d].connection
    /\ events' = [events EXCEPT ![d] = Append(@, <<device[d].project, device[d].lifecycle, Op(r).to>>)]
    /\ UNCHANGED <<manager, commands>>

Reports(r) ==
    LET d == Op(r).device IN
    /\ HasLocks(r, "connection", "first")
    /\ \E row \in DeviceRows :
          device' = [device EXCEPT ![d] = row] /\ row.project = device[d].project /\ row.lifecycle = device[d].lifecycle
    /\ UNCHANGED <<manager, events, commands>>

Transfers(r) ==
    /\ HasLocks(r, "transfer", "first")
    /\ manager' = [manager EXCEPT ![Op(r).project] = Op(r).target]
    /\ UNCHANGED <<device, events, commands>>

Issued(r) ==
    [id |-> r, project |-> Op(r).project, device |-> Op(r).device, key |-> Op(r).key, action |-> Op(r).action,
     status |-> "queued"]

Issues(r) ==
    /\ HasLocks(r, "create_command", "third") /\ CommandsOf(Op(r)) = {}
    /\ commands' = commands \cup {Issued(r)}
    /\ UNCHANGED <<manager, device, events>>

\* The same Command but for its status.
SameCommand(b, c) ==
    b.id = c.id /\ b.project = c.project /\ b.device = c.device /\ b.key = c.key /\ b.action = c.action

Cancels(r) ==
    /\ \E new \in [commands -> CommandRows] :
          commands' = {new[c] : c \in commands} /\ \A c \in commands : SameCommand(new[c], c)
    /\ UNCHANGED <<manager, device, events>>

LEMMA CommitEffects ==
    ASSUME TypeInv, NEW r \in Requests, Commit(r)
    PROVE  /\ Creates(r) \/ Changes(r) \/ Reports(r) \/ Transfers(r) \/ Issues(r) \/ Cancels(r) \/ UNCHANGED rows
           /\ \/ Ends(r, "ok", Nothing)
              \/ Issues(r) /\ Ends(r, "created", r)
           /\ request[r].pc \in Rounds
  <1>0. Op(r) \in Operations /\ request[r] \in RequestRecords /\ device \in [Devices -> DeviceRows]
    BY DEF TypeInv, RequestRecords, Op
  <1>a. request[r].pc \in Rounds
    BY DEF Commit, CommitDevice, CommitUpdate, CommitCancel, CommitConnection, CommitCommand, CommitTransfer, HasLocks, Rounds
  <1>1. CASE CommitDevice(r)
    BY <1>a, <1>1 DEF CommitDevice, Creates
  <1>2. CASE CommitUpdate(r)
    <2>1. CASE Op(r).to = "same"
      BY <1>a, <1>2, <2>1 DEF CommitUpdate, rows
    <2>2. CASE Op(r).to # "same"
      <3> DEFINE d == Op(r).device
                 row == [device[d] EXCEPT !.lifecycle = Op(r).to]
      <3>1. /\ HasLocks(r, "update_device", "third") /\ Ends(r, "ok", Nothing)
            /\ device' = [device EXCEPT ![d] = row]
            /\ events' = [events EXCEPT ![d] = Append(@, <<device[d].project, device[d].lifecycle, Op(r).to>>)]
            /\ UNCHANGED <<manager, commands>>
        BY <1>2, <2>2 DEF CommitUpdate
      <3>2. d \in Devices /\ Op(r).to \in Lifecycles
        BY <1>0, <2>2, <3>1, OperationTypes DEF HasLocks
      <3>3. device[d] \in DeviceRows
        BY <1>0, <3>2
      <3>4. /\ row \in DeviceRows /\ row.project = device[d].project /\ row.lifecycle = Op(r).to
            /\ row.connection = device[d].connection
        BY <3>2, <3>3 DEF DeviceRows
      <3> HIDE DEF row
      <3> QED
        BY <1>a, <2>2, <3>1, <3>4 DEF Changes
    <2> QED
      BY <2>1, <2>2
  <1>3. CASE CommitConnection(r)
    <2> DEFINE d == Op(r).device
               row == [device[d] EXCEPT !.connection = Op(r).to]
    <2>1. /\ HasLocks(r, "connection", "first") /\ Ends(r, "ok", Nothing)
          /\ device' = [device EXCEPT ![d] = row] /\ UNCHANGED <<manager, events, commands>>
      BY <1>3 DEF CommitConnection
    <2>2. d \in Devices /\ Op(r).to \in {"online", "offline"}
      BY <1>0, <2>1, OperationTypes DEF HasLocks
    <2>3. device[d] \in DeviceRows
      BY <1>0, <2>2
    <2>4. row \in DeviceRows /\ row.project = device[d].project /\ row.lifecycle = device[d].lifecycle
      BY <2>2, <2>3 DEF DeviceRows
    <2> HIDE DEF row
    <2> QED
      BY <1>a, <2>1, <2>4 DEF Reports
  <1>4. CASE CommitTransfer(r) /\ manager' # manager
    BY <1>a, <1>4 DEF CommitTransfer, Transfers, Fails, rows
  <1>5. CASE CommitCommand(r) /\ CommandsOf(Op(r)) = {}
    BY <1>a, <1>5 DEF CommitCommand, Issues, Issued
  <1>6. CASE CommitCancel(r)
    <2> DEFINE New(c) == IF c \in CommandsOf(Op(r)) THEN [c EXCEPT !.status = "cancelled"] ELSE c
               new == [c \in commands |-> New(c)]
    <2>1. ASSUME NEW c \in commands PROVE New(c) \in CommandRows /\ SameCommand(New(c), c)
      <3>1. c \in CommandRows
        BY DEF TypeInv
      <3> QED
        BY <3>1 DEF CommandRows, SameCommand
    <2>2. commands' = {New(c) : c \in commands} /\ Ends(r, "ok", Nothing) /\ UNCHANGED <<manager, device, events>>
      BY <1>6 DEF CommitCancel
    <2> HIDE DEF New
    <2>3. new \in [commands -> CommandRows] /\ \A c \in commands : new[c] = New(c) /\ SameCommand(new[c], c)
      BY <2>1
    <2>4. commands' = {new[c] : c \in commands}
      BY <2>2, <2>3
    <2> HIDE DEF new
    <2> QED
      BY <1>a, <2>2, <2>3, <2>4 DEF Cancels
  <1> QED
    BY <1>1, <1>2, <1>3, <1>4, <1>5, <1>6 DEF Commit


-----------------------------------------------------------------------------
(* Types.                                                                  *)

TablesTyped ==
    /\ manager \in [Projects -> Users]
    /\ device \in [Devices -> DeviceRows]
    /\ \A d \in Devices : device[d].lifecycle # "absent" => device[d].project \in Projects
    /\ events \in [Devices -> Seq(EventRows)]
    /\ commands \subseteq CommandRows

LEMMA CommitTypes ==
    ASSUME BaseInv, NEW r \in Requests, Commit(r)
    PROVE  /\ TablesTyped'
           /\ \A d \in Devices : device[d].lifecycle # "absent" => device'[d].lifecycle # "absent"
  <1>0. Op(r) \in Operations /\ TablesTyped
    BY DEF BaseInv, TypeInv, RequestRecords, Op, TablesTyped
  <1>1. CASE Creates(r)
    <2> DEFINE d == Op(r).device
               row == [project |-> Op(r).project, lifecycle |-> "active", connection |-> "unknown"]
               event == <<Op(r).project, "absent", "active">>
    <2>1. d \in Devices /\ Op(r).project \in Projects
      BY <1>0, <1>1, OperationTypes DEF Creates, HasLocks
    <2>2. row \in DeviceRows /\ row.project \in Projects /\ event \in EventRows /\ row.lifecycle = "active"
      BY <2>1 DEF DeviceRows, Lifecycles, EventRows
    <2>3. /\ device' = [device EXCEPT ![d] = row] /\ events' = [events EXCEPT ![d] = Append(@, event)]
          /\ UNCHANGED <<manager, commands>>
      BY <1>1 DEF Creates
    <2> HIDE DEF row, event
    <2> QED
      BY <1>0, <2>1, <2>2, <2>3 DEF TablesTyped
  <1>2. CASE Changes(r)
    <2> DEFINE d == Op(r).device
               event == <<device[d].project, device[d].lifecycle, Op(r).to>>
    <2>1. d \in Devices /\ Op(r).to \in Lifecycles /\ Op(r).kind = "update_device"
      BY <1>0, <1>2, OperationTypes DEF Changes, HasLocks
    <2>2. device[d].lifecycle # "absent" /\ device[d].lifecycle \in Lifecycles \cup {"absent"}
      BY <1>0, <1>2, <2>1 DEF Changes, HasLocks, BaseInv, VerdictInv, Verdict, canTransitionLifecycle, TablesTyped, DeviceRows
    <2>3. event \in EventRows
      BY <1>0, <2>1, <2>2 DEF TablesTyped, EventRows
    <2>4. PICK row \in DeviceRows : /\ device' = [device EXCEPT ![d] = row] /\ row.project = device[d].project
                                    /\ row.lifecycle = Op(r).to
      BY <1>2 DEF Changes
    <2>5. events' = [events EXCEPT ![d] = Append(@, event)] /\ UNCHANGED <<manager, commands>>
      BY <1>2 DEF Changes
    <2>6. Op(r).to # "absent"
      BY <2>1 DEF Lifecycles
    <2> HIDE DEF event
    <2> QED
      BY <1>0, <2>1, <2>2, <2>3, <2>4, <2>5, <2>6 DEF TablesTyped
  <1>3. CASE Reports(r)
    <2> DEFINE d == Op(r).device
    <2>1. d \in Devices
      BY <1>0, <1>3, OperationTypes DEF Reports, HasLocks
    <2>2. PICK row \in DeviceRows : /\ device' = [device EXCEPT ![d] = row] /\ row.project = device[d].project
                                    /\ row.lifecycle = device[d].lifecycle
      BY <1>3 DEF Reports
    <2> QED
      BY <1>0, <1>3, <2>1, <2>2 DEF TablesTyped, Reports
  <1>4. CASE Transfers(r)
    <2>1. Op(r).project \in Projects /\ Op(r).target \in Users
      BY <1>0, <1>4, OperationTypes DEF Transfers, HasLocks
    <2> QED
      BY <1>0, <1>4, <2>1 DEF TablesTyped, Transfers
  <1>5. CASE Issues(r)
    <2>1. /\ Op(r).project \in Projects /\ Op(r).device \in Devices /\ Op(r).key \in IdempotencyKeys
          /\ Op(r).action \in Actions
      BY <1>0, <1>5, OperationTypes DEF Issues, HasLocks
    <2>2. Issued(r) \in CommandRows
      BY <2>1 DEF Issued, CommandRows
    <2> QED
      BY <1>0, <1>5, <2>2 DEF TablesTyped, Issues
  <1>6. CASE Cancels(r)
    BY <1>0, <1>6 DEF TablesTyped, Cancels
  <1>7. CASE UNCHANGED rows
    BY <1>0, <1>7 DEF TablesTyped, rows
  <1> QED
    BY <1>1, <1>2, <1>3, <1>4, <1>5, <1>6, <1>7, CommitEffects DEF BaseInv

\* The end of a transaction, with or without a commit.
LEMMA EndOfRequest ==
    ASSUME BaseInv, NEW r \in Requests, Failed(r) \/ Replays(r) \/ Commit(r)
    PROVE  /\ locks' = locks \ Held(r)
           /\ \E rec : Writes(r, rec) /\ rec.pc = "done"
  <1>0. Op(r) \in Operations /\ TypeInv
    BY DEF BaseInv, TypeInv, RequestRecords, Op
  <1>1. ASSUME NEW result \in Results, NEW c \in Requests \cup {Nothing}, Ends(r, result, c)
        PROVE  locks' = locks \ Held(r) /\ \E rec : Writes(r, rec) /\ rec.pc = "done"
    BY <1>0, <1>1, EndsWrites
  <1>2. CASE Failed(r)
    BY <1>1, <1>2 DEF Failed, Fails
  <1>3. CASE Replays(r)
    <2>1. PICK c \in CommandsOf(Op(r)) : Ends(r, "replayed", c.id)
      BY <1>3 DEF Replays
    <2>2. c.id \in Requests
      BY <1>0 DEF CommandsOf, TypeInv, CommandRows
    <2> QED
      BY <1>1, <2>1, <2>2 DEF Results
  <1>4. CASE Commit(r)
    <2>1. Ends(r, "ok", Nothing) \/ Ends(r, "created", r)
      BY <1>0, <1>4, CommitEffects
    <2> QED
      BY <1>1, <2>1 DEF Results
  <1> QED
    BY <1>2, <1>3, <1>4

\* A transaction that goes on.
LEMMA GoesOn ==
    ASSUME BaseInv, NEW r \in Requests, Begins(r) \/ Selects(r) \/ Grants(r) \/ Proceeds(r)
    PROVE  \E rec : Continues(r, rec)
  <1>0. TypeInv
    BY DEF BaseInv
  <1>1. CASE Proceeds(r)
    <2>1. PICK round \in {"second", "third"}, todo \in Seq(LockRequests) : Proceed(r, round, todo)
      BY <1>1 DEF Proceeds
    <2>2. round \in Rounds
      BY DEF Rounds
    <2> QED
      BY <1>0, <2>1, <2>2, ProceedsWrites
  <1> QED
    BY <1>0, <1>1, BeginsWrites, SelectsWrites, GrantsWrites

LEMMA LocksTyped ==
    ASSUME BaseInv, NEW r \in Requests,
           Failed(r) \/ Replays(r) \/ Begins(r) \/ Selects(r) \/ Grants(r) \/ Proceeds(r) \/ Commit(r)
    PROVE  locks' \subseteq [row : Rows, mode : Modes, by : Requests]
  <1>0. locks \subseteq [row : Rows, mode : Modes, by : Requests] /\ request[r].todo \in Seq(LockRequests)
    BY DEF BaseInv, TypeInv, RequestRecords
  <1>1. CASE Grants(r)
    <2>1. NextLock(r) \in LockRequests /\ locks' = locks \cup {[row |-> NextLock(r).row, mode |-> NextLock(r).mode, by |-> r]}
      BY <1>0, <1>1 DEF Grants, NextLock
    <2> QED
      BY <1>0, <2>1 DEF LockRequests
  <1>2. CASE Begins(r) \/ Selects(r) \/ Proceeds(r)
    BY <1>0, <1>2 DEF Begins, Selects, Proceeds, Proceed
  <1>3. CASE Failed(r) \/ Replays(r) \/ Commit(r)
    BY <1>0, <1>3, EndOfRequest
  <1> QED
    BY <1>1, <1>2, <1>3

LEMMA TypeStep ==
    ASSUME BaseInv, [Next]_vars
    PROVE  TypeInv'
  <1>1. ASSUME NEW r \in Requests, RequestStep(r) \/ DeadlockVictim(r) \/ Abort(r) PROVE TypeInv'
    <2>1. Failed(r) \/ Replays(r) \/ Begins(r) \/ Selects(r) \/ Grants(r) \/ Proceeds(r) \/ Commit(r)
      BY <1>1, StepCases
    <2>2. locks' \subseteq [row : Rows, mode : Modes, by : Requests]
      BY <2>1, LocksTyped
    <2>3. request' \in [Requests -> RequestRecords]
      BY <2>1, EndOfRequest, GoesOn, OwnRecord DEF BaseInv, Continues
    <2>4. TablesTyped'
      <3>1. CASE Commit(r)
        BY <3>1, CommitTypes
      <3>2. CASE Failed(r) \/ Replays(r) \/ Begins(r) \/ Selects(r) \/ Grants(r) \/ Proceeds(r)
        <4>1. UNCHANGED rows
          BY <3>2 DEF Failed, Fails, Replays, Begins, Selects, Grants, Proceeds, Proceed, rows
        <4> QED
          BY <4>1 DEF rows, BaseInv, TypeInv, TablesTyped
      <3> QED
        BY <2>1, <3>1, <3>2
    <2> QED
      BY <2>2, <2>3, <2>4 DEF TypeInv, TablesTyped
  <1>2. CASE UNCHANGED vars
    BY <1>2 DEF vars, BaseInv, TypeInv
  <1> QED
    BY <1>1, <1>2 DEF Next

-----------------------------------------------------------------------------
(* Locks.                                                                  *)

LEMMA GrantedLock ==
    ASSUME BaseInv, NEW r \in Requests, Grants(r)
    PROVE  LockInv'
  <1> DEFINE todo == request[r].todo
             l == NextLock(r)
             k == [row |-> l.row, mode |-> l.mode, by |-> r]
  <1>0. PICK rec : Continues(r, rec) /\ rec.pc = request[r].pc /\ rec.todo = Tail(todo)
    BY GrantsWrites DEF BaseInv
  <1>1. /\ request'[r] = rec /\ Op(r)' = Op(r) /\ \A s \in Requests \ {r} : request'[s] = request[s]
    BY <1>0, OwnRecord DEF BaseInv, Continues
  <1>2. /\ locks' = locks \cup {k} /\ device' = device /\ request[r].pc \in Rounds
        /\ todo \in Seq(LockRequests) /\ todo # <<>> /\ Blockers(r, l) = {} /\ l = Head(todo)
        /\ l.row \in Devices => device[l.row].lifecycle # "absent"
    BY DEF Grants, BaseInv, TypeInv, RequestRecords, rows, NextLock, Missing
  <1>3. l \in LockRequests
    BY <1>2
  <1>4. \A h \in locks : h.row = l.row /\ (\/ "update" \in {h.mode, l.mode} \/ h.mode = "advisory") => h.by = r
    BY <1>2 DEF Blockers, LockedBy, Conflict
  <1>5. k.row = l.row /\ k.mode = l.mode /\ k.by = r
    OBVIOUS
  <1>a. LockInv /\ \A h \in locks : h.by \in Requests
    BY DEF BaseInv, TypeInv
  <1>6. ASSUME NEW s \in Requests, NEW row, NEW mode, Asks(Op(s)', request'[s].pc, row, mode)
        PROVE  Pending(request'[s].todo, row, mode) \/ [row |-> row, mode |-> mode, by |-> s] \in locks'
    <2>1. CASE s = r
      <3>1. Pending(todo, row, mode) \/ [row |-> row, mode |-> mode, by |-> r] \in locks
        BY <1>0, <1>1, <1>a, <1>6, <2>1 DEF LockInv, HeldBy
      <3>2. CASE Pending(todo, row, mode)
        <4>1. l = Lock(row, mode) \/ Pending(Tail(todo), row, mode)
          BY <1>2, <3>2, TailPending
        <4> HIDE DEF l
        <4>2. l = Lock(row, mode) => k = [row |-> row, mode |-> mode, by |-> r]
          BY DEF Lock
        <4> QED
          BY <1>0, <1>1, <1>2, <2>1, <4>1, <4>2
      <3> QED
        BY <1>2, <2>1, <3>1, <3>2
    <2>2. CASE s # r
      BY <1>1, <1>2, <1>a, <1>6, <2>2 DEF LockInv, HeldBy, Op
    <2> QED
      BY <2>1, <2>2
  <1>7. ASSUME NEW s \in Requests, NEW row, NEW mode, Owns(Op(s)', request'[s].pc, row, mode)
        PROVE  [row |-> row, mode |-> mode, by |-> s] \in locks'
    BY <1>0, <1>1, <1>2, <1>a, <1>7 DEF LockInv, HeldBy, Op
  <1> HIDE DEF k, l
  <1>8. \A g, h \in locks' : g.row = h.row /\ (g.mode = "update" \/ (g.mode = "advisory" /\ h.mode = "advisory")) => g.by = h.by
    BY <1>2, <1>4, <1>5, <1>a DEF LockInv
  <1>9. \A g \in locks' : g.row \in Devices => device'[g.row].lifecycle # "absent"
    BY <1>2, <1>5, <1>a DEF LockInv
  <1>10. \A g \in locks' : request'[g.by].pc \in Rounds
    BY <1>0, <1>1, <1>2, <1>5, <1>a DEF LockInv
  <1> QED
    BY <1>6, <1>7, <1>8, <1>9, <1>10 DEF LockInv, HeldBy

\* A step that asks for locks, and grants none.
LEMMA LocksKept ==
    ASSUME BaseInv, NEW r \in Requests, NEW rec, Writes(r, rec), locks' = locks, device' = device,
           rec.pc \in Rounds,
           \A row, mode : Asks(Op(r), rec.pc, row, mode) => Pending(rec.todo, row, mode) \/ HeldBy(r, row, mode),
           \A row, mode : Owns(Op(r), rec.pc, row, mode) => HeldBy(r, row, mode)
    PROVE  LockInv'
  <1>1. /\ request'[r] = rec /\ Op(r)' = Op(r) /\ \A s \in Requests \ {r} : request'[s] = request[s]
    BY OwnRecord DEF BaseInv
  <1>2. LockInv /\ \A k \in locks : k.by \in Requests
    BY DEF BaseInv, TypeInv
  <1>3. \A s \in Requests \ {r} : Op(s)' = Op(s)
    BY <1>1 DEF Op
  <1>4. \A k \in locks' : request'[k.by].pc \in Rounds
    BY <1>1, <1>2 DEF LockInv
  <1>5. ASSUME NEW s \in Requests, NEW row, NEW mode
        PROVE  /\ Asks(Op(s)', request'[s].pc, row, mode) =>
                    Pending(request'[s].todo, row, mode) \/ [row |-> row, mode |-> mode, by |-> s] \in locks'
               /\ Owns(Op(s)', request'[s].pc, row, mode) => [row |-> row, mode |-> mode, by |-> s] \in locks'
    <2>1. CASE s = r
      BY <1>1, <2>1 DEF HeldBy
    <2>2. CASE s # r
      BY <1>1, <1>2, <1>3, <2>2 DEF HeldBy, LockInv
    <2> QED
      BY <2>1, <2>2
  <1> QED
    BY <1>2, <1>4, <1>5 DEF LockInv, HeldBy

LEMMA LocksReleased ==
    ASSUME BaseInv, NEW r \in Requests, Failed(r) \/ Replays(r) \/ Commit(r)
    PROVE  LockInv'
  <1>1. PICK rec : Writes(r, rec) /\ rec.pc = "done" /\ locks' = locks \ Held(r)
    BY EndOfRequest
  <1>2. /\ request'[r] = rec /\ Op(r)' = Op(r) /\ \A s \in Requests \ {r} : request'[s] = request[s] /\ Op(s)' = Op(s)
    BY <1>1, OwnRecord DEF BaseInv, Op
  <1>3. LockInv /\ \A k \in locks : k.by \in Requests
    BY DEF BaseInv, TypeInv
  <1>4. \A d \in Devices : device[d].lifecycle # "absent" => device'[d].lifecycle # "absent"
    <2>1. CASE Commit(r)
      BY <2>1, CommitTypes
    <2>2. CASE Failed(r) \/ Replays(r)
      BY <2>2 DEF Failed, Fails, Replays, rows
    <2> QED
      BY <2>1, <2>2
  <1>5. \A k \in locks' : k \in locks /\ k.by # r
    BY <1>1 DEF Held
  <1>6. ASSUME NEW s \in Requests, NEW row, NEW mode
        PROVE  /\ Asks(Op(s)', request'[s].pc, row, mode) =>
                    Pending(request'[s].todo, row, mode) \/ [row |-> row, mode |-> mode, by |-> s] \in locks'
               /\ Owns(Op(s)', request'[s].pc, row, mode) => [row |-> row, mode |-> mode, by |-> s] \in locks'
    <2>1. CASE s = r
      <3>1. request'[s].pc = "done"
        BY <1>1, <1>2, <2>1
      <3> QED
        BY <3>1 DEF Asks, Owns
    <2>2. CASE s # r
      <3>1. [row |-> row, mode |-> mode, by |-> s] \notin Held(r)
        BY <2>2 DEF Held
      <3> QED
        BY <1>1, <1>2, <1>3, <2>2, <3>1 DEF HeldBy, LockInv
    <2> QED
      BY <2>1, <2>2
  <1>7. \A k \in locks' : request'[k.by].pc \in Rounds
    BY <1>2, <1>3, <1>5 DEF LockInv
  <1>8. \A k \in locks' : k.row \in Devices => device'[k.row].lifecycle # "absent"
    BY <1>3, <1>4, <1>5 DEF LockInv
  <1>9. \A k, l \in locks' : k.row = l.row /\ (k.mode = "update" \/ (k.mode = "advisory" /\ l.mode = "advisory")) => k.by = l.by
    BY <1>3, <1>5 DEF LockInv
  <1> QED
    BY <1>6, <1>7, <1>8, <1>9 DEF LockInv, HeldBy

LEMMA LockStep ==
    ASSUME BaseInv, [Next]_vars
    PROVE  LockInv'
  <1>0. TypeInv /\ LockInv
    BY DEF BaseInv
  <1>1. ASSUME NEW r \in Requests, RequestStep(r) \/ DeadlockVictim(r) \/ Abort(r) PROVE LockInv'
    <2>0. Op(r) \in Operations
      BY <1>0 DEF TypeInv, RequestRecords, Op
    <2>1. CASE Begins(r)
      <3>1. PICK rec : Continues(r, rec) /\ rec.pc = "first" /\ rec.todo = FirstLocks(Op(r))
        BY <1>0, <2>1, BeginsWrites
      <3>2. \A row, mode : Asks(Op(r), rec.pc, row, mode) => Pending(rec.todo, row, mode)
        BY <1>0, <2>0, <3>1, FirstLocksAsked
      <3>3. \A row, mode : ~Owns(Op(r), rec.pc, row, mode)
        BY <3>1 DEF Owns
      <3>4. Writes(r, rec) /\ locks' = locks /\ device' = device /\ rec.pc \in Rounds
        BY <2>1, <3>1 DEF Begins, rows, Continues, Rounds
      <3> QED
        BY <3>2, <3>3, <3>4, LocksKept
    <2>2. CASE Selects(r)
      <3>1. PICK rec : Continues(r, rec) /\ rec.pc = request[r].pc /\ rec.todo = request[r].todo
        BY <1>0, <2>2, SelectsWrites
      <3>2. /\ \A row, mode : Asks(Op(r), rec.pc, row, mode) => Pending(rec.todo, row, mode) \/ HeldBy(r, row, mode)
            /\ \A row, mode : Owns(Op(r), rec.pc, row, mode) => HeldBy(r, row, mode)
        BY <1>0, <3>1 DEF LockInv
      <3>3. Writes(r, rec) /\ locks' = locks /\ device' = device /\ rec.pc \in Rounds
        BY <2>2, <3>1 DEF Selects, rows, Continues
      <3> QED
        BY <3>2, <3>3, LocksKept
    <2>3. CASE Proceeds(r)
      <3>1. PICK round \in {"second", "third"}, todo \in Seq(LockRequests) :
               /\ Proceed(r, round, todo)
               /\ Op(r).kind = "create_command" =>
                     \/ request[r].pc = "first" /\ round = "second" /\ Pending(todo, Op(r).device, "update")
                     \/ request[r].pc = "second" /\ round = "third"
        BY <2>3 DEF Proceeds
      <3>2. round \in Rounds
        BY DEF Rounds
      <3>3. PICK rec : Continues(r, rec) /\ rec.pc = round /\ rec.todo = todo
        BY <1>0, <3>1, <3>2, ProceedsWrites
      <3>4. \A row, mode : Asks(Op(r), request[r].pc, row, mode) \/ Owns(Op(r), request[r].pc, row, mode) =>
               HeldBy(r, row, mode)
        BY <1>0, <2>3, LocksAtCheck DEF Proceeds
      <3>5. \A row, mode : Asks(Op(r), round, row, mode) => Pending(todo, row, mode)
        BY <3>1 DEF Asks
      <3>6. request[r].pc \in Rounds
        BY <2>3 DEF Proceeds
      <3>7. ASSUME NEW row, NEW mode, Owns(Op(r), round, row, mode) PROVE HeldBy(r, row, mode)
        <4>1. Asks(Op(r), request[r].pc, row, mode) \/ Owns(Op(r), request[r].pc, row, mode)
          BY <3>1, <3>6, <3>7 DEF Owns, Asks, Rounds
        <4> QED
          BY <3>4, <4>1
      <3>8. Writes(r, rec) /\ locks' = locks /\ device' = device
        BY <3>1, <3>3 DEF Proceed, Continues
      <3> QED
        BY <3>2, <3>3, <3>5, <3>7, <3>8, LocksKept
    <2> QED
      BY <1>1, <2>1, <2>2, <2>3, GrantedLock, LocksReleased, StepCases
  <1>2. CASE UNCHANGED vars
    BY <1>0, <1>2 DEF vars, LockInv, HeldBy, Op
  <1> QED
    BY <1>1, <1>2 DEF Next

-----------------------------------------------------------------------------
(* What was checked stays true until the commit.                           *)

LEMMA OneHolder ==
    ASSUME LockInv, NEW r \in Requests, NEW s \in Requests, NEW row, NEW mode, NEW other,
           mode = "update" \/ (mode = "advisory" /\ other = "advisory"),
           HeldBy(r, row, mode), HeldBy(s, row, other)
    PROVE  r = s
  BY DEF LockInv, HeldBy

\* Who changes a Device holds its lock, or the lock of the identity it creates.
LEMMA DeviceChange ==
    ASSUME BaseInv, NEW r \in Requests, Commit(r), NEW d \in Devices, device'[d] # device[d]
    PROVE  /\ Op(r).device = d
           /\ \/ Creates(r) /\ HeldBy(r, Identity(d), "advisory")
              \/ Changes(r) /\ HeldBy(r, d, "update")
              \/ Reports(r) /\ HeldBy(r, d, "no_key_update")
  <1>0. LockInv /\ device \in [Devices -> DeviceRows]
    BY DEF BaseInv, TypeInv
  <1>1. Creates(r) \/ Changes(r) \/ Reports(r)
    <2>1. Creates(r) \/ Changes(r) \/ Reports(r) \/ Transfers(r) \/ Issues(r) \/ Cancels(r) \/ UNCHANGED rows
      BY CommitEffects DEF BaseInv
    <2> QED
      BY <2>1 DEF Transfers, Issues, Cancels, rows
  <1>2. Op(r).device = d
    BY <1>0, <1>1 DEF Creates, Changes, Reports
  <1>3. CASE Creates(r)
    <2>1. Owns(Op(r), request[r].pc, Identity(d), "advisory")
      BY <1>2, <1>3 DEF Creates, HasLocks, Owns, Asks
    <2> QED
      BY <1>0, <1>2, <1>3, <2>1 DEF LockInv
  <1>4. CASE Changes(r)
    <2>1. Owns(Op(r), request[r].pc, d, "update")
      BY <1>2, <1>4 DEF Changes, HasLocks, Owns, Asks
    <2> QED
      BY <1>0, <1>2, <1>4, <2>1 DEF LockInv
  <1>5. CASE Reports(r)
    <2>1. Asks(Op(r), request[r].pc, d, "no_key_update") /\ request[r].todo = <<>>
      BY <1>2, <1>5 DEF Reports, HasLocks, Asks
    <2>2. HeldBy(r, d, "no_key_update")
      BY <1>0, <2>1, LocksAtCheck
    <2> QED
      BY <1>2, <1>5, <2>2
  <1> QED
    BY <1>1, <1>3, <1>4, <1>5

\* A transfer, and the creation of a Command, hold the Project.
LEMMA ProjectChange ==
    ASSUME BaseInv, NEW r \in Requests, Commit(r), NEW p \in Projects,
           \/ manager'[p] # manager[p]
           \/ \E c \in commands' : c.project = p /\ \A b \in commands : ~SameCommand(c, b)
    PROVE  HeldBy(r, p, "update")
  <1>0. LockInv /\ manager \in [Projects -> Users] /\ commands \subseteq CommandRows
    BY DEF BaseInv, TypeInv
  <1>1. Transfers(r) \/ Issues(r)
    <2>1. Creates(r) \/ Changes(r) \/ Reports(r) \/ Transfers(r) \/ Issues(r) \/ Cancels(r) \/ UNCHANGED rows
      BY CommitEffects DEF BaseInv
    <2>2. \A b \in commands : SameCommand(b, b)
      BY DEF SameCommand
    <2> QED
      BY <2>1, <2>2 DEF Creates, Changes, Reports, Cancels, rows
  <1>2. CASE Transfers(r)
    <2>1. \A b \in commands : SameCommand(b, b)
      BY DEF SameCommand
    <2>2. Op(r).project = p
      BY <1>0, <1>2, <2>1 DEF Transfers
    <2>3. Asks(Op(r), request[r].pc, p, "update") /\ request[r].todo = <<>>
      BY <1>2, <2>2 DEF Transfers, HasLocks, Asks
    <2> QED
      BY <1>0, <2>3, LocksAtCheck
  <1>3. CASE Issues(r)
    <2>1. \A b \in commands : SameCommand(b, b)
      BY DEF SameCommand
    <2>2. Issued(r).project = p
      BY <1>3, <2>1 DEF Issues
    <2>3. Owns(Op(r), request[r].pc, p, "update")
      BY <1>3, <2>2 DEF Issues, Issued, HasLocks, Owns, Asks
    <2> QED
      BY <1>0, <2>3 DEF LockInv
  <1> QED
    BY <1>1, <1>2, <1>3

LEMMA VerdictKept ==
    ASSUME BaseInv, NEW r \in Requests, NEW s \in Requests, s # r, Commit(r), request'[s] = request[s]
    PROVE  Verdict(s, request[s].pc)'
  <1> DEFINE op == Op(s)
             d == op.device
             pc == request[s].pc
  <1>0. LockInv /\ op \in Operations /\ Op(s)' = op /\ device \in [Devices -> DeviceRows] /\ Verdict(s, pc)
    BY DEF BaseInv, TypeInv, RequestRecords, Op, VerdictInv
  <1>1. ASSUME op.kind = "create_device", pc = "third"
        PROVE  device'[d].lifecycle = "absent"
    <2>1. HeldBy(s, Identity(d), "advisory") /\ d \in Devices /\ device[d].lifecycle = "absent"
      BY <1>0, <1>1, OperationTypes DEF LockInv, Owns, Asks, Verdict
    <2>2. CASE device'[d] # device[d]
      <3>1. HeldBy(r, Identity(d), "advisory") \/ HeldBy(r, d, "update") \/ HeldBy(r, d, "no_key_update")
        BY <2>1, <2>2, DeviceChange
      <3>2. ~HeldBy(r, d, "update") /\ ~HeldBy(r, d, "no_key_update")
        BY <1>0, <2>1 DEF LockInv, HeldBy
      <3> QED
        BY <1>0, <2>1, <3>1, <3>2, OneHolder
    <2> QED
      BY <2>1, <2>2
  <1>2. ASSUME HeldBy(s, d, "update"), d \in Devices
        PROVE  device'[d] = device[d]
    <2>1. device[d].lifecycle # "absent"
      BY <1>0, <1>2 DEF LockInv, HeldBy
    <2>2. CASE device'[d] # device[d]
      <3>1. \/ Creates(r) /\ Op(r).device = d
            \/ HeldBy(r, d, "update") \/ HeldBy(r, d, "no_key_update")
        BY <1>2, <2>2, DeviceChange
      <3>2. ASSUME Creates(r), Op(r).device = d PROVE FALSE
        BY <2>1, <3>2 DEF Creates, HasLocks, BaseInv, VerdictInv, Verdict
      <3> QED
        BY <1>0, <1>2, <3>1, <3>2, OneHolder
    <2> QED
      BY <2>2
  <1>3. ASSUME op.kind = "update_device", pc = "third", op.to # "same"
        PROVE  canTransitionLifecycle(device[d].lifecycle, op.to)'
    <2>1. HeldBy(s, d, "update") /\ d \in Devices /\ canTransitionLifecycle(device[d].lifecycle, op.to)
      BY <1>0, <1>3, OperationTypes DEF LockInv, Owns, Asks, Verdict
    <2> QED
      BY <1>0, <1>2, <2>1 DEF canTransitionLifecycle
  <1>4. ASSUME op.kind = "create_command", pc \in {"second", "third"}
        PROVE  /\ op.user \in {Admin, Machine} \/ manager'[op.project] = op.user
               /\ {c \in commands' : c.project = op.project /\ c.key = op.key} = {}
    <2>1. /\ HeldBy(s, op.project, "update") /\ op.project \in Projects
          /\ op.user \in {Admin, Machine} \/ manager[op.project] = op.user
          /\ {c \in commands : c.project = op.project /\ c.key = op.key} = {}
      BY <1>0, <1>4, OperationTypes DEF LockInv, Owns, Asks, Verdict, CanAccessProject, CommandsOf
    <2>2. ~HeldBy(r, op.project, "update")
      BY <1>0, <2>1, OneHolder
    <2>3. /\ manager'[op.project] = manager[op.project]
          /\ \A c \in commands' : c.project = op.project => \E b \in commands : SameCommand(c, b)
      BY <2>1, <2>2, ProjectChange
    <2> QED
      BY <2>1, <2>3 DEF SameCommand
  <1>5. ASSUME op.kind = "create_command", pc = "third"
        PROVE  /\ device'[d].project = op.project /\ device'[d].lifecycle = "active"
               /\ DeliveryPolicy(op.action) = "online_only" => device'[d].connection = "online"
    <2>1. /\ HeldBy(s, d, "update") /\ d \in Devices
          /\ device[d].project = op.project /\ device[d].lifecycle = "active"
          /\ DeliveryPolicy(op.action) = "online_only" => device[d].connection = "online"
      BY <1>0, <1>5, OperationTypes DEF LockInv, Owns, Asks, Verdict
    <2> QED
      BY <1>2, <2>1
  <1>6. request'[s].pc = pc
    OBVIOUS
  <1> HIDE DEF pc, d
  <1> QED
    BY <1>0, <1>1, <1>3, <1>4, <1>5, <1>6 DEF Verdict, CanAccessProject, CommandsOf, pc, d

LEMMA VerdictStep ==
    ASSUME BaseInv, [Next]_vars
    PROVE  VerdictInv'
  <1>0. TypeInv /\ VerdictInv
    BY DEF BaseInv
  <1>1. ASSUME NEW r \in Requests, RequestStep(r) \/ DeadlockVictim(r) \/ Abort(r), NEW s \in Requests PROVE Verdict(s, request[s].pc)'
    <2>1. Failed(r) \/ Replays(r) \/ Begins(r) \/ Selects(r) \/ Grants(r) \/ Proceeds(r) \/ Commit(r)
      BY <1>1, StepCases
    <2>2. /\ Op(s)' = Op(s)
          /\ s # r => request'[s] = request[s]
      BY <2>1, EndOfRequest, GoesOn, OwnRecord DEF BaseInv, Continues, Op
    <2>3. ASSUME NEW pc, request'[s].pc = pc, UNCHANGED rows, Verdict(s, pc) PROVE Verdict(s, request[s].pc)'
      BY <2>2, <2>3 DEF Verdict, rows, CanAccessProject, CommandsOf
    <2>4. CASE s # r
      <3>1. CASE Commit(r)
        BY <2>2, <2>4, <3>1, VerdictKept
      <3>2. CASE ~Commit(r)
        <4>1. UNCHANGED rows
          BY <2>1, <3>2 DEF Failed, Fails, Replays, Begins, Selects, Grants, Proceeds, Proceed, rows
        <4> QED
          BY <1>0, <2>2, <2>3, <2>4, <4>1 DEF VerdictInv
      <3> QED
        BY <3>1, <3>2
    <2>5. CASE s = r
      <3>1. CASE Failed(r) \/ Replays(r) \/ Commit(r)
        <4>1. request'[r].pc = "done"
          BY <1>0, <3>1, EndOfRequest, OwnRecord
        <4> QED
          BY <2>5, <4>1 DEF Verdict
      <3>2. CASE Begins(r)
        <4>1. request'[r].pc = "first"
          BY <1>0, <3>2, BeginsWrites, OwnRecord DEF Continues
        <4> QED
          BY <2>5, <4>1 DEF Verdict
      <3>3. CASE Selects(r) \/ Grants(r)
        <4>1. request'[r].pc = request[r].pc /\ UNCHANGED rows
          BY <1>0, <3>3, SelectsWrites, GrantsWrites, OwnRecord DEF Continues
        <4> QED
          BY <1>0, <2>3, <2>5, <4>1 DEF VerdictInv
      <3>4. CASE Proceeds(r)
        <4>1. PICK round \in {"second", "third"}, todo \in Seq(LockRequests) : Proceed(r, round, todo) /\ Verdict(r, round)
          BY <3>4 DEF Proceeds
        <4>2. round \in Rounds
          BY DEF Rounds
        <4>3. request'[r].pc = round /\ UNCHANGED rows
          BY <1>0, <4>1, <4>2, ProceedsWrites, OwnRecord DEF Continues
        <4> QED
          BY <2>3, <2>5, <4>1, <4>3
      <3> QED
        BY <2>1, <3>1, <3>2, <3>3, <3>4
    <2> QED
      BY <2>4, <2>5
  <1>2. CASE UNCHANGED vars
    BY <1>0, <1>2 DEF vars, VerdictInv, Verdict, Op, CanAccessProject, CommandsOf
  <1> QED
    BY <1>1, <1>2 DEF Next, VerdictInv

LEMMA InitBase == Init => BaseInv
  <1> SUFFICES ASSUME Init PROVE BaseInv
    OBVIOUS
  <1>1. PICK scenario \in Scenarios : request = [r \in Requests |-> Fresh(scenario[r])]
    BY DEF Init
  <1>2. ASSUME NEW r \in Requests PROVE request[r] \in RequestRecords /\ request[r].pc = "new"
    <2>1. scenario[r] \in Operations
      BY IntakeAssumption
    <2>2. "none" \in Results
      BY DEF Results
    <2>3. Fresh(scenario[r]) \in RequestRecords /\ Fresh(scenario[r]).pc = "new"
      BY <2>1, <2>2, FreshRecord
    <2> QED
      BY <1>1, <2>3
  <1>3. request \in [Requests -> RequestRecords]
    BY <1>1, <1>2
  <1>4. ASSUME NEW d \in Devices
        PROVE  /\ device[d] \in DeviceRows
               /\ device[d].lifecycle # "absent" => device[d].project \in Projects
               /\ events[d] \in Seq(EventRows)
    <2>1. CASE d \in DOMAIN InitialDevices
      <3> DEFINE p == InitialDevices[d].project
                 c == InitialDevices[d].connection
                 e == <<p, "absent", "active">>
      <3>1. p \in Projects /\ c \in {"unknown", "online"}
        BY <2>1, IntakeAssumption
      <3>2. device[d] = [project |-> p, lifecycle |-> "active", connection |-> c] /\ events[d] = <<e>>
        BY <2>1 DEF Init
      <3>3. e \in EventRows
        BY <3>1 DEF EventRows, Lifecycles
      <3> HIDE DEF p, c, e
      <3> QED
        BY <3>1, <3>2, <3>3 DEF DeviceRows, Lifecycles
    <2>2. CASE d \notin DOMAIN InitialDevices
      <3>1. device[d] = [project |-> Nothing, lifecycle |-> "absent", connection |-> "unknown"] /\ events[d] = <<>>
        BY <2>2 DEF Init
      <3> QED
        BY <3>1 DEF DeviceRows
    <2> QED
      BY <2>1, <2>2
  <1>5. device = [d \in Devices |-> device[d]] /\ events = [d \in Devices |-> events[d]]
    BY DEF Init
  <1>6. device \in [Devices -> DeviceRows] /\ events \in [Devices -> Seq(EventRows)]
    BY <1>4, <1>5
  <1>7. /\ manager \in [Projects -> Users] /\ commands \subseteq CommandRows
        /\ locks \subseteq [row : Rows, mode : Modes, by : Requests] /\ locks = {}
    BY IntakeAssumption DEF Init
  <1>8. TypeInv
    BY <1>3, <1>4, <1>6, <1>7 DEF TypeInv
  <1>9. LockInv
    BY <1>2, <1>7 DEF LockInv, Asks, Owns
  <1>10. VerdictInv
    BY <1>2 DEF VerdictInv, Verdict
  <1> QED
    BY <1>8, <1>9, <1>10 DEF BaseInv

LEMMA BaseInvariant == Spec => []BaseInv
  <1>1. BaseInv /\ [Next]_vars => BaseInv'
    BY TypeStep, LockStep, VerdictStep DEF BaseInv
  <1> QED
    BY <1>1, InitBase, PTL DEF Spec

\* Every row, request and lock has its type, and whoever is answered has given its
\* locks back: commit, rollback and every error path of deviceservice and
\* commandservice end the transaction.
THEOREM IntakeTypeCorrect == Spec => []TypeOK
  <1>1. BaseInv => TypeOK
    BY DEF BaseInv, TypeInv, LockInv, TypeOK, RequestRecords, DeviceRows, CommandRows, Rounds, Op
  <1> QED
    BY <1>1, BaseInvariant, PTL

-----------------------------------------------------------------------------
(* Lifecycle Events.                                                       *)

Tells(ev, row) ==
    /\ ev = <<>> <=> row.lifecycle = "absent"
    /\ \A i \in 1 .. Len(ev) :
          /\ ev[i][1] = row.project
          /\ ev[i][2] = IF i = 1 THEN "absent" ELSE ev[i - 1][3]
          /\ i > 1 => canTransitionLifecycle(ev[i][2], ev[i][3])
          /\ i = Len(ev) => ev[i][3] = row.lifecycle

\* The Event of a change continues the story, for a new Device and for an old one.
LEMMA AppendTells ==
    ASSUME NEW ev \in Seq(EventRows), NEW old, NEW row, NEW e \in EventRows, Tells(ev, old),
           e[1] = row.project, e[2] = old.lifecycle, e[3] = row.lifecycle, row.lifecycle # "absent",
           \/ old.lifecycle = "absent"
           \/ row.project = old.project /\ canTransitionLifecycle(old.lifecycle, row.lifecycle)
    PROVE  Tells(Append(ev, e), row)
  <1> DEFINE new == Append(ev, e)
             n == Len(ev)
  <1>1. /\ new \in Seq(EventRows) /\ Len(new) = n + 1 /\ n \in Nat /\ new[n + 1] = e /\ new # <<>>
        /\ \A i \in 1 .. n : new[i] = ev[i]
    BY AppendProperties
  <1>2. ev = <<>> <=> n = 0
    BY EmptySeq
  <1> HIDE DEF new, n
  <1>3. /\ n = 0 <=> old.lifecycle = "absent"
        /\ n # 0 => ev[n][3] = old.lifecycle
    <2>1. n = Len(ev)
      BY DEF n
    <2>2. n # 0 => n \in 1 .. n
      BY <1>1
    <2> QED
      BY <1>2, <2>1, <2>2 DEF Tells
  <1>4. ASSUME NEW i \in 1 .. n + 1
        PROVE  /\ new[i][1] = row.project
               /\ new[i][2] = IF i = 1 THEN "absent" ELSE new[i - 1][3]
               /\ i > 1 => canTransitionLifecycle(new[i][2], new[i][3])
               /\ i = n + 1 => new[i][3] = row.lifecycle
    <2>1. CASE i = n + 1
      <3>1. new[i] = e
        BY <1>1, <2>1
      <3>2. CASE n = 0
        BY <1>1, <1>3, <2>1, <3>1, <3>2
      <3>3. CASE n # 0
        <4>1. i - 1 = n /\ i # 1 /\ n \in 1 .. n /\ new[n] = ev[n]
          BY <1>1, <2>1, <3>3
        <4>2. ev[n][3] = old.lifecycle /\ canTransitionLifecycle(old.lifecycle, row.lifecycle)
          BY <1>3, <3>3
        <4> QED
          BY <3>1, <4>1, <4>2
      <3> QED
        BY <3>2, <3>3
    <2>2. CASE i # n + 1
      <3>1. i \in 1 .. n /\ n # 0 /\ (i # 1 => i - 1 \in 1 .. n)
        BY <1>1, <2>2
      <3>2. new[i] = ev[i] /\ (i # 1 => new[i - 1] = ev[i - 1])
        BY <1>1, <3>1
      <3>3. /\ ev[i][1] = old.project
            /\ ev[i][2] = IF i = 1 THEN "absent" ELSE ev[i - 1][3]
            /\ i > 1 => canTransitionLifecycle(ev[i][2], ev[i][3])
        BY <3>1 DEF Tells, n
      <3>4. row.project = old.project
        BY <1>3, <3>1
      <3> QED
        BY <2>2, <3>2, <3>3, <3>4
    <2> QED
      BY <2>1, <2>2
  <1>5. Tells(new, row)
    BY <1>1, <1>4 DEF Tells
  <1> QED
    BY <1>5 DEF new

LEMMA EventStep ==
    ASSUME BaseInv, EventsTellLifecycle, [Next]_vars
    PROVE  EventsTellLifecycle'
  <1>0. /\ TypeInv /\ device \in [Devices -> DeviceRows] /\ events \in [Devices -> Seq(EventRows)]
        /\ \A d \in Devices : Tells(events[d], device[d])
    BY DEF BaseInv, TypeInv, EventsTellLifecycle, Tells
  <1>1. ASSUME NEW r \in Requests, RequestStep(r) \/ DeadlockVictim(r) \/ Abort(r), NEW q \in Devices
        PROVE  Tells(events'[q], device'[q])
    <2>0. Op(r) \in Operations
      BY <1>0 DEF TypeInv, RequestRecords, Op
    <2>1. CASE UNCHANGED <<device, events>>
      BY <1>0, <2>1
    <2>2. CASE Commit(r) /\ Creates(r)
      <3> DEFINE d == Op(r).device
                 row == [project |-> Op(r).project, lifecycle |-> "active", connection |-> "unknown"]
                 e == <<Op(r).project, "absent", "active">>
      <3>1. d \in Devices /\ Op(r).project \in Projects /\ device[d].lifecycle = "absent"
        BY <2>0, <2>2, OperationTypes DEF Creates, HasLocks, BaseInv, VerdictInv, Verdict
      <3>2. device' = [device EXCEPT ![d] = row] /\ events' = [events EXCEPT ![d] = Append(@, e)]
        BY <2>2 DEF Creates
      <3>3. e \in EventRows /\ e[1] = row.project /\ e[2] = "absent" /\ e[3] = row.lifecycle /\ row.lifecycle # "absent"
        BY <3>1 DEF EventRows, Lifecycles
      <3> HIDE DEF row, e, d
      <3>4. Tells(Append(events[d], e), row)
        BY <1>0, <3>1, <3>3, AppendTells
      <3> QED
        BY <1>0, <3>1, <3>2, <3>4
    <2>3. CASE Commit(r) /\ Changes(r)
      <3> DEFINE d == Op(r).device
                 e == <<device[d].project, device[d].lifecycle, Op(r).to>>
      <3>1. /\ d \in Devices /\ Op(r).to \in Lifecycles /\ Op(r).to # "absent"
            /\ canTransitionLifecycle(device[d].lifecycle, Op(r).to)
        BY <2>0, <2>3, OperationTypes DEF Changes, HasLocks, BaseInv, VerdictInv, Verdict, Lifecycles
      <3>2. PICK row \in DeviceRows :
               device' = [device EXCEPT ![d] = row] /\ row.project = device[d].project /\ row.lifecycle = Op(r).to
        BY <2>3 DEF Changes
      <3>3. events' = [events EXCEPT ![d] = Append(@, e)]
        BY <2>3 DEF Changes
      <3>4. device[d].lifecycle \in Lifecycles /\ device[d].lifecycle # "absent"
        BY <3>1 DEF canTransitionLifecycle, Lifecycles
      <3>5. device[d].project \in Projects
        BY <1>0, <3>1, <3>4 DEF TypeInv
      <3>6. e \in EventRows /\ e[1] = row.project /\ e[2] = device[d].lifecycle /\ e[3] = row.lifecycle
        BY <3>1, <3>2, <3>4, <3>5 DEF EventRows
      <3> HIDE DEF e, d
      <3>7. Tells(Append(events[d], e), row)
        BY <1>0, <3>1, <3>2, <3>6, AppendTells
      <3> QED
        BY <1>0, <3>1, <3>2, <3>3, <3>7
    <2>4. CASE Commit(r) /\ Reports(r)
      <3> DEFINE d == Op(r).device
      <3>1. d \in Devices
        BY <2>0, <2>4, OperationTypes DEF Reports, HasLocks
      <3>2. PICK row \in DeviceRows : /\ device' = [device EXCEPT ![d] = row] /\ row.project = device[d].project
                                      /\ row.lifecycle = device[d].lifecycle
        BY <2>4 DEF Reports
      <3>3. events' = events /\ device'[q].project = device[q].project /\ device'[q].lifecycle = device[q].lifecycle
        BY <1>0, <2>4, <3>1, <3>2 DEF Reports
      <3> QED
        BY <1>0, <3>3 DEF Tells
    <2> QED
      <3>1. Failed(r) \/ Replays(r) \/ Begins(r) \/ Selects(r) \/ Grants(r) \/ Proceeds(r) \/ Commit(r)
        BY <1>1, StepCases
      <3>2. CASE Commit(r)
        <4>1. Creates(r) \/ Changes(r) \/ Reports(r) \/ Transfers(r) \/ Issues(r) \/ Cancels(r) \/ UNCHANGED rows
          BY <1>0, <3>2, CommitEffects
        <4>2. Transfers(r) \/ Issues(r) \/ Cancels(r) \/ UNCHANGED rows => UNCHANGED <<device, events>>
          BY DEF Transfers, Issues, Cancels, rows
        <4> QED
          BY <2>1, <2>2, <2>3, <2>4, <3>2, <4>1, <4>2
      <3>3. CASE ~Commit(r)
        BY <2>1, <3>1, <3>3 DEF Failed, Fails, Replays, Begins, Selects, Grants, Proceeds, Proceed, rows
      <3> QED
        BY <3>2, <3>3
  <1>2. CASE UNCHANGED vars
    BY <1>2 DEF vars, EventsTellLifecycle
  <1>3. ASSUME \A q \in Devices : Tells(events'[q], device'[q]) PROVE EventsTellLifecycle'
    BY <1>3 DEF EventsTellLifecycle, Tells
  <1> QED
    BY <1>1, <1>2, <1>3 DEF Next

\* The Events of a Device tell its life without gaps: CreateDevice and Update of
\* deviceservice write the row and its Event in one transaction, from a status that
\* the lock of the row, or of the identity, keeps until the commit.
THEOREM EventsComplete == Spec => []EventsTellLifecycle
  <1>1. Init => EventsTellLifecycle
    <2> SUFFICES ASSUME Init, NEW d \in Devices PROVE Tells(events[d], device[d])
      BY DEF EventsTellLifecycle, Tells
    <2>1. CASE d \in DOMAIN InitialDevices
      <3> DEFINE e == <<InitialDevices[d].project, "absent", "active">>
      <3>1. events[d] = <<e>> /\ device[d].project = InitialDevices[d].project /\ device[d].lifecycle = "active"
        BY <2>1 DEF Init
      <3>2. e[1] = InitialDevices[d].project /\ e[2] = "absent" /\ e[3] = "active"
        OBVIOUS
      <3> HIDE DEF e
      <3>3. Len(events[d]) = 1 /\ events[d][1] = e /\ events[d] # <<>>
        BY <3>1
      <3> QED
        BY <3>1, <3>2, <3>3 DEF Tells
    <2>2. CASE d \notin DOMAIN InitialDevices
      <3>1. events[d] = <<>> /\ device[d].lifecycle = "absent"
        BY <2>2 DEF Init
      <3> QED
        BY <3>1 DEF Tells
    <2> QED
      BY <2>1, <2>2
  <1>2. BaseInv /\ EventsTellLifecycle /\ [Next]_vars => EventsTellLifecycle'
    BY EventStep
  <1> QED
    BY <1>1, <1>2, BaseInvariant, PTL DEF Spec

-----------------------------------------------------------------------------
(* Idempotency keys and the conditions a Command is created under.         *)

Named(table, op, id) ==
    \E c \in table : /\ c.id = id /\ c.project = op.project /\ c.key = op.key
                        /\ c.device = op.device /\ c.action = op.action

KeyInv ==
    /\ \A b, c \in commands : b.project = c.project /\ b.key = c.key => b = c
    /\ \A r \in Requests : request[r].result \in {"created", "replayed"} => Named(commands, Op(r), request[r].command)
    /\ \A r \in Requests : request[r].result # "duplicate_key"

\* The Commands after a commit: one more, or the same ones.
LEMMA CommandsAfter ==
    ASSUME BaseInv, NEW r \in Requests, Commit(r)
    PROVE  \/ Issues(r) /\ commands' = commands \cup {Issued(r)} /\ CommandsOf(Op(r)) = {}
           \/ Cancels(r)
           \/ commands' = commands
  <1>1. Creates(r) \/ Changes(r) \/ Reports(r) \/ Transfers(r) \/ Issues(r) \/ Cancels(r) \/ UNCHANGED rows
    BY CommitEffects DEF BaseInv
  <1> QED
    BY <1>1 DEF Creates, Changes, Reports, Transfers, Issues, rows

\* A step leaves a Command under its key, whatever it does to its status.
LEMMA CommandsStay ==
    ASSUME BaseInv, NEW r \in Requests, RequestStep(r) \/ DeadlockVictim(r) \/ Abort(r), NEW op, NEW id, Named(commands, op, id)
    PROVE  Named(commands', op, id)
  <1>1. PICK c \in commands : /\ c.id = id /\ c.project = op.project /\ c.key = op.key
                              /\ c.device = op.device /\ c.action = op.action
    BY DEF Named
  <1>2. CASE c \in commands'
    BY <1>1, <1>2 DEF Named
  <1>3. CASE Cancels(r)
    <2>1. PICK b \in commands' : SameCommand(b, c)
      BY <1>3 DEF Cancels
    <2> QED
      BY <1>1, <2>1 DEF SameCommand, Named
  <1>4. CASE Commit(r)
    BY <1>2, <1>3, <1>4, CommandsAfter
  <1>5. CASE ~Commit(r)
    <2>1. Failed(r) \/ Replays(r) \/ Begins(r) \/ Selects(r) \/ Grants(r) \/ Proceeds(r)
      BY <1>5, StepCases
    <2> QED
      BY <1>2, <2>1 DEF Failed, Fails, Replays, Begins, Selects, Grants, Proceeds, Proceed, rows
  <1> QED
    BY <1>4, <1>5

LEMMA KeyStep ==
    ASSUME BaseInv, KeyInv, [Next]_vars
    PROVE  KeyInv'
  <1>0. TypeInv
    BY DEF BaseInv
  <1>1. ASSUME NEW r \in Requests, RequestStep(r) \/ DeadlockVictim(r) \/ Abort(r) PROVE KeyInv'
    <2>1. Failed(r) \/ Replays(r) \/ Begins(r) \/ Selects(r) \/ Grants(r) \/ Proceeds(r) \/ Commit(r)
      BY <1>1, StepCases
    <2>2. /\ Op(r)' = Op(r)
          /\ \A s \in Requests \ {r} : request'[s] = request[s] /\ Op(s)' = Op(s)
      BY <2>1, EndOfRequest, GoesOn, OwnRecord DEF BaseInv, Continues, Op
    <2>0. Op(r) \in Operations
      BY <1>0 DEF TypeInv, RequestRecords, Op
    <2>e. ASSUME NEW result \in Results, NEW c \in Requests \cup {Nothing}, Ends(r, result, c)
          PROVE  request'[r].result = result /\ request'[r].command = c
      <3>1. Writes(r, Done(Op(r), result, c))
        BY <1>0, <2>e, EndsWrites
      <3>2. request'[r] = Done(Op(r), result, c)
        BY <1>0, <3>1, OwnRecord
      <3> QED
        BY <2>0, <3>2, FreshRecord
    <2>3. ASSUME NEW b \in commands', NEW c \in commands', b.project = c.project, b.key = c.key PROVE b = c
      <3>1. CASE commands' = commands
        BY <2>3, <3>1 DEF KeyInv
      <3>2. CASE Issues(r) /\ commands' = commands \cup {Issued(r)} /\ CommandsOf(Op(r)) = {}
        <4>1. /\ Issued(r).project = Op(r).project /\ Issued(r).key = Op(r).key
          BY DEF Issued
        <4>2. \A a \in commands : ~(a.project = Op(r).project /\ a.key = Op(r).key)
          BY <3>2 DEF CommandsOf
        <4> QED
          BY <2>3, <3>2, <4>1, <4>2 DEF KeyInv
      <3>3. CASE Cancels(r)
        <4>1. PICK new \in [commands -> CommandRows] :
                 commands' = {new[a] : a \in commands} /\ \A a \in commands : SameCommand(new[a], a)
          BY <3>3 DEF Cancels
        <4>2. PICK b0 \in commands, c0 \in commands : b = new[b0] /\ c = new[c0]
          BY <2>3, <4>1
        <4>3. b0 = c0
          BY <2>3, <4>1, <4>2 DEF SameCommand, KeyInv
        <4> QED
          BY <4>2, <4>3
      <3>4. CASE Commit(r)
        BY <3>1, <3>2, <3>3, <3>4, CommandsAfter
      <3>5. CASE ~Commit(r)
        BY <2>1, <3>1, <3>5 DEF Failed, Fails, Replays, Begins, Selects, Grants, Proceeds, Proceed, rows
      <3> QED
        BY <3>4, <3>5
    <2>4. ASSUME NEW op, NEW id, Named(commands, op, id) PROVE Named(commands', op, id)
      BY <1>1, <2>4, CommandsStay
    <2>5. /\ request'[r].result # "duplicate_key"
          /\ request'[r].result \in {"created", "replayed"} => Named(commands', Op(r), request'[r].command)
      <3>1. CASE Failed(r)
        <4>1. PICK result \in Results \ {"created", "replayed"} :
                 /\ Fails(r, result)
                 /\ result = "duplicate_key" => HasLocks(r, "create_command", "third") /\ CommandsOf(Op(r)) # {}
          BY <3>1 DEF Failed
        <4>2. result # "duplicate_key"
          BY <4>1 DEF HasLocks, BaseInv, VerdictInv, Verdict
        <4>3. request'[r].result = result
          BY <2>e, <4>1 DEF Fails
        <4> QED
          BY <4>1, <4>2, <4>3
      <3>2. CASE Replays(r)
        <4>1. PICK c \in CommandsOf(Op(r)) : SameRequest(c, Op(r)) /\ Ends(r, "replayed", c.id)
          BY <3>2 DEF Replays
        <4>2. c \in commands /\ c.project = Op(r).project /\ c.key = Op(r).key /\ c.id \in Requests
          BY <1>0 DEF CommandsOf, TypeInv, CommandRows
        <4>3. Named(commands, Op(r), c.id)
          BY <4>1, <4>2 DEF Named, SameRequest
        <4>4. request'[r].result = "replayed" /\ request'[r].command = c.id
          BY <2>e, <4>1, <4>2 DEF Results
        <4>5. Named(commands', Op(r), c.id)
          BY <2>4, <4>3
        <4> QED
          BY <4>4, <4>5
      <3>3. CASE Commit(r)
        <4>1. CASE Ends(r, "ok", Nothing)
          <5>1. request'[r].result = "ok"
            BY <2>e, <4>1 DEF Results
          <5> QED
            BY <5>1
        <4>2. CASE Issues(r) /\ Ends(r, "created", r)
          <5>1. request'[r].result = "created" /\ request'[r].command = r
            BY <2>e, <4>2 DEF Results
          <5>2. Issued(r) \in commands'
            BY <4>2 DEF Issues
          <5>3. /\ Issued(r).id = r /\ Issued(r).project = Op(r).project /\ Issued(r).key = Op(r).key
                /\ Issued(r).device = Op(r).device /\ Issued(r).action = Op(r).action
            BY DEF Issued
          <5> HIDE DEF Issued
          <5> QED
            BY <5>1, <5>2, <5>3 DEF Named
        <4> QED
          BY <1>0, <3>3, <4>1, <4>2, CommitEffects
      <3>4. CASE Begins(r) \/ Selects(r) \/ Grants(r) \/ Proceeds(r)
        <4>1. request'[r].result = request[r].result /\ request'[r].command = request[r].command
          BY <1>0, <3>4, GoesOn, OwnRecord DEF Continues
        <4>2. request[r].result \in {"created", "replayed"} => Named(commands', Op(r), request[r].command)
          BY <2>4 DEF KeyInv
        <4> QED
          BY <4>1, <4>2 DEF KeyInv
      <3> QED
        BY <2>1, <3>1, <3>2, <3>3, <3>4
    <2>6. ASSUME NEW s \in Requests, s # r
          PROVE  /\ request'[s].result # "duplicate_key"
                 /\ request'[s].result \in {"created", "replayed"} => Named(commands', Op(s), request'[s].command)
      <3>1. request'[s] = request[s] /\ Op(s)' = Op(s)
        BY <2>2, <2>6
      <3>2. request[s].result \in {"created", "replayed"} => Named(commands', Op(s), request[s].command)
        BY <2>4, <2>6 DEF KeyInv
      <3> QED
        BY <2>6, <3>1, <3>2 DEF KeyInv
    <2> QED
      BY <2>2, <2>3, <2>5, <2>6 DEF KeyInv
  <1>2. CASE UNCHANGED vars
    BY <1>2 DEF vars, KeyInv, Named, Op
  <1> QED
    BY <1>1, <1>2 DEF Next

\* An idempotency key names one Command: findIdempotentReplay looks under the lock
\* of the Project, which the transaction keeps until its INSERT, so that a second
\* request with the key is answered with the Command of the first and none runs into
\* the unique index.
THEOREM KeysNameCommands == Spec => []KeyNamesOneCommand
  <1>1. Init => KeyInv
    <2> SUFFICES ASSUME Init, NEW r \in Requests PROVE request[r].result = "none"
      BY DEF KeyInv, Init
    <2>1. PICK scenario \in Scenarios : request = [s \in Requests |-> Fresh(scenario[s])]
      BY DEF Init
    <2> QED
      BY <2>1 DEF Fresh
  <1>2. BaseInv /\ KeyInv /\ [Next]_vars => KeyInv'
    BY KeyStep
  <1>3. KeyInv => KeyNamesOneCommand
    <2> SUFFICES ASSUME KeyInv, NEW r \in Requests, request[r].result \in {"created", "replayed"}
                 PROVE  \E c \in commands : /\ request[r].command = c.id /\ CommandsOf(Op(r)) = {c}
                                            /\ c.device = Op(r).device /\ c.action = Op(r).action
      BY DEF KeyInv, KeyNamesOneCommand
    <2>1. PICK c \in commands : /\ c.id = request[r].command /\ c.project = Op(r).project /\ c.key = Op(r).key
                                /\ c.device = Op(r).device /\ c.action = Op(r).action
      BY DEF KeyInv, Named
    <2>2. CommandsOf(Op(r)) = {c}
      BY <2>1 DEF CommandsOf, KeyInv
    <2> QED
      BY <2>1, <2>2
  <1> QED
    BY <1>1, <1>2, <1>3, BaseInvariant, PTL DEF Spec

\* A Command comes into being only for a Device that is of its Project and active,
\* and online where it must be, and for a caller who may access the Project at that
\* moment: Create of commandservice keeps the Project and the Device locked from its
\* checks to its commit.
THEOREM CommandsFounded == Spec => CommandsWellFounded
  <1>1. ASSUME BaseInv, [Next]_vars, NEW c \in commands', c.id \notin {b.id : b \in commands}
        PROVE  /\ device'[c.device].project = c.project /\ device'[c.device].lifecycle = "active"
               /\ DeliveryPolicy(c.action) = "online_only" => device'[c.device].connection = "online"
               /\ CanAccessProject(Op(c.id), c.project)'
    <2>1. commands' # commands
      BY <1>1
    <2>2. PICK r \in Requests : RequestStep(r) \/ DeadlockVictim(r) \/ Abort(r)
      BY <1>1, <2>1 DEF Next, vars
    <2>3. Commit(r)
      <3>1. Failed(r) \/ Replays(r) \/ Begins(r) \/ Selects(r) \/ Grants(r) \/ Proceeds(r) \/ Commit(r)
        BY <1>1, <2>2, StepCases
      <3> QED
        BY <2>1, <3>1 DEF Failed, Fails, Replays, Begins, Selects, Grants, Proceeds, Proceed, rows
    <2>4. ~Cancels(r)
      BY <1>1 DEF Cancels, SameCommand
    <2>5. Issues(r) /\ c = Issued(r)
      BY <1>1, <2>1, <2>3, <2>4, CommandsAfter
    <2>6. Op(r)' = Op(r)
      BY <1>1, <2>3, EndOfRequest, OwnRecord DEF BaseInv
    <2>7. /\ CanAccessProject(Op(r), Op(r).project)
          /\ device[Op(r).device].project = Op(r).project /\ device[Op(r).device].lifecycle = "active"
          /\ DeliveryPolicy(Op(r).action) = "online_only" => device[Op(r).device].connection = "online"
      BY <1>1, <2>5 DEF Issues, HasLocks, BaseInv, VerdictInv, Verdict
    <2>8. UNCHANGED <<manager, device>>
      BY <2>5 DEF Issues
    <2>9. c.id = r /\ c.project = Op(r).project /\ c.device = Op(r).device /\ c.action = Op(r).action
      BY <2>5 DEF Issued
    <2> QED
      BY <2>6, <2>7, <2>8, <2>9 DEF CanAccessProject
  <1>2. BaseInv /\ [Next]_vars =>
           [\A c \in commands' : c.id \notin {b.id : b \in commands} =>
              LET d == device'[c.device] IN
              /\ d.project = c.project /\ d.lifecycle = "active"
              /\ DeliveryPolicy(c.action) = "online_only" => d.connection = "online"
              /\ CanAccessProject(Op(c.id), c.project)']_vars
    BY <1>1
  <1> QED
    BY <1>2, BaseInvariant, PTL DEF Spec, CommandsWellFounded

=============================================================================
