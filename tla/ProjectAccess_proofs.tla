-------------------------- MODULE ProjectAccess_proofs --------------------------
(***************************************************************************)
(* Proofs about ProjectAccess for any Users, Projects, addresses and       *)
(* limits, and for any finite number of concurrent requests.               *)
(***************************************************************************)
EXTENDS ProjectAccess, RowLocks_proofs

Resources == Users \cup Projects \cup Keys
LockRequests == [row : Resources, mode : Modes]
Results ==
    {"none", "ok", "error", "unauthorized", "not_found", "forbidden", "unchanged", "super_admin_immutable",
     "user_has_managed_projects", "manager_inactive", "transfer_retry", "email_conflict",
     "valid", "invalid_credentials", "rate_limited"}
RequestRecords ==
    [op : Operations, pc : Steps, generation : Nat, ended : BOOLEAN, todo : Seq(LockRequests),
     now : 0 .. MaxClock, observed : Users \cup {NoOne}, seen : Users \cup {NoOne},
     attempt : 0 .. MaxTransfers, result : Results]

\* What a record says of how far its request has come.
Sound(rec) ==
    /\ rec \in RequestRecords
    /\ rec.pc \in {"new", "parsed"} => rec.attempt = 0
    /\ rec.pc = "new" => rec.generation = 0 /\ rec.ended = FALSE
    /\ rec.op.kind = "login" => rec.pc # "parsed"
    /\ rec.op.kind = "transfer" /\ rec.pc \in {"locking", "commit"} => rec.observed # NoOne

\* The types, with what a request has not done yet.  How often a generation was
\* incremented is counted by GenerationInv.
TypeInv ==
    /\ users \in [Users -> [status : {"absent", "active", "disabled"}, generation : Nat]]
    /\ manager \in [Projects -> Users \cup {NoOne}]
    /\ history \in [Projects -> Seq((Users \cup {NoOne}) \X Users)]
    /\ tokens \subseteq [user : Users, generation : Nat, ended : BOOLEAN]
    /\ failures \subseteq [key : Keys, by : Requests, expires : 0 .. MaxClock + Window]
    /\ locks \subseteq [row : Resources, mode : Modes, by : Requests]
    /\ request \in [Requests -> RequestRecords]
    /\ \A r \in Requests : Sound(request[r])
    /\ \A r \in Requests : Op(r).kind = "transfer" /\ request[r].pc \in {"locking", "commit"} =>
          manager[Op(r).project] # NoOne
    /\ clock \in 0 .. MaxClock

\* What an operation carries.
LEMMA OperationTypes ==
    ASSUME NEW op \in Operations
    PROVE  /\ op.user \in Users
           /\ op.kind \in {"login", "refresh", "logout", "register", "status", "create", "transfer", "update"}
           /\ op.kind = "login" => op.ip \in Addresses /\ op.password \in BOOLEAN
           /\ op.kind = "status" => op.status \in {"active", "disabled"}
           /\ op.kind \in {"register", "status", "create", "transfer"} => op.target \in Users
           /\ op.kind \in {"create", "transfer", "update"} => op.project \in Projects
  BY DEF Operations, LoginRequests, SessionRequests, UserRequests, ProjectRequests

LEMMA KeysOf ==
    ASSUME NEW u \in Users, NEW ip \in Addresses
    PROVE  EmailKey(u, ip) \in Keys /\ IPKey(ip) \in Keys /\ EmailKey(u, ip) # IPKey(ip)
  BY DEF Keys, EmailKey, IPKey

LEMMA Ranked ==
    ASSUME NEW a \in Users \cup Keys, NEW b \in Users \cup Keys
    PROVE  Rank[a] \in Nat /\ Rank[b] \in Nat /\ (a # b => Rank[a] # Rank[b])
  BY AccessAssumption

-----------------------------------------------------------------------------
(* The locks an operation needs.                                           *)

Needs(op, row, mode) ==
    \/ op.kind = "login" /\ mode = "advisory" /\ row \in {EmailKey(op.user, op.ip), IPKey(op.ip)}
    \/ op.kind \in {"status", "create", "transfer"} /\ mode = "update" /\ row = op.target
    \/ op.kind \in {"transfer", "update"} /\ mode = "update" /\ row = op.project

LEMMA TransferLocksNeeded ==
    ASSUME NEW op \in Operations, op.kind = "transfer", NEW observed \in Users
    PROVE  /\ TransferLocks(op, observed) \in Seq(LockRequests)
           /\ Pending(TransferLocks(op, observed), op.target, "update")
           /\ Pending(TransferLocks(op, observed), op.project, "update")
  <1> DEFINE s == InOrder(Rank, {observed, op.target}, "update")
  <1>1. /\ op.target \in Users /\ op.project \in Projects /\ "update" \in Modes
        /\ op.target \in Users \cup Keys /\ observed \in Users \cup Keys
    BY OperationTypes DEF Modes
  <1>a. /\ Rank[observed] \in Nat /\ Rank[op.target] \in Nat
        /\ observed # op.target => Rank[observed] # Rank[op.target]
    BY <1>1, Ranked
  <1>2. /\ s \in Seq({Lock(observed, "update"), Lock(op.target, "update")})
        /\ Pending(s, op.target, "update")
    BY <1>a, InOrderPair
  <1>3. /\ Lock(op.project, "update") \in LockRequests
        /\ {Lock(observed, "update"), Lock(op.target, "update")} \subseteq LockRequests
    BY <1>1 DEF Lock, LockRequests, Resources
  <1>4. TransferLocks(op, observed) = Append(s, Lock(op.project, "update"))
    BY DEF TransferLocks
  <1> HIDE DEF s
  <1>5. s \in Seq(LockRequests)
    BY <1>2, <1>3
  <1>6. /\ Append(s, Lock(op.project, "update")) \in Seq(LockRequests)
        /\ Len(Append(s, Lock(op.project, "update"))) = Len(s) + 1
        /\ \A i \in 1 .. Len(s) : Append(s, Lock(op.project, "update"))[i] = s[i]
        /\ Append(s, Lock(op.project, "update"))[Len(s) + 1] = Lock(op.project, "update")
        /\ Len(s) \in Nat
    BY <1>3, <1>5
  <1> QED
    BY <1>2, <1>4, <1>6 DEF Pending

LEMMA LocksNeeded ==
    ASSUME NEW op \in Operations, NEW observed \in Users \cup {NoOne},
           op.kind = "transfer" => observed \in Users
    PROVE  /\ LocksOf(op, observed) \in Seq(LockRequests)
           /\ \A row, mode : Needs(op, row, mode) => Pending(LocksOf(op, observed), row, mode)
  <1>0. /\ op.user \in Users /\ "share" \in Modes /\ "no_key_update" \in Modes /\ "update" \in Modes
        /\ "advisory" \in Modes
    BY OperationTypes DEF Modes
  <1>1. CASE op.kind = "login"
    <2> DEFINE e == EmailKey(op.user, op.ip)
               k == IPKey(op.ip)
               s == InOrder(Rank, {e, k}, "advisory")
    <2>1. e \in Keys /\ k \in Keys /\ e \in Users \cup Keys /\ k \in Users \cup Keys
      BY <1>1, OperationTypes, KeysOf
    <2>2. LocksOf(op, observed) = s
      BY <1>1 DEF LocksOf
    <2>3. \A row, mode : Needs(op, row, mode) => mode = "advisory" /\ row \in {e, k}
      BY <1>1 DEF Needs
    <2> HIDE DEF e, k
    <2>a. Rank[e] \in Nat /\ Rank[k] \in Nat /\ (e # k => Rank[e] # Rank[k])
      BY <2>1, Ranked
    <2>4. /\ s \in Seq({Lock(e, "advisory"), Lock(k, "advisory")})
          /\ Pending(s, e, "advisory") /\ Pending(s, k, "advisory")
      BY <2>a, InOrderPair
    <2>5. {Lock(e, "advisory"), Lock(k, "advisory")} \subseteq LockRequests
      BY <1>0, <2>1 DEF Lock, LockRequests, Resources
    <2> HIDE DEF s
    <2> QED
      BY <2>2, <2>3, <2>4, <2>5 DEF Pending
  <1>2. ASSUME NEW row \in Resources, NEW mode \in Modes, LocksOf(op, observed) = <<Lock(row, mode)>>
        PROVE  LocksOf(op, observed) \in Seq(LockRequests) /\ Pending(LocksOf(op, observed), row, mode)
    <2>1. Lock(row, mode) \in LockRequests
      BY DEF Lock, LockRequests
    <2> QED
      BY <1>2, <2>1 DEF Pending
  <1>3. CASE op.kind \in {"refresh", "logout", "register"}
    <2>1. \A row, mode : ~Needs(op, row, mode)
      BY <1>3 DEF Needs
    <2>2. op.user \in Resources
      BY <1>0 DEF Resources
    <2>3. CASE op.kind = "refresh"
      BY <1>0, <1>2, <2>1, <2>2, <2>3 DEF LocksOf
    <2>4. CASE op.kind = "logout"
      BY <1>0, <1>2, <2>1, <2>2, <2>4 DEF LocksOf
    <2>5. CASE op.kind = "register"
      BY <2>1, <2>5 DEF LocksOf
    <2> QED
      BY <1>3, <2>3, <2>4, <2>5
  <1>4. CASE op.kind \in {"status", "create"}
    <2>1. op.target \in Resources
      BY <1>4, OperationTypes DEF Resources
    <2>2. LocksOf(op, observed) = <<Lock(op.target, "update")>>
      BY <1>4 DEF LocksOf
    <2> QED
      BY <1>0, <1>2, <1>4, <2>1, <2>2 DEF Needs
  <1>5. CASE op.kind = "update"
    <2>1. op.project \in Resources
      BY <1>5, OperationTypes DEF Resources
    <2>2. LocksOf(op, observed) = <<Lock(op.project, "update")>>
      BY <1>5 DEF LocksOf
    <2> QED
      BY <1>0, <1>2, <1>5, <2>1, <2>2 DEF Needs
  <1>6. CASE op.kind = "transfer"
    <2>1. LocksOf(op, observed) = TransferLocks(op, observed)
      BY <1>6 DEF LocksOf
    <2> QED
      BY <1>6, <2>1, TransferLocksNeeded DEF Needs
  <1> QED
    BY <1>1, <1>3, <1>4, <1>5, <1>6, OperationTypes

-----------------------------------------------------------------------------
(* Types.                                                                  *)

RequestsTyped ==
    /\ request \in [Requests -> RequestRecords]
    /\ \A r \in Requests : Sound(request[r])

LEMMA RequestWritten ==
    ASSUME TypeInv, NEW r \in Requests, NEW rec, Sound(rec), request' = [request EXCEPT ![r] = rec]
    PROVE  RequestsTyped'
  <1>1. \A s \in Requests : request'[s] = IF s = r THEN rec ELSE request[s]
    BY DEF TypeInv
  <1>2. request' \in [Requests -> RequestRecords]
    BY DEF TypeInv, Sound
  <1> QED
    BY <1>1, <1>2 DEF TypeInv, RequestsTyped

\* What is left of a request that was answered.
Done(op, result) == [Fresh(op) EXCEPT !.pc = "done", !.result = result]

LEMMA FreshRecord ==
    ASSUME NEW op \in Operations, NEW result \in Results
    PROVE  /\ Sound(Fresh(op)) /\ Fresh(op).pc = "new" /\ Fresh(op).op = op
           /\ Sound(Done(op, result)) /\ Done(op, result).pc = "done" /\ Done(op, result).op = op
           /\ Done(op, result).result = result
  <1>1. Fresh(op) \in RequestRecords
    <2>1. <<>> \in Seq(LockRequests)
      OBVIOUS
    <2>2. 0 \in 0 .. MaxClock /\ 0 \in 0 .. MaxTransfers /\ "new" \in Steps /\ "none" \in Results
      BY AccessAssumption DEF Steps, Results
    <2> QED
      BY <2>1, <2>2 DEF Fresh, RequestRecords
  <1>2. /\ Fresh(op).pc = "new" /\ Fresh(op).op = op /\ Fresh(op).attempt = 0
        /\ Fresh(op).generation = 0 /\ Fresh(op).ended = FALSE
    BY DEF Fresh
  <1> DEFINE rec == Done(op, result)
  <1>3. rec \in RequestRecords
    BY <1>1 DEF RequestRecords, Steps, Done
  <1>4. rec.pc = "done" /\ rec.op = op /\ rec.result = result
    BY <1>2, <1>1 DEF RequestRecords, Done
  <1> HIDE DEF rec
  <1>5. Sound(rec)
    BY <1>3, <1>4 DEF Sound
  <1> QED
    BY <1>1, <1>2, <1>4, <1>5 DEF Sound, rec

-----------------------------------------------------------------------------
(* What a step of a request may be.                                        *)

Unwritten == UNCHANGED <<users, manager, history, tokens, failures, clock>>

Failed(r) == \E result \in Results : Fails(r, result)

Parses(r) ==
    /\ request[r].pc = "new" /\ Op(r).kind # "login"
    /\ \E t \in Bearer(r) :
          /\ TokenCurrent(t)
          /\ request' = [request EXCEPT ![r].pc = "parsed", ![r].generation = t.generation, ![r].ended = t.ended]
    /\ Unwritten /\ UNCHANGED locks

Begins(r) ==
    /\ request[r].pc = "parsed"
    /\ \E observed \in Users \cup {NoOne} :
          /\ Op(r).kind = "transfer" => observed # NoOne /\ manager[Op(r).project] # NoOne
          /\ Locking(r, observed)

Selects(r) ==
    /\ request[r].pc = "locking"
    /\ \E m \in Users \cup {NoOne} : request' = [request EXCEPT ![r].seen = m]
    /\ Unwritten /\ UNCHANGED locks

Grants(r) ==
    LET l == Head(request[r].todo) IN
    /\ request[r].pc = "locking" /\ request[r].todo # <<>>
    /\ Blockers(r, l) = {}
    /\ l.row \in Users => users[l.row].status # "absent"
    /\ locks' = locks \cup {[row |-> l.row, mode |-> l.mode, by |-> r]}
    /\ request' = [request EXCEPT ![r].todo = Tail(@)]
    /\ Unwritten

Retries(r) == HasLocks(r, "transfer") /\ request[r].attempt < MaxTransfers /\ Retry(r)

\* What was true of the rows when the operation decided.
Verdict(r) ==
    /\ Op(r).kind = "status" =>
          /\ Op(r).target # Admin
          /\ Op(r).status = "disabled" => \A p \in Projects : manager[p] # Op(r).target
    /\ Op(r).kind \in {"create", "transfer"} => users[Op(r).target].status # "disabled"
    /\ Op(r).kind = "transfer" => manager[Op(r).project] = request[r].observed
    /\ Op(r).kind = "update" => CanAccessProject(r, Op(r).project)

Decides(r) == request[r].pc = "locking" /\ request[r].todo = <<>> /\ Op(r).kind # "login" /\ Verdict(r) /\ Decided(r)

LEMMA DecideCases ==
    ASSUME NEW r \in Requests, TypeInv,
           \/ DecideStatus(r) \/ DecideCreate(r) \/ DecideTransfer(r) \/ DecideUpdate(r)
           \/ DecideSession(r) \/ DecideRegister(r)
    PROVE  Failed(r) \/ Decides(r) \/ Retries(r)
  <1>1. CASE DecideStatus(r)
    <2> DEFINE op == Op(r)
    <2>1. HasLocks(r, "status")
      BY <1>1 DEF DecideStatus
    <2>2. CASE users[op.target].status = op.status \/ op.target = Admin
                 \/ (op.status = "disabled" /\ \E p \in Projects : manager[p] = op.target)
      <3>1. Fails(r, "unchanged") \/ Fails(r, "super_admin_immutable") \/ Fails(r, "user_has_managed_projects")
        BY <1>1, <2>2 DEF DecideStatus
      <3> QED
        BY <3>1 DEF Failed, Results
    <2>3. CASE ~ (users[op.target].status = op.status \/ op.target = Admin
                    \/ (op.status = "disabled" /\ \E p \in Projects : manager[p] = op.target))
      <3>1. Decided(r)
        BY <1>1, <2>3 DEF DecideStatus
      <3> QED
        BY <2>1, <2>3, <3>1 DEF Decides, Verdict, HasLocks, At
    <2> QED
      BY <2>2, <2>3
  <1>2. CASE DecideCreate(r)
    BY <1>2 DEF DecideCreate, Decides, Verdict, HasLocks, At, Failed, Results
  <1>3. CASE DecideTransfer(r)
    <2> DEFINE op == Op(r)
               m == manager[op.project]
    <2>1. HasLocks(r, "transfer")
      BY <1>3 DEF DecideTransfer
    <2>2. CASE m # request[r].observed
      BY <1>3, <2>1, <2>2 DEF DecideTransfer, Retries, Failed, Results
    <2>3. CASE m = request[r].observed /\ (users[op.target].status = "disabled"
                 \/ (users[op.target].status = "active" /\ m = op.target))
      <3>1. Fails(r, "manager_inactive") \/ Fails(r, "unchanged")
        BY <1>3, <2>3 DEF DecideTransfer
      <3> QED
        BY <3>1 DEF Failed, Results
    <2>4. CASE m = request[r].observed /\ ~ (users[op.target].status = "disabled"
                 \/ (users[op.target].status = "active" /\ m = op.target))
      <3>1. Decided(r)
        BY <1>3, <2>4 DEF DecideTransfer
      <3> QED
        BY <2>1, <2>4, <3>1 DEF Decides, Verdict, HasLocks, At
    <2> QED
      BY <2>2, <2>3, <2>4
  <1>4. CASE DecideUpdate(r)
    <2>1. HasLocks(r, "update")
      BY <1>4 DEF DecideUpdate
    <2>2. CASE ~CanAccessProject(r, Op(r).project)
      BY <1>4, <2>2 DEF DecideUpdate, Failed, Results
    <2>3. CASE CanAccessProject(r, Op(r).project) /\ ~IsSuperAdmin(r) /\ Op(r).sensitive
      BY <1>4, <2>3 DEF DecideUpdate, Failed, Results
    <2>4. CASE CanAccessProject(r, Op(r).project) /\ ~ (~IsSuperAdmin(r) /\ Op(r).sensitive)
      BY <1>4, <2>1, <2>4 DEF DecideUpdate, Decides, Verdict, HasLocks, At
    <2> QED
      BY <2>2, <2>3, <2>4
  <1>5. CASE DecideSession(r)
    BY <1>5 DEF DecideSession, Decides, Verdict, HasLocks, At, Failed, Results
  <1>6. CASE DecideRegister(r)
    BY <1>6 DEF DecideRegister, Decides, Verdict, HasLocks, At
  <1> QED
    BY <1>1, <1>2, <1>3, <1>4, <1>5, <1>6

LEMMA LockCases ==
    ASSUME NEW r \in Requests, TypeInv,
           ParseToken(r) \/ Begin(r) \/ SelectProject(r) \/ Acquire(r) \/ DeadlockVictim(r) \/ Abort(r)
    PROVE  Failed(r) \/ Parses(r) \/ Begins(r) \/ Selects(r) \/ Grants(r)
  <1>0. /\ Op(r) \in Operations
        /\ \A p \in Projects : manager[p] \in Users \cup {NoOne}
    BY DEF TypeInv, RequestRecords, Op
  <1>1. CASE ParseToken(r)
    BY <1>1 DEF ParseToken, Parses, Failed, Results, Unwritten
  <1>2. CASE Begin(r)
    <2> DEFINE op == Op(r)
    <2>1. request[r].pc = "parsed"
      BY <1>2 DEF Begin
    <2>2. op.kind = "transfer" => op.project \in Projects
      BY <1>0, OperationTypes
    <2>3. CASE op.kind = "transfer" /\ ~IsSuperAdmin(r)
      <3>1. Fails(r, "not_found") \/ Fails(r, "forbidden")
        BY <1>2, <2>3 DEF Begin, SuperAdminOnly
      <3> QED
        BY <3>1 DEF Failed, Results
    <2>4. CASE op.kind = "transfer" /\ IsSuperAdmin(r) /\ manager[op.project] = NoOne
      <3>1. Fails(r, "not_found")
        BY <1>2, <2>4 DEF Begin, CanAccessProject
      <3> QED
        BY <3>1 DEF Failed, Results
    <2>5. CASE op.kind = "transfer" /\ IsSuperAdmin(r) /\ manager[op.project] # NoOne
      <3>1. Locking(r, manager[op.project])
        BY <1>2, <2>5 DEF Begin, CanAccessProject
      <3> QED
        BY <1>0, <2>1, <2>2, <2>5, <3>1 DEF Begins
    <2>6. CASE op.kind # "transfer" /\ op.kind \in SuperAdminOnly /\ ~IsSuperAdmin(r)
      <3>1. Fails(r, "forbidden")
        BY <1>2, <2>6 DEF Begin
      <3> QED
        BY <3>1 DEF Failed, Results
    <2>7. CASE op.kind # "transfer" /\ ~ (op.kind \in SuperAdminOnly /\ ~IsSuperAdmin(r))
      <3>1. Locking(r, NoOne)
        BY <1>2, <2>7 DEF Begin
      <3> QED
        BY <2>1, <2>7, <3>1 DEF Begins
    <2> QED
      BY <2>3, <2>4, <2>5, <2>6, <2>7
  <1>3. CASE SelectProject(r)
    BY <1>0, <1>3 DEF SelectProject, Selects, Failed, Results, Unwritten
  <1>4. CASE Acquire(r)
    <2> DEFINE l == Head(request[r].todo)
    <2>1. CASE \/ l.row \in Projects /\ manager[l.row] # request[r].seen
               \/ l.row \in Users /\ users[l.row].status = "absent"
      <3>1. Fails(r, "not_found")
        BY <1>4, <2>1 DEF Acquire
      <3> QED
        BY <3>1 DEF Failed, Results
    <2>2. CASE ~ (\/ l.row \in Projects /\ manager[l.row] # request[r].seen
                  \/ l.row \in Users /\ users[l.row].status = "absent")
      BY <1>4, <2>2 DEF Acquire, Grants, Unwritten
    <2> QED
      BY <2>1, <2>2
  <1>5. CASE DeadlockVictim(r) \/ Abort(r)
    BY <1>5 DEF DeadlockVictim, Abort, Failed, Results
  <1> QED
    BY <1>1, <1>2, <1>3, <1>4, <1>5

-----------------------------------------------------------------------------
(* What a step writes for its request.                                     *)

Writes(r, rec) == request' = [request EXCEPT ![r] = rec] /\ Sound(rec) /\ rec.op = Op(r)
SameSession(rec, old) == rec.generation = old.generation /\ rec.ended = old.ended

\* The same progress: only the session may have ended meanwhile.
SameProgress(rec, old) ==
    /\ rec.op = old.op /\ rec.pc = old.pc /\ rec.todo = old.todo /\ rec.now = old.now
    /\ rec.observed = old.observed /\ rec.seen = old.seen /\ rec.attempt = old.attempt
    /\ rec.result = old.result /\ rec.generation = old.generation

LEMMA EndsWrites ==
    ASSUME TypeInv, NEW r \in Requests, NEW result \in Results, Ends(r, result)
    PROVE  \E rec : Writes(r, rec) /\ rec.pc = "done"
  <1> DEFINE rec == Done(Op(r), result)
  <1>1. Op(r) \in Operations
    BY DEF TypeInv, RequestRecords, Op
  <1>2. Sound(rec) /\ rec.pc = "done" /\ rec.op = Op(r)
    BY <1>1, FreshRecord
  <1>3. request' = [request EXCEPT ![r] = rec]
    BY DEF Ends, Done
  <1> QED
    BY <1>2, <1>3 DEF Writes

LEMMA ParsesWrites ==
    ASSUME TypeInv, NEW r \in Requests, Parses(r)
    PROVE  \E rec, t : /\ Writes(r, rec) /\ rec.pc = "parsed"
                       /\ t \in tokens /\ t.user = Op(r).user
                       /\ rec.generation = t.generation /\ rec.ended = t.ended
  <1>1. PICK t \in Bearer(r) :
          request' = [request EXCEPT ![r].pc = "parsed", ![r].generation = t.generation, ![r].ended = t.ended]
    BY DEF Parses
  <1> DEFINE rec == [request[r] EXCEPT !.pc = "parsed", !.generation = t.generation, !.ended = t.ended]
  <1>2. request' = [request EXCEPT ![r] = rec]
    BY <1>1
  <1>3. request[r] \in RequestRecords /\ request[r].attempt = 0 /\ Op(r).kind # "login"
    BY DEF TypeInv, Parses, Sound
  <1>4. t \in tokens /\ t.user = Op(r).user /\ t.generation \in Nat /\ t.ended \in BOOLEAN
    BY DEF Bearer, TypeInv
  <1>5. rec \in RequestRecords
    BY <1>3, <1>4 DEF RequestRecords, Steps
  <1>6. /\ rec.pc = "parsed" /\ rec.generation = t.generation /\ rec.ended = t.ended
        /\ rec.attempt = 0 /\ rec.op = Op(r)
    BY <1>3 DEF RequestRecords, Op
  <1> HIDE DEF rec
  <1>7. Sound(rec)
    BY <1>3, <1>5, <1>6 DEF Sound
  <1> QED
    BY <1>2, <1>4, <1>6, <1>7 DEF Writes

LEMMA BeginsWrites ==
    ASSUME TypeInv, NEW r \in Requests, Begins(r) \/ LoginBegins(r)
    PROVE  \E rec : /\ Writes(r, rec) /\ rec.pc = "locking"
                    /\ \A row, mode : Needs(Op(r), row, mode) => Pending(rec.todo, row, mode)
                    /\ SameSession(rec, request[r])
                    /\ Op(r).kind = "login" => rec.now = clock
                    /\ Op(r).kind = "transfer" => manager[Op(r).project] # NoOne
                    /\ request[r].pc = "parsed" \/ request[r].pc = "new"
                    /\ request[r].pc = "new" => Op(r).kind = "login"
                    /\ Unwritten /\ UNCHANGED locks
  <1>0. /\ request[r] \in RequestRecords /\ Op(r) \in Operations /\ clock \in 0 .. MaxClock
        /\ "locking" \in Steps
    BY DEF TypeInv, RequestRecords, Op, Steps
  <1>1. CASE Begins(r)
    <2>1. PICK observed \in Users \cup {NoOne} :
            /\ Op(r).kind = "transfer" => observed # NoOne /\ manager[Op(r).project] # NoOne
            /\ Locking(r, observed)
      BY <1>1 DEF Begins
    <2>2. request[r].attempt = 0 /\ request[r].attempt + 1 \in 0 .. MaxTransfers
      BY <1>1, AccessAssumption DEF TypeInv, Begins, Sound
    <2> DEFINE todo == LocksOf(Op(r), observed)
               rec == [request[r] EXCEPT !.pc = "locking", !.observed = observed,
                                         !.attempt = request[r].attempt + 1, !.todo = todo]
    <2>3. todo \in Seq(LockRequests) /\ \A row, mode : Needs(Op(r), row, mode) => Pending(todo, row, mode)
      BY <1>0, <2>1, LocksNeeded
    <2>4. request' = [request EXCEPT ![r] = rec]
      BY <2>1 DEF Locking
    <2> HIDE DEF todo
    <2>5. rec \in RequestRecords
      BY <1>0, <2>2, <2>3 DEF RequestRecords
    <2>6. /\ rec.pc = "locking" /\ rec.observed = observed /\ rec.todo = todo /\ rec.op = Op(r)
          /\ SameSession(rec, request[r])
      BY <1>0 DEF RequestRecords, Op, SameSession
    <2> HIDE DEF rec
    <2>7. Sound(rec)
      BY <2>1, <2>5, <2>6 DEF Sound
    <2>8. Op(r).kind # "login"
      BY <1>1 DEF Begins, TypeInv, Sound, Op
    <2> QED
      BY <1>1, <2>1, <2>3, <2>4, <2>6, <2>7, <2>8 DEF Writes, Begins, Locking, Unwritten
  <1>2. CASE LoginBegins(r)
    <2>1. Op(r).kind = "login" /\ request[r].pc = "new"
      BY <1>2 DEF LoginBegins, At
    <2> DEFINE todo == LocksOf(Op(r), NoOne)
               rec == [request[r] EXCEPT !.pc = "locking", !.now = clock, !.todo = todo]
    <2>2. todo \in Seq(LockRequests) /\ \A row, mode : Needs(Op(r), row, mode) => Pending(todo, row, mode)
      BY <1>0, <2>1, LocksNeeded
    <2>3. request' = [request EXCEPT ![r] = rec]
      BY <1>2 DEF LoginBegins
    <2> HIDE DEF todo
    <2>4. rec \in RequestRecords
      BY <1>0, <2>2 DEF RequestRecords
    <2>5. /\ rec.pc = "locking" /\ rec.todo = todo /\ rec.op = Op(r) /\ rec.now = clock
          /\ SameSession(rec, request[r])
      BY <1>0 DEF RequestRecords, Op, SameSession
    <2> HIDE DEF rec
    <2>6. Sound(rec)
      BY <2>1, <2>4, <2>5 DEF Sound, Op
    <2> QED
      BY <1>2, <2>1, <2>2, <2>3, <2>5, <2>6 DEF Writes, LoginBegins, Unwritten
  <1> QED
    BY <1>1, <1>2

LEMMA SelectsWrites ==
    ASSUME TypeInv, NEW r \in Requests, Selects(r)
    PROVE  \E rec : /\ Writes(r, rec) /\ rec.pc = "locking" /\ rec.todo = request[r].todo
                    /\ rec.now = request[r].now /\ SameSession(rec, request[r])
  <1>1. PICK m \in Users \cup {NoOne} : request' = [request EXCEPT ![r].seen = m]
    BY DEF Selects
  <1> DEFINE rec == [request[r] EXCEPT !.seen = m]
  <1>2. Sound(request[r]) /\ request[r] \in RequestRecords /\ request[r].pc = "locking"
    BY DEF TypeInv, Selects
  <1>3. rec \in RequestRecords
    BY <1>2 DEF RequestRecords
  <1>4. /\ rec.op = Op(r) /\ rec.op = request[r].op /\ rec.pc = "locking" /\ rec.todo = request[r].todo
        /\ rec.now = request[r].now /\ rec.observed = request[r].observed
        /\ SameSession(rec, request[r])
    BY <1>2 DEF RequestRecords, Op, SameSession
  <1>5. request' = [request EXCEPT ![r] = rec]
    BY <1>1
  <1> HIDE DEF rec
  <1>6. Sound(rec)
    BY <1>2, <1>3, <1>4 DEF Sound
  <1> QED
    BY <1>4, <1>5, <1>6 DEF Writes

LEMMA GrantsWrites ==
    ASSUME TypeInv, NEW r \in Requests, Grants(r)
    PROVE  \E rec : /\ Writes(r, rec) /\ rec.pc = "locking" /\ rec.todo = Tail(request[r].todo)
                    /\ rec.now = request[r].now /\ SameSession(rec, request[r])
  <1> DEFINE todo == Tail(request[r].todo)
             rec == [request[r] EXCEPT !.todo = todo]
  <1>1. request' = [request EXCEPT ![r] = rec]
    BY DEF Grants
  <1>2. /\ Sound(request[r]) /\ request[r] \in RequestRecords /\ request[r].pc = "locking"
        /\ request[r].todo \in Seq(LockRequests) /\ request[r].todo # <<>>
    BY DEF TypeInv, Grants, RequestRecords
  <1>3. todo \in Seq(LockRequests)
    BY <1>2
  <1> HIDE DEF todo
  <1>4. rec \in RequestRecords
    BY <1>2, <1>3 DEF RequestRecords
  <1>5. /\ rec.op = Op(r) /\ rec.op = request[r].op /\ rec.pc = "locking" /\ rec.todo = todo
        /\ rec.now = request[r].now /\ rec.observed = request[r].observed
        /\ SameSession(rec, request[r])
    BY <1>2 DEF RequestRecords, Op, SameSession
  <1> HIDE DEF rec
  <1>6. Sound(rec)
    BY <1>2, <1>4, <1>5 DEF Sound
  <1> QED
    BY <1>1, <1>5, <1>6 DEF Writes, todo

LEMMA RetriesWrites ==
    ASSUME TypeInv, NEW r \in Requests, Retries(r)
    PROVE  \E rec : /\ Writes(r, rec) /\ rec.pc = "locking"
                    /\ \A row, mode : Needs(Op(r), row, mode) => Pending(rec.todo, row, mode)
                    /\ SameSession(rec, request[r])
  <1> DEFINE m == manager[Op(r).project]
             todo == TransferLocks(Op(r), m)
             rec == [request[r] EXCEPT !.observed = m, !.seen = NoOne, !.attempt = request[r].attempt + 1,
                                       !.todo = todo, !.pc = "locking"]
  <1>1. request' = [request EXCEPT ![r] = rec]
    BY DEF Retries, Retry
  <1>2. /\ request[r] \in RequestRecords /\ request[r].pc = "locking" /\ Op(r).kind = "transfer"
        /\ Op(r) \in Operations /\ request[r].attempt \in 0 .. MaxTransfers /\ request[r].attempt < MaxTransfers
    BY DEF TypeInv, Retries, HasLocks, At, RequestRecords, Op
  <1>3. Op(r).project \in Projects
    BY <1>2, OperationTypes
  <1>4. m \in Users
    BY <1>2, <1>3 DEF TypeInv
  <1>5. /\ todo \in Seq(LockRequests)
        /\ \A row, mode : Needs(Op(r), row, mode) => Pending(todo, row, mode)
    BY <1>2, <1>4, TransferLocksNeeded DEF Needs
  <1>6. request[r].attempt + 1 \in 0 .. MaxTransfers /\ m # NoOne /\ "locking" \in Steps
    BY <1>2, <1>4, AccessAssumption DEF Steps
  <1> HIDE DEF todo, m
  <1>7. rec \in RequestRecords
    BY <1>2, <1>4, <1>5, <1>6 DEF RequestRecords
  <1>8. /\ rec.op = Op(r) /\ rec.pc = "locking" /\ rec.todo = todo /\ rec.observed = m
        /\ SameSession(rec, request[r])
    BY <1>2 DEF RequestRecords, Op, SameSession
  <1> HIDE DEF rec
  <1>9. Sound(rec)
    BY <1>2, <1>6, <1>7, <1>8 DEF Sound
  <1> QED
    BY <1>1, <1>5, <1>8, <1>9 DEF Writes

LEMMA DecidesWrites ==
    ASSUME TypeInv, NEW r \in Requests, Decides(r)
    PROVE  \E rec : /\ Writes(r, rec) /\ rec.pc = "commit" /\ rec.todo = request[r].todo
                    /\ rec.now = request[r].now /\ rec.observed = request[r].observed
                    /\ SameSession(rec, request[r])
  <1> DEFINE rec == [request[r] EXCEPT !.pc = "commit"]
  <1>1. request' = [request EXCEPT ![r] = rec]
    BY DEF Decides, Decided
  <1>2. Sound(request[r]) /\ request[r] \in RequestRecords /\ request[r].pc = "locking"
    BY DEF TypeInv, Decides
  <1>3. rec \in RequestRecords
    BY <1>2 DEF RequestRecords, Steps
  <1>4. /\ rec.op = Op(r) /\ rec.op = request[r].op /\ rec.pc = "commit" /\ rec.todo = request[r].todo
        /\ rec.now = request[r].now /\ rec.observed = request[r].observed
        /\ SameSession(rec, request[r])
    BY <1>2 DEF RequestRecords, Op, SameSession
  <1> HIDE DEF rec
  <1>5. Sound(rec)
    BY <1>2, <1>3, <1>4 DEF Sound
  <1> QED
    BY <1>1, <1>4, <1>5 DEF Writes

LEMMA DecideLoginWrites ==
    ASSUME TypeInv, NEW r \in Requests, DecideLogin(r)
    PROVE  \E rec : /\ Writes(r, rec) /\ rec.pc = "commit" /\ rec.todo = <<>> /\ request[r].todo = <<>>
                    /\ request[r].pc = "locking" /\ Op(r).kind = "login"
                    /\ rec.now = request[r].now /\ rec.ended = FALSE
                    /\ rec.generation = users[Op(r).user].generation
                    /\ rec.result = "invalid_credentials" => ~RateLimited(r)
                    /\ rec.result = "valid" => users[Op(r).user].status = "active"
                    /\ rec.result \in {"valid", "invalid_credentials", "rate_limited"}
                    /\ Unwritten /\ UNCHANGED locks
  <1> DEFINE valid == users[Op(r).user].status = "active" /\ Op(r).password
             verdict == CASE RateLimited(r) -> "rate_limited"
                          [] ~RateLimited(r) /\ valid -> "valid"
                          [] OTHER -> "invalid_credentials"
             rec == [request[r] EXCEPT !.pc = "commit", !.result = verdict,
                                       !.generation = users[Op(r).user].generation, !.ended = FALSE]
  <1>1. request' = [request EXCEPT ![r] = rec]
    BY DEF DecideLogin
  <1>2. /\ request[r] \in RequestRecords /\ request[r].pc = "locking" /\ request[r].todo = <<>>
        /\ Op(r).kind = "login" /\ Unwritten /\ UNCHANGED locks /\ Op(r) \in Operations
    BY DEF TypeInv, DecideLogin, HasLocks, At, Unwritten, RequestRecords, Op
  <1>3. /\ verdict \in {"valid", "invalid_credentials", "rate_limited"} /\ verdict \in Results
        /\ verdict = "invalid_credentials" => ~RateLimited(r)
        /\ verdict = "valid" => users[Op(r).user].status = "active"
    BY DEF Results
  <1>4. users[Op(r).user].generation \in Nat
    BY <1>2, OperationTypes DEF TypeInv
  <1> HIDE DEF verdict
  <1>5. rec \in RequestRecords
    BY <1>2, <1>3, <1>4 DEF RequestRecords, Steps
  <1>6. /\ rec.op = Op(r) /\ rec.pc = "commit" /\ rec.todo = request[r].todo
        /\ rec.now = request[r].now /\ rec.ended = FALSE /\ rec.result = verdict
        /\ rec.generation = users[Op(r).user].generation
    BY <1>2 DEF RequestRecords, Op
  <1> HIDE DEF rec
  <1>7. Sound(rec)
    BY <1>2, <1>5, <1>6 DEF Sound
  <1> QED
    BY <1>1, <1>2, <1>3, <1>6, <1>7 DEF Writes

Commit(r) ==
    \/ CommitStatus(r) \/ CommitRegister(r) \/ CommitCreate(r) \/ CommitTransfer(r)
    \/ CommitUpdate(r) \/ CommitRefresh(r) \/ CommitLogout(r) \/ CommitLogin(r)

\* The rows a request writes when it has ended the sessions of u.
LEMMA EndedWrites ==
    ASSUME TypeInv, NEW r \in Requests, NEW u \in Users, EndSessions(u, Answered(r, "ok"))
    PROVE  /\ RequestsTyped' /\ request'[r].pc = "done" /\ request'[r].op = Op(r)
           /\ \A s \in Requests \ {r} :
                 /\ SameProgress(request'[s], request[s])
                 /\ request'[s].ended = (request[s].ended \/ (Op(s).user = u /\ request[s].pc \notin {"new", "done"}))
  <1> DEFINE mid == Answered(r, "ok")
             after(s) == IF mid[s].op.user = u /\ mid[s].pc \notin {"new", "done"}
                         THEN [mid[s] EXCEPT !.ended = TRUE] ELSE mid[s]
  <1>0. request \in [Requests -> RequestRecords] /\ Op(r) \in Operations /\ "ok" \in Results
    BY DEF TypeInv, RequestRecords, Op, Results
  <1>1. Sound(Done(Op(r), "ok")) /\ Done(Op(r), "ok").pc = "done" /\ Done(Op(r), "ok").op = Op(r)
    BY <1>0, FreshRecord
  <1>2. mid = [request EXCEPT ![r] = Done(Op(r), "ok")]
    BY DEF Answered, Done
  <1>3. \A s \in Requests : mid[s] = IF s = r THEN Done(Op(r), "ok") ELSE request[s]
    BY <1>0, <1>2
  <1>4. request' = [s \in Requests |-> after(s)]
    BY DEF EndSessions
  <1> HIDE DEF mid
  <1>5. after(r) = Done(Op(r), "ok")
    BY <1>1, <1>3
  <1>6. ASSUME NEW s \in Requests, s # r
        PROVE  /\ Sound(after(s)) /\ SameProgress(after(s), request[s])
               /\ after(s).ended = (request[s].ended \/ (Op(s).user = u /\ request[s].pc \notin {"new", "done"}))
    <2>1. mid[s] = request[s] /\ request[s] \in RequestRecords /\ Sound(request[s])
      BY <1>0, <1>3, <1>6 DEF TypeInv
    <2>2. CASE Op(s).user = u /\ request[s].pc \notin {"new", "done"}
      <3> DEFINE rec == [request[s] EXCEPT !.ended = TRUE]
      <3>1. after(s) = rec
        BY <2>1, <2>2 DEF Op
      <3>2. rec \in RequestRecords
        BY <2>1 DEF RequestRecords
      <3>3. SameProgress(rec, request[s]) /\ rec.ended = TRUE
        BY <2>1 DEF RequestRecords, SameProgress
      <3> HIDE DEF rec
      <3>4. Sound(rec)
        BY <2>1, <2>2, <3>2, <3>3 DEF Sound, SameProgress
      <3> HIDE DEF after
      <3> QED
        BY <2>1, <2>2, <3>1, <3>3, <3>4 DEF RequestRecords
    <2>3. CASE ~ (Op(s).user = u /\ request[s].pc \notin {"new", "done"})
      <3>1. after(s) = request[s]
        BY <2>1, <2>3 DEF Op
      <3>2. request[s].ended \in BOOLEAN
        BY <2>1 DEF RequestRecords
      <3> HIDE DEF after
      <3> QED
        BY <2>1, <2>3, <3>1, <3>2 DEF SameProgress
    <2> QED
      BY <2>2, <2>3
  <1> HIDE DEF after
  <1>7. \A s \in Requests : request'[s] = after(s)
    BY <1>4
  <1>8. RequestsTyped'
    <2>1. \A s \in Requests : Sound(after(s))
      BY <1>1, <1>5, <1>6
    <2>2. \A s \in Requests : after(s) \in RequestRecords
      BY <2>1 DEF Sound
    <2> QED
      BY <1>4, <1>7, <2>1, <2>2 DEF RequestsTyped
  <1> QED
    BY <1>1, <1>5, <1>6, <1>7, <1>8

\* A request writes its own record; the others keep theirs but for the session.
LEMMA OwnRecord ==
    ASSUME TypeInv, NEW r \in Requests, NEW rec, Writes(r, rec)
    PROVE  /\ RequestsTyped' /\ request'[r] = rec /\ request'[r].op = Op(r)
           /\ \A s \in Requests \ {r} : request'[s] = request[s] /\ SameProgress(request'[s], request[s])
  <1>1. RequestsTyped'
    BY RequestWritten DEF Writes
  <1>2. request \in [Requests -> RequestRecords]
    BY DEF TypeInv
  <1> QED
    BY <1>1, <1>2 DEF Writes, SameProgress

LEMMA CommitWrites ==
    ASSUME TypeInv, NEW r \in Requests, Commit(r)
    PROVE  /\ RequestsTyped' /\ request'[r].pc = "done" /\ request'[r].op = Op(r)
           /\ \A s \in Requests \ {r} : SameProgress(request'[s], request[s])
           /\ locks' = locks \ Held(r) /\ request[r].pc = "commit"
           /\ UNCHANGED clock
  <1>0. request[r] \in RequestRecords /\ Op(r) \in Operations
    BY DEF TypeInv, RequestRecords, Op
  <1>1. ASSUME NEW result \in Results, Ends(r, result)
        PROVE  /\ RequestsTyped' /\ request'[r].pc = "done" /\ request'[r].op = Op(r)
               /\ \A s \in Requests \ {r} : SameProgress(request'[s], request[s])
               /\ locks' = locks \ Held(r)
    <2>1. PICK rec : Writes(r, rec) /\ rec.pc = "done"
      BY <1>1, EndsWrites
    <2> QED
      BY <1>1, <2>1, OwnRecord DEF Ends
  <1>2. request[r].pc = "commit" /\ clock' = clock
    BY DEF Commit, CommitStatus, CommitRegister, CommitCreate, CommitTransfer, CommitUpdate, CommitRefresh,
       CommitLogout, CommitLogin, Commits, At
  <1>3. CASE CommitRegister(r) \/ CommitCreate(r) \/ CommitTransfer(r) \/ CommitUpdate(r) \/ CommitRefresh(r)
    <2>1. Ends(r, "ok") \/ Ends(r, "email_conflict")
      BY <1>3 DEF CommitRegister, CommitCreate, CommitTransfer, CommitUpdate, CommitRefresh
    <2>2. "ok" \in Results /\ "email_conflict" \in Results
      BY DEF Results
    <2> QED
      BY <1>1, <1>2, <2>1, <2>2
  <1>4. CASE CommitLogin(r)
    <2>1. Ends(r, request[r].result) /\ request[r].result \in Results
      BY <1>0, <1>4 DEF CommitLogin, RequestRecords
    <2> QED
      BY <1>1, <1>2, <2>1
  <1>5. CASE CommitLogout(r)
    <2>1. Op(r).user \in Users
      BY <1>0, OperationTypes
    <2> QED
      BY <1>2, <1>5, <2>1, EndedWrites DEF CommitLogout
  <1>6. CASE CommitStatus(r)
    <2>1. Op(r).target \in Users
      BY <1>0, <1>6, OperationTypes DEF CommitStatus, Commits, At
    <2>2. CASE EndSessions(Op(r).target, Answered(r, "ok"))
      BY <1>2, <1>6, <2>1, <2>2, EndedWrites DEF CommitStatus
    <2>3. CASE request' = Answered(r, "ok")
      <3>1. Ends(r, "ok") /\ "ok" \in Results
        BY <1>6, <2>3 DEF CommitStatus, Answered, Ends, Results
      <3> QED
        BY <1>1, <1>2, <3>1
    <2> QED
      BY <1>6, <2>2, <2>3 DEF CommitStatus
  <1> QED
    BY <1>3, <1>4, <1>5, <1>6 DEF Commit

UserRows == [status : {"absent", "active", "disabled"}, generation : Nat]
TablesTyped ==
    /\ users \in [Users -> UserRows]
    /\ manager \in [Projects -> Users \cup {NoOne}]
    /\ history \in [Projects -> Seq((Users \cup {NoOne}) \X Users)]
    /\ tokens \subseteq [user : Users, generation : Nat, ended : BOOLEAN]
    /\ failures \subseteq [key : Keys, by : Requests, expires : 0 .. MaxClock + Window]

\* Rows that exist stay: a User, and the management of a Project.
RowsStay ==
    /\ \A u \in Users : users[u].status # "absent" => users'[u].status # "absent"
    /\ \A p \in Projects : manager[p] # NoOne => manager'[p] # NoOne

LEMMA CommitRows ==
    ASSUME TypeInv, NEW r \in Requests, Commit(r)
    PROVE  TablesTyped' /\ RowsStay
  <1>0. /\ request[r] \in RequestRecords /\ Op(r) \in Operations /\ TablesTyped /\ NoOne \notin Users
        /\ Op(r).user \in Users
    BY AccessAssumption, OperationTypes DEF TypeInv, RequestRecords, Op, TablesTyped, UserRows
  <1>u. ASSUME NEW u \in Users, NEW row \in UserRows, row.status # "absent",
               users' = [users EXCEPT ![u] = row]
        PROVE  /\ users' \in [Users -> UserRows]
               /\ \A v \in Users : users[v].status # "absent" => users'[v].status # "absent"
    BY <1>0, <1>u DEF TablesTyped
  <1>t. ASSUME NEW u \in Users, NEW requests, EndSessions(u, requests)
        PROVE  tokens' \subseteq [user : Users, generation : Nat, ended : BOOLEAN]
    <2>1. \A t \in tokens : [t EXCEPT !.ended = TRUE] \in [user : Users, generation : Nat, ended : BOOLEAN]
      BY <1>0 DEF TablesTyped
    <2> QED
      BY <1>0, <1>t, <2>1 DEF EndSessions, TablesTyped
  <1>i. ASSUME IssueToken(r)
        PROVE  tokens' \subseteq [user : Users, generation : Nat, ended : BOOLEAN]
    <2>1. request[r].generation \in Nat /\ request[r].ended \in BOOLEAN
      BY <1>0 DEF RequestRecords
    <2> QED
      BY <1>0, <1>i, <2>1 DEF IssueToken, TablesTyped
  <1>m. ASSUME NEW p \in Projects, NEW u \in Users, NEW from \in Users \cup {NoOne},
               manager' = [manager EXCEPT ![p] = u],
               history' = [history EXCEPT ![p] = Append(@, <<from, u>>)]
        PROVE  /\ manager' \in [Projects -> Users \cup {NoOne}]
               /\ history' \in [Projects -> Seq((Users \cup {NoOne}) \X Users)]
               /\ \A q \in Projects : manager[q] # NoOne => manager'[q] # NoOne
    <2>1. Append(history[p], <<from, u>>) \in Seq((Users \cup {NoOne}) \X Users)
      BY <1>0 DEF TablesTyped
    <2> QED
      BY <1>0, <1>m, <2>1 DEF TablesTyped
  <1>1. CASE CommitStatus(r)
    <2>1. Op(r).kind = "status" /\ Op(r).target \in Users
      BY <1>0, <1>1, OperationTypes DEF CommitStatus, Commits, At
    <2>2. users[Op(r).target] \in UserRows
      BY <1>0, <2>1 DEF TablesTyped
    <2>3. CASE Op(r).status = "disabled"
      <3> DEFINE row == [status |-> "disabled", generation |-> users[Op(r).target].generation + 1]
      <3>1. users' = [users EXCEPT ![Op(r).target] = row] /\ EndSessions(Op(r).target, Answered(r, "ok"))
        BY <1>1, <2>3 DEF CommitStatus
      <3>2. row \in UserRows /\ row.status # "absent"
        BY <2>2 DEF UserRows
      <3> HIDE DEF row
      <3> QED
        BY <1>0, <1>1, <1>t, <1>u, <2>1, <3>1, <3>2 DEF CommitStatus, TablesTyped, RowsStay
    <2>4. CASE Op(r).status = "active"
      <3> DEFINE row == [users[Op(r).target] EXCEPT !.status = "active"]
      <3>1. users' = [users EXCEPT ![Op(r).target] = row] /\ tokens' = tokens
        BY <1>1, <2>4 DEF CommitStatus
      <3>2. row \in UserRows /\ row.status # "absent"
        BY <2>2 DEF UserRows
      <3> HIDE DEF row
      <3> QED
        BY <1>0, <1>1, <1>u, <2>1, <3>1, <3>2 DEF CommitStatus, TablesTyped, RowsStay
    <2> QED
      BY <1>1, <2>3, <2>4 DEF CommitStatus
  <1>2. CASE CommitRegister(r)
    <2>1. Op(r).target \in Users
      BY <1>0, <1>2, OperationTypes DEF CommitRegister, Commits, At
    <2>2. CASE users' = users
      BY <1>0, <1>2, <2>2 DEF CommitRegister, TablesTyped, RowsStay
    <2>3. CASE users' = [users EXCEPT ![Op(r).target] = [status |-> "active", generation |-> 0]]
      <3> DEFINE row == [status |-> "active", generation |-> 0]
      <3>1. row \in UserRows /\ row.status # "absent" /\ users' = [users EXCEPT ![Op(r).target] = row]
        BY <2>3 DEF UserRows
      <3> HIDE DEF row
      <3> QED
        BY <1>0, <1>2, <1>u, <2>1, <3>1 DEF CommitRegister, TablesTyped, RowsStay
    <2> QED
      BY <1>2, <2>2, <2>3 DEF CommitRegister
  <1>3. CASE CommitCreate(r)
    <2>1. Op(r).target \in Users /\ Op(r).project \in Projects
      BY <1>0, <1>3, OperationTypes DEF CommitCreate, Commits, At
    <2> QED
      BY <1>0, <1>3, <1>m, <2>1 DEF CommitCreate, TablesTyped, RowsStay
  <1>4. CASE CommitTransfer(r)
    <2>1. Op(r).target \in Users /\ Op(r).project \in Projects /\ request[r].observed \in Users \cup {NoOne}
      BY <1>0, <1>4, OperationTypes DEF CommitTransfer, Commits, At, RequestRecords
    <2> QED
      BY <1>0, <1>4, <1>m, <2>1 DEF CommitTransfer, TablesTyped, RowsStay
  <1>5. CASE CommitUpdate(r)
    BY <1>0, <1>5 DEF CommitUpdate, TablesTyped, RowsStay
  <1>6. CASE CommitRefresh(r)
    BY <1>0, <1>6, <1>i DEF CommitRefresh, TablesTyped, RowsStay
  <1>7. CASE CommitLogout(r)
    <2> DEFINE u == Op(r).user
               row == [users[u] EXCEPT !.generation = users[u].generation + 1]
    <2>1. users' = [users EXCEPT ![u] = row] /\ EndSessions(u, Answered(r, "ok"))
      BY <1>7 DEF CommitLogout
    <2>2. users[u] \in UserRows
      BY <1>0 DEF TablesTyped
    <2>3. row \in UserRows /\ row.status = users[u].status
      BY <2>2 DEF UserRows
    <2> HIDE DEF row
    <2>4. /\ users' \in [Users -> UserRows]
          /\ \A v \in Users : users[v].status # "absent" => users'[v].status # "absent"
      BY <1>0, <2>1, <2>3 DEF TablesTyped
    <2> QED
      BY <1>0, <1>7, <1>t, <2>1, <2>4 DEF CommitLogout, TablesTyped, RowsStay
  <1>8. CASE CommitLogin(r)
    <2>1. Op(r).ip \in Addresses /\ request[r].now \in 0 .. MaxClock
      BY <1>0, <1>8, OperationTypes DEF CommitLogin, Commits, At, RequestRecords
    <2>2. LoginFailures(r) \subseteq [key : Keys, by : Requests, expires : 0 .. MaxClock + Window]
      <3>1. EmailKey(Op(r).user, Op(r).ip) \in Keys /\ IPKey(Op(r).ip) \in Keys
        BY <1>0, <2>1, KeysOf
      <3>2. request[r].now + Window \in 0 .. MaxClock + Window
        BY <2>1, AccessAssumption
      <3> QED
        BY <3>1, <3>2 DEF LoginFailures
    <2>3. failures' \subseteq failures \cup LoginFailures(r) /\ (IssueToken(r) \/ tokens' = tokens)
      BY <1>8 DEF CommitLogin
    <2> QED
      BY <1>0, <1>8, <1>i, <2>2, <2>3 DEF CommitLogin, TablesTyped, RowsStay
  <1> QED
    BY <1>1, <1>2, <1>3, <1>4, <1>5, <1>6, <1>7, <1>8 DEF Commit

LEMMA StepCases ==
    ASSUME TypeInv, NEW r \in Requests, RequestStep(r) \/ Abort(r)
    PROVE  \/ Failed(r) \/ Parses(r) \/ Begins(r) \/ LoginBegins(r) \/ Selects(r) \/ Grants(r)
           \/ Retries(r) \/ Decides(r) \/ DecideLogin(r) \/ Commit(r)
  BY DecideCases, LockCases DEF RequestStep, Commit

LEMMA FailedWrites ==
    ASSUME TypeInv, NEW r \in Requests, Failed(r)
    PROVE  \E rec : Writes(r, rec) /\ rec.pc = "done" /\ Unwritten /\ locks' = locks \ Held(r)
  <1>1. PICK result \in Results : Fails(r, result)
    BY DEF Failed
  <1>2. Ends(r, result) /\ Unwritten /\ locks' = locks \ Held(r)
    BY <1>1 DEF Fails, Ends, Unwritten
  <1> QED
    BY <1>2, EndsWrites

LEMMA TypeStep == TypeInv /\ [Next]_vars => TypeInv'
  <1> SUFFICES ASSUME TypeInv, [Next]_vars PROVE TypeInv'
    OBVIOUS
  <1>0. /\ TablesTyped /\ RequestsTyped /\ locks \subseteq [row : Resources, mode : Modes, by : Requests]
        /\ \A r \in Requests : Op(r).kind = "transfer" /\ request[r].pc \in {"locking", "commit"} =>
              manager[Op(r).project] # NoOne
        /\ clock \in 0 .. MaxClock
    BY DEF TypeInv, TablesTyped, RequestsTyped, UserRows
  <1>1. ASSUME TablesTyped', RequestsTyped', RowsStay, clock' \in 0 .. MaxClock,
               locks' \subseteq [row : Resources, mode : Modes, by : Requests],
               NEW r \in Requests, request'[r].op = Op(r),
               \A s \in Requests \ {r} : SameProgress(request'[s], request[s]),
               Op(r).kind = "transfer" /\ request'[r].pc \in {"locking", "commit"} =>
                   manager'[Op(r).project] # NoOne
        PROVE  TypeInv'
    <2>1. ASSUME NEW s \in Requests, Op(s)'.kind = "transfer", request'[s].pc \in {"locking", "commit"}
          PROVE  manager'[Op(s)'.project] # NoOne
      <3>1. CASE s = r
        BY <1>1, <2>1, <3>1 DEF Op
      <3>2. CASE s # r
        <4>1. Op(s)' = Op(s) /\ request'[s].pc = request[s].pc
          BY <1>1, <3>2 DEF SameProgress, Op
        <4>2. Op(s).project \in Projects
          BY <1>0, <2>1, <4>1, OperationTypes DEF RequestsTyped, RequestRecords, Op
        <4> QED
          BY <1>0, <1>1, <2>1, <4>1, <4>2 DEF RowsStay
      <3> QED
        BY <3>1, <3>2
    <2> QED
      BY <1>1, <2>1 DEF TypeInv, TablesTyped, RequestsTyped, UserRows
  <1>2. ASSUME NEW r \in Requests, NEW rec, Writes(r, rec), Unwritten,
               locks' \subseteq [row : Resources, mode : Modes, by : Requests],
               Op(r).kind = "transfer" /\ rec.pc \in {"locking", "commit"} => manager[Op(r).project] # NoOne
        PROVE  TypeInv'
    <2>1. /\ RequestsTyped' /\ request'[r] = rec /\ request'[r].op = Op(r)
          /\ \A s \in Requests \ {r} : SameProgress(request'[s], request[s])
      BY <1>2, OwnRecord
    <2>2. TablesTyped' /\ RowsStay /\ clock' \in 0 .. MaxClock /\ manager' = manager
      BY <1>0, <1>2 DEF Unwritten, TablesTyped, RowsStay
    <2> QED
      BY <1>1, <1>2, <2>1, <2>2
  <1>3. ASSUME NEW r \in Requests, RequestStep(r) \/ Abort(r)
        PROVE  TypeInv'
    <2>0. /\ request[r].pc \in {"locking", "commit"} /\ Op(r).kind = "transfer" => manager[Op(r).project] # NoOne
          /\ locks \ Held(r) \subseteq [row : Resources, mode : Modes, by : Requests]
      BY <1>0
    <2>1. CASE Failed(r)
      <3>1. PICK rec : Writes(r, rec) /\ rec.pc = "done" /\ Unwritten /\ locks' = locks \ Held(r)
        BY <2>1, FailedWrites
      <3> QED
        BY <1>2, <2>0, <3>1
    <2>2. CASE Parses(r)
      <3>1. PICK rec : Writes(r, rec) /\ rec.pc = "parsed"
        BY <2>2, ParsesWrites
      <3> QED
        BY <1>0, <1>2, <2>2, <3>1 DEF Parses
    <2>3. CASE Begins(r) \/ LoginBegins(r)
      <3>1. PICK rec : /\ Writes(r, rec) /\ Unwritten /\ UNCHANGED locks
                       /\ Op(r).kind = "transfer" => manager[Op(r).project] # NoOne
        BY <2>3, BeginsWrites
      <3> QED
        BY <1>0, <1>2, <3>1
    <2>4. CASE Selects(r)
      <3>1. PICK rec : Writes(r, rec)
        BY <2>4, SelectsWrites
      <3> QED
        BY <1>0, <1>2, <2>0, <2>4, <3>1 DEF Selects
    <2>5. CASE Grants(r)
      <3>1. PICK rec : Writes(r, rec)
        BY <2>5, GrantsWrites
      <3>2. request[r].todo \in Seq(LockRequests) /\ request[r].todo # <<>> /\ request[r].pc = "locking"
        BY <1>0, <2>5 DEF RequestsTyped, RequestRecords, Grants
      <3>3. Head(request[r].todo) \in LockRequests
        BY <3>2
      <3>4. locks' \subseteq [row : Resources, mode : Modes, by : Requests]
        BY <1>0, <2>5, <3>3 DEF Grants, LockRequests
      <3> QED
        BY <1>2, <2>0, <2>5, <3>1, <3>2, <3>4 DEF Grants
    <2>6. CASE Retries(r)
      <3>1. PICK rec : Writes(r, rec)
        BY <2>6, RetriesWrites
      <3> QED
        BY <1>2, <2>0, <2>6, <3>1 DEF Retries, Retry, HasLocks, At, Unwritten
    <2>7. CASE Decides(r)
      <3>1. PICK rec : Writes(r, rec)
        BY <2>7, DecidesWrites
      <3> QED
        BY <1>0, <1>2, <2>0, <2>7, <3>1 DEF Decides, Decided, Unwritten
    <2>8. CASE DecideLogin(r)
      <3>1. PICK rec : Writes(r, rec) /\ Op(r).kind = "login" /\ Unwritten /\ UNCHANGED locks
        BY <2>8, DecideLoginWrites
      <3> QED
        BY <1>0, <1>2, <3>1
    <2>9. CASE Commit(r)
      BY <1>0, <1>1, <2>0, <2>9, CommitWrites, CommitRows
    <2> QED
      BY <1>3, <2>1, <2>2, <2>3, <2>4, <2>5, <2>6, <2>7, <2>8, <2>9, StepCases
  <1>4. CASE Tick
    <2>1. clock' \in 0 .. MaxClock
      BY <1>0, <1>4, AccessAssumption DEF Tick
    <2> QED
      BY <1>4, <2>1 DEF Tick, TypeInv, Op
  <1>5. CASE UNCHANGED vars
    BY <1>5 DEF vars, TypeInv, Op
  <1> QED
    BY <1>3, <1>4, <1>5 DEF Next

LEMMA InitType == Init => TypeInv
  <1> SUFFICES ASSUME Init PROVE TypeInv
    OBVIOUS
  <1>1. PICK scenario \in Scenarios : request = [r \in Requests |-> Fresh(scenario[r])]
    BY DEF Init
  <1>2. \A r \in Requests : Sound(Fresh(scenario[r])) /\ Fresh(scenario[r]).pc = "new"
    <2>1. \A r \in Requests : scenario[r] \in Operations
      BY <1>1, AccessAssumption
    <2>2. "ok" \in Results
      BY DEF Results
    <2> QED
      BY <2>1, <2>2, FreshRecord
  <1>3. RequestsTyped /\ \A r \in Requests : request[r].pc = "new"
    <2>1. \A r \in Requests : Fresh(scenario[r]) \in RequestRecords
      BY <1>2 DEF Sound
    <2> QED
      BY <1>1, <1>2, <2>1 DEF RequestsTyped
  <1>4. /\ users \in [Users -> [status : {"absent", "active", "disabled"}, generation : Nat]]
        /\ tokens \subseteq [user : Users, generation : Nat, ended : BOOLEAN]
        /\ failures = {} /\ locks = {} /\ clock \in 0 .. MaxClock
    <2>1. InitialUsers \subseteq Users /\ MaxClock \in Nat
      BY AccessAssumption
    <2>2. \A u \in Users : [status |-> IF u \in InitialUsers THEN "active" ELSE "absent", generation |-> 0]
                              \in [status : {"absent", "active", "disabled"}, generation : Nat]
      OBVIOUS
    <2>3. users \in [Users -> [status : {"absent", "active", "disabled"}, generation : Nat]]
      BY <2>2 DEF Init
    <2>4. tokens \subseteq [user : Users, generation : Nat, ended : BOOLEAN]
      <3>1. \A u \in InitialUsers : [user |-> u, generation |-> 0, ended |-> FALSE]
                                     \in [user : Users, generation : Nat, ended : BOOLEAN]
        BY <2>1
      <3> QED
        BY <3>1 DEF Init
    <2> QED
      BY <2>1, <2>3, <2>4 DEF Init
  <1>5. manager \in [Projects -> Users \cup {NoOne}]
    BY AccessAssumption DEF Init
  <1>6. history \in [Projects -> Seq((Users \cup {NoOne}) \X Users)]
    <2>1. ASSUME NEW p \in Projects
          PROVE  history[p] \in Seq((Users \cup {NoOne}) \X Users)
      <3>1. history[p] = IF manager[p] = NoOne THEN <<>> ELSE <<<<NoOne, manager[p]>>>>
        BY DEF Init
      <3>2. manager[p] # NoOne => <<NoOne, manager[p]>> \in (Users \cup {NoOne}) \X Users
        BY <1>5
      <3> QED
        BY <3>1, <3>2
    <2> QED
      BY <2>1 DEF Init
  <1> QED
    BY <1>3, <1>4, <1>5, <1>6 DEF TypeInv, RequestsTyped

-----------------------------------------------------------------------------
(* Locks.                                                                  *)

HeldBy(r, row, mode) == [row |-> row, mode |-> mode, by |-> r] \in locks

\* At most one holder of an exclusive lock; the User it is on exists; a transaction has,
\* or has still to ask for, every lock its operation needs.
LockInv ==
    /\ \A k, l \in locks : k.row = l.row /\ k.mode = l.mode /\ k.mode \in {"update", "advisory"} => k.by = l.by
    /\ \A k \in locks : k.row \in Users => users[k.row].status # "absent"
    /\ \A r \in Requests : request[r].pc \in {"locking", "commit"} =>
          \A row, mode : Needs(Op(r), row, mode) => Pending(request[r].todo, row, mode) \/ HeldBy(r, row, mode)
    /\ \A r \in Requests : request[r].pc = "commit" => request[r].todo = <<>>

\* Locks of r may be given back if it asks for all of them again.
LEMMA LocksKept ==
    ASSUME TypeInv, LockInv, NEW r \in Requests, RowsStay,
           locks' = locks \/ locks' = locks \ Held(r),
           request'[r].op = Op(r), \A s \in Requests \ {r} : SameProgress(request'[s], request[s]),
           request'[r].pc \in {"locking", "commit"} =>
              \A row, mode : Needs(Op(r), row, mode) =>
                 Pending(request'[r].todo, row, mode) \/ (locks' = locks /\ HeldBy(r, row, mode)),
           request'[r].pc = "commit" => request'[r].todo = <<>>
    PROVE  LockInv'
  <1>1. /\ \A k, l \in locks' : k.row = l.row /\ k.mode = l.mode /\ k.mode \in {"update", "advisory"} => k.by = l.by
        /\ \A k \in locks' : k.row \in Users => users'[k.row].status # "absent"
    BY DEF LockInv, RowsStay
  <1>2. ASSUME NEW s \in Requests, request'[s].pc \in {"locking", "commit"}, NEW row, NEW mode,
               Needs(Op(s)', row, mode)
        PROVE  Pending(request'[s].todo, row, mode) \/ [row |-> row, mode |-> mode, by |-> s] \in locks'
    <2>1. CASE s = r
      BY <1>2, <2>1 DEF HeldBy, Op
    <2>2. CASE s # r
      <3>1. Op(s)' = Op(s) /\ request'[s].pc = request[s].pc /\ request'[s].todo = request[s].todo
        BY <2>2 DEF SameProgress, Op
      <3>2. Pending(request[s].todo, row, mode) \/ [row |-> row, mode |-> mode, by |-> s] \in locks
        BY <1>2, <3>1 DEF LockInv, HeldBy
      <3>3. [row |-> row, mode |-> mode, by |-> s] \notin Held(r)
        BY <2>2 DEF Held
      <3> QED
        BY <3>1, <3>2, <3>3
    <2> QED
      BY <2>1, <2>2
  <1>3. ASSUME NEW s \in Requests, request'[s].pc = "commit"
        PROVE  request'[s].todo = <<>>
    BY <1>3 DEF LockInv, SameProgress
  <1> QED
    BY <1>1, <1>2, <1>3 DEF LockInv, HeldBy

LEMMA GrantedLock ==
    ASSUME TypeInv, LockInv, NEW r \in Requests, Grants(r)
    PROVE  LockInv'
  <1> DEFINE todo == request[r].todo
             l == Head(todo)
             k == [row |-> l.row, mode |-> l.mode, by |-> r]
  <1>0. PICK rec : /\ Writes(r, rec) /\ rec.pc = "locking" /\ rec.todo = Tail(todo)
    BY GrantsWrites
  <1>1. /\ request'[r] = rec /\ request'[r].op = Op(r)
        /\ \A s \in Requests \ {r} : SameProgress(request'[s], request[s])
    BY <1>0, OwnRecord
  <1>2. /\ locks' = locks \cup {k} /\ UNCHANGED users /\ request[r].pc = "locking"
        /\ todo \in Seq(LockRequests) /\ todo # <<>> /\ Blockers(r, l) = {}
        /\ l.row \in Users => users[l.row].status # "absent"
    BY DEF Grants, Unwritten, TypeInv, RequestRecords
  <1>3. l \in LockRequests
    BY <1>2
  <1>4. \A h \in locks : h.row = l.row /\ h.mode = l.mode /\ h.mode \in {"update", "advisory"} => h.by = r
    BY <1>2 DEF Blockers, LockedBy, Conflict
  <1>5. k.row = l.row /\ k.mode = l.mode /\ k.by = r
    OBVIOUS
  <1>6. ASSUME NEW s \in Requests, request'[s].pc \in {"locking", "commit"}, NEW row, NEW mode,
               Needs(Op(s)', row, mode)
        PROVE  Pending(request'[s].todo, row, mode) \/ [row |-> row, mode |-> mode, by |-> s] \in locks'
    <2>1. CASE s = r
      <3>1. Pending(todo, row, mode) \/ [row |-> row, mode |-> mode, by |-> r] \in locks
        BY <1>1, <1>2, <1>6, <2>1 DEF LockInv, HeldBy, Op
      <3>2. CASE Pending(todo, row, mode)
        <4>1. l = Lock(row, mode) \/ Pending(Tail(todo), row, mode)
          BY <1>2, <3>2, TailPending
        <4> HIDE DEF l
        <4>2. l = Lock(row, mode) => k = [row |-> row, mode |-> mode, by |-> r]
          BY DEF Lock
        <4> QED
          BY <1>0, <1>1, <1>2, <2>1, <4>1, <4>2
      <3> QED
        BY <1>2, <2>1, <3>1, <3>2
    <2>2. CASE s # r
      <3>1. Op(s)' = Op(s) /\ request'[s].pc = request[s].pc /\ request'[s].todo = request[s].todo
        BY <1>1, <2>2 DEF SameProgress, Op
      <3> QED
        BY <1>2, <1>6, <3>1 DEF LockInv, HeldBy
    <2> QED
      BY <2>1, <2>2
  <1>7. ASSUME NEW s \in Requests, request'[s].pc = "commit"
        PROVE  request'[s].todo = <<>>
    BY <1>0, <1>1, <1>7 DEF LockInv, SameProgress
  <1> HIDE DEF k, l
  <1>8. \A g, h \in locks' : g.row = h.row /\ g.mode = h.mode /\ g.mode \in {"update", "advisory"} => g.by = h.by
    BY <1>2, <1>4, <1>5 DEF LockInv
  <1>9. \A g \in locks' : g.row \in Users => users'[g.row].status # "absent"
    BY <1>2, <1>5 DEF LockInv
  <1> QED
    BY <1>6, <1>7, <1>8, <1>9 DEF LockInv, HeldBy

LEMMA LockStep == TypeInv /\ LockInv /\ [Next]_vars => LockInv'
  <1> SUFFICES ASSUME TypeInv, LockInv, [Next]_vars PROVE LockInv'
    OBVIOUS
  <1>1. ASSUME NEW r \in Requests, RequestStep(r) \/ Abort(r)
        PROVE  LockInv'
    <2>0. /\ Unwritten => RowsStay
          /\ request[r].pc \in {"locking", "commit"} =>
                \A row, mode : Needs(Op(r), row, mode) => Pending(request[r].todo, row, mode) \/ HeldBy(r, row, mode)
      BY DEF Unwritten, RowsStay, LockInv
    <2>1. ASSUME NEW rec, Writes(r, rec), Unwritten, locks' = locks \/ locks' = locks \ Held(r),
                 rec.pc \in {"locking", "commit"} =>
                    \A row, mode : Needs(Op(r), row, mode) =>
                       Pending(rec.todo, row, mode) \/ (locks' = locks /\ HeldBy(r, row, mode)),
                 rec.pc = "commit" => rec.todo = <<>>
          PROVE  LockInv'
      <3>1. /\ request'[r] = rec /\ request'[r].op = Op(r)
            /\ \A s \in Requests \ {r} : SameProgress(request'[s], request[s])
        BY <2>1, OwnRecord
      <3> QED
        BY <2>0, <2>1, <3>1, LocksKept
    <2>2. CASE Failed(r)
      <3>1. PICK rec : Writes(r, rec) /\ rec.pc = "done" /\ Unwritten /\ locks' = locks \ Held(r)
        BY <2>2, FailedWrites
      <3> QED
        BY <2>1, <3>1
    <2>3. CASE Parses(r)
      <3>1. PICK rec : Writes(r, rec) /\ rec.pc = "parsed"
        BY <2>3, ParsesWrites
      <3> QED
        BY <2>1, <2>3, <3>1 DEF Parses
    <2>4. CASE Begins(r) \/ LoginBegins(r)
      <3>1. PICK rec : /\ Writes(r, rec) /\ Unwritten /\ UNCHANGED locks /\ rec.pc = "locking"
                       /\ \A row, mode : Needs(Op(r), row, mode) => Pending(rec.todo, row, mode)
        BY <2>4, BeginsWrites
      <3> QED
        BY <2>1, <3>1
    <2>5. CASE Selects(r)
      <3>1. PICK rec : Writes(r, rec) /\ rec.pc = "locking" /\ rec.todo = request[r].todo
        BY <2>5, SelectsWrites
      <3> QED
        BY <2>0, <2>1, <2>5, <3>1 DEF Selects
    <2>6. CASE Retries(r)
      <3>1. PICK rec : /\ Writes(r, rec) /\ rec.pc = "locking"
                       /\ \A row, mode : Needs(Op(r), row, mode) => Pending(rec.todo, row, mode)
        BY <2>6, RetriesWrites
      <3>2. Unwritten /\ locks' = locks \ Held(r)
        BY <2>6 DEF Retries, Retry, Unwritten
      <3> QED
        BY <2>1, <3>1, <3>2
    <2>7. CASE Decides(r)
      <3>1. PICK rec : Writes(r, rec) /\ rec.pc = "commit" /\ rec.todo = request[r].todo
        BY <2>7, DecidesWrites
      <3>2. Unwritten /\ locks' = locks /\ request[r].pc = "locking" /\ request[r].todo = <<>>
        BY <2>7 DEF Decides, Decided, Unwritten
      <3> QED
        BY <2>0, <2>1, <3>1, <3>2
    <2>8. CASE DecideLogin(r)
      <3>1. PICK rec : /\ Writes(r, rec) /\ rec.pc = "commit" /\ rec.todo = <<>> /\ request[r].todo = <<>>
                       /\ Unwritten /\ UNCHANGED locks /\ request[r].pc = "locking"
        BY <2>8, DecideLoginWrites
      <3> QED
        BY <2>0, <2>1, <3>1
    <2>9. CASE Commit(r)
      BY <2>9, CommitWrites, CommitRows, LocksKept
    <2> QED
      BY <1>1, <2>2, <2>3, <2>4, <2>5, <2>6, <2>7, <2>8, <2>9, GrantedLock, StepCases
  <1>2. CASE Tick \/ UNCHANGED vars
    BY <1>2 DEF Tick, vars, LockInv, HeldBy, Op
  <1> QED
    BY <1>1, <1>2 DEF Next

-----------------------------------------------------------------------------
(* Managers.                                                               *)

\* What was decided still holds when the transaction commits.
CommitInv == \A r \in Requests : request[r].pc = "commit" => Verdict(r)

LEMMA LocksAtCommit ==
    ASSUME LockInv, NEW r \in Requests, request[r].pc = "commit", NEW row, NEW mode, Needs(Op(r), row, mode)
    PROVE  HeldBy(r, row, mode)
  BY DEF LockInv, Pending

LEMMA OneHolder ==
    ASSUME LockInv, NEW r \in Requests, NEW s \in Requests, NEW row, NEW mode \in {"update", "advisory"},
           HeldBy(r, row, mode), HeldBy(s, row, mode)
    PROVE  r = s
  BY DEF LockInv, HeldBy

\* A User's status is changed by enabling, disabling and registration only.
LEMMA StatusChange ==
    ASSUME TypeInv, NEW r \in Requests, Commit(r), NEW u \in Users, users'[u].status # users[u].status
    PROVE  \/ /\ Op(r).kind = "status" /\ u = Op(r).target
              /\ users'[u].status = Op(r).status
           \/ users[u].status = "absent" /\ users'[u].status = "active"
  <1>0. users \in [Users -> UserRows] /\ Op(r) \in Operations
    BY DEF TypeInv, UserRows, RequestRecords, Op
  <1>1. CASE CommitStatus(r)
    <2>1. Op(r).kind = "status" /\ Op(r).target \in Users
      BY <1>0, <1>1, OperationTypes DEF CommitStatus, Commits, At
    <2>2. users[Op(r).target] \in UserRows
      BY <1>0, <2>1
    <2>3. CASE Op(r).status = "disabled"
      <3> DEFINE row == [status |-> "disabled", generation |-> users[Op(r).target].generation + 1]
      <3>1. users' = [users EXCEPT ![Op(r).target] = row] /\ row.status = "disabled"
        BY <1>1, <2>3 DEF CommitStatus
      <3> HIDE DEF row
      <3> QED
        BY <1>0, <2>1, <2>3, <3>1
    <2>4. CASE Op(r).status = "active"
      <3> DEFINE row == [users[Op(r).target] EXCEPT !.status = "active"]
      <3>1. users' = [users EXCEPT ![Op(r).target] = row]
        BY <1>1, <2>4 DEF CommitStatus
      <3>2. row.status = "active"
        BY <2>2 DEF UserRows
      <3> HIDE DEF row
      <3> QED
        BY <1>0, <2>1, <2>4, <3>1, <3>2
    <2> QED
      BY <1>1, <2>3, <2>4 DEF CommitStatus
  <1>2. CASE CommitRegister(r)
    <2>1. Op(r).target \in Users
      BY <1>0, <1>2, OperationTypes DEF CommitRegister, Commits, At
    <2> QED
      BY <1>0, <1>2, <2>1 DEF CommitRegister
  <1>3. CASE CommitLogout(r)
    <2> DEFINE v == Op(r).user
               row == [users[v] EXCEPT !.generation = users[v].generation + 1]
    <2>1. users' = [users EXCEPT ![v] = row] /\ v \in Users
      BY <1>0, <1>3, OperationTypes DEF CommitLogout
    <2>2. users[v] \in UserRows
      BY <1>0, <2>1
    <2>3. row.status = users[v].status
      BY <2>2 DEF UserRows
    <2> HIDE DEF row
    <2> QED
      BY <1>0, <2>1, <2>3
  <1>4. CASE users' = users
    BY <1>4
  <1> QED
    BY <1>1, <1>2, <1>3, <1>4 DEF Commit, CommitCreate, CommitTransfer, CommitUpdate, CommitRefresh, CommitLogin

\* A Project's manager is changed by its creation and by transfers only.
LEMMA ManagerChange ==
    ASSUME TypeInv, NEW r \in Requests, Commit(r)
    PROVE  \/ UNCHANGED <<manager, history>>
           \/ /\ Op(r).kind \in {"create", "transfer"} /\ UNCHANGED users
              /\ Op(r).kind = "create" => manager[Op(r).project] = NoOne
              /\ manager' = [manager EXCEPT ![Op(r).project] = Op(r).target]
              /\ \E from : /\ from = (IF Op(r).kind = "create" THEN NoOne ELSE request[r].observed)
                           /\ history' = [history EXCEPT ![Op(r).project] = Append(@, <<from, Op(r).target>>)]
  <1>1. CASE CommitCreate(r)
    BY <1>1 DEF CommitCreate, Commits, At
  <1>2. CASE CommitTransfer(r)
    BY <1>2 DEF CommitTransfer, Commits, At
  <1> QED
    BY <1>1, <1>2 DEF Commit, CommitStatus, CommitRegister, CommitUpdate, CommitRefresh, CommitLogout, CommitLogin

\* The rows a decision rests on are locked until the commit.
LEMMA VerdictKept ==
    ASSUME TypeInv, LockInv, CommitInv, NEW r \in Requests, Commit(r),
           NEW s \in Requests, s # r, request[s].pc = "commit"
    PROVE  Verdict(s)'
  <1>0. /\ Verdict(s) /\ Op(s) \in Operations /\ Op(r) \in Operations /\ NoOne \notin Users
        /\ request[r].pc = "commit" /\ SameProgress(request'[s], request[s])
        /\ manager \in [Projects -> Users \cup {NoOne}]
        /\ Sound(request[s])
    BY CommitWrites, AccessAssumption DEF CommitInv, TypeInv, RequestRecords, Op
  <1>1. Op(s)' = Op(s) /\ request'[s].observed = request[s].observed
    BY <1>0 DEF SameProgress, Op
  <1>2. Op(s).kind = "transfer" => request[s].observed # NoOne
    BY <1>0 DEF Sound, Op
  <1>3. /\ Op(s).kind \in {"status", "create", "transfer"} => Op(s).target \in Users
        /\ Op(r).kind \in {"status", "create", "transfer"} => Op(r).target \in Users
        /\ Op(s).kind \in {"transfer", "update"} => Op(s).project \in Projects
        /\ Op(r).kind \in {"create", "transfer", "update"} => Op(r).project \in Projects
        /\ Op(s).user \in Users
    BY <1>0, OperationTypes
  <1>4. ASSUME Op(s).kind \in {"status", "create", "transfer"}, Op(r).kind \in {"status", "create", "transfer"}
        PROVE  Op(s).target # Op(r).target
    <2>1. HeldBy(s, Op(s).target, "update") /\ HeldBy(r, Op(r).target, "update")
      BY <1>0, <1>4, LocksAtCommit DEF Needs
    <2> QED
      BY <2>1, OneHolder
  <1>5. ASSUME Op(s).kind \in {"transfer", "update"}, Op(r).kind \in {"transfer", "update"}
        PROVE  Op(s).project # Op(r).project
    <2>1. HeldBy(s, Op(s).project, "update") /\ HeldBy(r, Op(r).project, "update")
      BY <1>0, <1>5, LocksAtCommit DEF Needs
    <2> QED
      BY <2>1, OneHolder
  <1>6. ASSUME Op(s).kind = "status"
        PROVE  /\ Op(s).target # Admin
               /\ Op(s).status = "disabled" => \A p \in Projects : manager'[p] # Op(s).target
    BY <1>0, <1>3, <1>4, <1>6, ManagerChange DEF Verdict
  <1>7. ASSUME Op(s).kind \in {"create", "transfer"}
        PROVE  users'[Op(s).target].status # "disabled"
    <2>1. Op(s).target \in Users /\ users[Op(s).target].status # "disabled"
      BY <1>0, <1>3, <1>7 DEF Verdict
    <2>2. CASE users'[Op(s).target].status # users[Op(s).target].status
      BY <1>4, <1>7, <2>1, <2>2, StatusChange
    <2> QED
      BY <2>1, <2>2
  <1>8. ASSUME Op(s).kind = "transfer"
        PROVE  manager'[Op(s).project] = request[s].observed
    BY <1>0, <1>2, <1>3, <1>5, <1>8, ManagerChange DEF Verdict
  <1>9. ASSUME Op(s).kind = "update"
        PROVE  Op(s).user = Admin \/ manager'[Op(s).project] = Op(s).user
    <2>1. Op(s).user = Admin \/ manager[Op(s).project] = Op(s).user
      BY <1>0, <1>9 DEF Verdict, CanAccessProject, IsSuperAdmin
    <2> QED
      BY <1>0, <1>3, <1>5, <1>9, <2>1, ManagerChange
  <1> QED
    BY <1>1, <1>6, <1>7, <1>8, <1>9 DEF Verdict, CanAccessProject, IsSuperAdmin

\* What a step other than a commit leaves in the record of its request.
StepWrites(r, rec) ==
    /\ Writes(r, rec) /\ Unwritten
    /\ rec.pc = "commit" =>
          /\ rec.now = request[r].now /\ request[r].pc = "locking" /\ request[r].todo = <<>>
          /\ \/ Op(r).kind # "login" /\ Verdict(r) /\ rec.observed = request[r].observed
             \/ /\ Op(r).kind = "login"
                /\ rec.result = "invalid_credentials" => ~RateLimited(r)
                /\ rec.result = "valid" => users[Op(r).user].status # "absent"
    /\ rec.pc # "done" => request[r].pc # "done"
    /\ rec.pc # "done" =>
          \/ SameSession(rec, request[r]) /\ (Op(r).kind # "login" => request[r].pc # "new")
          \/ \E t \in tokens : t.user = Op(r).user /\ rec.generation = t.generation /\ rec.ended = t.ended
          \/ Op(r).kind = "login" /\ rec.generation = users[Op(r).user].generation /\ rec.ended = FALSE
    /\ Op(r).kind = "login" /\ rec.pc \in {"locking", "commit"} =>
          rec.now = clock \/ (rec.now = request[r].now /\ request[r].pc \in {"locking", "commit"})

LEMMA StepsWrite ==
    ASSUME TypeInv, NEW r \in Requests, RequestStep(r) \/ Abort(r), ~Commit(r)
    PROVE  \E rec : StepWrites(r, rec)
  <1>1. CASE Failed(r)
    <2>1. PICK rec : Writes(r, rec) /\ rec.pc = "done" /\ Unwritten
      BY <1>1, FailedWrites
    <2> QED
      BY <2>1 DEF StepWrites
  <1>2. CASE Parses(r)
    <2>1. PICK rec, t : /\ Writes(r, rec) /\ rec.pc = "parsed" /\ t \in tokens /\ t.user = Op(r).user
                        /\ rec.generation = t.generation /\ rec.ended = t.ended
      BY <1>2, ParsesWrites
    <2> QED
      BY <1>2, <2>1 DEF StepWrites, Parses
  <1>3. CASE Begins(r) \/ LoginBegins(r)
    <2>1. PICK rec : /\ Writes(r, rec) /\ Unwritten /\ rec.pc = "locking" /\ SameSession(rec, request[r])
                     /\ Op(r).kind = "login" => rec.now = clock
                     /\ request[r].pc = "parsed" \/ request[r].pc = "new"
                     /\ request[r].pc = "new" => Op(r).kind = "login"
      BY <1>3, BeginsWrites
    <2> QED
      BY <2>1 DEF StepWrites
  <1>4. CASE Selects(r)
    <2>1. PICK rec : /\ Writes(r, rec) /\ rec.pc = "locking" /\ rec.now = request[r].now
                     /\ SameSession(rec, request[r])
      BY <1>4, SelectsWrites
    <2> QED
      BY <1>4, <2>1 DEF StepWrites, Selects
  <1>5. CASE Grants(r)
    <2>1. PICK rec : /\ Writes(r, rec) /\ rec.pc = "locking" /\ rec.now = request[r].now
                     /\ SameSession(rec, request[r])
      BY <1>5, GrantsWrites
    <2> QED
      BY <1>5, <2>1 DEF StepWrites, Grants
  <1>6. CASE Retries(r)
    <2>1. PICK rec : Writes(r, rec) /\ rec.pc = "locking" /\ SameSession(rec, request[r])
      BY <1>6, RetriesWrites
    <2>2. Op(r).kind = "transfer" /\ request[r].pc = "locking" /\ Unwritten
      BY <1>6 DEF Retries, Retry, HasLocks, At, Unwritten
    <2> QED
      BY <2>1, <2>2 DEF StepWrites
  <1>7. CASE Decides(r)
    <2>1. PICK rec : /\ Writes(r, rec) /\ rec.pc = "commit" /\ rec.now = request[r].now
                     /\ rec.observed = request[r].observed /\ SameSession(rec, request[r])
      BY <1>7, DecidesWrites
    <2>2. /\ Op(r).kind # "login" /\ request[r].pc = "locking" /\ request[r].todo = <<>> /\ Verdict(r)
          /\ Unwritten
      BY <1>7 DEF Decides, Decided, Unwritten
    <2> QED
      BY <2>1, <2>2 DEF StepWrites
  <1>8. CASE DecideLogin(r)
    <2>1. PICK rec : /\ Writes(r, rec) /\ rec.pc = "commit" /\ request[r].todo = <<>>
                     /\ request[r].pc = "locking" /\ Op(r).kind = "login"
                     /\ rec.now = request[r].now /\ rec.ended = FALSE
                     /\ rec.generation = users[Op(r).user].generation
                     /\ rec.result = "invalid_credentials" => ~RateLimited(r)
                     /\ rec.result = "valid" => users[Op(r).user].status = "active"
                     /\ Unwritten
      BY <1>8, DecideLoginWrites
    <2> QED
      BY <2>1 DEF StepWrites
  <1> QED
    BY <1>1, <1>2, <1>3, <1>4, <1>5, <1>6, <1>7, <1>8, StepCases

LEMMA CommitInvStep ==
    ASSUME TypeInv, LockInv, CommitInv, [Next]_vars
    PROVE  CommitInv'
  <1>1. ASSUME NEW r \in Requests, RequestStep(r) \/ Abort(r), ~Commit(r)
        PROVE  CommitInv'
    <2>1. PICK rec : StepWrites(r, rec)
      BY <1>1, StepsWrite
    <2>2. /\ request'[r] = rec /\ request'[r].op = Op(r) /\ users' = users /\ manager' = manager
          /\ \A s \in Requests \ {r} : request'[s] = request[s]
      BY <2>1, OwnRecord DEF StepWrites, Unwritten
    <2>3. ASSUME NEW s \in Requests \ {r}, request'[s].pc = "commit" PROVE Verdict(s)'
      <3>1. Verdict(s) /\ request'[s] = request[s]
        BY <2>2, <2>3 DEF CommitInv
      <3> QED
        BY <2>2, <3>1 DEF Verdict, Op, CanAccessProject, IsSuperAdmin
    <2>4. ASSUME request'[r].pc = "commit" PROVE Verdict(r)'
      <3>1. Op(r)' = Op(r)
        BY <2>2 DEF Op
      <3>2. CASE Op(r).kind = "login"
        BY <3>1, <3>2 DEF Verdict
      <3>3. CASE Op(r).kind # "login"
        <4>1. Verdict(r) /\ request'[r].observed = request[r].observed
          BY <2>1, <2>2, <2>4, <3>3 DEF StepWrites
        <4> QED
          BY <2>2, <3>1, <4>1 DEF Verdict, CanAccessProject, IsSuperAdmin
      <3> QED
        BY <3>2, <3>3
    <2> QED
      BY <2>3, <2>4 DEF CommitInv
  <1>2. ASSUME NEW r \in Requests, Commit(r)
        PROVE  CommitInv'
    <2>1. /\ request'[r].pc = "done"
          /\ \A s \in Requests \ {r} : request'[s].pc = request[s].pc
      BY <1>2, CommitWrites DEF SameProgress
    <2> QED
      BY <1>2, <2>1, VerdictKept DEF CommitInv
  <1>3. CASE Tick \/ UNCHANGED vars
    BY <1>3 DEF Tick, vars, CommitInv, Verdict, Op, CanAccessProject, IsSuperAdmin
  <1> QED
    BY <1>1, <1>2, <1>3 DEF Next

\* The managers of Projects, the super administrator and the audit log.
ManagerInv == ManagersAccounted /\ users[Admin].status = "active"

LEMMA ManagerStep ==
    ASSUME TypeInv, LockInv, CommitInv, ManagerInv, [Next]_vars
    PROVE  ManagerInv'
  <1>0. /\ NoOne \notin Users /\ Admin \in Users /\ manager \in [Projects -> Users \cup {NoOne}]
        /\ users \in [Users -> UserRows] /\ history \in [Projects -> Seq((Users \cup {NoOne}) \X Users)]
    BY AccessAssumption DEF TypeInv, UserRows
  <1>1. ASSUME UNCHANGED <<users, manager, history>> PROVE ManagerInv'
    BY <1>1 DEF ManagerInv, ManagersAccounted, ManagersActive, HistoryChains
  <1>2. ASSUME NEW r \in Requests, Commit(r) PROVE ManagerInv'
    <2>0. /\ request[r].pc = "commit" /\ Verdict(r) /\ Op(r) \in Operations
      BY <1>2, CommitWrites DEF CommitInv, TypeInv, RequestRecords, Op
    <2>1. CASE UNCHANGED <<manager, history>>
      <3>1. ASSUME NEW u \in Users, users[u].status = "active", u = Admin \/ \E p \in Projects : manager[p] = u
            PROVE  users'[u].status = "active"
        BY <1>2, <2>0, <3>1, StatusChange, OperationTypes DEF Verdict
      <3>2. ManagersActive'
        BY <1>0, <2>1, <3>1 DEF ManagerInv, ManagersAccounted, ManagersActive
      <3>3. HistoryChains'
        BY <2>1 DEF ManagerInv, ManagersAccounted, HistoryChains
      <3> QED
        BY <1>0, <3>1, <3>2, <3>3 DEF ManagerInv, ManagersAccounted
    <2>2. CASE manager' # manager \/ history' # history
      <3> DEFINE p == Op(r).project
                 u == Op(r).target
                 from == IF Op(r).kind = "create" THEN NoOne ELSE request[r].observed
      <3>1. /\ Op(r).kind \in {"create", "transfer"} /\ users' = users
            /\ Op(r).kind = "create" => manager[p] = NoOne
            /\ manager' = [manager EXCEPT ![p] = u]
            /\ history' = [history EXCEPT ![p] = Append(@, <<from, u>>)]
        BY <1>2, <2>2, ManagerChange
      <3>2. p \in Projects /\ u \in Users
        BY <2>0, <3>1, OperationTypes
      <3>3. users[u].status = "active"
        <4>1. HeldBy(r, u, "update")
          BY <2>0, <3>1, LocksAtCommit DEF Needs
        <4>2. users[u].status # "absent"
          BY <3>2, <4>1 DEF LockInv, HeldBy
        <4>3. users[u].status # "disabled" /\ users[u].status \in {"absent", "active", "disabled"}
          BY <1>0, <2>0, <3>1, <3>2 DEF Verdict, UserRows
        <4> QED
          BY <4>2, <4>3
      <3>4. from = manager[p]
        BY <2>0, <3>1 DEF Verdict
      <3> HIDE DEF from
      <3>5. ManagersActive'
        BY <1>0, <3>1, <3>2, <3>3 DEF ManagerInv, ManagersAccounted, ManagersActive
      <3>6. HistoryChains'
        <4>1. ASSUME NEW q \in Projects, q # p
              PROVE  manager'[q] = manager[q] /\ history'[q] = history[q]
          BY <1>0, <3>1, <4>1
        <4>2. manager'[p] = u /\ history'[p] = Append(history[p], <<from, u>>) /\ u # NoOne
          BY <1>0, <3>1, <3>2
        <4> DEFINE h == history[p]
                   g == history'[p]
        <4>3. /\ h \in Seq((Users \cup {NoOne}) \X Users) /\ <<from, u>> \in (Users \cup {NoOne}) \X Users
          BY <1>0, <3>2, <3>4
        <4>a. g = Append(h, <<from, u>>)
          BY <4>2
        <4>4. /\ Len(h) \in Nat /\ Len(g) = Len(h) + 1 /\ g # <<>>
              /\ \A i \in 1 .. Len(h) : g[i] = h[i]
              /\ g[Len(h) + 1] = <<from, u>>
          <5> HIDE DEF g, h, u
          <5> QED
            BY <4>3, <4>a, AppendProperties
        <4>5. /\ h = <<>> <=> manager[p] = NoOne
              /\ \A i \in 1 .. Len(h) : /\ h[i][1] = IF i = 1 THEN NoOne ELSE h[i - 1][2]
                                        /\ i = Len(h) => h[i][2] = manager[p]
          BY <3>2 DEF ManagerInv, ManagersAccounted, HistoryChains
        <4>6. h = <<>> <=> Len(h) = 0
          BY <4>3
        <4> HIDE DEF g, h
        <4>7. ASSUME NEW i \in 1 .. Len(g)
              PROVE  /\ g[i][1] = IF i = 1 THEN NoOne ELSE g[i - 1][2]
                     /\ i = Len(g) => g[i][2] = u
          <5>1. CASE i \in 1 .. Len(h)
            <6>1. g[i] = h[i] /\ (i # 1 => g[i - 1] = h[i - 1])
              BY <4>4, <5>1
            <6> QED
              BY <4>4, <4>5, <5>1, <6>1
          <5>2. CASE i = Len(h) + 1
            <6>1. g[i][1] = from /\ g[i][2] = u
              BY <4>4, <5>2
            <6>2. CASE Len(h) = 0
              BY <3>4, <4>4, <4>5, <4>6, <5>2, <6>1, <6>2
            <6>3. CASE Len(h) # 0
              <7>1. Len(h) \in 1 .. Len(h) /\ i - 1 = Len(h) /\ i # 1
                BY <4>4, <5>2, <6>3
              <7>2. h[Len(h)][2] = manager[p] /\ g[Len(h)] = h[Len(h)]
                BY <4>4, <4>5, <7>1
              <7> QED
                BY <3>4, <6>1, <7>1, <7>2
            <6> QED
              BY <6>2, <6>3
          <5> QED
            BY <4>4, <5>1, <5>2
        <4>8. /\ g = <<>> <=> manager'[p] = NoOne
              /\ \A i \in 1 .. Len(g) : /\ g[i][1] = IF i = 1 THEN NoOne ELSE g[i - 1][2]
                                        /\ i = Len(g) => g[i][2] = manager'[p]
          BY <4>2, <4>4, <4>7
        <4>9. ASSUME NEW q \in Projects
              PROVE  /\ history'[q] = <<>> <=> manager'[q] = NoOne
                     /\ \A i \in 1 .. Len(history'[q]) :
                           /\ history'[q][i][1] = IF i = 1 THEN NoOne ELSE history'[q][i - 1][2]
                           /\ i = Len(history'[q]) => history'[q][i][2] = manager'[q]
          <5>1. CASE q = p
            BY <4>8, <5>1 DEF g
          <5>2. CASE q # p
            BY <4>1, <5>2 DEF ManagerInv, ManagersAccounted, HistoryChains
          <5> QED
            BY <5>1, <5>2
        <4> QED
          BY <4>9 DEF HistoryChains
      <3> QED
        BY <3>1, <3>5, <3>6 DEF ManagerInv, ManagersAccounted
    <2> QED
      BY <2>1, <2>2
  <1>3. ASSUME NEW r \in Requests, RequestStep(r) \/ Abort(r), ~Commit(r)
        PROVE  ManagerInv'
    BY <1>1, <1>3, StepsWrite DEF StepWrites, Unwritten
  <1> QED
    BY <1>1, <1>2, <1>3 DEF Next, Tick, vars


LEMMA InitAccess == Init => LockInv /\ CommitInv /\ ManagerInv
  <1> SUFFICES ASSUME Init PROVE LockInv /\ CommitInv /\ ManagerInv
    OBVIOUS
  <1>1. \A r \in Requests : request[r].pc = "new"
    <2>1. PICK scenario \in Scenarios : request = [r \in Requests |-> Fresh(scenario[r])]
      BY DEF Init
    <2> QED
      BY <2>1 DEF Fresh
  <1>2. LockInv /\ CommitInv
    BY <1>1 DEF Init, LockInv, CommitInv
  <1>3. \A u \in InitialUsers : u \in Users /\ users[u].status = "active"
    BY AccessAssumption DEF Init
  <1>4. manager \in [Projects -> InitialUsers \cup {NoOne}] /\ Admin \in InitialUsers
    BY AccessAssumption DEF Init
  <1>5. ManagersActive
    BY <1>3, <1>4 DEF ManagersActive
  <1>6. HistoryChains
    <2> SUFFICES ASSUME NEW p \in Projects
                 PROVE  /\ history[p] = <<>> <=> manager[p] = NoOne
                        /\ \A i \in 1 .. Len(history[p]) :
                              /\ history[p][i][1] = IF i = 1 THEN NoOne ELSE history[p][i - 1][2]
                              /\ i = Len(history[p]) => history[p][i][2] = manager[p]
      BY DEF HistoryChains
    <2>1. history[p] = IF manager[p] = NoOne THEN <<>> ELSE <<<<NoOne, manager[p]>>>>
      BY DEF Init
    <2> QED
      BY <2>1
  <1> QED
    BY <1>2, <1>3, <1>4, <1>5, <1>6 DEF ManagerInv, ManagersAccounted

LEMMA AccessInvariant == Spec => [](TypeInv /\ LockInv /\ CommitInv /\ ManagerInv)
  <1>1. Init => TypeInv /\ LockInv /\ CommitInv /\ ManagerInv
    BY InitType, InitAccess
  <1>2. TypeInv /\ LockInv /\ CommitInv /\ ManagerInv /\ [Next]_vars
           => (TypeInv /\ LockInv /\ CommitInv /\ ManagerInv)'
    BY TypeStep, LockStep, CommitInvStep, ManagerStep
  <1> QED
    BY <1>1, <1>2, PTL DEF Spec

\* Whoever manages a Project is an active User, and the audit rows of creation and
\* transfers chain up to him without a gap: UpdateStatus counts the Projects of a User,
\* Create and Transfer check that the new manager is active, all of them after they have
\* locked that User's row.
THEOREM ManagersKept == Spec => []ManagersAccounted
  <1>1. ManagerInv => ManagersAccounted
    BY DEF ManagerInv
  <1> QED
    BY <1>1, AccessInvariant, PTL

\* Update and the two rotations commit for the manager of that moment, who is active,
\* or for the super administrator: the scope is asked again under the Project's lock,
\* which a transfer needs too, and a manager cannot be disabled.
THEOREM UpdatesAuthorised == Spec => []AuthorisedAtCommit
  <1>1. TypeInv /\ CommitInv /\ ManagerInv => AuthorisedAtCommit
    <2> SUFFICES ASSUME TypeInv, CommitInv, ManagerInv, NEW r \in Requests, At(r, "update", "commit")
                 PROVE  CanAccessProject(r, Op(r).project) /\ users[Op(r).user].status = "active"
      BY DEF AuthorisedAtCommit
    <2>1. CanAccessProject(r, Op(r).project)
      BY DEF At, CommitInv, Verdict
    <2>2. Op(r).project \in Projects /\ Op(r).user \in Users /\ NoOne \notin Users
      BY OperationTypes, AccessAssumption DEF At, TypeInv, RequestRecords, Op
    <2>3. CASE Op(r).user = Admin
      BY <2>1, <2>3 DEF ManagerInv
    <2>4. CASE Op(r).user # Admin
      <3>1. manager[Op(r).project] = Op(r).user /\ manager[Op(r).project] # NoOne
        BY <2>1, <2>2, <2>4 DEF CanAccessProject, IsSuperAdmin
      <3> QED
        BY <2>1, <2>2, <3>1 DEF ManagerInv, ManagersAccounted, ManagersActive
    <2> QED
      BY <2>3, <2>4
  <1> QED
    BY <1>1, AccessInvariant, PTL

-----------------------------------------------------------------------------
(* Sessions.                                                               *)

\* A generation is never reached again once it was passed: what was issued has at most
\* the User's generation, and less than it if it was ended.  Tokens are of Users that
\* exist, whose generation no registration resets.
Backed(rec, u) == rec.generation <= users[u].generation /\ (rec.ended => rec.generation < users[u].generation)

SessionInv ==
    /\ \A u \in Users : users[u].status = "absent" => users[u].generation = 0
    /\ \A t \in tokens : Backed(t, t.user) /\ users[t.user].status # "absent"
    /\ \A r \in Requests : request[r].pc # "done" => Backed(request[r], Op(r).user)
    /\ \A r \in Requests : request[r].pc \notin {"new", "done"} /\ Op(r).kind # "login" =>
          users[Op(r).user].status # "absent"
    /\ \A r \in Requests : At(r, "login", "commit") /\ request[r].result = "valid" =>
          users[Op(r).user].status # "absent"

\* What a commit does to the generations and to what was issued: it ends the sessions
\* of one User, or it leaves the generations of existing Users alone.
EndsOf(r, u) ==
    /\ u \in Users
    /\ Op(r).kind \in {"logout", "status"}
    /\ Op(r).kind = "logout" => u = Op(r).user
    /\ users'[u].generation = users[u].generation + 1
    /\ \A v \in Users \ {u} : users'[v] = users[v]
    /\ Op(r).kind = "status" => users'[u].status = "disabled"
    /\ EndSessions(u, Answered(r, "ok"))

KeepsSessions(r) ==
    /\ \A u \in Users : \/ users'[u].generation = users[u].generation
                        \/ users[u].status = "absent" /\ users'[u].generation = 0
    /\ \A s \in Requests \ {r} : request'[s] = request[s]
    /\ \/ tokens' = tokens
       \/ /\ Op(r).kind = "refresh" \/ (Op(r).kind = "login" /\ request[r].result = "valid")
          /\ IssueToken(r)


LEMMA SessionChange ==
    ASSUME TypeInv, NEW r \in Requests, Commit(r)
    PROVE  KeepsSessions(r) \/ \E u \in Users : EndsOf(r, u)
  <1>0. users \in [Users -> UserRows] /\ Op(r) \in Operations
    BY DEF TypeInv, UserRows, RequestRecords, Op
  <1>1. ASSUME NEW result \in Results, Ends(r, result)
        PROVE  \A s \in Requests \ {r} : request'[s] = request[s]
    <2>1. PICK rec : Writes(r, rec)
      BY <1>1, EndsWrites
    <2> QED
      BY <2>1, OwnRecord
  <1>2. CASE CommitStatus(r)
    <2>1. Op(r).kind = "status" /\ Op(r).target \in Users
      BY <1>0, <1>2, OperationTypes DEF CommitStatus, Commits, At
    <2>2. users[Op(r).target] \in UserRows
      BY <1>0, <2>1
    <2>3. CASE Op(r).status = "disabled"
      <3> DEFINE row == [status |-> "disabled", generation |-> users[Op(r).target].generation + 1]
      <3>1. /\ users' = [users EXCEPT ![Op(r).target] = row] /\ row.status = "disabled"
            /\ row.generation = users[Op(r).target].generation + 1
            /\ EndSessions(Op(r).target, Answered(r, "ok"))
        BY <1>2, <2>3 DEF CommitStatus
      <3> HIDE DEF row
      <3> QED
        BY <1>0, <2>1, <3>1 DEF EndsOf
    <2>4. CASE Op(r).status = "active"
      <3> DEFINE row == [users[Op(r).target] EXCEPT !.status = "active"]
      <3>1. users' = [users EXCEPT ![Op(r).target] = row] /\ tokens' = tokens
        BY <1>2, <2>4 DEF CommitStatus
      <3>2. row.generation = users[Op(r).target].generation
        BY <2>2 DEF UserRows
      <3>3. Ends(r, "ok") /\ "ok" \in Results
        BY <1>2, <2>4 DEF CommitStatus, Answered, Ends, Results
      <3> HIDE DEF row
      <3> QED
        BY <1>0, <1>1, <2>1, <3>1, <3>2, <3>3 DEF KeepsSessions
    <2> QED
      BY <1>2, <2>3, <2>4 DEF CommitStatus
  <1>3. CASE CommitRegister(r)
    <2>1. Op(r).target \in Users /\ tokens' = tokens
      BY <1>0, <1>3, OperationTypes DEF CommitRegister, Commits, At
    <2>2. "ok" \in Results /\ "email_conflict" \in Results
      BY DEF Results
    <2>3. \A s \in Requests \ {r} : request'[s] = request[s]
      BY <1>1, <1>3, <2>2 DEF CommitRegister
    <2>4. \A u \in Users : \/ users'[u].generation = users[u].generation
                           \/ users[u].status = "absent" /\ users'[u].generation = 0
      BY <1>0, <1>3, <2>1 DEF CommitRegister
    <2> QED
      BY <2>1, <2>3, <2>4 DEF KeepsSessions
  <1>4. CASE CommitLogout(r)
    <2> DEFINE v == Op(r).user
               row == [users[v] EXCEPT !.generation = users[v].generation + 1]
    <2>1. /\ users' = [users EXCEPT ![v] = row] /\ v \in Users /\ Op(r).kind = "logout"
          /\ EndSessions(v, Answered(r, "ok"))
      BY <1>0, <1>4, OperationTypes DEF CommitLogout, Commits, At
    <2>2. users[v] \in UserRows
      BY <1>0, <2>1
    <2>3. row.generation = users[v].generation + 1
      BY <2>2 DEF UserRows
    <2> HIDE DEF row
    <2> QED
      BY <1>0, <2>1, <2>3 DEF EndsOf
  <1>5. CASE CommitCreate(r) \/ CommitTransfer(r) \/ CommitUpdate(r) \/ CommitRefresh(r)
    <2>1. Ends(r, "ok") /\ "ok" \in Results /\ users' = users
      BY <1>5 DEF CommitCreate, CommitTransfer, CommitUpdate, CommitRefresh, Results
    <2>2. tokens' = tokens \/ (Op(r).kind = "refresh" /\ IssueToken(r))
      BY <1>5 DEF CommitCreate, CommitTransfer, CommitUpdate, CommitRefresh, Commits, At
    <2> QED
      BY <1>1, <2>1, <2>2 DEF KeepsSessions
  <1>6. CASE CommitLogin(r)
    <2>1. Ends(r, request[r].result) /\ request[r].result \in Results /\ users' = users
      BY <1>6 DEF CommitLogin, TypeInv, RequestRecords
    <2>2. tokens' = tokens \/ (Op(r).kind = "login" /\ request[r].result = "valid" /\ IssueToken(r))
      BY <1>6 DEF CommitLogin, Commits, At
    <2> QED
      BY <1>1, <2>1, <2>2 DEF KeepsSessions
  <1> QED
    BY <1>2, <1>3, <1>4, <1>5, <1>6 DEF Commit

LEMMA SessionsKept ==
    ASSUME TypeInv, SessionInv, NEW r \in Requests, Commit(r), KeepsSessions(r)
    PROVE  SessionInv'
  <1>0. /\ users \in [Users -> UserRows] /\ users' \in [Users -> UserRows]
        /\ tokens \subseteq [user : Users, generation : Nat, ended : BOOLEAN]
        /\ \A s \in Requests : request[s] \in RequestRecords /\ Op(s) \in Operations
    BY CommitRows DEF TypeInv, UserRows, RequestRecords, Op, TablesTyped
  <1>1. /\ \A u \in Users : users[u].status # "absent" => users'[u].status # "absent"
        /\ request'[r].pc = "done" /\ request[r].pc = "commit"
    BY CommitRows, CommitWrites DEF RowsStay
  <1>2. \A u \in Users : /\ users'[u].generation = users[u].generation
                         /\ users[u].generation \in Nat
    BY <1>0 DEF KeepsSessions, SessionInv, UserRows
  <1>3. \A s \in Requests \ {r} : request'[s] = request[s] /\ Op(s)' = Op(s) /\ Op(s).user \in Users
    BY <1>0, OperationTypes DEF KeepsSessions, Op
  <1>4. \A u \in Users : users'[u].status = "absent" => users'[u].generation = 0
    BY <1>1, <1>2, <1>0 DEF SessionInv, UserRows
  <1>5. ASSUME NEW t \in tokens' PROVE Backed(t, t.user)' /\ users'[t.user].status # "absent"
    <2>1. CASE t \in tokens
      <3>1. t.user \in Users /\ Backed(t, t.user) /\ users[t.user].status # "absent"
        BY <1>0, <2>1 DEF SessionInv
      <3> QED
        BY <1>1, <1>2, <3>1 DEF Backed
    <2>2. CASE t \notin tokens
      <3>1. /\ Op(r).kind = "refresh" \/ (Op(r).kind = "login" /\ request[r].result = "valid")
            /\ t = [user |-> Op(r).user, generation |-> request[r].generation, ended |-> request[r].ended]
        BY <2>2 DEF KeepsSessions, IssueToken
      <3>2. t.user = Op(r).user /\ t.generation = request[r].generation /\ t.ended = request[r].ended
        BY <3>1
      <3>3. Op(r).user \in Users /\ Backed(request[r], Op(r).user) /\ users[Op(r).user].status # "absent"
        BY <1>0, <1>1, <3>1, OperationTypes DEF SessionInv, At
      <3> QED
        BY <1>1, <1>2, <3>2, <3>3 DEF Backed
    <2> QED
      BY <2>1, <2>2
  <1>6. ASSUME NEW s \in Requests, request'[s].pc # "done"
        PROVE  /\ Backed(request[s], Op(s).user)'
               /\ request'[s].pc # "new" /\ Op(s)'.kind # "login" => users'[Op(s)'.user].status # "absent"
               /\ At(s, "login", "commit")' /\ request'[s].result = "valid" => users'[Op(s)'.user].status # "absent"
    <2>1. s # r /\ request'[s] = request[s] /\ Op(s)' = Op(s) /\ Op(s).user \in Users
      BY <1>1, <1>3, <1>6
    <2>2. Backed(request[s], Op(s).user)
      BY <1>6, <2>1 DEF SessionInv
    <2>3. Backed(request[s], Op(s).user)'
      BY <1>2, <2>1, <2>2 DEF Backed
    <2> QED
      BY <1>1, <1>6, <2>1, <2>3 DEF SessionInv, At
  <1> QED
    BY <1>4, <1>5, <1>6 DEF SessionInv, At

LEMMA SessionsEnded ==
    ASSUME TypeInv, SessionInv, NEW r \in Requests, Commit(r), NEW u \in Users, EndsOf(r, u)
    PROVE  SessionInv'
  <1>0. /\ users \in [Users -> UserRows] /\ users' \in [Users -> UserRows]
        /\ tokens \subseteq [user : Users, generation : Nat, ended : BOOLEAN]
        /\ \A s \in Requests : request[s] \in RequestRecords /\ Op(s) \in Operations
    BY CommitRows DEF TypeInv, UserRows, RequestRecords, Op, TablesTyped
  <1>1. /\ \A v \in Users : users[v].status # "absent" => users'[v].status # "absent"
        /\ request[r].pc = "commit"
    BY CommitRows, CommitWrites DEF RowsStay
  <1>2. /\ users'[u].generation = users[u].generation + 1
        /\ \A v \in Users : users[v].generation \in Nat /\ (v # u => users'[v] = users[v])
    BY <1>0 DEF EndsOf, UserRows
  <1>3. /\ request'[r].pc = "done"
        /\ \A s \in Requests \ {r} :
              /\ SameProgress(request'[s], request[s])
              /\ request'[s].ended = (request[s].ended \/ (Op(s).user = u /\ request[s].pc \notin {"new", "done"}))
    BY EndedWrites DEF EndsOf
  <1>4. users'[u].status # "absent"
    <2>1. CASE Op(r).kind = "status"
      BY <2>1 DEF EndsOf
    <2>2. CASE Op(r).kind = "logout"
      BY <1>1, <2>2 DEF EndsOf, SessionInv
    <2> QED
      BY <2>1, <2>2 DEF EndsOf
  <1>5. \A v \in Users : users'[v].status = "absent" => users'[v].generation = 0
    BY <1>2, <1>4 DEF SessionInv
  <1>6. ASSUME NEW t \in tokens' PROVE Backed(t, t.user)' /\ users'[t.user].status # "absent"
    <2>1. PICK old \in tokens : t = IF old.user = u THEN [old EXCEPT !.ended = TRUE] ELSE old
      BY DEF EndsOf, EndSessions
    <2>2. /\ old.user \in Users /\ old.generation \in Nat /\ Backed(old, old.user)
          /\ users[old.user].status # "absent"
      BY <1>0 DEF SessionInv
    <2>3. CASE old.user = u
      <3>1. t.user = u /\ t.generation = old.generation
        BY <1>0, <2>1, <2>3
      <3>2. old.generation < users[u].generation + 1
        BY <1>2, <2>2, <2>3 DEF Backed
      <3> QED
        BY <1>2, <1>4, <2>2, <3>1, <3>2 DEF Backed
    <2>4. CASE old.user # u
      BY <1>1, <1>2, <2>1, <2>2, <2>4 DEF Backed
    <2> QED
      BY <2>3, <2>4
  <1>7. ASSUME NEW s \in Requests, request'[s].pc # "done"
        PROVE  /\ Backed(request[s], Op(s).user)'
               /\ request'[s].pc # "new" /\ Op(s)'.kind # "login" => users'[Op(s)'.user].status # "absent"
               /\ At(s, "login", "commit")' /\ request'[s].result = "valid" => users'[Op(s)'.user].status # "absent"
    <2>1. /\ s # r /\ SameProgress(request'[s], request[s]) /\ Op(s)' = Op(s) /\ Op(s).user \in Users
          /\ request'[s].pc = request[s].pc /\ request'[s].result = request[s].result
          /\ request'[s].generation = request[s].generation /\ request[s].generation \in Nat
      BY <1>0, <1>3, <1>7, OperationTypes DEF SameProgress, Op, RequestRecords
    <2>2. Backed(request[s], Op(s).user) /\ request[s].ended \in BOOLEAN
      BY <1>0, <1>7, <2>1 DEF SessionInv, RequestRecords
    <2>3. Backed(request[s], Op(s).user)'
      <3>1. CASE Op(s).user = u
        <4>1. request[s].generation < users[u].generation + 1
          BY <1>2, <2>1, <2>2, <3>1 DEF Backed
        <4> QED
          BY <1>2, <2>1, <3>1, <4>1 DEF Backed
      <3>2. CASE Op(s).user # u
        <4>1. request'[s].ended = request[s].ended
          BY <1>3, <2>1, <2>2, <3>2
        <4> QED
          BY <1>2, <2>1, <2>2, <3>2, <4>1 DEF Backed
      <3> QED
        BY <3>1, <3>2
    <2> QED
      BY <1>1, <1>7, <2>1, <2>3 DEF SessionInv, At
  <1> QED
    BY <1>5, <1>6, <1>7 DEF SessionInv, At

LEMMA SessionStep ==
    ASSUME TypeInv, SessionInv, [Next]_vars
    PROVE  SessionInv'
  <1>1. ASSUME NEW r \in Requests, RequestStep(r) \/ Abort(r), ~Commit(r)
        PROVE  SessionInv'
    <2>1. PICK rec : StepWrites(r, rec)
      BY <1>1, StepsWrite
    <2>2. /\ request'[r] = rec /\ Op(r)' = Op(r) /\ users' = users /\ tokens' = tokens
          /\ \A s \in Requests \ {r} : request'[s] = request[s]
      BY <2>1, OwnRecord DEF StepWrites, Unwritten, Op
    <2>3. /\ users \in [Users -> UserRows] /\ Op(r).user \in Users /\ rec \in RequestRecords
          /\ tokens \subseteq [user : Users, generation : Nat, ended : BOOLEAN]
      BY <2>1, OperationTypes DEF TypeInv, UserRows, RequestRecords, Op, StepWrites, Writes, Sound
    <2>4. ASSUME NEW s \in Requests \ {r}, request'[s].pc # "done"
          PROVE  /\ Backed(request[s], Op(s).user)'
                 /\ request'[s].pc # "new" /\ Op(s)'.kind # "login" => users'[Op(s)'.user].status # "absent"
                 /\ At(s, "login", "commit")' /\ request'[s].result = "valid" => users'[Op(s)'.user].status # "absent"
      BY <2>2, <2>4 DEF SessionInv, Backed, At, Op
    <2>5. ASSUME request'[r].pc # "done"
          PROVE  /\ Backed(request[r], Op(r).user)'
                 /\ request'[r].pc # "new" /\ Op(r)'.kind # "login" => users'[Op(r)'.user].status # "absent"
      <3>0. request[r].pc # "done"
        BY <2>1, <2>2, <2>5 DEF StepWrites
      <3>1. CASE /\ SameSession(rec, request[r])
                 /\ Op(r).kind # "login" => request[r].pc # "new"
        BY <2>2, <2>5, <3>0, <3>1 DEF SessionInv, Backed, SameSession
      <3>2. CASE \E t \in tokens : t.user = Op(r).user /\ rec.generation = t.generation /\ rec.ended = t.ended
        BY <2>2, <2>5, <3>2 DEF SessionInv, Backed
      <3>3. CASE Op(r).kind = "login" /\ rec.generation = users[Op(r).user].generation /\ rec.ended = FALSE
        <4>1. users[Op(r).user].generation \in Nat
          BY <2>3 DEF UserRows
        <4> QED
          BY <2>2, <2>5, <3>3, <4>1 DEF Backed
      <3> QED
        BY <2>1, <2>2, <2>5, <3>1, <3>2, <3>3 DEF StepWrites
    <2>6. ASSUME At(r, "login", "commit")', request'[r].result = "valid"
          PROVE  users'[Op(r)'.user].status # "absent"
      BY <2>1, <2>2, <2>6 DEF StepWrites, At
    <2> QED
      BY <2>2, <2>4, <2>5, <2>6 DEF SessionInv, At, Backed
  <1>2. ASSUME NEW r \in Requests, Commit(r)
        PROVE  SessionInv'
    BY <1>2, SessionChange, SessionsKept, SessionsEnded
  <1>3. CASE Tick \/ UNCHANGED vars
    BY <1>3 DEF Tick, vars, SessionInv, Backed, At, Op
  <1> QED
    BY <1>1, <1>2, <1>3 DEF Next

LEMMA InitSession == Init => SessionInv
  <1> SUFFICES ASSUME Init PROVE SessionInv
    OBVIOUS
  <1>1. PICK scenario \in Scenarios : request = [r \in Requests |-> Fresh(scenario[r])]
    BY DEF Init
  <1>2. ASSUME NEW r \in Requests
        PROVE  /\ request[r].pc = "new" /\ request[r].generation = 0 /\ request[r].ended = FALSE
               /\ Op(r).user \in Users
    BY <1>1, AccessAssumption, OperationTypes DEF Fresh, Op
  <1>3. \A u \in Users : users[u].generation = 0
    BY DEF Init
  <1>4. \A u \in InitialUsers : u \in Users /\ users[u].status = "active"
    BY AccessAssumption DEF Init
  <1>5. \A t \in tokens : t.user \in InitialUsers /\ t.generation = 0 /\ t.ended = FALSE
    BY DEF Init
  <1>6. \A t \in tokens : Backed(t, t.user) /\ users[t.user].status # "absent"
    BY <1>3, <1>4, <1>5 DEF Backed
  <1>7. ASSUME NEW r \in Requests
        PROVE  Backed(request[r], Op(r).user) /\ request[r].pc = "new"
    <2>1. users[Op(r).user].generation = 0
      BY <1>2, <1>3
    <2>2. request[r].pc = "new" /\ request[r].generation = 0 /\ ~request[r].ended
      BY <1>2
    <2>3. request[r].generation <= users[Op(r).user].generation
      BY <2>1, <2>2
    <2> QED
      BY <2>2, <2>3 DEF Backed
  <1> QED
    BY <1>3, <1>6, <1>7 DEF SessionInv, At

LEMMA SessionInvariant == Spec => [](TypeInv /\ SessionInv)
  <1>1. Init => TypeInv /\ SessionInv
    BY InitType, InitSession
  <1>2. TypeInv /\ SessionInv /\ [Next]_vars => (TypeInv /\ SessionInv)'
    BY TypeStep, SessionStep
  <1> QED
    BY <1>1, <1>2, PTL DEF Spec

\* No token opens anything after the session it goes back to was ended: logout and
\* UpdateStatus increment users.session_generation, which never comes back to a value a
\* token already issued, or about to be issued by a refresh or a login, was made with.
THEOREM SessionsStayEnded == Spec => []EndedSessionsStayEnded
  <1>1. TypeInv /\ SessionInv => EndedSessionsStayEnded
    <2> SUFFICES ASSUME TypeInv, SessionInv, NEW t \in tokens, t.ended
                 PROVE  ~TokenCurrent(t)
      BY DEF EndedSessionsStayEnded
    <2>1. t.user \in Users /\ t.generation \in Nat /\ users[t.user] \in UserRows
      BY DEF TypeInv, UserRows
    <2>2. t.generation < users[t.user].generation
      BY DEF SessionInv, Backed
    <2> QED
      BY <2>1, <2>2 DEF TokenCurrent, UserRows
  <1> QED
    BY <1>1, SessionInvariant, PTL


-----------------------------------------------------------------------------
(* Generations are bounded by the requests that have been answered.        *)

Answers == {r \in Requests : request[r].pc = "done"}
GenerationInv == \A u \in Users : users[u].generation <= Cardinality(Answers)

LEMMA AnswersFinite ==
    /\ IsFiniteSet(Requests) /\ Cardinality(Requests) \in Nat
    /\ \A S : S \subseteq Requests =>
          IsFiniteSet(S) /\ Cardinality(S) \in Nat /\ Cardinality(S) <= Cardinality(Requests)
  <1>1. IsFiniteSet(Requests)
    BY AccessAssumption
  <1> QED
    BY <1>1, FS_Subset, FS_CardinalityType

LEMMA GenerationStep ==
    ASSUME TypeInv, SessionInv, GenerationInv, [Next]_vars
    PROVE  GenerationInv'
  <1>0. users \in [Users -> UserRows]
    BY DEF TypeInv, UserRows
  <1>a. IsFiniteSet(Answers) /\ Cardinality(Answers) \in Nat /\ IsFiniteSet(Answers')
    BY AnswersFinite DEF Answers
  <1>1. ASSUME NEW r \in Requests, RequestStep(r) \/ Abort(r), ~Commit(r)
        PROVE  GenerationInv'
    <2>1. PICK rec : StepWrites(r, rec)
      BY <1>1, StepsWrite
    <2>2. /\ request'[r] = rec /\ users' = users /\ \A s \in Requests \ {r} : request'[s] = request[s]
          /\ request[r].pc = "done" => rec.pc = "done"
      BY <2>1, OwnRecord DEF StepWrites, Unwritten
    <2>3. Answers \subseteq Answers'
      BY <2>2 DEF Answers
    <2>4. Cardinality(Answers) <= Cardinality(Answers') /\ Cardinality(Answers') \in Nat
      BY <1>a, <2>3, FS_Subset, FS_CardinalityType
    <2> HIDE DEF Answers
    <2> QED
      BY <1>0, <1>a, <2>2, <2>4 DEF GenerationInv, UserRows
  <1>2. ASSUME NEW r \in Requests, Commit(r)
        PROVE  GenerationInv'
    <2>1. /\ request'[r].pc = "done" /\ request[r].pc = "commit"
          /\ \A s \in Requests \ {r} : request'[s].pc = request[s].pc
      BY <1>2, CommitWrites DEF SameProgress
    <2>2. Answers' = Answers \cup {r} /\ r \notin Answers
      BY <2>1 DEF Answers
    <2>3. Cardinality(Answers') = Cardinality(Answers) + 1
      BY <1>a, <2>2, FS_AddElement
    <2>4. \A u \in Users : users'[u].generation \in {0, users[u].generation, users[u].generation + 1}
      <3>1. CASE KeepsSessions(r)
        BY <3>1 DEF KeepsSessions
      <3>2. CASE \E u \in Users : EndsOf(r, u)
        BY <3>2 DEF EndsOf
      <3> QED
        BY <1>2, <3>1, <3>2, SessionChange
    <2> HIDE DEF Answers
    <2> QED
      BY <1>0, <1>a, <2>3, <2>4 DEF GenerationInv, UserRows
  <1>3. CASE Tick \/ UNCHANGED vars
    BY <1>3 DEF Tick, vars, GenerationInv, Answers
  <1> QED
    BY <1>1, <1>2, <1>3 DEF Next

LEMMA InitGeneration == Init => GenerationInv
  <1> SUFFICES ASSUME Init PROVE GenerationInv
    OBVIOUS
  <1>1. \A u \in Users : users[u].generation = 0
    BY DEF Init
  <1>2. Cardinality(Answers) \in Nat
    BY AnswersFinite DEF Answers
  <1> QED
    BY <1>1, <1>2 DEF GenerationInv

LEMMA GenerationInvariant == Spec => [](TypeInv /\ SessionInv /\ GenerationInv)
  <1>1. Init => TypeInv /\ SessionInv /\ GenerationInv
    BY InitType, InitSession, InitGeneration
  <1>2. TypeInv /\ SessionInv /\ GenerationInv /\ [Next]_vars => (TypeInv /\ SessionInv /\ GenerationInv)'
    BY TypeStep, SessionStep, GenerationStep
  <1> QED
    BY <1>1, <1>2, PTL DEF Spec

\* Every row, token, failure, lock and request keeps its type: a session generation is
\* incremented at most once by a request, and Transfer gives up after MaxTransfers attempts.
THEOREM AccessTypeCorrect == Spec => []TypeOK
  <1>1. TypeInv /\ SessionInv /\ GenerationInv => TypeOK
    <2> SUFFICES ASSUME TypeInv, SessionInv, GenerationInv PROVE TypeOK
      OBVIOUS
    <2> DEFINE n == Cardinality(Requests)
    <2>1. n \in Nat /\ Cardinality(Answers) \in Nat /\ Cardinality(Answers) <= n
      BY AnswersFinite DEF Answers
    <2> HIDE DEF n
    <2>2. \A u \in Users : /\ users[u] \in UserRows /\ users[u].generation \in 0 .. n
      BY <2>1 DEF TypeInv, UserRows, GenerationInv
    <2>3. users \in [Users -> [status : {"absent", "active", "disabled"}, generation : 0 .. n]]
      <3>1. \A u \in Users : users[u] \in [status : {"absent", "active", "disabled"}, generation : 0 .. n]
        BY <2>2 DEF UserRows
      <3> QED
        BY <3>1 DEF TypeInv
    <2>4. ASSUME NEW t \in tokens PROVE t \in [user : Users, generation : 0 .. n, ended : BOOLEAN]
      <3>1. t \in [user : Users, generation : Nat, ended : BOOLEAN] /\ t.generation <= users[t.user].generation
        BY DEF TypeInv, SessionInv, Backed
      <3>2. t.generation \in 0 .. n
        BY <2>1, <2>2, <3>1
      <3> QED
        BY <3>1, <3>2
    <2>5. \A r \in Requests : Op(r) \in Operations /\ request[r].pc \in Steps /\ request[r].attempt \in 0 .. MaxTransfers
      BY DEF TypeInv, RequestRecords, Op
    <2> QED
      BY <2>3, <2>4, <2>5 DEF TypeOK, TypeInv, Resources, n
  <1> QED
    BY <1>1, GenerationInvariant, PTL

-----------------------------------------------------------------------------
(* Login failures.                                                         *)

\* The advisory locks on both keys of a login keep the count of failures it has decided
\* on: what counts now already counted for the time it read before it waited.
FailureInv ==
    /\ IsFiniteSet(failures) /\ FailuresWithinLimits
    /\ \A r \in Requests : Op(r).kind = "login" /\ request[r].pc \in {"locking", "commit"} => request[r].now <= clock
    /\ \A r \in Requests : At(r, "login", "commit") /\ request[r].result = "invalid_credentials" => ~RateLimited(r)


Counted(F, key, now) == {f \in F : f.key = key /\ f.expires > now}

\* Fewer failures count later.
LEMMA FewerCounted ==
    ASSUME NEW F, NEW G, IsFiniteSet(F), G \subseteq F, \A f \in F : f.expires \in Nat,
           NEW now \in Nat, NEW later \in Nat, now <= later, NEW key
    PROVE  /\ IsFiniteSet(G)
           /\ Cardinality(Counted(G, key, later)) <= Cardinality(Counted(F, key, now))
           /\ Cardinality(Counted(G, key, later)) \in Nat /\ Cardinality(Counted(F, key, now)) \in Nat
  <1>1. Counted(G, key, later) \subseteq Counted(F, key, now) /\ Counted(F, key, now) \subseteq F
    BY DEF Counted
  <1>2. IsFiniteSet(G) /\ IsFiniteSet(Counted(F, key, now))
    BY <1>1, FS_Subset
  <1> HIDE DEF Counted
  <1>3. IsFiniteSet(Counted(G, key, later))
    BY <1>1, <1>2, FS_Subset
  <1> QED
    BY <1>1, <1>2, <1>3, FS_Subset, FS_CardinalityType

\* A failure more counts once.
LEMMA OneMoreCounted ==
    ASSUME NEW F, NEW L, NEW f, IsFiniteSet(F), NEW key, \A g \in L : g.key = key => g = f,
           \A g \in F : g.expires \in Nat, NEW now \in Nat, NEW later \in Nat, now <= later
    PROVE  /\ Cardinality(Counted(F \cup L, key, later)) <= Cardinality(Counted(F, key, now)) + 1
           /\ Cardinality(Counted(F \cup L, key, later)) \in Nat /\ Cardinality(Counted(F, key, now)) \in Nat
  <1> DEFINE old == Counted(F, key, now)
             new == Counted(F \cup L, key, later)
  <1>1. old \subseteq F /\ new \subseteq old \cup {f}
    BY DEF Counted
  <1> HIDE DEF old, new
  <1>2. IsFiniteSet(old) /\ Cardinality(old) \in Nat
    BY <1>1, FS_Subset, FS_CardinalityType
  <1>a. IsFiniteSet(old \cup {f}) /\ Cardinality(old \cup {f}) \in {Cardinality(old), Cardinality(old) + 1}
    BY <1>2, FS_AddElement
  <1>3. /\ IsFiniteSet(old \cup {f}) /\ Cardinality(old \cup {f}) <= Cardinality(old) + 1
        /\ Cardinality(old \cup {f}) \in Nat
    BY <1>2, <1>a
  <1>4. Cardinality(new) <= Cardinality(old \cup {f}) /\ Cardinality(new) \in Nat
    BY <1>1, <1>3, FS_Subset, FS_CardinalityType
  <1>5. Cardinality(new) <= Cardinality(old) + 1
    BY <1>2, <1>3, <1>4
  <1> QED
    BY <1>2, <1>4, <1>5 DEF old, new

\* What a commit does to the failures.
LEMMA FailureChange ==
    ASSUME TypeInv, NEW r \in Requests, Commit(r)
    PROVE  \/ failures' \subseteq failures
           \/ /\ At(r, "login", "commit") /\ request[r].result = "invalid_credentials"
              /\ failures' = failures \cup LoginFailures(r)
  <1>1. CASE CommitLogin(r)
    BY <1>1 DEF CommitLogin, Commits
  <1> QED
    BY <1>1 DEF Commit, CommitStatus, CommitRegister, CommitCreate, CommitTransfer, CommitUpdate, CommitRefresh,
       CommitLogout

\* The two limits, for failures F counted at a time.
Within(F, now) ==
    /\ \A u \in Users, ip \in Addresses : Cardinality(Counted(F, EmailKey(u, ip), now)) <= EmailIPLimit
    /\ \A ip \in Addresses : Cardinality(Counted(F, IPKey(ip), now)) <= IPLimit

\* A login below the limits, as it decides and until it commits.
Below(F, op, now) ==
    /\ Cardinality(Counted(F, EmailKey(op.user, op.ip), now)) < EmailIPLimit
    /\ Cardinality(Counted(F, IPKey(op.ip), now)) < IPLimit

LEMMA Limits ==
    /\ FailuresWithinLimits <=> Within(failures, clock)
    /\ \A r : ~RateLimited(r) <=> ~ (\/ Cardinality(Counted(failures, EmailKey(Op(r).user, Op(r).ip), request[r].now)) >= EmailIPLimit
                                     \/ Cardinality(Counted(failures, IPKey(Op(r).ip), request[r].now)) >= IPLimit)
  BY DEF FailuresWithinLimits, Within, RateLimited, ActiveFailures, Counted

LEMMA BelowLimits ==
    ASSUME TypeInv, IsFiniteSet(failures), NEW r \in Requests
    PROVE  ~RateLimited(r) <=> Below(failures, Op(r), request[r].now)
  <1>1. request[r].now \in Nat /\ \A f \in failures : f.expires \in Nat
    BY AccessAssumption DEF TypeInv, RequestRecords
  <1>2. \A key : Cardinality(Counted(failures, key, request[r].now)) \in Nat
    BY <1>1, FewerCounted
  <1>3. EmailIPLimit \in Nat /\ IPLimit \in Nat
    BY AccessAssumption
  <1> QED
    BY <1>2, <1>3, Limits DEF Below

\* Fewer failures keep the limits, and keep a login below them.
LEMMA FewerKeep ==
    ASSUME NEW F, NEW G, IsFiniteSet(F), G \subseteq F, \A f \in F : f.expires \in Nat,
           NEW now \in Nat, NEW later \in Nat, now <= later
    PROVE  /\ IsFiniteSet(G)
           /\ Within(F, now) => Within(G, later)
           /\ \A op : Below(F, op, now) => Below(G, op, now)
  <1>1. \A key : /\ Cardinality(Counted(G, key, later)) <= Cardinality(Counted(F, key, now))
                 /\ Cardinality(Counted(G, key, now)) <= Cardinality(Counted(F, key, now))
                 /\ Cardinality(Counted(G, key, later)) \in Nat /\ Cardinality(Counted(F, key, now)) \in Nat
                 /\ Cardinality(Counted(G, key, now)) \in Nat
    <2>1. now <= now
      OBVIOUS
    <2> TAKE key
    <2>2. /\ Cardinality(Counted(G, key, later)) <= Cardinality(Counted(F, key, now))
          /\ Cardinality(Counted(G, key, later)) \in Nat /\ Cardinality(Counted(F, key, now)) \in Nat
      BY FewerCounted
    <2>3. /\ Cardinality(Counted(G, key, now)) <= Cardinality(Counted(F, key, now))
          /\ Cardinality(Counted(G, key, now)) \in Nat
      BY <2>1, FewerCounted
    <2> QED
      BY <2>2, <2>3
  <1>2. EmailIPLimit \in Nat /\ IPLimit \in Nat
    BY AccessAssumption
  <1>3. IsFiniteSet(G)
    BY FS_Subset
  <1>4. Within(F, now) => Within(G, later)
    BY <1>1, <1>2 DEF Within
  <1>5. \A op : Below(F, op, now) => Below(G, op, now)
    BY <1>1, <1>2 DEF Below
  <1> QED
    BY <1>3, <1>4, <1>5

\* Another failed login stays within the limits, and is counted under its own keys only.
LEMMA OneMoreKeeps ==
    ASSUME TypeInv, IsFiniteSet(failures), NEW r \in Requests, Op(r).kind = "login",
           request[r].now <= clock, Within(failures, clock), Below(failures, Op(r), request[r].now)
    PROVE  /\ IsFiniteSet(failures \cup LoginFailures(r))
           /\ Within(failures \cup LoginFailures(r), clock)
           /\ \A key, now : key \notin {EmailKey(Op(r).user, Op(r).ip), IPKey(Op(r).ip)} =>
                 Counted(failures \cup LoginFailures(r), key, now) = Counted(failures, key, now)
  <1> DEFINE email == EmailKey(Op(r).user, Op(r).ip)
             ip == IPKey(Op(r).ip)
             Failure(k) == [key |-> k, by |-> r, expires |-> request[r].now + Window]
             L == LoginFailures(r)
  <1>1. L = {Failure(email), Failure(ip)}
    BY DEF LoginFailures
  <1>2. Failure(email).key = email /\ Failure(ip).key = ip
    OBVIOUS
  <1>3. /\ request[r].now \in Nat /\ clock \in Nat /\ EmailIPLimit \in Nat /\ IPLimit \in Nat
        /\ \A f \in failures : f.expires \in Nat
    BY AccessAssumption DEF TypeInv, RequestRecords
  <1>4. \A u, a : EmailKey(u, a) # ip
    BY DEF EmailKey, IPKey
  <1>5. \A a : IPKey(a) # email
    BY DEF EmailKey, IPKey
  <1> HIDE DEF email, ip, Failure, L
  <1>6. IsFiniteSet(failures \cup L)
    <2>1. failures \cup L = (failures \cup {Failure(email)}) \cup {Failure(ip)}
      BY <1>1
    <2>2. IsFiniteSet(failures \cup {Failure(email)})
      BY FS_AddElement
    <2> QED
      BY <2>1, <2>2, FS_AddElement
  <1>7. ASSUME NEW key, key \notin {email, ip}, NEW now
        PROVE  Counted(failures \cup L, key, now) = Counted(failures, key, now)
    BY <1>1, <1>2, <1>7 DEF Counted
  <1>8. Cardinality(Counted(failures \cup L, email, clock)) <= EmailIPLimit
    <2>1. \A g \in L : g.key = email => g = Failure(email)
      BY <1>1, <1>2, <1>4 DEF email
    <2>2. /\ Cardinality(Counted(failures \cup L, email, clock)) <= Cardinality(Counted(failures, email, request[r].now)) + 1
          /\ Cardinality(Counted(failures \cup L, email, clock)) \in Nat
          /\ Cardinality(Counted(failures, email, request[r].now)) \in Nat
      BY <1>3, <2>1, OneMoreCounted
    <2>3. Cardinality(Counted(failures, email, request[r].now)) < EmailIPLimit
      BY DEF Below, email
    <2> QED
      BY <1>3, <2>2, <2>3
  <1>9. Cardinality(Counted(failures \cup L, ip, clock)) <= IPLimit
    <2>1. \A g \in L : g.key = ip => g = Failure(ip)
      BY <1>1, <1>2, <1>4 DEF email
    <2>2. /\ Cardinality(Counted(failures \cup L, ip, clock)) <= Cardinality(Counted(failures, ip, request[r].now)) + 1
          /\ Cardinality(Counted(failures \cup L, ip, clock)) \in Nat
          /\ Cardinality(Counted(failures, ip, request[r].now)) \in Nat
      BY <1>3, <2>1, OneMoreCounted
    <2>3. Cardinality(Counted(failures, ip, request[r].now)) < IPLimit
      BY DEF Below, ip
    <2> QED
      BY <1>3, <2>2, <2>3
  <1>10. Within(failures \cup L, clock)
    <2>1. ASSUME NEW u \in Users, NEW a \in Addresses
          PROVE  Cardinality(Counted(failures \cup L, EmailKey(u, a), clock)) <= EmailIPLimit
      <3>1. CASE EmailKey(u, a) = email
        BY <1>8, <3>1
      <3>2. CASE EmailKey(u, a) # email
        <4>1. Counted(failures \cup L, EmailKey(u, a), clock) = Counted(failures, EmailKey(u, a), clock)
          BY <1>4, <1>7, <3>2
        <4> QED
          BY <4>1 DEF Within
      <3> QED
        BY <3>1, <3>2
    <2>2. ASSUME NEW a \in Addresses
          PROVE  Cardinality(Counted(failures \cup L, IPKey(a), clock)) <= IPLimit
      <3>1. CASE IPKey(a) = ip
        BY <1>9, <3>1
      <3>2. CASE IPKey(a) # ip
        <4>1. Counted(failures \cup L, IPKey(a), clock) = Counted(failures, IPKey(a), clock)
          BY <1>5, <1>7, <3>2
        <4> QED
          BY <4>1 DEF Within
      <3> QED
        BY <3>1, <3>2
    <2> QED
      BY <2>1, <2>2 DEF Within
  <1> QED
    BY <1>6, <1>7, <1>10 DEF email, ip, L

LEMMA FailureStep ==
    ASSUME TypeInv, TypeInv', LockInv, FailureInv, [Next]_vars
    PROVE  FailureInv'
  <1>0. /\ clock \in Nat /\ clock' \in Nat /\ \A f \in failures : f.expires \in Nat
        /\ \A r \in Requests : request[r].now \in Nat
    BY AccessAssumption DEF TypeInv, RequestRecords
  <1>1. ASSUME NEW r \in Requests, RequestStep(r) \/ Abort(r), ~Commit(r)
        PROVE  FailureInv'
    <2>1. PICK rec : StepWrites(r, rec)
      BY <1>1, StepsWrite
    <2>2. /\ request'[r] = rec /\ Op(r)' = Op(r) /\ failures' = failures /\ clock' = clock
          /\ \A s \in Requests \ {r} : request'[s] = request[s]
      BY <2>1, OwnRecord DEF StepWrites, Unwritten, Op
    <2>3. IsFiniteSet(failures)' /\ FailuresWithinLimits'
      BY <2>2 DEF FailureInv, FailuresWithinLimits, ActiveFailures
    <2>4. ASSUME NEW s \in Requests \ {r}
          PROVE  /\ (Op(s).kind = "login" /\ request[s].pc \in {"locking", "commit"} => request[s].now <= clock)'
                 /\ (At(s, "login", "commit") /\ request[s].result = "invalid_credentials" => ~RateLimited(s))'
      BY <2>2 DEF FailureInv, At, Op, RateLimited, ActiveFailures
    <2>5. (Op(r).kind = "login" /\ request[r].pc \in {"locking", "commit"} => request[r].now <= clock)'
      BY <1>0, <2>1, <2>2 DEF StepWrites, FailureInv
    <2>6. ASSUME At(r, "login", "commit")', request'[r].result = "invalid_credentials"
          PROVE  ~RateLimited(r)'
      <3>1. ~RateLimited(r) /\ request'[r].now = request[r].now
        BY <2>1, <2>2, <2>6 DEF StepWrites, At
      <3> QED
        BY <2>2, <3>1 DEF RateLimited, ActiveFailures
    <2> QED
      BY <2>3, <2>4, <2>5, <2>6 DEF FailureInv
  <1>2. ASSUME NEW r \in Requests, Commit(r)
        PROVE  FailureInv'
    <2>1. /\ request'[r].pc = "done" /\ request[r].pc = "commit" /\ clock' = clock
          /\ \A s \in Requests \ {r} : SameProgress(request'[s], request[s])
      BY <1>2, CommitWrites
    <2>2. ASSUME NEW s \in Requests, request'[s].pc # "done"
          PROVE  /\ s # r /\ Op(s)' = Op(s) /\ request'[s].pc = request[s].pc /\ request'[s].now = request[s].now
                 /\ request'[s].result = request[s].result
      BY <2>1, <2>2 DEF SameProgress, Op
    <2>3. \A s \in Requests : (Op(s).kind = "login" /\ request[s].pc \in {"locking", "commit"} => request[s].now <= clock)'
      BY <2>1, <2>2 DEF FailureInv
    <2>4. IsFiniteSet(failures) /\ Within(failures, clock)
      BY Limits DEF FailureInv
    <2>5. ASSUME NEW s \in Requests, At(s, "login", "commit"), request[s].result = "invalid_credentials"
          PROVE  Below(failures, Op(s), request[s].now)
      BY <2>4, <2>5, BelowLimits DEF FailureInv
    <2>6. /\ IsFiniteSet(failures') /\ Within(failures', clock)
          /\ \A s \in Requests \ {r} : At(s, "login", "commit") /\ request[s].result = "invalid_credentials" =>
                Below(failures', Op(s), request[s].now)
      <3>1. CASE failures' \subseteq failures
        <4>0. clock <= clock
          BY <1>0
        <4>1. IsFiniteSet(failures') /\ Within(failures', clock)
          BY <1>0, <2>4, <3>1, <4>0, FewerKeep
        <4>2. ASSUME NEW s \in Requests, Below(failures, Op(s), request[s].now)
              PROVE  Below(failures', Op(s), request[s].now)
          <5>1. request[s].now \in Nat /\ request[s].now <= request[s].now
            BY <1>0
          <5> QED
            BY <1>0, <2>4, <3>1, <4>2, <5>1, FewerKeep
        <4> QED
          BY <2>5, <4>1, <4>2
      <3>2. CASE /\ At(r, "login", "commit") /\ request[r].result = "invalid_credentials"
                 /\ failures' = failures \cup LoginFailures(r)
        <4>1. Op(r).kind = "login" /\ request[r].now <= clock /\ Below(failures, Op(r), request[r].now)
          BY <2>1, <2>5, <3>2 DEF FailureInv, At
        <4>2. /\ IsFiniteSet(failures') /\ Within(failures', clock)
              /\ \A key, now : key \notin {EmailKey(Op(r).user, Op(r).ip), IPKey(Op(r).ip)} =>
                    Counted(failures', key, now) = Counted(failures, key, now)
          BY <2>4, <3>2, <4>1, OneMoreKeeps
        <4>3. ASSUME NEW s \in Requests \ {r}, At(s, "login", "commit"), request[s].result = "invalid_credentials"
              PROVE  Below(failures', Op(s), request[s].now)
          <5>1. ASSUME NEW key \in {EmailKey(Op(s).user, Op(s).ip), IPKey(Op(s).ip)}
                PROVE  key \notin {EmailKey(Op(r).user, Op(r).ip), IPKey(Op(r).ip)}
            <6>1. HeldBy(s, key, "advisory")
              BY <4>3, LocksAtCommit DEF Needs, At
            <6>2. ASSUME key \in {EmailKey(Op(r).user, Op(r).ip), IPKey(Op(r).ip)} PROVE FALSE
              <7>1. HeldBy(r, key, "advisory")
                BY <2>1, <4>1, <6>2, LocksAtCommit DEF Needs
              <7> QED
                BY <6>1, <7>1, OneHolder
            <6> QED
              BY <6>2
          <5>2. Below(failures, Op(s), request[s].now)
            BY <2>5, <4>3
          <5> QED
            BY <4>2, <5>1, <5>2 DEF Below
        <4> QED
          BY <4>2, <4>3
      <3> QED
        BY <1>2, <3>1, <3>2, FailureChange
    <2>7. FailuresWithinLimits'
      <3>1. Within(failures', clock')
        BY <2>1, <2>6
      <3> QED
        BY <3>1 DEF FailuresWithinLimits, Within, ActiveFailures, Counted
    <2>8. ASSUME NEW s \in Requests, At(s, "login", "commit")', request'[s].result = "invalid_credentials"
          PROVE  ~RateLimited(s)'
      <3>1. /\ s # r /\ Op(s)' = Op(s) /\ request'[s].now = request[s].now
            /\ At(s, "login", "commit") /\ request[s].result = "invalid_credentials"
        BY <2>2, <2>8 DEF At
      <3>2. Below(failures', Op(s), request[s].now)
        BY <2>6, <3>1
      <3>3. /\ Cardinality(Counted(failures', EmailKey(Op(s).user, Op(s).ip), request[s].now)) < EmailIPLimit
            /\ Cardinality(Counted(failures', IPKey(Op(s).ip), request[s].now)) < IPLimit
        BY <3>2 DEF Below
      <3>4. \A key : Cardinality(Counted(failures', key, request[s].now)) \in Nat
        <4>1. \A f \in failures' : f.expires \in Nat
          BY AccessAssumption DEF TypeInv
        <4> QED
          BY <1>0, <2>6, <4>1, FewerCounted
      <3>5. EmailIPLimit \in Nat /\ IPLimit \in Nat
        BY AccessAssumption
      <3>6. ~ (\/ Cardinality(Counted(failures', EmailKey(Op(s).user, Op(s).ip), request[s].now)) >= EmailIPLimit
               \/ Cardinality(Counted(failures', IPKey(Op(s).ip), request[s].now)) >= IPLimit)
        BY <3>3, <3>4, <3>5
      <3> QED
        BY <3>1, <3>6 DEF RateLimited, ActiveFailures, Counted
    <2> QED
      BY <2>3, <2>6, <2>7, <2>8 DEF FailureInv
  <1>3. CASE Tick
    <2>1. clock' = clock + 1 /\ failures' = failures /\ request' = request
      BY <1>3 DEF Tick
    <2>2. IsFiniteSet(failures) /\ Within(failures, clock) /\ clock <= clock'
      BY <1>0, <2>1, Limits DEF FailureInv
    <2>3. Within(failures, clock')
      BY <1>0, <2>2, FewerKeep
    <2>4. FailuresWithinLimits'
      BY <2>1, <2>3 DEF FailuresWithinLimits, Within, ActiveFailures, Counted
    <2>5. \A s \in Requests : (Op(s).kind = "login" /\ request[s].pc \in {"locking", "commit"} => request[s].now <= clock)'
      BY <1>0, <2>1 DEF FailureInv, Op
    <2>6. \A s \in Requests : (At(s, "login", "commit") /\ request[s].result = "invalid_credentials" => ~RateLimited(s))'
      BY <2>1 DEF FailureInv, At, Op, RateLimited, ActiveFailures
    <2> QED
      BY <2>1, <2>2, <2>4, <2>5, <2>6 DEF FailureInv
  <1>4. CASE UNCHANGED vars
    BY <1>4 DEF vars, FailureInv, FailuresWithinLimits, At, Op, RateLimited, ActiveFailures
  <1> QED
    BY <1>1, <1>2, <1>3, <1>4 DEF Next

LEMMA InitFailure == Init => FailureInv
  <1> SUFFICES ASSUME Init PROVE FailureInv
    OBVIOUS
  <1>1. failures = {} /\ EmailIPLimit \in Nat /\ IPLimit \in Nat
    BY AccessAssumption DEF Init
  <1>2. \A key, now : ActiveFailures(key, now) = {}
    BY <1>1 DEF ActiveFailures
  <1>3. IsFiniteSet({}) /\ Cardinality({}) = 0
    BY FS_EmptySet
  <1>4. FailuresWithinLimits
    BY <1>1, <1>2, <1>3 DEF FailuresWithinLimits
  <1>5. \A r \in Requests : request[r].pc = "new"
    <2>1. PICK scenario \in Scenarios : request = [r \in Requests |-> Fresh(scenario[r])]
      BY DEF Init
    <2> QED
      BY <2>1 DEF Fresh
  <1> QED
    BY <1>1, <1>3, <1>4, <1>5 DEF FailureInv, At

\* However many logins run at once, no window holds more failures than the limits: each
\* counts, decides and records under the advisory locks on both of its keys, and what
\* counts when it commits counted already at the time it read before it waited.
THEOREM FailuresBounded == Spec => []FailuresWithinLimits
  <1>1. Init => TypeInv /\ LockInv /\ FailureInv
    BY InitType, InitAccess, InitFailure
  <1>2. TypeInv /\ LockInv /\ FailureInv /\ [Next]_vars => (TypeInv /\ LockInv /\ FailureInv)'
    BY TypeStep, LockStep, FailureStep
  <1>3. FailureInv => FailuresWithinLimits
    BY DEF FailureInv
  <1> QED
    BY <1>1, <1>2, <1>3, PTL DEF Spec

=============================================================================
