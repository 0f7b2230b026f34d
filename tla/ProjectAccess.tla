----------------------------- MODULE ProjectAccess -----------------------------
(***************************************************************************)
(* Users, their sessions and the Projects they manage: login and its rate  *)
(* limits, refresh, logout, the User service and the Project service, each *)
(* as the transaction it runs with the row locks PostgreSQL takes for it.  *)
(*                                                                         *)
(* A request is one HTTP call.  It is authenticated from the database, then*)
(* runs its transaction: it takes its locks one after another, decides on  *)
(* the rows it has locked, and commits; the audit row of the commit names  *)
(* the acting User, whose row the foreign key locks FOR KEY SHARE.         *)
(***************************************************************************)
EXTENDS RowLocks

CONSTANTS
    Users,         \* User rows, and the emails of Users yet to be created
    Admin,         \* the one super administrator
    Projects,
    Requests,      \* HTTP requests in flight
    Scenarios,     \* the operations the requests may carry out together
    InitialUsers,  \* Users that exist at first
    InitialManager,\* manager of each Project that exists at first
    Rank,          \* order of the Users' ids, and of the digests of rate limit keys
    Addresses,     \* client addresses
    EmailIPLimit,  \* authEmailIPLimit
    IPLimit,       \* authIPLimit
    Window,        \* authRateLimitWindow
    MaxTransfers,  \* attempts of Transfer to lock a manager that does not change
    MaxClock       \* bound on the server's clock

NoOne == "no one"
EmailKey(u, ip) == <<"email_ip", u, ip>>
IPKey(ip) == <<"ip", ip>>
Keys == {EmailKey(u, ip) : u \in Users, ip \in Addresses} \cup {IPKey(ip) : ip \in Addresses}

\* The requests that change something, as their handlers pass them on.
LoginRequests == [kind : {"login"}, user : Users, ip : Addresses, password : BOOLEAN]
SessionRequests == [kind : {"refresh", "logout"}, user : Users]
UserRequests ==
    [kind : {"register"}, user : Users, target : Users]
    \cup [kind : {"status"}, user : Users, target : Users, status : {"active", "disabled"}]
ProjectRequests ==
    [kind : {"create", "transfer"}, user : Users, project : Projects, target : Users]
    \cup [kind : {"update"}, user : Users, project : Projects, sensitive : BOOLEAN]
Operations == LoginRequests \cup SessionRequests \cup UserRequests \cup ProjectRequests

ASSUME AccessAssumption ==
    /\ Admin \in InitialUsers /\ InitialUsers \subseteq Users /\ NoOne \notin Users
    /\ Scenarios \subseteq [Requests -> Operations]
    /\ InitialManager \in [Projects -> InitialUsers \cup {NoOne}]
    /\ Rank \in [Users \cup Keys -> Nat]
    /\ \A x, y \in Users \cup Keys : x # y => Rank[x] # Rank[y]
    /\ IsFiniteSet(Requests)
    /\ EmailIPLimit \in Nat /\ IPLimit \in Nat /\ Window \in Nat \ {0}
    /\ MaxTransfers \in Nat \ {0} /\ MaxClock \in Nat

VARIABLES
    users,     \* status and session generation of each row
    manager,   \* manager of each Project, NoOne before its creation
    history,   \* managers the audit log tells of, per Project: <<from, to>>
    tokens,    \* access tokens the clients hold
    failures,  \* auth_login_failure_events
    locks,     \* row and advisory locks held by open transactions
    request,   \* the requests
    clock

vars == <<users, manager, history, tokens, failures, locks, request, clock>>

-----------------------------------------------------------------------------
Blockers(r, l) == LockedBy(locks, r, l)
Held(r) == {k \in locks : k.by = r}

\* The locks of an operation, in the order it asks for them.

\* Mutant: only the manager who loses the Project is locked.
MutantTransferLocksOldManager(op, observed) == <<Lock(observed, "update"), Lock(op.project, "update")>>

\* Transfer sorts the two Users, then locks the Project.
TransferLocks(op, observed) ==
    Append(InOrder(Rank, {observed, op.target}, "update"), Lock(op.project, "update"))

\* Mutant: Update reads the Project without locking it.
MutantLocksOfUnlockedUpdate(op, observed) ==
    CASE op.kind = "login" -> InOrder(Rank, {EmailKey(op.user, op.ip), IPKey(op.ip)}, "advisory")
      [] op.kind \in {"status", "create"} -> <<Lock(op.target, "update")>>
      [] op.kind = "transfer" -> TransferLocks(op, observed)
      [] OTHER -> <<>>

\* Mutant: login counts and records failures without the advisory locks.
MutantLocksOfUnlockedLogin(op, observed) ==
    CASE op.kind \in {"status", "create"} -> <<Lock(op.target, "update")>>
      [] op.kind = "transfer" -> TransferLocks(op, observed)
      [] op.kind = "update" -> <<Lock(op.project, "update")>>
      [] OTHER -> <<>>

LocksOf(op, observed) ==
    CASE op.kind = "login" -> InOrder(Rank, {EmailKey(op.user, op.ip), IPKey(op.ip)}, "advisory")
      [] op.kind = "refresh" -> <<Lock(op.user, "share")>>
      [] op.kind = "logout" -> <<Lock(op.user, "no_key_update")>>
      [] op.kind = "register" -> <<>>
      [] op.kind \in {"status", "create"} -> <<Lock(op.target, "update")>>
      [] op.kind = "transfer" -> TransferLocks(op, observed)
      [] op.kind = "update" -> <<Lock(op.project, "update")>>

Steps == {"new", "parsed", "locking", "commit", "done"}

\* generation: of the token, or as login read it.  ended: the session was
\* ended by a logout or a disabling since then.  seen: the manager in the
\* snapshot of the SELECT that locks the Project.
Fresh(op) ==
    [op |-> op, pc |-> "new", generation |-> 0, ended |-> FALSE, todo |-> <<>>, now |-> 0,
     observed |-> NoOne, seen |-> NoOne, attempt |-> 0, result |-> "none"]

Op(r) == request[r].op
At(r, kind, step) == Op(r).kind = kind /\ request[r].pc = step
HasLocks(r, kind) == At(r, kind, "locking") /\ request[r].todo = <<>>
IsSuperAdmin(r) == Op(r).user = Admin

\* access.Scope
CanAccessProject(r, p) == IsSuperAdmin(r) \/ manager[p] = Op(r).user

Init ==
    /\ users = [u \in Users |-> [status |-> IF u \in InitialUsers THEN "active" ELSE "absent",
                                 generation |-> 0]]
    /\ manager = InitialManager
    /\ history = [p \in Projects |-> IF manager[p] = NoOne THEN <<>> ELSE <<<<NoOne, manager[p]>>>>]
    /\ tokens = {[user |-> u, generation |-> 0, ended |-> FALSE] : u \in InitialUsers}
    /\ failures = {}
    /\ locks = {}
    /\ \E scenario \in Scenarios : request = [r \in Requests |-> Fresh(scenario[r])]
    /\ clock = 0

-----------------------------------------------------------------------------
\* Mutant: a transaction that ends does not give its locks back.
MutantEndsKeepsLocks(r, result) ==
    /\ request' = [request EXCEPT ![r] = [Fresh(Op(r)) EXCEPT !.pc = "done", !.result = result]]
    /\ UNCHANGED locks

\* The answer; the transaction's locks are gone with its commit or rollback.
Ends(r, result) ==
    /\ request' = [request EXCEPT ![r] = [Fresh(Op(r)) EXCEPT !.pc = "done", !.result = result]]
    /\ locks' = locks \ Held(r)

\* An error before the transaction has written anything.
Fails(r, result) == Ends(r, result) /\ UNCHANGED <<users, manager, history, tokens, failures, clock>>

Decided(r) ==
    /\ request' = [request EXCEPT ![r].pc = "commit"]
    /\ UNCHANGED <<users, manager, history, tokens, failures, locks, clock>>

\* parseJWT accepts only what createJWT signed.  A client does not present a token
\* that has expired.
Bearer(r) == {t \in tokens : t.user = Op(r).user}

\* ParseToken: the User is active and of the token's generation.
TokenCurrent(t) == users[t.user].status = "active" /\ users[t.user].generation = t.generation

\* requireBearer
ParseToken(r) ==
    /\ request[r].pc = "new" /\ Op(r).kind # "login"
    /\ \E t \in Bearer(r) :
          IF TokenCurrent(t)
          THEN /\ request' = [request EXCEPT ![r].pc = "parsed", ![r].generation = t.generation,
                                             ![r].ended = t.ended]
               /\ UNCHANGED <<users, manager, history, tokens, failures, locks, clock>>
          ELSE Fails(r, "unauthorized")

Locking(r, observed) ==
    /\ request' = [request EXCEPT ![r].pc = "locking", ![r].observed = observed,
                                  ![r].attempt = @ + 1, ![r].todo = LocksOf(Op(r), observed)]
    /\ UNCHANGED <<users, manager, history, tokens, failures, locks, clock>>

\* What the services ask of the scope before their transactions begin; Transfer
\* answers a manager by what he can see.
SuperAdminOnly == {"register", "status", "create", "transfer"}
Begin(r) ==
    LET op == Op(r) IN
    /\ request[r].pc = "parsed"
    /\ CASE op.kind = "transfer" /\ ~CanAccessProject(r, op.project) -> Fails(r, "not_found")
         [] op.kind \in SuperAdminOnly /\ ~IsSuperAdmin(r)
               /\ (op.kind = "transfer" => CanAccessProject(r, op.project)) -> Fails(r, "forbidden")
         [] op.kind = "transfer" /\ IsSuperAdmin(r) /\ manager[op.project] = NoOne -> Fails(r, "not_found")
         [] op.kind = "transfer" /\ IsSuperAdmin(r) /\ manager[op.project] # NoOne ->
               Locking(r, manager[op.project])
         [] OTHER -> Locking(r, NoOne)

\* handleLogin: a.now is read before the locks are waited for.
LoginBegins(r) ==
    /\ At(r, "login", "new")
    /\ request' = [request EXCEPT ![r].pc = "locking", ![r].now = clock,
                                  ![r].todo = LocksOf(Op(r), NoOne)]
    /\ UNCHANGED <<users, manager, history, tokens, failures, locks, clock>>

\* SELECT ... JOIN users ... FOR UPDATE OF p: the snapshot of the statement.
SelectProject(r) ==
    LET p == Head(request[r].todo).row IN
    /\ request[r].pc = "locking" /\ request[r].todo # <<>>
    /\ p \in Projects /\ request[r].seen = NoOne
    /\ IF manager[p] = NoOne THEN Fails(r, "not_found")
       ELSE /\ request' = [request EXCEPT ![r].seen = manager[p]]
            /\ UNCHANGED <<users, manager, history, tokens, failures, locks, clock>>

\* A lock is granted once no other transaction holds a conflicting one.  The
\* SELECT of the Project then joins the row as it is now with the User of its
\* snapshot: it finds nothing when the manager has changed.
Acquire(r) ==
    LET l == Head(request[r].todo) IN
    /\ request[r].pc = "locking" /\ request[r].todo # <<>>
    /\ l.row \in Projects => request[r].seen # NoOne
    /\ Blockers(r, l) = {}
    /\ CASE l.row \in Projects /\ manager[l.row] # request[r].seen -> Fails(r, "not_found")
         [] l.row \in Users /\ users[l.row].status = "absent" -> Fails(r, "not_found")
         [] OTHER -> /\ locks' = locks \cup {[row |-> l.row, mode |-> l.mode, by |-> r]}
            /\ request' = [request EXCEPT ![r].todo = Tail(@)]
            /\ UNCHANGED <<users, manager, history, tokens, failures, clock>>

-----------------------------------------------------------------------------
\* UpdateStatus.  CountByManager runs after the User is locked.
DecideStatus(r) ==
    LET op == Op(r) IN
    /\ HasLocks(r, "status")
    /\ CASE users[op.target].status = op.status -> Fails(r, "unchanged")
         [] users[op.target].status # op.status /\ op.target = Admin -> Fails(r, "super_admin_immutable")
         [] op.status = "disabled" /\ op.target # Admin /\ \E p \in Projects : manager[p] = op.target ->
               Fails(r, "user_has_managed_projects")
         [] OTHER -> Decided(r)

DecideCreate(r) ==
    /\ HasLocks(r, "create")
    /\ IF users[Op(r).target].status = "active" THEN Decided(r) ELSE Fails(r, "manager_inactive")

\* Transfer: another attempt if the manager is not the one that was locked.
Retry(r) ==
    LET m == manager[Op(r).project] IN
    /\ locks' = locks \ Held(r)
    /\ request' = [request EXCEPT ![r].observed = m, ![r].seen = NoOne, ![r].attempt = @ + 1,
                                  ![r].todo = TransferLocks(Op(r), m), ![r].pc = "locking"]
    /\ UNCHANGED <<users, manager, history, tokens, failures, clock>>

\* Mutant: the attempts are not counted.
MutantDecideTransferUnbounded(r) ==
    LET op == Op(r) m == manager[op.project] IN
    /\ HasLocks(r, "transfer")
    /\ CASE m # request[r].observed -> Retry(r)
         [] m = request[r].observed /\ users[op.target].status = "disabled" -> Fails(r, "manager_inactive")
         [] m = request[r].observed /\ users[op.target].status = "active" /\ m = op.target -> Fails(r, "unchanged")
         [] OTHER -> Decided(r)

DecideTransfer(r) ==
    LET op == Op(r) m == manager[op.project] IN
    /\ HasLocks(r, "transfer")
    /\ CASE m # request[r].observed ->
               IF request[r].attempt < MaxTransfers THEN Retry(r) ELSE Fails(r, "transfer_retry")
         [] m = request[r].observed /\ users[op.target].status = "disabled" -> Fails(r, "manager_inactive")
         [] m = request[r].observed /\ users[op.target].status = "active" /\ m = op.target -> Fails(r, "unchanged")
         [] OTHER -> Decided(r)

\* Update, RotateAPIKey and RotateWebhookSecret: sensitive fields are for the
\* super administrator, the name is for the manager too.
DecideUpdate(r) ==
    /\ HasLocks(r, "update")
    /\ CASE ~CanAccessProject(r, Op(r).project) -> Fails(r, "not_found")
         [] CanAccessProject(r, Op(r).project) /\ ~IsSuperAdmin(r) /\ Op(r).sensitive -> Fails(r, "forbidden")
         [] OTHER -> Decided(r)

\* RecordRefresh and Logout: the row must still be active and of the generation
\* that ParseToken saw.
SessionAlive(r) ==
    users[Op(r).user].status = "active" /\ users[Op(r).user].generation = request[r].generation

DecideSession(r) ==
    /\ HasLocks(r, "refresh") \/ HasLocks(r, "logout")
    /\ IF SessionAlive(r) THEN Decided(r) ELSE Fails(r, "unauthorized")

DecideRegister(r) == HasLocks(r, "register") /\ Decided(r)

\* activeFailureCount
ActiveFailures(key, now) == {f \in failures : f.key = key /\ f.expires > now}

\* loginUser: the limits, then the credentials.
RateLimited(r) ==
    LET op == Op(r) IN
    \/ Cardinality(ActiveFailures(EmailKey(op.user, op.ip), request[r].now)) >= EmailIPLimit
    \/ Cardinality(ActiveFailures(IPKey(op.ip), request[r].now)) >= IPLimit

DecideLogin(r) ==
    LET row == users[Op(r).user]
        valid == row.status = "active" /\ Op(r).password
        verdict == CASE RateLimited(r) -> "rate_limited"
                     [] ~RateLimited(r) /\ valid -> "valid"
                     [] OTHER -> "invalid_credentials"
    IN
    /\ HasLocks(r, "login")
    /\ request' = [request EXCEPT ![r].pc = "commit", ![r].result = verdict,
                                  ![r].generation = row.generation, ![r].ended = FALSE]
    /\ UNCHANGED <<users, manager, history, tokens, failures, locks, clock>>

-----------------------------------------------------------------------------
\* The audit row's foreign key locks the acting User; an anonymous one has none.
AuditLock(r) ==
    IF Op(r).kind = "login" /\ (users[Op(r).user].status = "absent" \/ request[r].result = "rate_limited")
    THEN {} ELSE {Lock(Op(r).user, "key_share")}

Auditable(r) == \A l \in AuditLock(r) : Blockers(r, l) = {}

Commits(r, kind) == At(r, kind, "commit") /\ Auditable(r)

\* The sessions of a User whose generation is incremented.
EndSessions(u, requests) ==
    /\ tokens' = {IF t.user = u THEN [t EXCEPT !.ended = TRUE] ELSE t : t \in tokens}
    /\ request' = [s \in Requests |->
                     IF requests[s].op.user = u /\ requests[s].pc \notin {"new", "done"}
                     THEN [requests[s] EXCEPT !.ended = TRUE] ELSE requests[s]]

Answered(r, result) == [request EXCEPT ![r] = [Fresh(Op(r)) EXCEPT !.pc = "done", !.result = result]]

\* Mutant: disabling leaves the session generation alone.
MutantCommitStatusKeepsGeneration(r) ==
    LET u == Op(r).target IN
    /\ Commits(r, "status")
    /\ locks' = locks \ Held(r)
    /\ users' = [users EXCEPT ![u].status = Op(r).status]
    /\ \/ Op(r).status = "disabled" /\ EndSessions(u, Answered(r, "ok"))
       \/ Op(r).status = "active" /\ request' = Answered(r, "ok") /\ UNCHANGED tokens
    /\ UNCHANGED <<manager, history, failures, clock>>

CommitStatus(r) ==
    LET u == Op(r).target IN
    /\ Commits(r, "status")
    /\ locks' = locks \ Held(r)
    /\ \/ /\ Op(r).status = "disabled"
          /\ users' = [users EXCEPT ![u] = [status |-> "disabled", generation |-> @.generation + 1]]
          /\ EndSessions(u, Answered(r, "ok"))
       \/ /\ Op(r).status = "active"
          /\ users' = [users EXCEPT ![u].status = "active"]
          /\ request' = Answered(r, "ok") /\ UNCHANGED tokens
    /\ UNCHANGED <<manager, history, failures, clock>>

\* userservice.Create: email is unique.
CommitRegister(r) ==
    LET u == Op(r).target IN
    /\ Commits(r, "register")
    /\ IF users[u].status = "absent"
       THEN /\ users' = [users EXCEPT ![u] = [status |-> "active", generation |-> 0]]
            /\ Ends(r, "ok")
       ELSE Ends(r, "email_conflict") /\ UNCHANGED users
    /\ UNCHANGED <<manager, history, tokens, failures, clock>>

CommitCreate(r) ==
    LET op == Op(r) IN
    /\ Commits(r, "create") /\ manager[op.project] = NoOne
    /\ manager' = [manager EXCEPT ![op.project] = op.target]
    /\ history' = [history EXCEPT ![op.project] = Append(@, <<NoOne, op.target>>)]
    /\ Ends(r, "ok")
    /\ UNCHANGED <<users, tokens, failures, clock>>

CommitTransfer(r) ==
    LET op == Op(r) IN
    /\ Commits(r, "transfer")
    /\ manager' = [manager EXCEPT ![op.project] = op.target]
    /\ history' = [history EXCEPT ![op.project] = Append(@, <<request[r].observed, op.target>>)]
    /\ Ends(r, "ok")
    /\ UNCHANGED <<users, tokens, failures, clock>>

CommitUpdate(r) ==
    /\ Commits(r, "update")
    /\ Ends(r, "ok")
    /\ UNCHANGED <<users, manager, history, tokens, failures, clock>>

\* createJWT, with the generation read under the locks or by ParseToken.
IssueToken(r) ==
    tokens' = tokens \cup {[user |-> Op(r).user, generation |-> request[r].generation,
                            ended |-> request[r].ended]}

\* handleRefresh: the token was issued for the User that ParseToken returned.
CommitRefresh(r) ==
    /\ Commits(r, "refresh")
    /\ IssueToken(r)
    /\ Ends(r, "ok")
    /\ UNCHANGED <<users, manager, history, failures, clock>>

CommitLogout(r) ==
    /\ Commits(r, "logout")
    /\ locks' = locks \ Held(r)
    /\ users' = [users EXCEPT ![Op(r).user].generation = @ + 1]
    /\ EndSessions(Op(r).user, Answered(r, "ok"))
    /\ UNCHANGED <<manager, history, failures, clock>>

\* insertLoginFailure, under both keys.
LoginFailures(r) == {[key |-> k, by |-> r, expires |-> request[r].now + Window] :
                        k \in {EmailKey(Op(r).user, Op(r).ip), IPKey(Op(r).ip)}}

\* A success forgets the failures of this email and address, not the address's.
CommitLogin(r) ==
    LET op == Op(r) verdict == request[r].result IN
    /\ Commits(r, "login")
    /\ \/ /\ verdict = "valid"
          /\ failures' = {f \in failures : f.key # EmailKey(op.user, op.ip)}
          /\ IssueToken(r)
       \/ /\ verdict = "invalid_credentials"
          /\ failures' = failures \cup LoginFailures(r)
          /\ UNCHANGED tokens
       \/ verdict = "rate_limited" /\ UNCHANGED <<failures, tokens>>
    /\ Ends(r, verdict)
    /\ UNCHANGED <<users, manager, history, clock>>

-----------------------------------------------------------------------------
\* What a request waits for: the next lock, or the audit row's.
Wants(r) ==
    IF request[r].pc = "commit" THEN AuditLock(r)
    ELSE IF request[r].pc = "locking" /\ request[r].todo # <<>> THEN {Head(request[r].todo)}
    ELSE {}
WaitsFor(r) == UNION {Blockers(r, l) : l \in Wants(r)}
Deadlocked(r) == InCycle([s \in Requests |-> WaitsFor(s)], r)

\* PostgreSQL aborts a transaction of a cycle after deadlock_timeout.
DeadlockVictim(r) == Deadlocked(r) /\ Fails(r, "error")

\* The context ends or the connection breaks before the commit.
Abort(r) == request[r].pc \in {"locking", "commit"} /\ Fails(r, "error")

Tick ==
    /\ clock < MaxClock /\ clock' = clock + 1
    /\ UNCHANGED <<users, manager, history, tokens, failures, locks, request>>

RequestStep(r) ==
    \/ ParseToken(r) \/ Begin(r) \/ LoginBegins(r) \/ SelectProject(r) \/ Acquire(r)
    \/ DecideStatus(r) \/ DecideCreate(r) \/ DecideTransfer(r) \/ DecideUpdate(r)
    \/ DecideSession(r) \/ DecideRegister(r) \/ DecideLogin(r)
    \/ CommitStatus(r) \/ CommitRegister(r) \/ CommitCreate(r) \/ CommitTransfer(r)
    \/ CommitUpdate(r) \/ CommitRefresh(r) \/ CommitLogout(r) \/ CommitLogin(r)
    \/ DeadlockVictim(r)

Next == (\E r \in Requests : RequestStep(r) \/ Abort(r)) \/ Tick

Spec == Init /\ [][Next]_vars

\* Handlers run, PostgreSQL grants free locks and breaks cycles of waits.
FairSpec == Spec /\ \A r \in Requests : WF_vars(RequestStep(r))

-----------------------------------------------------------------------------
\* The rows, tokens, locks and requests have their types; a transfer is tried a
\* bounded number of times.
TypeOK ==
    /\ users \in [Users -> [status : {"absent", "active", "disabled"}, generation : 0 .. Cardinality(Requests)]]
    /\ manager \in [Projects -> Users \cup {NoOne}]
    /\ \A p \in Projects : history[p] \in Seq((Users \cup {NoOne}) \X Users)
    /\ tokens \subseteq [user : Users, generation : 0 .. Cardinality(Requests), ended : BOOLEAN]
    /\ failures \subseteq [key : Keys, by : Requests, expires : 0 .. MaxClock + Window]
    /\ locks \subseteq [row : Users \cup Projects \cup Keys, mode : Modes, by : Requests]
    /\ \A r \in Requests : Op(r) \in Operations /\ request[r].pc \in Steps /\ request[r].attempt \in 0 .. MaxTransfers
    /\ clock \in 0 .. MaxClock

\* No committed state has a Project whose manager is disabled or missing, however
\* disabling, creation and transfer interleave.
ManagersActive ==
    \A p \in Projects : manager[p] # NoOne => users[manager[p]].status = "active"

\* The audit log tells how each Project came to its manager, without gaps: every
\* transfer was made from the manager the one before had put in place.
HistoryChains ==
    \A p \in Projects :
        /\ history[p] = <<>> <=> manager[p] = NoOne
        /\ \A i \in 1 .. Len(history[p]) :
              /\ history[p][i][1] = IF i = 1 THEN NoOne ELSE history[p][i - 1][2]
              /\ i = Len(history[p]) => history[p][i][2] = manager[p]

\* Who manages a Project is an active User, and the audit log says how that came about,
\* however disabling, creation and transfers interleave.
ManagersAccounted == ManagersActive /\ HistoryChains

\* A change of a Project is committed for its manager of that moment, who is
\* active, or for the super administrator; it does not matter that the token was
\* checked before a transfer and a disabling.
AuthorisedAtCommit ==
    \A r \in Requests : At(r, "update", "commit") =>
        CanAccessProject(r, Op(r).project) /\ users[Op(r).user].status = "active"

\* A token opens nothing once a logout or a disabling has ended the session it
\* goes back to, also one that a refresh or a login was about to issue then, and
\* also after the User is enabled again.
EndedSessionsStayEnded ==
    \A t \in tokens : t.ended => ~TokenCurrent(t)

\* Concurrent logins never record more failures in a window than the limits allow.
FailuresWithinLimits ==
    /\ \A u \in Users, ip \in Addresses :
          Cardinality(ActiveFailures(EmailKey(u, ip), clock)) <= EmailIPLimit
    /\ \A ip \in Addresses : Cardinality(ActiveFailures(IPKey(ip), clock)) <= IPLimit

\* Every request is answered: whoever waits for a lock gets it, or PostgreSQL
\* gives up one transaction of the cycle.
RequestsAnswered == <>(\A r \in Requests : request[r].pc = "done")

=============================================================================
