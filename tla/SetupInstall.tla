------------------------------ MODULE SetupInstall ------------------------------
(***************************************************************************)
(* First installation and its recovery: handleSetupInstall, performInstall,*)
(* recoverInstallation, rollbackInstallBeforeMarker, the start of a server *)
(* process and the readiness gate it keeps while an installation is open.  *)
(*                                                                         *)
(* Several server processes serve one database; processes may also share   *)
(* an installation directory (the marker .installed, .env, its backup and  *)
(* the recovery journal).  An actor is the main goroutine of a process or  *)
(* an install request it serves.  In one process installMu serializes the  *)
(* actors, in one directory a flock does, in the database an advisory lock.*)
(* Every step of an actor is one durable effect, so that a crash may fall  *)
(* between any two of them.                                                *)
(***************************************************************************)
EXTENDS Integers, FiniteSets

CONSTANTS
    Processes,   \* server processes
    Requests,    \* concurrent POST /setup/install requests
    Dirs,        \* installation directories
    DirOf,       \* the directory of each process
    Prior,       \* .env of each directory before any installation
    Ids,         \* install ids; an installation's administrator has the same id
    Migrations,  \* number of embedded migrations
    OmniConfigured, \* processes with Omni listener addresses in their environment
    SyncFaults,  \* the files whose directory sync may fail after the rename
    MaxFaults    \* bound: crashes, failed writes and failed database calls

NoConfig == {"absent", "prior"}

ASSUME SetupAssumption ==
    /\ DirOf \in [Processes -> Dirs]
    /\ Prior \in [Dirs -> NoConfig]
    /\ Migrations \in Nat /\ MaxFaults \in Nat
    /\ SyncFaults \subseteq {"backup", "prepare", "env", "phase", "restore", "marker", "clean"}
    /\ OmniConfigured \subseteq Processes
    /\ Processes \cap Requests = {}
    /\ Ids \cap (NoConfig \cup {"none"}) = {}
    /\ "none" \notin Processes \cup Requests

Actors == Processes \cup Requests

VARIABLES
    disk,      \* per directory: .env, marker, journal and the backups by install id
    users,     \* ids of the super administrators in the database
    schema,    \* migrations applied
    dbLock,    \* holder of pg_try_advisory_lock(installAdvisoryLock)
    fileLock,  \* holder of each directory's flock
    installMu, \* holder of each process's installMu
    app,       \* in-memory state of each process
    actor,     \* program counter and local variables of each actor
    faults     \* faults that may still happen

vars == <<disk, users, schema, dbLock, fileLock, installMu, app, actor, faults>>

-----------------------------------------------------------------------------
Phases == {"prepared", "admin_pending", "admin_reverted", "config_reverted"}
NoJournal == [id |-> "none", phase |-> "none"]
Journals == [id : Ids, phase : Phases] \cup {NoJournal}

\* .env holds no installation (as before), or the configuration of one.
Configs == NoConfig \cup Ids

Disks == [env : Configs, marker : BOOLEAN, journal : Journals,
          backups : SUBSET [id : Ids, data : Configs]]

Stopped == [state |-> "down", runtime |-> "none", recoveryNeeded |-> FALSE,
            workers |-> FALSE, failed |-> FALSE, fatal |-> FALSE, listening |-> FALSE]

\* stage: which caller holds installMu.  mode: why the undo and cleanup steps run.
Idle == [pc |-> "idle", on |-> "none", stage |-> "none", mode |-> "none",
         result |-> "none", journal |-> NoJournal]

Steps == {"idle", "mutex", "flock", "recover", "recover_lock", "undo_admin", "undo_admin_mark",
          "undo_config", "undo_config_mark", "clean_backup", "clean_journal", "allowed", "connect",
          "migrate", "empty", "build", "backup", "prepare", "env", "pending", "count", "insert", "verify",
          "marker", "publish", "release_db", "release_file", "activate", "leave", "load",
          "serving", "clear", "check"}

ProcOf(a) == IF a \in Processes THEN a ELSE actor[a].on
Dir(a) == DirOf[ProcOf(a)]
At(a, step) == actor[a].pc = step

Goto(a, step) == actor' = [actor EXCEPT ![a].pc = step]
Fault == faults > 0 /\ faults' = faults - 1
NoFault == UNCHANGED faults
LocksUnchanged == UNCHANGED <<dbLock, fileLock, installMu>>
DbUnchanged == UNCHANGED <<users, schema>>

-----------------------------------------------------------------------------
\* The deferred unlocks run with the outcome: "ok", "error" or "failstop"
\* (errInstallCommittedFailStop).
Finish(a, result) == actor' = [actor EXCEPT ![a].pc = "leave", ![a].result = result]

\* writeFileDurable and removeDurable.  A failed call has left the file as it
\* was, or has renamed it and failed to sync the directory.
Store(a, file, content, ok, failed) ==
    \/ disk' = [disk EXCEPT ![Dir(a)] = content] /\ NoFault /\ ok
    \/ /\ Fault
       /\ \/ UNCHANGED disk
          \/ file \in SyncFaults /\ disk' = [disk EXCEPT ![Dir(a)] = content]
       /\ failed

\* A step of an actor that touches files only.
FileStep(a, file, content, ok, failed) ==
    Store(a, file, content, ok, failed) /\ DbUnchanged /\ LocksUnchanged /\ UNCHANGED app

\* failBeforeMarker: rollbackInstallBeforeMarker starts from the phase in memory.
RollbackFrom(a, phase) ==
    actor' = [actor EXCEPT ![a].mode = "rollback", ![a].journal.phase = phase,
                           ![a].pc = IF phase = "admin_pending" THEN "undo_admin" ELSE "undo_config"]

Rollback(a) == RollbackFrom(a, actor[a].journal.phase)

\* The process is gone: its memory, its flock, its mutex and its database
\* sessions, and with them the requests it served.
Vanish(p) ==
    LET mine == {a \in Actors : a = p \/ actor[a].on = p} IN
    /\ app' = [app EXCEPT ![p] = Stopped]
    /\ actor' = [a \in Actors |-> IF a \in mine THEN Idle ELSE actor[a]]
    /\ installMu' = [installMu EXCEPT ![p] = "none"]
    /\ fileLock' = [d \in Dirs |-> IF fileLock[d] \in mine THEN "none" ELSE fileLock[d]]
    /\ dbLock' = IF dbLock \in mine THEN "none" ELSE dbLock

-----------------------------------------------------------------------------
Init ==
    /\ disk = [d \in Dirs |-> [env |-> Prior[d], marker |-> FALSE, journal |-> NoJournal,
                               backups |-> {}]]
    /\ users = {} /\ schema = 0
    /\ dbLock = "none"
    /\ fileLock = [d \in Dirs |-> "none"]
    /\ installMu = [p \in Processes |-> "none"]
    /\ app = [p \in Processes |-> Stopped]
    /\ actor = [a \in Actors |-> Idle]
    /\ faults = MaxFaults

\* main: the process starts with recoverInstallation.
Boot(p) ==
    /\ app[p].state = "down"
    /\ app' = [app EXCEPT ![p].state = "starting"]
    /\ actor' = [actor EXCEPT ![p] = [Idle EXCEPT !.pc = "mutex", !.stage = "boot"]]
    /\ DbUnchanged /\ LocksUnchanged /\ NoFault /\ UNCHANGED disk

\* handleSetupInstall: a request begins with recoverInstallation.
Arrive(r, p) ==
    /\ At(r, "idle") /\ app[p].state = "serving"
    /\ actor' = [actor EXCEPT ![r] = [Idle EXCEPT !.pc = "mutex", !.stage = "recover", !.on = p]]
    /\ DbUnchanged /\ LocksUnchanged /\ NoFault /\ UNCHANGED <<disk, app>>

\* installMu.Lock
TakeMutex(a) ==
    /\ At(a, "mutex") /\ installMu[ProcOf(a)] = "none"
    /\ installMu' = [installMu EXCEPT ![ProcOf(a)] = a]
    /\ Goto(a, "flock")
    /\ DbUnchanged /\ NoFault /\ UNCHANGED <<disk, dbLock, fileLock, app>>

\* acquireProcessFileLock polls the flock until it has it or the context ends.
TakeFileLock(a) ==
    /\ At(a, "flock")
    /\ \/ /\ fileLock[Dir(a)] = "none"
          /\ fileLock' = [fileLock EXCEPT ![Dir(a)] = a]
          /\ Goto(a, "recover") /\ NoFault
       \/ Fault /\ Finish(a, "error") /\ UNCHANGED fileLock
    /\ DbUnchanged /\ UNCHANGED <<disk, dbLock, installMu, app>>

\* What the caller of the locked part does with its result.
AfterLeave(a, result) ==
    CASE actor[a].stage = "boot" -> [actor[a] EXCEPT !.pc = "load", !.result = result]
      [] actor[a].stage = "recover" /\ result = "ok" -> [actor[a] EXCEPT !.pc = "clear"]
      [] OTHER -> Idle

\* Deferred: the database lock, the flock and installMu.  A release that
\* fails has dropped the lock with its connection or file, and is an error.
Leave(a) ==
    /\ At(a, "leave")
    /\ dbLock' = IF dbLock = a THEN "none" ELSE dbLock
    /\ fileLock' = [fileLock EXCEPT ![Dir(a)] = IF @ = a THEN "none" ELSE @]
    /\ installMu' = [installMu EXCEPT ![ProcOf(a)] = "none"]
    /\ \E result \in {actor[a].result, "error"} :
          /\ \/ result = actor[a].result /\ NoFault
             \/ actor[a].result = "ok" /\ result = "error" /\ Fault
          /\ actor' = [actor EXCEPT ![a] = AfterLeave(a, result)]
          /\ app' = IF result = "failstop"  \* signalFatal
                    THEN [app EXCEPT ![ProcOf(a)].recoveryNeeded = TRUE, ![ProcOf(a)].fatal = TRUE]
                    ELSE app
    /\ DbUnchanged /\ UNCHANGED disk

-----------------------------------------------------------------------------
\* Where recovery goes on: a request that installs continues, the others are done.
RecoveryDone(a) == IF actor[a].stage = "install"
                   THEN Goto(a, "allowed") ELSE Finish(a, "ok")

\* Mutant: recovery rolls back whatever journal it finds, marker or not.
MutantRecoverIgnoresMarker(a) ==
    LET j == disk[Dir(a)].journal
        start == CASE j.phase = "admin_pending" -> "recover_lock"
                   [] j.phase = "config_reverted" -> "clean_backup"
                   [] OTHER -> "undo_config"
    IN
    /\ At(a, "recover")
    /\ \/ j = NoJournal /\ RecoveryDone(a)
       \/ /\ j # NoJournal
          /\ actor' = [actor EXCEPT ![a].journal = j, ![a].mode = "recovery", ![a].pc = start]
    /\ DbUnchanged /\ LocksUnchanged /\ NoFault /\ UNCHANGED <<disk, app>>

\* Mutant: a restored configuration is restored again, from a backup that may be gone.
MutantRecoverRestoresTwice(a) ==
    LET j == disk[Dir(a)].journal
        start == CASE disk[Dir(a)].marker -> "clean_backup"
                   [] j.phase = "admin_pending" -> "recover_lock"
                   [] OTHER -> "undo_config"
    IN
    /\ At(a, "recover")
    /\ \/ j = NoJournal /\ RecoveryDone(a)
       \/ /\ j # NoJournal
          /\ actor' = [actor EXCEPT ![a].journal = j, ![a].mode = "recovery", ![a].pc = start]
    /\ DbUnchanged /\ LocksUnchanged /\ NoFault /\ UNCHANGED <<disk, app>>

\* recoverInstallationLocked: what the journal and the marker ask for.
Recover(a) ==
    LET j == disk[Dir(a)].journal
        start == CASE disk[Dir(a)].marker \/ j.phase = "config_reverted" -> "clean_backup"
                   [] ~disk[Dir(a)].marker /\ j.phase = "admin_pending" -> "recover_lock"
                   [] OTHER -> "undo_config"
    IN
    /\ At(a, "recover")
    /\ \/ j = NoJournal /\ RecoveryDone(a)
       \/ /\ j # NoJournal
          /\ actor' = [actor EXCEPT ![a].journal = j, ![a].mode = "recovery", ![a].pc = start]
    /\ DbUnchanged /\ LocksUnchanged /\ NoFault /\ UNCHANGED <<disk, app>>

\* acquireDatabaseInstallLock
TakeDatabaseLock(a, next) == dbLock = "none" /\ dbLock' = a /\ Goto(a, next) /\ NoFault

\* The database of an interrupted installation is the one .env names.
RecoverLock(a) ==
    /\ At(a, "recover_lock")
    /\ \/ disk[Dir(a)].env \in Ids /\ TakeDatabaseLock(a, "undo_admin")
       \/ disk[Dir(a)].env \notin Ids /\ Finish(a, "error") /\ NoFault /\ UNCHANGED dbLock
       \/ Fault /\ Finish(a, "error") /\ UNCHANGED dbLock
    /\ DbUnchanged /\ UNCHANGED <<disk, fileLock, installMu, app>>

\* DELETE FROM users WHERE id = journal.AdminID; a failed call may have run.
UndoAdmin(a) ==
    LET without == users \ {actor[a].journal.id} IN
    /\ At(a, "undo_admin")
    /\ \/ users' = without /\ Goto(a, "undo_admin_mark") /\ NoFault
       \/ users' \in {users, without} /\ Finish(a, "error") /\ Fault
    /\ LocksUnchanged /\ UNCHANGED <<disk, schema, app>>

\* advanceInstallJournal sets the phase in memory before it writes the file.
Advanced(a, phase) == [disk[Dir(a)] EXCEPT !.journal = [id |-> actor[a].journal.id, phase |-> phase]]

\* Recovery releases its database lock here, rollback keeps the installer's.
UndoAdminMark(a) ==
    LET recovery == actor[a].mode = "recovery"
        next == [actor EXCEPT ![a].journal.phase = "admin_reverted", ![a].pc = "undo_config"]
    IN
    /\ At(a, "undo_admin_mark")
    /\ Store(a, "phase", Advanced(a, "admin_reverted"),
             \/ ~recovery /\ actor' = next /\ UNCHANGED dbLock
             \/ recovery /\ dbLock = a /\ dbLock' = "none" /\ actor' = next
             \/ recovery /\ dbLock # a /\ Finish(a, "error") /\ UNCHANGED dbLock,
             Finish(a, "error") /\ UNCHANGED dbLock)
    /\ DbUnchanged /\ UNCHANGED <<fileLock, installMu, app>>

\* restoreRuntimeConfig: the backup of this installation is written back.
UndoConfig(a) ==
    LET saved == {b \in disk[Dir(a)].backups : b.id = actor[a].journal.id} IN
    /\ At(a, "undo_config")
    /\ \/ \E b \in saved :
             FileStep(a, "restore", [disk[Dir(a)] EXCEPT !.env = b.data],
                      Goto(a, "undo_config_mark"), Finish(a, "error"))
       \/ /\ saved = {} /\ Finish(a, "error")
          /\ DbUnchanged /\ LocksUnchanged /\ NoFault /\ UNCHANGED <<disk, app>>

UndoConfigMark(a) ==
    /\ At(a, "undo_config_mark")
    /\ FileStep(a, "phase", Advanced(a, "config_reverted"),
                actor' = [actor EXCEPT ![a].journal.phase = "config_reverted", ![a].pc = "clean_backup"],
                Finish(a, "error"))

\* After the marker a failed cleanup stops the process instead of rolling back.
CleanFailed(a) == Finish(a, IF actor[a].mode = "commit" THEN "failstop" ELSE "error")

\* cleanupInstallArtifacts: temporary files and the backup, then the journal.
CleanBackup(a) ==
    /\ At(a, "clean_backup")
    /\ FileStep(a, "clean",
                [disk[Dir(a)] EXCEPT !.backups = {b \in @ : b.id # actor[a].journal.id}],
                Goto(a, "clean_journal"), CleanFailed(a))

CleanJournal(a) ==
    /\ At(a, "clean_journal")
    /\ FileStep(a, "clean", [disk[Dir(a)] EXCEPT !.journal = NoJournal],
                CASE actor[a].mode = "recovery" -> RecoveryDone(a)
                  [] actor[a].mode = "rollback" -> Finish(a, "error")
                  [] actor[a].mode = "commit" -> Goto(a, "publish"),
                CleanFailed(a))

-----------------------------------------------------------------------------
\* ensureSetupAllowed inside performInstall, under the file lock.
Allowed(a) ==
    /\ At(a, "allowed")
    /\ IF disk[Dir(a)].marker THEN Finish(a, "error") ELSE Goto(a, "connect")
    /\ DbUnchanged /\ LocksUnchanged /\ NoFault /\ UNCHANGED <<disk, app>>

\* testDatabaseConnection, testRedisConnection and the database lock.
Connect(a) ==
    /\ At(a, "connect")
    /\ \/ TakeDatabaseLock(a, "migrate")
       \/ Fault /\ Finish(a, "error") /\ UNCHANGED dbLock
    /\ DbUnchanged /\ UNCHANGED <<disk, fileLock, installMu, app>>

\* Mutant: a migration that is already recorded runs again.
MutantMigrateAgain(a) ==
    /\ At(a, "migrate")
    /\ schema' = schema + 1 /\ Goto(a, "empty") /\ NoFault
    /\ LocksUnchanged /\ UNCHANGED <<disk, users, app>>

\* ApplyMigrations, one transaction per migration under its own advisory lock,
\* and ValidateFrozenContracts.
Migrate(a) ==
    /\ At(a, "migrate")
    /\ \/ schema < Migrations /\ schema' = schema + 1 /\ NoFault /\ UNCHANGED actor
       \/ schema = Migrations /\ Goto(a, "empty") /\ NoFault /\ UNCHANGED schema
       \/ Fault /\ Finish(a, "error") /\ UNCHANGED schema
    /\ LocksUnchanged /\ UNCHANGED <<disk, users, app>>

\* A random install id is one nobody uses; Ids bounds how many attempts there are.
UsedIds == users \cup {actor[a].journal.id : a \in Actors}
           \cup UNION {{disk[d].env, disk[d].journal.id} \cup {b.id : b \in disk[d].backups} : d \in Dirs}

\* ensureUsersEmpty, then the random identifiers and secrets.
EnsureUsersEmpty(a) ==
    /\ At(a, "empty")
    /\ \/ /\ users = {} /\ ~(Ids \subseteq UsedIds) /\ NoFault
          /\ LET id == CHOOSE i \in Ids : i \notin UsedIds IN
             actor' = [actor EXCEPT ![a].journal = [id |-> id, phase |-> "prepared"],
                                    ![a].pc = "build"]
       \/ users # {} /\ Finish(a, "error") /\ NoFault
       \/ Fault /\ Finish(a, "error")
    /\ DbUnchanged /\ LocksUnchanged /\ UNCHANGED <<disk, app>>

\* buildInstallRuntime binds the Omni listeners.  An installation that fails
\* afterwards does not close them, and the next one finds the addresses in use ...
BuildRuntime(a) ==
    LET p == ProcOf(a) IN
    /\ At(a, "build")
    /\ \/ /\ ~app[p].listening /\ NoFault
          /\ app' = [app EXCEPT ![p].listening = p \in OmniConfigured]
          /\ Goto(a, "backup")
       \/ app[p].listening /\ Finish(a, "error") /\ NoFault /\ UNCHANGED app
       \/ Fault /\ Finish(a, "error") /\ UNCHANGED app
    /\ DbUnchanged /\ LocksUnchanged /\ UNCHANGED disk

\* ... until the garbage collector finalizes the sockets nobody holds.
Collect(p) ==
    /\ app[p].listening /\ app[p].runtime = "none"
    /\ \A a \in Actors : actor[a].stage = "install" => actor[a].on # p
    /\ app' = [app EXCEPT ![p].listening = FALSE]
    /\ DbUnchanged /\ LocksUnchanged /\ NoFault /\ UNCHANGED <<disk, actor>>

\* snapshotFile and the first half of prepareInstallJournal.
WriteBackup(a) ==
    LET d == disk[Dir(a)] IN
    /\ At(a, "backup")
    /\ FileStep(a, "backup",
                [d EXCEPT !.backups = @ \cup {[id |-> actor[a].journal.id, data |-> d.env]}],
                Goto(a, "prepare"), Finish(a, "error"))

\* writeInstallJournal in prepareInstallJournal; a failed one removes the
\* backup, and ignores that this may fail too.
PrepareJournal(a) ==
    LET d == disk[Dir(a)]
        bare == {b \in d.backups : b.id # actor[a].journal.id}
        written == Advanced(a, "prepared")
    IN
    /\ At(a, "prepare")
    /\ \/ disk' = [disk EXCEPT ![Dir(a)] = written] /\ Goto(a, "env") /\ NoFault
       \/ /\ Fault /\ Finish(a, "error")
          /\ \E after \in {d} \cup (IF "prepare" \in SyncFaults THEN {written} ELSE {}),
                left \in {bare, d.backups} :
                disk' = [disk EXCEPT ![Dir(a)] = [after EXCEPT !.backups = left]]
    /\ DbUnchanged /\ LocksUnchanged /\ UNCHANGED app

\* writeRuntimeEnvForInstall
WriteEnv(a) ==
    /\ At(a, "env")
    /\ FileStep(a, "env", [disk[Dir(a)] EXCEPT !.env = actor[a].journal.id],
                Goto(a, "pending"), Rollback(a))

\* Mutant: the phase admin_pending is only kept in memory.
MutantAdminPendingInMemory(a) ==
    /\ At(a, "pending")
    /\ actor' = [actor EXCEPT ![a].journal.phase = "admin_pending", ![a].pc = "count"]
    /\ DbUnchanged /\ LocksUnchanged /\ NoFault /\ UNCHANGED <<disk, app>>

MarkAdminPending(a) ==
    /\ At(a, "pending")
    /\ FileStep(a, "phase", Advanced(a, "admin_pending"),
                actor' = [actor EXCEPT ![a].journal.phase = "admin_pending", ![a].pc = "count"],
                RollbackFrom(a, "admin_pending"))

\* createInitialAdmin: SELECT COUNT(1) FROM users ...
CountUsers(a) ==
    /\ At(a, "count")
    /\ \/ (IF users = {} THEN Goto(a, "insert") ELSE Rollback(a)) /\ NoFault
       \/ Rollback(a) /\ Fault
    /\ DbUnchanged /\ LocksUnchanged /\ UNCHANGED <<disk, app>>

\* ... and INSERT and COMMIT, under uq_users_single_super_admin.  The answer to
\* the COMMIT may be lost.
InsertAdmin(a) ==
    LET with == users \cup {actor[a].journal.id} IN
    /\ At(a, "insert")
    /\ \/ users = {} /\ users' = with /\ Goto(a, "verify") /\ NoFault
       \/ users = {} /\ users' \in {users, with} /\ Rollback(a) /\ Fault
       \/ users # {} /\ Rollback(a) /\ NoFault /\ UNCHANGED users
    /\ LocksUnchanged /\ UNCHANGED <<disk, schema, app>>

\* verifyFile and verifyDatabase
VerifyLocks(a) ==
    /\ At(a, "verify")
    /\ \/ (IF dbLock = a THEN Goto(a, "marker") ELSE Rollback(a)) /\ NoFault
       \/ Rollback(a) /\ Fault
    /\ DbUnchanged /\ LocksUnchanged /\ UNCHANGED <<disk, app>>

\* Mutant: a marker that cannot be written is ignored.
MutantWriteMarkerIgnoresError(a) ==
    /\ At(a, "marker")
    /\ FileStep(a, "marker", [disk[Dir(a)] EXCEPT !.marker = TRUE],
                actor' = [actor EXCEPT ![a].mode = "commit", ![a].pc = "clean_backup"],
                actor' = [actor EXCEPT ![a].mode = "commit", ![a].pc = "clean_backup"])

\* createInstallLock: the durable completion fact.
WriteMarker(a) ==
    /\ At(a, "marker")
    /\ FileStep(a, "marker", [disk[Dir(a)] EXCEPT !.marker = TRUE],
                actor' = [actor EXCEPT ![a].mode = "commit", ![a].pc = "clean_backup"],
                Rollback(a))

\* publishRuntimeSnapshot: the runtime is complete, and gated.
Publish(a) ==
    /\ At(a, "publish")
    /\ app' = [app EXCEPT ![ProcOf(a)].runtime = actor[a].journal.id,
                          ![ProcOf(a)].recoveryNeeded = TRUE, ![ProcOf(a)].failed = FALSE,
                          ![ProcOf(a)].workers = FALSE]
    /\ Goto(a, "release_db")
    /\ DbUnchanged /\ LocksUnchanged /\ NoFault /\ UNCHANGED disk

\* pg_advisory_unlock reports a lock that was lost; a failed call drops the session.
ReleaseDatabase(a) ==
    /\ At(a, "release_db")
    /\ dbLock' = IF dbLock = a THEN "none" ELSE dbLock
    /\ \/ dbLock = a /\ Goto(a, "release_file") /\ NoFault
       \/ dbLock # a /\ Finish(a, "failstop") /\ NoFault
       \/ Finish(a, "failstop") /\ Fault
    /\ DbUnchanged /\ UNCHANGED <<disk, fileLock, installMu, app>>

ReleaseFile(a) ==
    /\ At(a, "release_file")
    /\ fileLock' = [fileLock EXCEPT ![Dir(a)] = "none"]
    /\ \/ Goto(a, "activate") /\ NoFault
       \/ Finish(a, "failstop") /\ Fault
    /\ DbUnchanged /\ UNCHANGED <<disk, dbLock, installMu, app>>

\* The activate closure of publishRuntimeSnapshot; installMu is then released.
Activate(a) ==
    /\ At(a, "activate")
    /\ app' = [app EXCEPT ![ProcOf(a)].workers = TRUE, ![ProcOf(a)].recoveryNeeded = FALSE]
    /\ installMu' = [installMu EXCEPT ![ProcOf(a)] = "none"]
    /\ actor' = [actor EXCEPT ![a] = Idle]
    /\ DbUnchanged /\ NoFault /\ UNCHANGED <<disk, dbLock, fileLock>>

-----------------------------------------------------------------------------
\* loadConfig finds what it requires after installation, and
\* validateRuntimeDependencies every migration applied.
Configured(d) == disk[d].env \in Ids
SchemaComplete == schema = Migrations

\* run: a recovery that failed leaves a process that only serves setup;
\* otherwise loadConfig and newApp, which end the process when the marker is
\* there and the configuration or the database is not.
Load(p) ==
    LET d == disk[DirOf[p]]
        serve(record) == /\ app' = [app EXCEPT ![p] = record] /\ Goto(p, "serving")
                         /\ LocksUnchanged
    IN
    /\ At(p, "load")
    /\ \/ /\ actor[p].result = "error" /\ NoFault
          /\ serve([Stopped EXCEPT !.state = "serving", !.recoveryNeeded = TRUE])
       \/ /\ actor[p].result = "ok" /\ ~d.marker /\ NoFault
          /\ serve([Stopped EXCEPT !.state = "serving"])
       \/ /\ actor[p].result = "ok" /\ d.marker /\ Configured(DirOf[p]) /\ SchemaComplete /\ NoFault
          /\ serve([Stopped EXCEPT !.state = "serving", !.runtime = d.env, !.workers = TRUE,
                                   !.listening = p \in OmniConfigured])
       \/ /\ actor[p].result = "ok" /\ d.marker
          /\ \/ ~(Configured(DirOf[p]) /\ SchemaComplete) /\ NoFault
             \/ Fault
          /\ Vanish(p)
    /\ DbUnchanged /\ UNCHANGED disk

\* handleSetupInstall after its recovery: setRecoveryNeeded(false) ...
ClearRecoveryNeeded(r) ==
    /\ At(r, "clear")
    /\ app' = [app EXCEPT ![ProcOf(r)].recoveryNeeded = FALSE]
    /\ Goto(r, "check")
    /\ DbUnchanged /\ LocksUnchanged /\ NoFault /\ UNCHANGED disk

\* ... ensureSetupAllowed, and performInstall.
CheckAllowed(r) ==
    /\ At(r, "check")
    /\ actor' = [actor EXCEPT ![r] = IF disk[Dir(r)].marker THEN Idle
                                     ELSE [Idle EXCEPT !.pc = "mutex", !.stage = "install",
                                                       !.on = ProcOf(r)]]
    /\ DbUnchanged /\ LocksUnchanged /\ NoFault /\ UNCHANGED <<disk, app>>

\* signalRuntimeFatal: the Omni runtime of an active process fails.
RuntimeFails(p) ==
    /\ app[p].workers /\ ~app[p].failed /\ Fault
    /\ app' = [app EXCEPT ![p].failed = TRUE, ![p].fatal = TRUE]
    /\ DbUnchanged /\ LocksUnchanged /\ UNCHANGED <<disk, actor>>

\* run receives from fatalErrors: Shutdown, app.close and the end of the process.
Shutdown(p) ==
    /\ app[p].fatal
    /\ Vanish(p)
    /\ DbUnchanged /\ NoFault /\ UNCHANGED disk

\* The operator restarts a process that answers setup_restart_required: run ends on SIGTERM.
Restart(p) ==
    /\ app[p].state = "serving" /\ app[p].runtime = "none" /\ ~app[p].recoveryNeeded
    /\ disk[DirOf[p]].marker /\ disk[DirOf[p]].journal = NoJournal
    /\ Vanish(p)
    /\ DbUnchanged /\ NoFault /\ UNCHANGED disk

Crash(p) ==
    /\ app[p].state # "down" /\ Fault
    /\ Vanish(p)
    /\ DbUnchanged /\ UNCHANGED disk

\* The database drops the session that holds the advisory lock.
LoseDatabaseLock ==
    /\ dbLock # "none" /\ Fault
    /\ dbLock' = "none"
    /\ DbUnchanged /\ UNCHANGED <<disk, fileLock, installMu, app, actor>>

-----------------------------------------------------------------------------
RecoveryStep(a) ==
    \/ Recover(a) \/ RecoverLock(a) \/ UndoAdmin(a) \/ UndoAdminMark(a)
    \/ UndoConfig(a) \/ UndoConfigMark(a) \/ CleanBackup(a) \/ CleanJournal(a)

InstallStep(a) ==
    \/ Allowed(a) \/ Connect(a) \/ Migrate(a) \/ EnsureUsersEmpty(a) \/ BuildRuntime(a)
    \/ WriteBackup(a) \/ PrepareJournal(a) \/ WriteEnv(a) \/ MarkAdminPending(a)
    \/ CountUsers(a) \/ InsertAdmin(a) \/ VerifyLocks(a) \/ WriteMarker(a)
    \/ Publish(a) \/ ReleaseDatabase(a) \/ ReleaseFile(a) \/ Activate(a)

ActorStep(a) == TakeMutex(a) \/ TakeFileLock(a) \/ RecoveryStep(a) \/ InstallStep(a) \/ Leave(a)

Next ==
    \/ \E p \in Processes : Boot(p) \/ Load(p) \/ RuntimeFails(p) \/ Shutdown(p)
                            \/ Restart(p) \/ Crash(p) \/ Collect(p)
    \/ \E r \in Requests : (\E p \in Processes : Arrive(r, p))
                           \/ ClearRecoveryNeeded(r) \/ CheckAllowed(r)
    \/ \E a \in Actors : ActorStep(a)
    \/ LoseDatabaseLock

Spec == Init /\ [][Next]_vars

\* Goroutines run; the locks are polled every 25ms and are free again and again,
\* so that a poll meets a free one (strong fairness); a supervisor restarts a
\* process that ended; the operator repeats the request and restarts a process
\* that asks for it; the garbage collector runs; faults are finitely many.
FairSpec ==
    /\ Spec
    /\ \A a \in Actors : SF_vars(ActorStep(a))
    /\ \A p \in Processes : /\ WF_vars(Boot(p)) /\ WF_vars(Load(p))
                            /\ WF_vars(Shutdown(p)) /\ WF_vars(Restart(p)) /\ WF_vars(Collect(p))
                            /\ SF_vars(\E r \in Requests : Arrive(r, p))
    /\ \A r \in Requests : WF_vars(ClearRecoveryNeeded(r)) /\ WF_vars(CheckAllowed(r))

-----------------------------------------------------------------------------
AppStates ==
    [state : {"down", "starting", "serving"}, runtime : Ids \cup {"none"},
     recoveryNeeded : BOOLEAN, workers : BOOLEAN, failed : BOOLEAN, fatal : BOOLEAN, listening : BOOLEAN]
ActorStates ==
    [pc : Steps, on : Processes \cup {"none"}, stage : {"none", "boot", "recover", "install"},
     mode : {"none", "recovery", "rollback", "commit"},
     result : {"none", "ok", "error", "failstop"}, journal : Journals]

\* The directories, the database, the locks and the goroutines' memory have their
\* types; a migration is applied once.
TypeOK ==
    /\ disk \in [Dirs -> Disks]
    /\ users \subseteq Ids /\ schema \in 0 .. Migrations
    /\ dbLock \in Actors \cup {"none"}
    /\ fileLock \in [Dirs -> Actors \cup {"none"}]
    /\ installMu \in [Processes -> Actors \cup {"none"}]
    /\ app \in [Processes -> AppStates] /\ actor \in [Actors -> ActorStates]
    /\ faults \in 0 .. MaxFaults

\* The marker is the completion fact: where it is, .env holds the installation,
\* its administrator is the one in the database and the schema is complete.
MarkerMeansInstalled ==
    \A d \in Dirs : disk[d].marker =>
        disk[d].env \in Ids /\ users = {disk[d].env} /\ schema = Migrations

\* An administrator belongs to a finished installation or to one whose journal
\* still says that it must be deleted: no crash or compensation forgets one, so
\* users is empty whenever a new installation may begin.
AdminAccounted ==
    \A u \in users : \E d \in Dirs :
        \/ disk[d].marker /\ disk[d].env = u
        \/ disk[d].journal = [id |-> u, phase |-> "admin_pending"]

\* Without marker and journal nothing of an attempt is left in .env.
ConfigRestored ==
    \A d \in Dirs : ~disk[d].marker /\ disk[d].journal = NoJournal => disk[d].env = Prior[d]

\* The journal is enough to recover from: the backup it will restore is there
\* and is the configuration from before, and while an administrator may exist
\* .env names the database it is in.
JournalRecoverable ==
    \A d \in Dirs : LET j == disk[d].journal IN
        /\ ~disk[d].marker /\ j.phase \in {"prepared", "admin_pending", "admin_reverted"} =>
              [id |-> j.id, data |-> Prior[d]] \in disk[d].backups
        /\ ~disk[d].marker /\ j.phase = "admin_pending" => disk[d].env = j.id

\* A crash, a failed write or a compensation leaves either nothing of an attempt or a
\* journal from which the rest can be undone.
NothingHalfInstalled == AdminAccounted /\ ConfigRestored /\ JournalRecoverable

\* runtimeUnavailableError returns nil: what GET /readyz and the /v1 API ask.
Ready(p) ==
    /\ app[p].state = "serving"
    /\ ~app[p].recoveryNeeded /\ disk[DirOf[p]].journal = NoJournal
    /\ app[p].runtime # "none" /\ ~app[p].failed

\* A ready process runs the configuration of the finished installation and the
\* listeners it asks for, however many requests, restarts and processes took part.
ReadyMeansInstalled ==
    \A p \in Processes : Ready(p) =>
        LET d == disk[DirOf[p]] IN
        /\ d.marker /\ d.env = app[p].runtime /\ users = {d.env}
        /\ app[p].listening <=> p \in OmniConfigured

\* Neither the completion fact nor a ready process is ever without the installation it
\* stands for.
InstalledIsComplete == MarkerMeansInstalled /\ ReadyMeansInstalled

\* The completion fact is never taken back, and neither is what it stands for.
InstallationIsFinal ==
    [][\A d \in Dirs : disk[d].marker => disk'[d].marker /\ disk'[d].env = disk[d].env /\ users' = users]_vars

\* Whatever faults happened, every directory's journal is worked off and setup ends with
\* a process that is ready.
EventuallyReady ==
    /\ <>(\E p \in Processes : Ready(p))
    /\ \A d \in Dirs : disk[d].journal # NoJournal ~> disk[d].journal = NoJournal

=============================================================================
