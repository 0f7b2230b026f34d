--------------------------- MODULE SetupInstall_proofs ---------------------------
(***************************************************************************)
(* Proofs about SetupInstall, for every number of processes, requests and  *)
(* directories, every assignment of processes to directories and every     *)
(* number of faults.                                                       *)
(*                                                                         *)
(* The argument: an actor between its flock and the release of it is alone *)
(* in its directory (LockInv), so the place it has reached says what the   *)
(* directory holds (StepSound), and what a crash leaves there is always    *)
(* enough to go on (DiskSound).  Between directories only the table of     *)
(* users is shared: an install id is used by one directory (ClaimInv), so  *)
(* what one installation deletes is never another one's administrator.     *)
(* The advisory lock plays no part in it: it may be lost at any time, and  *)
(* uq_users_single_super_admin alone keeps a second administrator out.     *)
(***************************************************************************)
EXTENDS SetupInstall, TLAPS

\* The places between the flock and its release, and those that hold installMu.
FileSteps ==
    {"recover", "recover_lock", "undo_admin", "undo_admin_mark", "undo_config", "undo_config_mark",
     "clean_backup", "clean_journal", "allowed", "connect", "migrate", "empty", "build", "backup",
     "prepare", "env", "pending", "count", "insert", "verify", "marker", "publish", "release_db",
     "release_file"}
MutexSteps == FileSteps \cup {"flock", "activate", "leave"}

CompensationSteps == {"recover_lock", "undo_admin", "undo_admin_mark", "undo_config", "undo_config_mark"}
UndoSteps == CompensationSteps \cup {"clean_backup", "clean_journal"}
AttemptSteps ==
    {"build", "backup", "prepare", "env", "pending", "count", "insert", "verify", "marker", "publish"}
InstallSteps ==
    {"allowed", "connect", "migrate", "empty"} \cup AttemptSteps
        \cup {"release_db", "release_file", "activate"}

\* What the place of actor a says of its other local variables.
RecordSound(a, r) ==
    /\ a \in Processes => r.on = "none" /\ (r.pc = "idle" \/ r.stage = "boot")
    /\ a \in Requests => r.pc = "idle" \/ (r.on \in Processes /\ r.stage \in {"recover", "install"})
    /\ r.pc \in InstallSteps => r.stage = "install"
    /\ r.mode \in {"rollback", "commit"} => r.stage = "install"
    /\ r.pc \in UndoSteps \cup AttemptSteps => r.journal.id \in Ids
    /\ r.pc \in UndoSteps => r.mode # "none"
    /\ r.pc \in CompensationSteps => r.mode # "commit"

RecordInv == \A a \in Actors : RecordSound(a, actor[a])

TypeInv == TypeOK /\ RecordInv

LockInv ==
    \A a \in Actors : /\ actor[a].pc \in MutexSteps => installMu[ProcOf(a)] = a
                      /\ actor[a].pc \in FileSteps => fileLock[Dir(a)] = a

\* A request is served by a process that serves; the process's own goroutine is then done.
LifeInv ==
    /\ \A p \in Processes : /\ app[p].state = "down" <=> actor[p].pc = "idle"
                            /\ app[p].state = "serving" <=> actor[p].pc = "serving"
    /\ \A r \in Requests : actor[r].pc # "idle" => app[actor[r].on].state = "serving"

\* What the directory d holds, and what is in memory, when its actor has reached r.pc; us are
\* the users, done says that the schema is complete and bound that the listeners are bound.
StepSound(r, d, prior, us, done, bound) ==
    /\ r.pc \in {"recover_lock", "undo_admin", "undo_admin_mark"} =>
          /\ ~d.marker /\ r.journal.phase = "admin_pending" /\ d.journal.id = r.journal.id
          /\ d.journal.phase \in {"prepared", "admin_pending"}
    /\ r.pc = "undo_admin_mark" => r.journal.id \notin us
    /\ r.pc \in {"undo_config", "undo_config_mark"} =>
          /\ ~d.marker /\ d.journal = r.journal /\ r.journal.phase \in {"prepared", "admin_reverted"}
    /\ r.pc = "undo_config_mark" => d.env = prior
    /\ r.pc \in {"clean_backup", "clean_journal"} =>
          /\ d.journal = r.journal /\ (d.marker \/ r.journal.phase = "config_reverted")
          /\ r.mode = "commit" => d.marker /\ d.env = r.journal.id /\ bound
    /\ r.pc \in {"allowed", "connect", "migrate", "empty", "build", "backup", "prepare"} =>
          d.journal = NoJournal
    /\ r.pc \in {"connect", "migrate", "empty"} \cup (AttemptSteps \ {"publish"}) => ~d.marker
    /\ r.pc \in {"empty"} \cup (AttemptSteps \ {"publish"}) => done
    /\ r.pc \in {"build", "backup", "prepare", "env", "pending"} => r.journal.phase = "prepared"
    /\ r.pc \in {"prepare", "env", "pending", "recover_lock", "undo_admin", "undo_admin_mark"} =>
          [id |-> r.journal.id, data |-> prior] \in d.backups
    /\ r.pc \in {"env", "pending", "count", "insert", "verify", "marker"} => d.journal = r.journal
    /\ r.pc \in {"count", "insert", "verify", "marker"} => r.journal.phase = "admin_pending"
    /\ r.pc \in {"pending", "count", "insert", "verify", "marker"} => d.env = r.journal.id
    /\ r.pc \in {"verify", "marker"} => us = {r.journal.id}
    /\ r.pc \in AttemptSteps \ {"build"} => bound
    /\ r.pc = "publish" => d.marker /\ d.env = r.journal.id

\* What a directory holds, at any moment of any installation in it.
DiskSound(d, prior, us, done) ==
    /\ \A b \in d.backups : b.data = prior
    /\ ~d.marker =>
          /\ d.journal.phase \in {"none", "config_reverted"} => d.env = prior
          /\ d.journal.phase \in {"prepared", "admin_pending", "admin_reverted"} =>
                \/ [id |-> d.journal.id, data |-> prior] \in d.backups
                \/ d.journal.phase = "prepared" /\ d.env = prior /\ "prepare" \in SyncFaults
          /\ d.journal.phase = "admin_pending" => d.env = d.journal.id
    /\ d.marker => d.env \in Ids /\ us = {d.env} /\ done

Bound(table, p) == table[p].listening <=> p \in OmniConfigured
Complete == schema = Migrations

StepInv ==
    \A a \in Actors : actor[a].pc \in FileSteps =>
        StepSound(actor[a], disk[Dir(a)], Prior[Dir(a)], users, Complete, Bound(app, ProcOf(a)))
DiskInv == \A d \in Dirs : DiskSound(disk[d], Prior[d], users, Complete)

\* Directory d uses the install id i.
Claims(d, i) ==
    \/ disk[d].env = i \/ disk[d].journal.id = i
    \/ \E a \in Actors : ProcOf(a) \in Processes /\ Dir(a) = d /\ actor[a].journal.id = i
ClaimInv == \A i \in Ids : \A d, e \in Dirs : Claims(d, i) /\ Claims(e, i) => d = e

\* A process with a runtime runs the finished installation of its directory.
RuntimeInv ==
    \A p \in Processes : app[p].runtime # "none" =>
        disk[DirOf[p]].marker /\ disk[DirOf[p]].env = app[p].runtime /\ Bound(app, p)

SetupInv ==
    TypeInv /\ LockInv /\ LifeInv /\ StepInv /\ DiskInv /\ ClaimInv /\ AdminAccounted /\ RuntimeInv

-----------------------------------------------------------------------------
(* The steps between the flock and its release.                             *)

\* Only actor a moves, and it stays the caller it was.
ActorPart(a) ==
    /\ actor' \in [Actors -> ActorStates] /\ \A b \in Actors : b # a => actor'[b] = actor[b]
    /\ actor[a].pc \in FileSteps /\ actor'[a].pc \in FileSteps \cup {"leave"}
    /\ actor'[a].on = actor[a].on /\ actor'[a].stage = actor[a].stage
    /\ RecordSound(a, actor'[a])

\* Only the files of a's directory change.
DiskPart(a) == disk' \in [Dirs -> Disks] /\ \A e \in Dirs : e # Dir(a) => disk'[e] = disk[e]

DbPart == users' \subseteq Ids /\ schema' \in 0 .. Migrations /\ (Complete => schema' = Migrations)

LockPart == UNCHANGED <<fileLock, installMu>> /\ dbLock' \in Actors \cup {"none"}

AppPart(a) ==
    /\ app' \in [Processes -> AppStates]
    /\ \A p \in Processes : app'[p].state = app[p].state /\ (p # ProcOf(a) => app'[p] = app[p])

Inner(a) == ActorPart(a) /\ DiskPart(a) /\ DbPart /\ LockPart /\ AppPart(a) /\ faults' \in 0 .. MaxFaults

LEMMA FaultType == ASSUME TypeOK, Fault \/ NoFault PROVE faults' \in 0 .. MaxFaults
  BY SetupAssumption DEF TypeOK, Fault, NoFault

LEMMA DirType ==
    ASSUME TypeInv, NEW a \in Actors, actor[a].pc # "idle"
    PROVE  ProcOf(a) \in Processes /\ Dir(a) \in Dirs /\ actor[a] \in ActorStates /\ disk[Dir(a)] \in Disks
  <1>1. ProcOf(a) \in Processes
    BY DEF TypeInv, RecordInv, RecordSound, ProcOf, Actors
  <1>2. Dir(a) \in Dirs
    BY <1>1, SetupAssumption DEF Dir
  <1> QED
    BY <1>1, <1>2 DEF TypeInv, TypeOK

\* What a move of an actor's program counter changes.
LEMMA GotoEffect ==
    ASSUME TypeOK, NEW a \in Actors, NEW step \in Steps, Goto(a, step)
    PROVE  /\ actor' \in [Actors -> ActorStates] /\ \A b \in Actors : b # a => actor'[b] = actor[b]
           /\ actor'[a].pc = step /\ actor'[a].on = actor[a].on /\ actor'[a].stage = actor[a].stage
           /\ actor'[a].mode = actor[a].mode /\ actor'[a].journal = actor[a].journal
  BY DEF TypeOK, ActorStates, Goto

LEMMA FinishEffect ==
    ASSUME TypeOK, NEW a \in Actors, NEW result \in {"ok", "error", "failstop"}, Finish(a, result)
    PROVE  /\ actor' \in [Actors -> ActorStates] /\ \A b \in Actors : b # a => actor'[b] = actor[b]
           /\ actor'[a].pc = "leave" /\ actor'[a].on = actor[a].on /\ actor'[a].stage = actor[a].stage
           /\ actor'[a].mode = actor[a].mode /\ actor'[a].journal = actor[a].journal
  <1>1. "leave" \in Steps
    BY DEF Steps
  <1> DEFINE new == [actor[a] EXCEPT !.pc = "leave", !.result = result]
  <1>2. actor' = [actor EXCEPT ![a] = new] /\ actor[a] \in ActorStates
    BY DEF TypeOK, ActorStates, Finish
  <1>3. /\ new \in ActorStates /\ new.pc = "leave" /\ new.on = actor[a].on /\ new.stage = actor[a].stage
        /\ new.mode = actor[a].mode /\ new.journal = actor[a].journal
    BY <1>1, <1>2 DEF ActorStates
  <1> HIDE DEF new
  <1> QED
    BY <1>2, <1>3 DEF TypeOK

LEMMA RollbackEffect ==
    ASSUME TypeOK, NEW a \in Actors, NEW phase \in Phases, actor[a].journal.id \in Ids, RollbackFrom(a, phase)
    PROVE  /\ actor' \in [Actors -> ActorStates] /\ \A b \in Actors : b # a => actor'[b] = actor[b]
           /\ actor'[a].pc = IF phase = "admin_pending" THEN "undo_admin" ELSE "undo_config"
           /\ actor'[a].on = actor[a].on /\ actor'[a].stage = actor[a].stage
           /\ actor'[a].mode = "rollback" /\ actor'[a].journal = [id |-> actor[a].journal.id, phase |-> phase]
  <1> DEFINE r == actor[a]
             j == [id |-> r.journal.id, phase |-> phase]
             pc == IF phase = "admin_pending" THEN "undo_admin" ELSE "undo_config"
             new == [r EXCEPT !.mode = "rollback", !.journal = j, !.pc = pc]
  <1>1. r \in ActorStates /\ r.journal \in Journals
    BY DEF TypeOK, ActorStates
  <1>2. r.journal \in [id : Ids, phase : Phases]
    BY <1>1, SetupAssumption DEF Journals, NoJournal
  <1>3. [r.journal EXCEPT !.phase = phase] = j
    BY <1>2
  <1>4. j \in Journals
    BY DEF Journals
  <1>5. pc \in Steps
    BY DEF Steps
  <1>6. actor' = [actor EXCEPT ![a] = [r EXCEPT !.mode = "rollback",
                                                !.journal = [r.journal EXCEPT !.phase = phase], !.pc = pc]]
    BY <1>1 DEF RollbackFrom, TypeOK, ActorStates
  <1>7. actor' = [actor EXCEPT ![a] = new]
    BY <1>3, <1>6
  <1> HIDE DEF j, pc
  <1>8. /\ new \in ActorStates /\ new.pc = pc /\ new.on = r.on /\ new.stage = r.stage
        /\ new.mode = "rollback" /\ new.journal = j
    BY <1>1, <1>4, <1>5 DEF ActorStates
  <1> HIDE DEF new
  <1>9. /\ actor' \in [Actors -> ActorStates] /\ actor'[a] = new
        /\ \A b \in Actors : b # a => actor'[b] = actor[b]
    BY <1>7, <1>8 DEF TypeOK
  <1> QED
    BY <1>8, <1>9 DEF j, pc

LEMMA PutEffect ==
    ASSUME TypeOK, NEW e \in Dirs, NEW content \in Disks, disk' = [disk EXCEPT ![e] = content]
    PROVE  /\ disk' \in [Dirs -> Disks] /\ disk'[e] = content
           /\ \A f \in Dirs : f # e => disk'[f] = disk[f]
  BY DEF TypeOK

\* A step that ends the locked part, whatever the error, is sound as an actor's step.
LEMMA EndsSound ==
    ASSUME TypeInv, NEW a \in Actors, actor[a].pc \in FileSteps,
           NEW result \in {"ok", "error", "failstop"}, Finish(a, result)
    PROVE  ActorPart(a) /\ actor'[a].journal = actor[a].journal /\ actor'[a].pc = "leave"
  <1>1. RecordSound(a, actor[a])
    BY DEF TypeInv, RecordInv
  <1>2. actor[a].pc # "idle"
    BY DEF FileSteps
  <1>3. TypeOK
    BY DEF TypeInv
  <1>4. /\ actor' \in [Actors -> ActorStates] /\ \A b \in Actors : b # a => actor'[b] = actor[b]
        /\ actor'[a].pc = "leave" /\ actor'[a].on = actor[a].on /\ actor'[a].stage = actor[a].stage
        /\ actor'[a].mode = actor[a].mode /\ actor'[a].journal = actor[a].journal
    BY <1>3, FinishEffect
  <1>5. RecordSound(a, actor'[a])
    BY <1>1, <1>2, <1>4 DEF RecordSound, InstallSteps, AttemptSteps, UndoSteps, CompensationSteps
  <1> QED
    BY <1>4, <1>5 DEF ActorPart

\* A plain move inside the locked part.
LEMMA MovesSound ==
    ASSUME TypeInv, NEW a \in Actors, actor[a].pc \in FileSteps, NEW step \in FileSteps, Goto(a, step),
           step \in InstallSteps => actor[a].stage = "install",
           step \in UndoSteps \cup AttemptSteps => actor[a].journal.id \in Ids,
           step \in UndoSteps => actor[a].mode # "none",
           step \in CompensationSteps => actor[a].mode # "commit"
    PROVE  ActorPart(a) /\ actor'[a].journal = actor[a].journal /\ actor'[a].pc = step
           /\ actor'[a].mode = actor[a].mode
  <1>1. RecordSound(a, actor[a]) /\ TypeOK
    BY DEF TypeInv, RecordInv
  <1>2. actor[a].pc # "idle" /\ step # "idle" /\ step \in Steps
    BY DEF FileSteps, Steps
  <1>3. /\ actor' \in [Actors -> ActorStates] /\ \A b \in Actors : b # a => actor'[b] = actor[b]
        /\ actor'[a].pc = step /\ actor'[a].on = actor[a].on /\ actor'[a].stage = actor[a].stage
        /\ actor'[a].mode = actor[a].mode /\ actor'[a].journal = actor[a].journal
    BY <1>1, <1>2, GotoEffect
  <1>4. RecordSound(a, actor'[a])
    BY <1>1, <1>2, <1>3 DEF RecordSound
  <1> QED
    BY <1>3, <1>4 DEF ActorPart

LEMMA RollsBackSound ==
    ASSUME TypeInv, NEW a \in Actors, actor[a].pc \in AttemptSteps, NEW phase \in Phases, RollbackFrom(a, phase)
    PROVE  /\ ActorPart(a) /\ actor'[a].journal = [id |-> actor[a].journal.id, phase |-> phase]
           /\ actor'[a].pc = IF phase = "admin_pending" THEN "undo_admin" ELSE "undo_config"
           /\ actor'[a].mode = "rollback"
  <1>1. RecordSound(a, actor[a]) /\ TypeOK
    BY DEF TypeInv, RecordInv
  <1>2. actor[a].pc # "idle" /\ actor[a].pc \in FileSteps /\ actor[a].pc \in InstallSteps
    BY DEF AttemptSteps, FileSteps, InstallSteps
  <1>3. actor[a].journal.id \in Ids /\ actor[a].stage = "install"
    BY <1>1, <1>2 DEF RecordSound
  <1>4. /\ actor' \in [Actors -> ActorStates] /\ \A b \in Actors : b # a => actor'[b] = actor[b]
        /\ actor'[a].pc = IF phase = "admin_pending" THEN "undo_admin" ELSE "undo_config"
        /\ actor'[a].on = actor[a].on /\ actor'[a].stage = actor[a].stage
        /\ actor'[a].mode = "rollback" /\ actor'[a].journal = [id |-> actor[a].journal.id, phase |-> phase]
    BY <1>1, <1>3, RollbackEffect
  <1>5. actor'[a].journal.id \in Ids
    BY <1>3, <1>4
  <1>6. RecordSound(a, actor'[a])
    BY <1>1, <1>2, <1>3, <1>4, <1>5 DEF RecordSound, InstallSteps, AttemptSteps, UndoSteps, CompensationSteps
  <1>7. actor'[a].pc \in FileSteps
    BY <1>4 DEF FileSteps
  <1> QED
    BY <1>2, <1>4, <1>6, <1>7 DEF ActorPart

\* createInstallLock never fails after the marker was renamed into place.
MarkerAtomic == "marker" \notin SyncFaults

\* The actor and its directory before the step ...
Sound(a) ==
    /\ StepSound(actor[a], disk[Dir(a)], Prior[Dir(a)], users, Complete, Bound(app, ProcOf(a)))
    /\ DiskSound(disk[Dir(a)], Prior[Dir(a)], users, Complete)

\* ... and after it: ids stay in their directory, a marker stays with its configuration, and
\* a journal that asks for an administrator's deletion stays until there is none.
Handed(r, r2, d, d2, prior, us) ==
    /\ r2.journal.id \in {r.journal.id, d.journal.id} \cup (Ids \ UsedIds)
    /\ d2.journal.id \in {r.journal.id, d.journal.id, "none"} /\ d2.env \in {d.env, r.journal.id, prior}
    /\ d.marker => d2.marker /\ d2.env = d.env
    /\ d.journal.phase = "admin_pending" => d2.journal = d.journal \/ d2.marker \/ d.journal.id \notin us

Outcome(a) ==
    /\ StepSound(actor'[a], disk'[Dir(a)], Prior[Dir(a)], users', schema' = Migrations, Bound(app', ProcOf(a)))
    /\ DiskSound(disk'[Dir(a)], Prior[Dir(a)], users', schema' = Migrations)
    /\ Handed(actor[a], actor'[a], disk[Dir(a)], disk'[Dir(a)], Prior[Dir(a)], users')

\* An actor that leaves promises nothing.
LEMMA LeavingSound ==
    ASSUME NEW r, NEW d, NEW prior, NEW us, NEW done, NEW bound, r.pc = "leave"
    PROVE  StepSound(r, d, prior, us, done, bound)
  BY DEF StepSound, AttemptSteps

\* A step that writes at most its directory's files.
LEMMA FileInner ==
    ASSUME TypeInv, NEW a \in Actors, ActorPart(a), NEW content \in Disks,
           disk' = disk \/ disk' = [disk EXCEPT ![Dir(a)] = content],
           DbUnchanged, UNCHANGED <<fileLock, installMu, app>>, dbLock' \in Actors \cup {"none"}, Fault \/ NoFault
    PROVE  /\ Inner(a) /\ disk'[Dir(a)] \in {disk[Dir(a)], content}
           /\ disk' = [disk EXCEPT ![Dir(a)] = content] => disk'[Dir(a)] = content
  <1>0. TypeOK /\ actor[a].pc # "idle"
    BY DEF TypeInv, ActorPart, FileSteps
  <1>1. Dir(a) \in Dirs
    BY <1>0, DirType
  <1>2. DiskPart(a) /\ disk'[Dir(a)] \in {disk[Dir(a)], content}
        /\ (disk' = [disk EXCEPT ![Dir(a)] = content] => disk'[Dir(a)] = content)
    BY <1>0, <1>1, PutEffect DEF DiskPart, TypeOK
  <1>3. DbPart /\ LockPart /\ AppPart(a)
    BY <1>0 DEF DbPart, LockPart, AppPart, TypeOK, DbUnchanged, Complete
  <1> QED
    BY <1>0, <1>2, <1>3, FaultType DEF Inner

LEMMA FileOutcome ==
    ASSUME NEW a \in Actors, DbUnchanged, UNCHANGED app,
           StepSound(actor'[a], disk'[Dir(a)], Prior[Dir(a)], users, Complete, Bound(app, ProcOf(a))),
           DiskSound(disk'[Dir(a)], Prior[Dir(a)], users, Complete),
           Handed(actor[a], actor'[a], disk[Dir(a)], disk'[Dir(a)], Prior[Dir(a)], users)
    PROVE  Outcome(a)
  BY DEF Outcome, DbUnchanged, Complete

\* A step that changes no file.
LEMMA QuietInner ==
    ASSUME TypeInv, NEW a \in Actors, ActorPart(a), UNCHANGED disk,
           DbUnchanged, UNCHANGED <<fileLock, installMu, app>>, dbLock' \in Actors \cup {"none"}, Fault \/ NoFault
    PROVE  Inner(a)
  <1>1. Dir(a) \in Dirs /\ disk[Dir(a)] \in Disks
    BY DirType DEF ActorPart, FileSteps
  <1> QED
    BY <1>1, FileInner

LEMMA QuietOutcome ==
    ASSUME NEW a \in Actors, Sound(a), UNCHANGED disk, DbUnchanged, UNCHANGED app,
           StepSound(actor'[a], disk[Dir(a)], Prior[Dir(a)], users, Complete, Bound(app, ProcOf(a))),
           actor'[a].journal.id \in {actor[a].journal.id, disk[Dir(a)].journal.id} \cup (Ids \ UsedIds)
    PROVE  Outcome(a)
  <1>1. disk'[Dir(a)] = disk[Dir(a)]
    OBVIOUS
  <1>2. Handed(actor[a], actor'[a], disk[Dir(a)], disk'[Dir(a)], Prior[Dir(a)], users)
    BY <1>1 DEF Handed
  <1> QED
    BY <1>1, <1>2, FileOutcome DEF Sound

\* An actor that gives up, or is done, without a change.
LEMMA QuietEnd ==
    ASSUME TypeInv, NEW a \in Actors, actor[a].pc \in FileSteps, NEW result \in {"ok", "error", "failstop"},
           Finish(a, result), UNCHANGED disk,
           DbUnchanged, UNCHANGED <<fileLock, installMu, app>>, dbLock' \in Actors \cup {"none"}, Fault \/ NoFault
    PROVE  Inner(a) /\ (Sound(a) => Outcome(a))
  <1>1. ActorPart(a) /\ actor'[a].journal = actor[a].journal /\ actor'[a].pc = "leave"
    BY EndsSound
  <1> QED
    BY <1>1, QuietInner, QuietOutcome, LeavingSound

\* The places of an actor and what RecordSound says of them.
LEMMA AtFacts ==
    ASSUME TypeInv, NEW a \in Actors, actor[a].pc \in FileSteps
    PROVE  /\ TypeOK /\ RecordSound(a, actor[a]) /\ ProcOf(a) \in Processes /\ Dir(a) \in Dirs
           /\ actor[a] \in ActorStates /\ disk[Dir(a)] \in Disks
           /\ actor[a].journal \in Journals /\ disk[Dir(a)].journal \in Journals
           /\ actor[a].journal.id \in Ids => actor[a].journal \in [id : Ids, phase : Phases]
  <1>1. actor[a].pc # "idle"
    BY DEF FileSteps
  <1>2. /\ ProcOf(a) \in Processes /\ Dir(a) \in Dirs
        /\ actor[a] \in ActorStates /\ disk[Dir(a)] \in Disks
    BY <1>1, DirType
  <1>3. actor[a].journal \in Journals /\ disk[Dir(a)].journal \in Journals
    BY <1>2 DEF ActorStates, Disks
  <1>4. actor[a].journal.id \in Ids => actor[a].journal \in [id : Ids, phase : Phases]
    BY <1>3, SetupAssumption DEF Journals, NoJournal
  <1> QED
    BY <1>2, <1>3, <1>4 DEF TypeInv, RecordInv

\* A plain move that changes nothing else.
LEMMA QuietMove ==
    ASSUME TypeInv, NEW a \in Actors, actor[a].pc \in FileSteps, NEW step \in FileSteps, Goto(a, step),
           step \in InstallSteps => actor[a].stage = "install",
           step \in UndoSteps \cup AttemptSteps => actor[a].journal.id \in Ids,
           step \in UndoSteps => actor[a].mode # "none",
           step \in CompensationSteps => actor[a].mode # "commit",
           UNCHANGED disk, DbUnchanged, UNCHANGED <<fileLock, installMu, app>>,
           dbLock' \in Actors \cup {"none"}, Fault \/ NoFault,
           Sound(a) => \A r2 \in ActorStates :
               (r2.pc = step /\ r2.journal = actor[a].journal /\ r2.mode = actor[a].mode) =>
                  StepSound(r2, disk[Dir(a)], Prior[Dir(a)], users, Complete, Bound(app, ProcOf(a)))
    PROVE  Inner(a) /\ (Sound(a) => Outcome(a))
  <1>1. /\ ActorPart(a) /\ actor'[a].journal = actor[a].journal /\ actor'[a].pc = step
        /\ actor'[a].mode = actor[a].mode
    BY MovesSound
  <1>2. actor'[a] \in ActorStates
    BY <1>1 DEF ActorPart
  <1> QED
    BY <1>1, <1>2, QuietInner, QuietOutcome

LEMMA RecoverStep ==
    ASSUME TypeInv, NEW a \in Actors, Recover(a)
    PROVE  Inner(a) /\ (Sound(a) => Outcome(a))
  <1> DEFINE d == disk[Dir(a)]
             r == actor[a]
  <1>1. r.pc = "recover" /\ r.pc \in FileSteps
    BY DEF Recover, At, FileSteps
  <1>2. /\ TypeOK /\ RecordSound(a, r) /\ ProcOf(a) \in Processes /\ Dir(a) \in Dirs
        /\ r \in ActorStates /\ d \in Disks /\ r.journal \in Journals /\ d.journal \in Journals
    BY <1>1, AtFacts
  <1>3. /\ DbUnchanged /\ UNCHANGED <<fileLock, installMu, app, disk>> /\ dbLock' \in Actors \cup {"none"}
        /\ Fault \/ NoFault
    BY <1>2 DEF Recover, LocksUnchanged, TypeOK
  <1>4. CASE d.journal = NoJournal
    <2>1. RecoveryDone(a)
      BY <1>4 DEF Recover
    <2>2. CASE r.stage = "install"
      <3>1. Goto(a, "allowed") /\ "allowed" \in FileSteps
        BY <2>1, <2>2 DEF RecoveryDone, FileSteps
      <3>2. "allowed" \notin UndoSteps \cup AttemptSteps \cup CompensationSteps
        BY DEF UndoSteps, AttemptSteps, CompensationSteps
      <3>3. \A r2 \in ActorStates : r2.pc = "allowed" =>
               StepSound(r2, d, Prior[Dir(a)], users, Complete, Bound(app, ProcOf(a)))
        BY <1>4 DEF StepSound, AttemptSteps
      <3> QED
        BY <1>1, <1>3, <2>2, <3>1, <3>2, <3>3, QuietMove
    <2>3. CASE r.stage # "install"
      BY <1>1, <1>3, <2>1, <2>3, QuietEnd DEF RecoveryDone
    <2> QED
      BY <2>2, <2>3
  <1>5. CASE d.journal # NoJournal
    <2> DEFINE start == CASE d.marker \/ d.journal.phase = "config_reverted" -> "clean_backup"
                          [] ~d.marker /\ d.journal.phase = "admin_pending" -> "recover_lock"
                          [] OTHER -> "undo_config"
               new == [r EXCEPT !.journal = d.journal, !.mode = "recovery", !.pc = start]
    <2>1. actor' = [actor EXCEPT ![a] = new]
      BY <1>2, <1>5 DEF Recover, TypeOK, ActorStates
    <2>2. d.journal.id \in Ids /\ d.journal.phase \in Phases /\ d.marker \in BOOLEAN
      BY <1>2, <1>5 DEF Journals, Disks
    <2>3. \/ start = "clean_backup" /\ (d.marker \/ d.journal.phase = "config_reverted")
          \/ start = "recover_lock" /\ ~d.marker /\ d.journal.phase = "admin_pending"
          \/ start = "undo_config" /\ ~d.marker /\ d.journal.phase \in {"prepared", "admin_reverted"}
      BY <2>2 DEF Phases
    <2>4. start \in Steps /\ start \in UndoSteps /\ start \in FileSteps /\ start \notin InstallSteps
          /\ start \notin AttemptSteps /\ start # "idle"
      BY <2>3 DEF Steps, UndoSteps, CompensationSteps, FileSteps, InstallSteps, AttemptSteps
    <2> HIDE DEF start
    <2>5. /\ new \in ActorStates /\ new.pc = start /\ new.on = r.on /\ new.stage = r.stage
          /\ new.mode = "recovery" /\ new.journal = d.journal
      BY <1>2, <2>4 DEF ActorStates
    <2> HIDE DEF new
    <2>6. /\ actor' \in [Actors -> ActorStates] /\ actor'[a] = new
          /\ \A b \in Actors : b # a => actor'[b] = actor[b]
      BY <1>2, <2>1, <2>5 DEF TypeOK
    <2>7. RecordSound(a, new)
      BY <1>1, <1>2, <2>2, <2>4, <2>5 DEF RecordSound
    <2>8. ActorPart(a)
      BY <1>1, <2>4, <2>5, <2>6, <2>7 DEF ActorPart
    <2>9. ASSUME Sound(a) PROVE StepSound(new, d, Prior[Dir(a)], users, Complete, Bound(app, ProcOf(a)))
      <3>1. start = "recover_lock" => [id |-> d.journal.id, data |-> Prior[Dir(a)]] \in d.backups
        BY <2>3, <2>9 DEF Sound, DiskSound
      <3> QED
        BY <2>3, <2>5, <3>1 DEF StepSound, AttemptSteps
    <2> QED
      BY <1>3, <2>5, <2>6, <2>8, <2>9, QuietInner, QuietOutcome
  <1> QED
    BY <1>4, <1>5

LEMMA RecoverLockStep ==
    ASSUME TypeInv, NEW a \in Actors, RecoverLock(a)
    PROVE  Inner(a) /\ (Sound(a) => Outcome(a))
  <1>1. actor[a].pc = "recover_lock" /\ actor[a].pc \in FileSteps
    BY DEF RecoverLock, At, FileSteps
  <1>2. TypeOK /\ RecordSound(a, actor[a])
    BY <1>1, AtFacts
  <1>3. /\ DbUnchanged /\ UNCHANGED <<fileLock, installMu, app, disk>> /\ dbLock' \in Actors \cup {"none"}
        /\ Fault \/ NoFault
    BY <1>2 DEF RecoverLock, TakeDatabaseLock, TypeOK
  <1>4. CASE Finish(a, "error")
    BY <1>1, <1>3, <1>4, QuietEnd
  <1>5. CASE Goto(a, "undo_admin")
    <2>1. /\ "undo_admin" \in FileSteps /\ "undo_admin" \notin InstallSteps
          /\ actor[a].journal.id \in Ids /\ actor[a].mode # "none" /\ actor[a].mode # "commit"
      BY <1>1, <1>2 DEF RecordSound, FileSteps, InstallSteps, AttemptSteps, UndoSteps, CompensationSteps
    <2>2. Sound(a) => \A r2 \in ActorStates :
               (r2.pc = "undo_admin" /\ r2.journal = actor[a].journal /\ r2.mode = actor[a].mode) =>
                  StepSound(r2, disk[Dir(a)], Prior[Dir(a)], users, Complete, Bound(app, ProcOf(a)))
      BY <1>1 DEF Sound, StepSound, AttemptSteps
    <2> QED
      BY <1>1, <1>3, <1>5, <2>1, <2>2, QuietMove
  <1> QED
    BY <1>4, <1>5 DEF RecoverLock, TakeDatabaseLock

LEMMA AllowedStep ==
    ASSUME TypeInv, NEW a \in Actors, Allowed(a) \/ Connect(a)
    PROVE  Inner(a) /\ (Sound(a) => Outcome(a))
  <1>1. actor[a].pc \in {"allowed", "connect"} /\ actor[a].pc \in FileSteps
    BY DEF Allowed, Connect, At, FileSteps
  <1>2. TypeOK /\ RecordSound(a, actor[a])
    BY <1>1, AtFacts
  <1>3. /\ DbUnchanged /\ UNCHANGED <<fileLock, installMu, app, disk>> /\ dbLock' \in Actors \cup {"none"}
        /\ Fault \/ NoFault
    BY <1>2 DEF Allowed, Connect, TakeDatabaseLock, LocksUnchanged, TypeOK
  <1>4. CASE Finish(a, "error")
    BY <1>1, <1>3, <1>4, QuietEnd
  <1>5. ASSUME NEW step \in {"connect", "migrate"}, Goto(a, step), ~disk[Dir(a)].marker \/ actor[a].pc = "connect"
        PROVE  Inner(a) /\ (Sound(a) => Outcome(a))
    <2>1. /\ step \in FileSteps /\ step \notin UndoSteps \cup AttemptSteps \cup CompensationSteps
          /\ actor[a].stage = "install"
      BY <1>1, <1>2 DEF RecordSound, FileSteps, InstallSteps, AttemptSteps, UndoSteps, CompensationSteps
    <2>2. Sound(a) => \A r2 \in ActorStates : r2.pc = step =>
               StepSound(r2, disk[Dir(a)], Prior[Dir(a)], users, Complete, Bound(app, ProcOf(a)))
      BY <1>1, <1>5 DEF Sound, StepSound, AttemptSteps
    <2> QED
      BY <1>1, <1>3, <1>5, <2>1, <2>2, QuietMove
  <1> QED
    BY <1>4, <1>5 DEF Allowed, Connect, TakeDatabaseLock, At

LEMMA MigrateStep ==
    ASSUME TypeInv, NEW a \in Actors, Migrate(a)
    PROVE  Inner(a) /\ (Sound(a) => Outcome(a))
  <1>1. actor[a].pc = "migrate" /\ actor[a].pc \in FileSteps
    BY DEF Migrate, At, FileSteps
  <1>2. TypeOK /\ RecordSound(a, actor[a]) /\ Dir(a) \in Dirs
    BY <1>1, AtFacts
  <1>3. /\ UNCHANGED <<users, fileLock, installMu, app, disk>> /\ dbLock' \in Actors \cup {"none"}
        /\ Fault \/ NoFault
    BY <1>2 DEF Migrate, LocksUnchanged, TypeOK
  <1>4. CASE Finish(a, "error") /\ schema' = schema
    BY <1>1, <1>3, <1>4, QuietEnd DEF DbUnchanged
  <1>5. CASE schema = Migrations /\ Goto(a, "empty") /\ schema' = schema
    <2>1. /\ "empty" \in FileSteps /\ "empty" \notin UndoSteps \cup AttemptSteps \cup CompensationSteps
          /\ actor[a].stage = "install"
      BY <1>1, <1>2 DEF RecordSound, FileSteps, InstallSteps, AttemptSteps, UndoSteps, CompensationSteps
    <2>2. Sound(a) => \A r2 \in ActorStates : r2.pc = "empty" =>
               StepSound(r2, disk[Dir(a)], Prior[Dir(a)], users, Complete, Bound(app, ProcOf(a)))
      BY <1>1, <1>5 DEF Sound, StepSound, AttemptSteps, Complete
    <2> QED
      BY <1>1, <1>3, <1>5, <2>1, <2>2, QuietMove DEF DbUnchanged
  <1>6. CASE schema < Migrations /\ schema' = schema + 1 /\ UNCHANGED actor
    <2>1. schema' \in 0 .. Migrations /\ ~Complete
      BY <1>2, <1>6, SetupAssumption DEF TypeOK, Complete
    <2>2. ActorPart(a)
      BY <1>1, <1>2, <1>6 DEF ActorPart, TypeOK
    <2>3. Inner(a)
      BY <1>2, <1>3, <2>1, <2>2, FaultType DEF Inner, DiskPart, DbPart, LockPart, AppPart, TypeOK
    <2>4. ASSUME Sound(a) PROVE Outcome(a)
      <3>1. ~disk[Dir(a)].marker
        BY <1>1, <2>4 DEF Sound, StepSound
      <3>2. StepSound(actor'[a], disk'[Dir(a)], Prior[Dir(a)], users', schema' = Migrations, Bound(app', ProcOf(a)))
        BY <1>1, <1>3, <1>6, <2>4 DEF Sound, StepSound, AttemptSteps
      <3>3. DiskSound(disk'[Dir(a)], Prior[Dir(a)], users', schema' = Migrations)
        BY <1>3, <2>4, <3>1 DEF Sound, DiskSound
      <3>4. Handed(actor[a], actor'[a], disk[Dir(a)], disk'[Dir(a)], Prior[Dir(a)], users')
        BY <1>3, <1>6 DEF Handed
      <3> QED
        BY <3>2, <3>3, <3>4 DEF Outcome
    <2> QED
      BY <2>3, <2>4
  <1> QED
    BY <1>4, <1>5, <1>6 DEF Migrate

LEMMA EnsureUsersEmptyStep ==
    ASSUME TypeInv, NEW a \in Actors, EnsureUsersEmpty(a)
    PROVE  Inner(a) /\ (Sound(a) => Outcome(a))
  <1> DEFINE r == actor[a]
             d == disk[Dir(a)]
             i == CHOOSE i \in Ids : i \notin UsedIds
             j == [id |-> i, phase |-> "prepared"]
             new == [r EXCEPT !.journal = j, !.pc = "build"]
  <1>1. r.pc = "empty" /\ r.pc \in FileSteps
    BY DEF EnsureUsersEmpty, At, FileSteps
  <1>2. TypeOK /\ RecordSound(a, r) /\ r \in ActorStates
    BY <1>1, AtFacts
  <1>3. /\ DbUnchanged /\ UNCHANGED <<fileLock, installMu, app, disk>> /\ dbLock' \in Actors \cup {"none"}
        /\ Fault \/ NoFault
    BY <1>2 DEF EnsureUsersEmpty, LocksUnchanged, TypeOK
  <1>4. CASE Finish(a, "error")
    BY <1>1, <1>3, <1>4, QuietEnd
  <1>5. CASE ~(Ids \subseteq UsedIds) /\ actor' = [actor EXCEPT ![a].journal = j, ![a].pc = "build"]
    <2>1. i \in Ids \ UsedIds
      BY <1>5
    <2> HIDE DEF i
    <2>2. j \in Journals /\ j.id = i /\ j.phase = "prepared"
      BY <2>1 DEF Journals, Phases
    <2> HIDE DEF j
    <2>3. "build" \in Steps
      BY DEF Steps
    <2>4. actor' = [actor EXCEPT ![a] = new]
      BY <1>2, <1>5 DEF TypeOK, ActorStates
    <2>5. /\ new \in ActorStates /\ new.pc = "build" /\ new.on = r.on /\ new.stage = r.stage
          /\ new.mode = r.mode /\ new.journal = j
      BY <1>2, <2>2, <2>3 DEF ActorStates
    <2> HIDE DEF new
    <2>6. /\ actor' \in [Actors -> ActorStates] /\ actor'[a] = new
          /\ \A b \in Actors : b # a => actor'[b] = actor[b]
      BY <1>2, <2>4, <2>5 DEF TypeOK
    <2>7. RecordSound(a, new)
      BY <1>1, <1>2, <2>1, <2>2, <2>5 DEF RecordSound, InstallSteps, AttemptSteps, UndoSteps, CompensationSteps
    <2>8. ActorPart(a)
      BY <1>1, <2>5, <2>6, <2>7 DEF ActorPart, FileSteps
    <2>9. Sound(a) => StepSound(new, d, Prior[Dir(a)], users, Complete, Bound(app, ProcOf(a)))
      BY <1>1, <2>2, <2>5 DEF Sound, StepSound, AttemptSteps
    <2> QED
      BY <1>3, <2>1, <2>2, <2>5, <2>6, <2>8, <2>9, QuietInner, QuietOutcome
  <1> QED
    BY <1>4, <1>5 DEF EnsureUsersEmpty

\* A step that compensates instead of going on, without a change of the files.
LEMMA QuietRollback ==
    ASSUME TypeInv, NEW a \in Actors, actor[a].pc \in {"count", "insert", "verify", "marker"}, Rollback(a),
           UNCHANGED disk, users' \subseteq Ids, UNCHANGED <<schema, fileLock, installMu, app>>,
           dbLock' \in Actors \cup {"none"}, Fault \/ NoFault
    PROVE  Inner(a) /\ (Sound(a) => Outcome(a))
  <1> DEFINE r == actor[a]
             d == disk[Dir(a)]
  <1>1. r.pc \in FileSteps /\ r.pc \in AttemptSteps
    BY DEF FileSteps, AttemptSteps
  <1>2. /\ TypeOK /\ RecordSound(a, r) /\ r \in ActorStates /\ Dir(a) \in Dirs
        /\ r.journal.id \in Ids => r.journal \in [id : Ids, phase : Phases]
    BY <1>1, AtFacts
  <1>3. r.journal.id \in Ids
    BY <1>1, <1>2 DEF RecordSound
  <1>4. r.journal.phase \in Phases /\ r.journal = [id |-> r.journal.id, phase |-> r.journal.phase]
    BY <1>2, <1>3
  <1>5. /\ ActorPart(a) /\ actor'[a].journal = r.journal
        /\ actor'[a].pc = IF r.journal.phase = "admin_pending" THEN "undo_admin" ELSE "undo_config"
        /\ actor'[a].mode = "rollback"
    BY <1>1, <1>4, RollsBackSound DEF Rollback
  <1>6. Inner(a)
    BY <1>2, <1>5, FaultType DEF Inner, DiskPart, DbPart, LockPart, AppPart, TypeOK, Complete
  <1>7. ASSUME Sound(a) PROVE Outcome(a)
    <2>0. r.journal.phase = "admin_pending" /\ d.journal = r.journal /\ ~d.marker
      BY <1>7 DEF Sound, StepSound, AttemptSteps
    <2>1. /\ r.journal.phase = "admin_pending" /\ d.journal = r.journal /\ ~d.marker
          /\ [id |-> r.journal.id, data |-> Prior[Dir(a)]] \in d.backups
      BY <1>7, <2>0 DEF Sound, DiskSound
    <2>2. StepSound(actor'[a], disk'[Dir(a)], Prior[Dir(a)], users', schema' = Migrations, Bound(app', ProcOf(a)))
      BY <1>5, <2>1 DEF StepSound, AttemptSteps
    <2>3. DiskSound(disk'[Dir(a)], Prior[Dir(a)], users', schema' = Migrations)
      BY <1>7, <2>1 DEF Sound, DiskSound
    <2>4. Handed(actor[a], actor'[a], disk[Dir(a)], disk'[Dir(a)], Prior[Dir(a)], users')
      BY <1>5 DEF Handed
    <2> QED
      BY <2>2, <2>3, <2>4 DEF Outcome
  <1> QED
    BY <1>6, <1>7

LEMMA CountVerifyStep ==
    ASSUME TypeInv, NEW a \in Actors, CountUsers(a) \/ VerifyLocks(a)
    PROVE  Inner(a) /\ (Sound(a) => Outcome(a))
  <1>1. actor[a].pc \in {"count", "verify"} /\ actor[a].pc \in FileSteps
    BY DEF CountUsers, VerifyLocks, At, FileSteps
  <1>2. TypeOK /\ RecordSound(a, actor[a])
    BY <1>1, AtFacts
  <1>3. /\ DbUnchanged /\ UNCHANGED <<schema, fileLock, installMu, app, disk>> /\ dbLock' \in Actors \cup {"none"}
        /\ (Fault \/ NoFault) /\ users' \subseteq Ids
    BY <1>2 DEF CountUsers, VerifyLocks, LocksUnchanged, DbUnchanged, TypeOK
  <1>4. CASE Rollback(a)
    BY <1>1, <1>3, <1>4, QuietRollback
  <1>5. ASSUME NEW step \in {"insert", "marker"}, Goto(a, step),
               step = "insert" => actor[a].pc = "count", step = "marker" => actor[a].pc = "verify"
        PROVE  Inner(a) /\ (Sound(a) => Outcome(a))
    <2>1. /\ step \in FileSteps /\ step \notin UndoSteps \cup CompensationSteps
          /\ actor[a].stage = "install" /\ actor[a].journal.id \in Ids
      BY <1>1, <1>2 DEF RecordSound, FileSteps, InstallSteps, AttemptSteps, UndoSteps, CompensationSteps
    <2>2. Sound(a) => \A r2 \in ActorStates :
               (r2.pc = step /\ r2.journal = actor[a].journal /\ r2.mode = actor[a].mode) =>
                  StepSound(r2, disk[Dir(a)], Prior[Dir(a)], users, Complete, Bound(app, ProcOf(a)))
      BY <1>1, <1>5 DEF Sound, StepSound, AttemptSteps
    <2> QED
      BY <1>1, <1>3, <1>5, <2>1, <2>2, QuietMove
  <1> QED
    BY <1>4, <1>5 DEF CountUsers, VerifyLocks, At

LEMMA InsertAdminStep ==
    ASSUME TypeInv, NEW a \in Actors, InsertAdmin(a)
    PROVE  Inner(a) /\ (Sound(a) => Outcome(a))
  <1> DEFINE r == actor[a]
             d == disk[Dir(a)]
  <1>1. r.pc = "insert" /\ r.pc \in FileSteps
    BY DEF InsertAdmin, At, FileSteps
  <1>2. TypeOK /\ RecordSound(a, r) /\ Dir(a) \in Dirs
    BY <1>1, AtFacts
  <1>3. r.journal.id \in Ids /\ r.stage = "install"
    BY <1>1, <1>2 DEF RecordSound, InstallSteps, AttemptSteps
  <1>4. /\ UNCHANGED <<schema, fileLock, installMu, app, disk>> /\ dbLock' \in Actors \cup {"none"}
        /\ (Fault \/ NoFault) /\ users' \subseteq Ids
    BY <1>2, <1>3 DEF InsertAdmin, LocksUnchanged, TypeOK
  <1>5. CASE Rollback(a)
    BY <1>1, <1>4, <1>5, QuietRollback
  <1>6. CASE users = {} /\ users' = users \cup {r.journal.id} /\ Goto(a, "verify")
    <2>1. /\ "verify" \in FileSteps /\ "verify" \notin UndoSteps \cup CompensationSteps
      BY DEF FileSteps, UndoSteps, CompensationSteps
    <2>2. /\ ActorPart(a) /\ actor'[a].journal = r.journal /\ actor'[a].pc = "verify"
          /\ actor'[a].mode = r.mode
      BY <1>1, <1>3, <1>6, <2>1, MovesSound
    <2>3. Inner(a)
      BY <1>2, <1>4, <2>2, FaultType DEF Inner, DiskPart, DbPart, LockPart, AppPart, TypeOK, Complete
    <2>4. ASSUME Sound(a) PROVE Outcome(a)
      <3>1. ~d.marker
        BY <1>1, <2>4 DEF Sound, StepSound, AttemptSteps
      <3>2. StepSound(actor'[a], disk'[Dir(a)], Prior[Dir(a)], users', schema' = Migrations, Bound(app', ProcOf(a)))
        BY <1>1, <1>4, <1>6, <2>2, <2>4 DEF Sound, StepSound, AttemptSteps, Complete
      <3>3. DiskSound(disk'[Dir(a)], Prior[Dir(a)], users', schema' = Migrations)
        BY <1>4, <2>4, <3>1 DEF Sound, DiskSound
      <3>4. Handed(actor[a], actor'[a], disk[Dir(a)], disk'[Dir(a)], Prior[Dir(a)], users')
        BY <1>4, <2>2 DEF Handed
      <3> QED
        BY <3>2, <3>3, <3>4 DEF Outcome
    <2> QED
      BY <2>3, <2>4
  <1> QED
    BY <1>5, <1>6 DEF InsertAdmin

LEMMA UndoAdminStep ==
    ASSUME TypeInv, NEW a \in Actors, UndoAdmin(a)
    PROVE  Inner(a) /\ (Sound(a) => Outcome(a))
  <1> DEFINE r == actor[a]
             d == disk[Dir(a)]
  <1>1. r.pc = "undo_admin" /\ r.pc \in FileSteps
    BY DEF UndoAdmin, At, FileSteps
  <1>2. TypeOK /\ RecordSound(a, r) /\ Dir(a) \in Dirs
    BY <1>1, AtFacts
  <1>3. r.journal.id \in Ids /\ r.mode # "none" /\ r.mode # "commit"
    BY <1>1, <1>2 DEF RecordSound, UndoSteps, CompensationSteps
  <1>4. /\ UNCHANGED <<schema, fileLock, installMu, app, disk>> /\ dbLock' \in Actors \cup {"none"}
        /\ (Fault \/ NoFault) /\ users' \subseteq Ids
    BY <1>2 DEF UndoAdmin, LocksUnchanged, TypeOK
  <1>5. /\ ActorPart(a) /\ actor'[a].journal = r.journal
        /\ \/ actor'[a].pc = "leave"
           \/ actor'[a].pc = "undo_admin_mark" /\ r.journal.id \notin users'
    <2>1. CASE Finish(a, "error")
      BY <1>1, <2>1, EndsSound
    <2>2. CASE Goto(a, "undo_admin_mark") /\ users' = users \ {r.journal.id}
      <3>1. "undo_admin_mark" \in FileSteps /\ "undo_admin_mark" \notin InstallSteps
        BY DEF FileSteps, InstallSteps, AttemptSteps
      <3> QED
        BY <1>1, <1>3, <2>2, <3>1, MovesSound
    <2> QED
      BY <2>1, <2>2 DEF UndoAdmin
  <1>6. Inner(a)
    BY <1>2, <1>4, <1>5, FaultType DEF Inner, DiskPart, DbPart, LockPart, AppPart, TypeOK, Complete
  <1>7. ASSUME Sound(a) PROVE Outcome(a)
    <2>1. ~d.marker
      BY <1>1, <1>7 DEF Sound, StepSound
    <2>2. StepSound(actor'[a], disk'[Dir(a)], Prior[Dir(a)], users', schema' = Migrations, Bound(app', ProcOf(a)))
      BY <1>1, <1>4, <1>5, <1>7 DEF Sound, StepSound, AttemptSteps
    <2>3. DiskSound(disk'[Dir(a)], Prior[Dir(a)], users', schema' = Migrations)
      BY <1>4, <1>7, <2>1 DEF Sound, DiskSound
    <2>4. Handed(actor[a], actor'[a], disk[Dir(a)], disk'[Dir(a)], Prior[Dir(a)], users')
      BY <1>4, <1>5 DEF Handed
    <2> QED
      BY <2>2, <2>3, <2>4 DEF Outcome
  <1> QED
    BY <1>6, <1>7

\* The phase in memory advances with the program counter.
Advances(a, phase, step) == actor' = [actor EXCEPT ![a].journal.phase = phase, ![a].pc = step]

LEMMA PhaseSound ==
    ASSUME TypeInv, NEW a \in Actors, actor[a].pc \in FileSteps, NEW step \in FileSteps, NEW phase \in Phases,
           Advances(a, phase, step), actor[a].journal.id \in Ids,
           step \in InstallSteps => actor[a].stage = "install",
           step \in UndoSteps => actor[a].mode # "none",
           step \in CompensationSteps => actor[a].mode # "commit"
    PROVE  /\ ActorPart(a) /\ actor'[a].pc = step /\ actor'[a].mode = actor[a].mode
           /\ actor'[a].journal = [id |-> actor[a].journal.id, phase |-> phase]
  <1> DEFINE r == actor[a]
             j == [id |-> r.journal.id, phase |-> phase]
             new == [r EXCEPT !.journal = j, !.pc = step]
  <1>1. TypeOK /\ RecordSound(a, r) /\ r \in ActorStates /\ r.journal \in [id : Ids, phase : Phases]
    BY AtFacts
  <1>2. [r.journal EXCEPT !.phase = phase] = j
    BY <1>1
  <1>3. j \in Journals /\ j.id \in Ids
    BY DEF Journals
  <1>4. step \in Steps /\ step # "idle" /\ r.pc # "idle"
    BY DEF Steps, FileSteps
  <1>5. actor' = [actor EXCEPT ![a] = [r EXCEPT !.journal = [r.journal EXCEPT !.phase = phase], !.pc = step]]
    BY <1>1 DEF TypeOK, ActorStates, Advances
  <1>6. actor' = [actor EXCEPT ![a] = new]
    BY <1>2, <1>5
  <1> HIDE DEF j
  <1>7. /\ new \in ActorStates /\ new.pc = step /\ new.on = r.on /\ new.stage = r.stage
        /\ new.mode = r.mode /\ new.journal = j
    BY <1>1, <1>3, <1>4 DEF ActorStates
  <1> HIDE DEF new
  <1>8. /\ actor' \in [Actors -> ActorStates] /\ actor'[a] = new
        /\ \A b \in Actors : b # a => actor'[b] = actor[b]
    BY <1>1, <1>6, <1>7 DEF TypeOK
  <1>9. RecordSound(a, new)
    BY <1>1, <1>3, <1>4, <1>7 DEF RecordSound
  <1>10. ActorPart(a)
    BY <1>7, <1>8, <1>9 DEF ActorPart
  <1> QED
    BY <1>7, <1>8, <1>10 DEF j

\* One file of a directory is written.
LEMMA JournalPut ==
    ASSUME NEW d \in Disks, NEW j \in Journals, NEW c, c = [d EXCEPT !.journal = j]
    PROVE  c \in Disks /\ c.journal = j /\ c.env = d.env /\ c.marker = d.marker /\ c.backups = d.backups
  BY DEF Disks

LEMMA EnvPut ==
    ASSUME NEW d \in Disks, NEW x \in Configs, NEW c, c = [d EXCEPT !.env = x]
    PROVE  c \in Disks /\ c.journal = d.journal /\ c.env = x /\ c.marker = d.marker /\ c.backups = d.backups
  BY DEF Disks

LEMMA BackupsPut ==
    ASSUME NEW d \in Disks, NEW B \in SUBSET [id : Ids, data : Configs], NEW c, c = [d EXCEPT !.backups = B]
    PROVE  c \in Disks /\ c.journal = d.journal /\ c.env = d.env /\ c.marker = d.marker /\ c.backups = B
  BY DEF Disks

LEMMA MarkerPut ==
    ASSUME NEW d \in Disks, NEW c, c = [d EXCEPT !.marker = TRUE]
    PROVE  c \in Disks /\ c.journal = d.journal /\ c.env = d.env /\ c.marker = TRUE /\ c.backups = d.backups
  BY DEF Disks

LEMMA AdvancedPut ==
    ASSUME TypeInv, NEW a \in Actors, actor[a].pc \in FileSteps, actor[a].journal.id \in Ids, NEW phase \in Phases
    PROVE  LET c == Advanced(a, phase)
               d == disk[Dir(a)]
           IN  /\ c \in Disks /\ c.journal = [id |-> actor[a].journal.id, phase |-> phase]
               /\ c.env = d.env /\ c.marker = d.marker /\ c.backups = d.backups
  <1>1. disk[Dir(a)] \in Disks
    BY AtFacts
  <1>2. [id |-> actor[a].journal.id, phase |-> phase] \in Journals
    BY DEF Journals
  <1> QED
    BY <1>1, <1>2, JournalPut DEF Advanced

LEMMA UndoAdminMarkStep ==
    ASSUME TypeInv, NEW a \in Actors, UndoAdminMark(a)
    PROVE  Inner(a) /\ (Sound(a) => Outcome(a))
  <1> DEFINE r == actor[a]
             d == disk[Dir(a)]
             c == Advanced(a, "admin_reverted")
             d2 == disk'[Dir(a)]
  <1>1. r.pc = "undo_admin_mark" /\ r.pc \in FileSteps
    BY DEF UndoAdminMark, At, FileSteps
  <1>2. TypeOK /\ RecordSound(a, r) /\ Dir(a) \in Dirs
    BY <1>1, AtFacts
  <1>3. r.journal.id \in Ids /\ r.mode # "none" /\ r.mode # "commit" /\ "admin_reverted" \in Phases
    BY <1>1, <1>2 DEF RecordSound, UndoSteps, CompensationSteps, Phases
  <1>4. /\ c \in Disks /\ c.journal = [id |-> r.journal.id, phase |-> "admin_reverted"]
        /\ c.env = d.env /\ c.marker = d.marker /\ c.backups = d.backups
    BY <1>1, <1>3, AdvancedPut
  <1>5. /\ DbUnchanged /\ UNCHANGED <<fileLock, installMu, app>> /\ dbLock' \in Actors \cup {"none"}
        /\ Fault \/ NoFault
    BY <1>2 DEF UndoAdminMark, Store, TypeOK
  <1>6. \/ Finish(a, "error") /\ disk' = disk
        \/ Finish(a, "error") /\ disk' = [disk EXCEPT ![Dir(a)] = c]
        \/ /\ Advances(a, "admin_reverted", "undo_config")
           /\ disk' = [disk EXCEPT ![Dir(a)] = c]
    BY DEF UndoAdminMark, Store, Advances
  <1> HIDE DEF c
  <1>7. /\ ActorPart(a) /\ actor'[a].journal.id = r.journal.id
        /\ \/ actor'[a].pc = "leave"
           \/ /\ actor'[a].pc = "undo_config" /\ disk' = [disk EXCEPT ![Dir(a)] = c]
              /\ actor'[a].journal = [id |-> r.journal.id, phase |-> "admin_reverted"]
    <2>1. CASE Finish(a, "error")
      BY <1>1, <2>1, EndsSound
    <2>2. CASE /\ Advances(a, "admin_reverted", "undo_config")
               /\ disk' = [disk EXCEPT ![Dir(a)] = c]
      <3>1. "undo_config" \in FileSteps /\ "undo_config" \notin InstallSteps
        BY DEF FileSteps, InstallSteps, AttemptSteps
      <3> QED
        BY <1>1, <1>3, <2>2, <3>1, PhaseSound
    <2> QED
      BY <1>6, <2>1, <2>2
  <1>8. /\ Inner(a) /\ d2 \in {d, c} /\ (disk' = [disk EXCEPT ![Dir(a)] = c] => d2 = c)
    BY <1>4, <1>5, <1>6, <1>7, FileInner
  <1>9. ASSUME Sound(a) PROVE Outcome(a)
    <2>1. /\ ~d.marker /\ d.journal.id = r.journal.id /\ d.journal.phase \in {"prepared", "admin_pending"}
          /\ r.journal.id \notin users /\ [id |-> r.journal.id, data |-> Prior[Dir(a)]] \in d.backups
      BY <1>1, <1>9 DEF Sound, StepSound
    <2>2. c.journal.id = r.journal.id /\ c.journal.phase = "admin_reverted"
      BY <1>4
    <2>3. StepSound(actor'[a], d2, Prior[Dir(a)], users, Complete, Bound(app, ProcOf(a)))
      BY <1>4, <1>7, <1>8, <2>1 DEF StepSound, AttemptSteps
    <2>4. DiskSound(d2, Prior[Dir(a)], users, Complete)
      BY <1>4, <1>8, <1>9, <2>1, <2>2 DEF Sound, DiskSound
    <2>5. Handed(r, actor'[a], d, d2, Prior[Dir(a)], users)
      BY <1>4, <1>7, <1>8, <2>1, <2>2 DEF Handed
    <2> QED
      BY <1>5, <2>3, <2>4, <2>5, FileOutcome
  <1> QED
    BY <1>8, <1>9

LEMMA UndoConfigStep ==
    ASSUME TypeInv, NEW a \in Actors, UndoConfig(a)
    PROVE  Inner(a) /\ (Sound(a) => Outcome(a))
  <1> DEFINE r == actor[a]
             d == disk[Dir(a)]
             d2 == disk'[Dir(a)]
  <1>1. r.pc = "undo_config" /\ r.pc \in FileSteps
    BY DEF UndoConfig, At, FileSteps
  <1>2. TypeOK /\ RecordSound(a, r) /\ Dir(a) \in Dirs /\ d \in Disks
    BY <1>1, AtFacts
  <1>3. r.journal.id \in Ids /\ r.mode # "none" /\ r.mode # "commit"
    BY <1>1, <1>2 DEF RecordSound, UndoSteps, CompensationSteps
  <1>4. /\ DbUnchanged /\ UNCHANGED <<fileLock, installMu, app>> /\ dbLock' \in Actors \cup {"none"}
        /\ Fault \/ NoFault
    BY <1>2 DEF UndoConfig, FileStep, Store, LocksUnchanged, TypeOK
  <1>5. CASE Finish(a, "error") /\ disk' = disk
    BY <1>1, <1>4, <1>5, QuietEnd
  <1>6. ASSUME NEW b \in d.backups, disk' = [disk EXCEPT ![Dir(a)] = [d EXCEPT !.env = b.data]],
               Finish(a, "error") \/ Goto(a, "undo_config_mark")
        PROVE  Inner(a) /\ (Sound(a) => Outcome(a))
    <2> DEFINE c == [d EXCEPT !.env = b.data]
    <2>1. b.data \in Configs
      BY <1>2 DEF Disks
    <2>2. c \in Disks /\ c.journal = d.journal /\ c.env = b.data /\ c.marker = d.marker /\ c.backups = d.backups
      BY <1>2, <2>1, EnvPut
    <2> HIDE DEF c
    <2>3. /\ ActorPart(a) /\ actor'[a].journal = r.journal /\ actor'[a].pc \in {"leave", "undo_config_mark"}
      <3>1. "undo_config_mark" \in FileSteps /\ "undo_config_mark" \notin InstallSteps
        BY DEF FileSteps, InstallSteps, AttemptSteps
      <3> QED
        BY <1>1, <1>3, <1>6, <3>1, MovesSound, EndsSound
    <2>4. disk' = [disk EXCEPT ![Dir(a)] = c]
      BY <1>6 DEF c
    <2>5. Inner(a) /\ d2 = c
      BY <1>4, <2>2, <2>3, <2>4, FileInner
    <2>6. ASSUME Sound(a) PROVE Outcome(a)
      <3>1. /\ ~d.marker /\ d.journal = r.journal /\ r.journal.phase \in {"prepared", "admin_reverted"}
        BY <1>1, <2>6 DEF Sound, StepSound
      <3>2. b.data = Prior[Dir(a)]
        BY <2>6 DEF Sound, DiskSound
      <3>3. StepSound(actor'[a], d2, Prior[Dir(a)], users, Complete, Bound(app, ProcOf(a)))
        BY <2>2, <2>3, <2>5, <3>1, <3>2 DEF StepSound, AttemptSteps
      <3>4. DiskSound(d2, Prior[Dir(a)], users, Complete)
        BY <2>2, <2>5, <2>6, <3>1, <3>2 DEF Sound, DiskSound
      <3>5. Handed(r, actor'[a], d, d2, Prior[Dir(a)], users)
        BY <2>2, <2>3, <2>5, <3>1, <3>2 DEF Handed
      <3> QED
        BY <1>4, <3>3, <3>4, <3>5, FileOutcome
    <2> QED
      BY <2>5, <2>6
  <1> QED
    BY <1>5, <1>6 DEF UndoConfig, FileStep, Store

LEMMA UndoConfigMarkStep ==
    ASSUME TypeInv, NEW a \in Actors, UndoConfigMark(a)
    PROVE  Inner(a) /\ (Sound(a) => Outcome(a))
  <1> DEFINE r == actor[a]
             d == disk[Dir(a)]
             c == Advanced(a, "config_reverted")
             d2 == disk'[Dir(a)]
  <1>1. r.pc = "undo_config_mark" /\ r.pc \in FileSteps
    BY DEF UndoConfigMark, At, FileSteps
  <1>2. TypeOK /\ RecordSound(a, r) /\ Dir(a) \in Dirs
    BY <1>1, AtFacts
  <1>3. r.journal.id \in Ids /\ r.mode # "none" /\ r.mode # "commit" /\ "config_reverted" \in Phases
    BY <1>1, <1>2 DEF RecordSound, UndoSteps, CompensationSteps, Phases
  <1>4. /\ c \in Disks /\ c.journal = [id |-> r.journal.id, phase |-> "config_reverted"]
        /\ c.env = d.env /\ c.marker = d.marker /\ c.backups = d.backups
    BY <1>1, <1>3, AdvancedPut
  <1>5. /\ DbUnchanged /\ UNCHANGED <<fileLock, installMu, app>> /\ dbLock' \in Actors \cup {"none"}
        /\ Fault \/ NoFault
    BY <1>2 DEF UndoConfigMark, FileStep, Store, LocksUnchanged, TypeOK
  <1>6. \/ Finish(a, "error") /\ disk' = disk
        \/ Finish(a, "error") /\ disk' = [disk EXCEPT ![Dir(a)] = c]
        \/ /\ Advances(a, "config_reverted", "clean_backup")
           /\ disk' = [disk EXCEPT ![Dir(a)] = c]
    BY DEF UndoConfigMark, FileStep, Store, Advances
  <1> HIDE DEF c
  <1>7. /\ ActorPart(a) /\ actor'[a].journal.id = r.journal.id
        /\ \/ actor'[a].pc = "leave"
           \/ /\ actor'[a].pc = "clean_backup" /\ disk' = [disk EXCEPT ![Dir(a)] = c]
              /\ actor'[a].journal = [id |-> r.journal.id, phase |-> "config_reverted"] /\ actor'[a].mode = r.mode
    <2>1. CASE Finish(a, "error")
      BY <1>1, <2>1, EndsSound
    <2>2. CASE /\ Advances(a, "config_reverted", "clean_backup")
               /\ disk' = [disk EXCEPT ![Dir(a)] = c]
      <3>1. "clean_backup" \in FileSteps /\ "clean_backup" \notin InstallSteps
        BY DEF FileSteps, InstallSteps, AttemptSteps
      <3> QED
        BY <1>1, <1>3, <2>2, <3>1, PhaseSound
    <2> QED
      BY <1>6, <2>1, <2>2
  <1>8. /\ Inner(a) /\ d2 \in {d, c} /\ (disk' = [disk EXCEPT ![Dir(a)] = c] => d2 = c)
    BY <1>4, <1>5, <1>6, <1>7, FileInner
  <1>9. ASSUME Sound(a) PROVE Outcome(a)
    <2>1. /\ ~d.marker /\ d.journal = r.journal /\ r.journal.phase \in {"prepared", "admin_reverted"}
          /\ d.env = Prior[Dir(a)]
      BY <1>1, <1>9 DEF Sound, StepSound
    <2>2. c.journal.id = r.journal.id /\ c.journal.phase = "config_reverted"
      BY <1>4
    <2>3. StepSound(actor'[a], d2, Prior[Dir(a)], users, Complete, Bound(app, ProcOf(a)))
      BY <1>3, <1>4, <1>7, <1>8, <2>1 DEF StepSound, AttemptSteps
    <2>4. DiskSound(d2, Prior[Dir(a)], users, Complete)
      BY <1>4, <1>8, <1>9, <2>1, <2>2 DEF Sound, DiskSound
    <2>5. Handed(r, actor'[a], d, d2, Prior[Dir(a)], users)
      BY <1>4, <1>7, <1>8, <2>1, <2>2 DEF Handed
    <2> QED
      BY <1>5, <2>3, <2>4, <2>5, FileOutcome
  <1> QED
    BY <1>8, <1>9

\* What is left of the backups when those of one installation are removed.
Without(B, i) == {b \in B : b.id # i}

LEMMA CleanBackupStep ==
    ASSUME TypeInv, NEW a \in Actors, CleanBackup(a)
    PROVE  Inner(a) /\ (Sound(a) => Outcome(a))
  <1> DEFINE r == actor[a]
             d == disk[Dir(a)]
             c == [d EXCEPT !.backups = Without(d.backups, r.journal.id)]
             d2 == disk'[Dir(a)]
  <1>1. r.pc = "clean_backup" /\ r.pc \in FileSteps
    BY DEF CleanBackup, At, FileSteps
  <1>2. TypeOK /\ RecordSound(a, r) /\ Dir(a) \in Dirs /\ d \in Disks
    BY <1>1, AtFacts
  <1>3. r.journal.id \in Ids /\ r.mode # "none"
    BY <1>1, <1>2 DEF RecordSound, UndoSteps, CompensationSteps
  <1>4. /\ c \in Disks /\ c.journal = d.journal /\ c.env = d.env /\ c.marker = d.marker
        /\ c.backups = Without(d.backups, r.journal.id)
    <2>1. Without(d.backups, r.journal.id) \in SUBSET [id : Ids, data : Configs]
      BY <1>2 DEF Without, Disks
    <2> QED
      BY <1>2, <2>1, BackupsPut
  <1>5. /\ DbUnchanged /\ UNCHANGED <<fileLock, installMu, app>> /\ dbLock' \in Actors \cup {"none"}
        /\ Fault \/ NoFault
    BY <1>2 DEF CleanBackup, FileStep, Store, LocksUnchanged, TypeOK
  <1>6. /\ disk' = disk \/ disk' = [disk EXCEPT ![Dir(a)] = c]
        /\ Goto(a, "clean_journal") \/ \E x \in {"error", "failstop"} : Finish(a, x)
    BY DEF CleanBackup, FileStep, Store, CleanFailed, Without
  <1> HIDE DEF c
  <1>7. /\ ActorPart(a) /\ actor'[a].journal = r.journal
        /\ \/ actor'[a].pc = "leave"
           \/ actor'[a].pc = "clean_journal" /\ actor'[a].mode = r.mode
    <2>1. CASE \E x \in {"error", "failstop"} : Finish(a, x)
      BY <1>1, <2>1, EndsSound
    <2>2. CASE Goto(a, "clean_journal")
      <3>1. /\ "clean_journal" \in FileSteps /\ "clean_journal" \notin InstallSteps
            /\ "clean_journal" \notin CompensationSteps
        BY DEF FileSteps, InstallSteps, AttemptSteps, CompensationSteps
      <3> QED
        BY <1>1, <1>3, <2>2, <3>1, MovesSound
    <2> QED
      BY <1>6, <2>1, <2>2
  <1>8. Inner(a) /\ d2 \in {d, c}
    BY <1>4, <1>5, <1>6, <1>7, FileInner
  <1>9. d2.journal = d.journal /\ d2.env = d.env /\ d2.marker = d.marker /\ d2.backups \subseteq d.backups
    BY <1>4, <1>8 DEF Without
  <1>10. ASSUME Sound(a) PROVE Outcome(a)
    <2>1. /\ d.journal = r.journal /\ (d.marker \/ r.journal.phase = "config_reverted")
          /\ r.mode = "commit" => d.marker /\ d.env = r.journal.id /\ Bound(app, ProcOf(a))
      BY <1>1, <1>10 DEF Sound, StepSound
    <2>2. StepSound(actor'[a], d2, Prior[Dir(a)], users, Complete, Bound(app, ProcOf(a)))
      BY <1>7, <1>9, <2>1 DEF StepSound, AttemptSteps
    <2>3. DiskSound(d2, Prior[Dir(a)], users, Complete)
      BY <1>9, <1>10, <2>1 DEF Sound, DiskSound
    <2>4. Handed(r, actor'[a], d, d2, Prior[Dir(a)], users)
      BY <1>7, <1>9 DEF Handed
    <2> QED
      BY <1>5, <2>2, <2>3, <2>4, FileOutcome
  <1> QED
    BY <1>8, <1>10

LEMMA CleanJournalStep ==
    ASSUME TypeInv, NEW a \in Actors, CleanJournal(a)
    PROVE  Inner(a) /\ (Sound(a) => Outcome(a))
  <1> DEFINE r == actor[a]
             d == disk[Dir(a)]
             c == [d EXCEPT !.journal = NoJournal]
             d2 == disk'[Dir(a)]
  <1>1. r.pc = "clean_journal" /\ r.pc \in FileSteps
    BY DEF CleanJournal, At, FileSteps
  <1>2. TypeOK /\ RecordSound(a, r) /\ Dir(a) \in Dirs /\ d \in Disks /\ r \in ActorStates
    BY <1>1, AtFacts
  <1>3. /\ r.journal.id \in Ids /\ r.mode \in {"recovery", "rollback", "commit"}
        /\ r.mode = "commit" => r.stage = "install"
    BY <1>1, <1>2 DEF RecordSound, UndoSteps, CompensationSteps, ActorStates
  <1>4. c \in Disks /\ c.journal = NoJournal /\ c.env = d.env /\ c.marker = d.marker /\ c.backups = d.backups
    BY <1>2, JournalPut DEF Journals
  <1>5. /\ DbUnchanged /\ UNCHANGED <<fileLock, installMu, app>> /\ dbLock' \in Actors \cup {"none"}
        /\ Fault \/ NoFault
    BY <1>2 DEF CleanJournal, FileStep, Store, LocksUnchanged, TypeOK
  <1>6. /\ disk' = disk \/ disk' = [disk EXCEPT ![Dir(a)] = c]
        /\ \/ \E x \in {"ok", "error", "failstop"} : Finish(a, x)
           \/ r.stage = "install" /\ Goto(a, "allowed") /\ disk' = [disk EXCEPT ![Dir(a)] = c]
           \/ r.mode = "commit" /\ Goto(a, "publish") /\ disk' = [disk EXCEPT ![Dir(a)] = c]
    BY <1>3 DEF CleanJournal, FileStep, Store, CleanFailed, RecoveryDone
  <1> HIDE DEF c
  <1>7. /\ ActorPart(a) /\ actor'[a].journal = r.journal
        /\ \/ actor'[a].pc = "leave"
           \/ actor'[a].pc = "allowed" /\ disk' = [disk EXCEPT ![Dir(a)] = c]
           \/ actor'[a].pc = "publish" /\ disk' = [disk EXCEPT ![Dir(a)] = c] /\ r.mode = "commit"
    <2>1. CASE \E x \in {"ok", "error", "failstop"} : Finish(a, x)
      BY <1>1, <2>1, EndsSound
    <2>2. CASE r.stage = "install" /\ Goto(a, "allowed") /\ disk' = [disk EXCEPT ![Dir(a)] = c]
      <3>1. "allowed" \in FileSteps /\ "allowed" \notin UndoSteps \cup AttemptSteps \cup CompensationSteps
        BY DEF FileSteps, UndoSteps, AttemptSteps, CompensationSteps
      <3> QED
        BY <1>1, <2>2, <3>1, MovesSound
    <2>3. CASE r.mode = "commit" /\ Goto(a, "publish") /\ disk' = [disk EXCEPT ![Dir(a)] = c]
      <3>1. "publish" \in FileSteps /\ "publish" \notin UndoSteps \cup CompensationSteps
        BY DEF FileSteps, UndoSteps, CompensationSteps
      <3> QED
        BY <1>1, <1>3, <2>3, <3>1, MovesSound
    <2> QED
      BY <1>6, <2>1, <2>2, <2>3
  <1>8. /\ Inner(a) /\ d2 \in {d, c} /\ (disk' = [disk EXCEPT ![Dir(a)] = c] => d2 = c)
    BY <1>4, <1>5, <1>6, <1>7, FileInner
  <1>9. d2.env = d.env /\ d2.marker = d.marker /\ d2.backups = d.backups /\ d2.journal \in {d.journal, NoJournal}
    BY <1>4, <1>8
  <1>10. ASSUME Sound(a) PROVE Outcome(a)
    <2>1. /\ d.journal = r.journal /\ (d.marker \/ r.journal.phase = "config_reverted")
          /\ r.mode = "commit" => d.marker /\ d.env = r.journal.id /\ Bound(app, ProcOf(a))
      BY <1>1, <1>10 DEF Sound, StepSound
    <2>2. NoJournal.id = "none" /\ NoJournal.phase = "none"
      BY DEF NoJournal
    <2>3. StepSound(actor'[a], d2, Prior[Dir(a)], users, Complete, Bound(app, ProcOf(a)))
      BY <1>4, <1>7, <1>8, <2>1 DEF StepSound, AttemptSteps
    <2>4. DiskSound(d2, Prior[Dir(a)], users, Complete)
      BY <1>9, <1>10, <2>1, <2>2 DEF Sound, DiskSound
    <2>5. Handed(r, actor'[a], d, d2, Prior[Dir(a)], users)
      BY <1>7, <1>9, <2>1, <2>2 DEF Handed
    <2> QED
      BY <1>5, <2>3, <2>4, <2>5, FileOutcome
  <1> QED
    BY <1>8, <1>10

LEMMA WriteBackupStep ==
    ASSUME TypeInv, NEW a \in Actors, WriteBackup(a)
    PROVE  Inner(a) /\ (Sound(a) => Outcome(a))
  <1> DEFINE r == actor[a]
             d == disk[Dir(a)]
             new == [id |-> r.journal.id, data |-> d.env]
             B == d.backups \cup {new}
             c == [d EXCEPT !.backups = B]
             d2 == disk'[Dir(a)]
  <1>1. r.pc = "backup" /\ r.pc \in FileSteps
    BY DEF WriteBackup, At, FileSteps
  <1>2. TypeOK /\ RecordSound(a, r) /\ Dir(a) \in Dirs /\ d \in Disks
    BY <1>1, AtFacts
  <1>3. r.journal.id \in Ids /\ r.stage = "install"
    BY <1>1, <1>2 DEF RecordSound, InstallSteps, AttemptSteps
  <1>4. c \in Disks /\ c.journal = d.journal /\ c.env = d.env /\ c.marker = d.marker /\ c.backups = B
    <2>1. new \in [id : Ids, data : Configs] /\ d.backups \in SUBSET [id : Ids, data : Configs]
      BY <1>2, <1>3 DEF Disks
    <2>2. B \in SUBSET [id : Ids, data : Configs]
      BY <2>1
    <2>3. c = [d EXCEPT !.backups = B]
      OBVIOUS
    <2> HIDE DEF B, c
    <2> QED
      BY <1>2, <2>2, <2>3, BackupsPut
  <1>5. /\ DbUnchanged /\ UNCHANGED <<fileLock, installMu, app>> /\ dbLock' \in Actors \cup {"none"}
        /\ Fault \/ NoFault
    BY <1>2 DEF WriteBackup, FileStep, Store, LocksUnchanged, TypeOK
  <1>6. \/ Finish(a, "error") /\ (disk' = disk \/ disk' = [disk EXCEPT ![Dir(a)] = c])
        \/ Goto(a, "prepare") /\ disk' = [disk EXCEPT ![Dir(a)] = c]
    BY DEF WriteBackup, FileStep, Store
  <1> HIDE DEF c
  <1>7. /\ ActorPart(a) /\ actor'[a].journal = r.journal
        /\ \/ actor'[a].pc = "leave"
           \/ actor'[a].pc = "prepare" /\ disk' = [disk EXCEPT ![Dir(a)] = c]
    <2>1. CASE Finish(a, "error")
      BY <1>1, <2>1, EndsSound
    <2>2. CASE Goto(a, "prepare") /\ disk' = [disk EXCEPT ![Dir(a)] = c]
      <3>1. "prepare" \in FileSteps /\ "prepare" \notin UndoSteps \cup CompensationSteps
        BY DEF FileSteps, UndoSteps, CompensationSteps
      <3> QED
        BY <1>1, <1>3, <2>2, <3>1, MovesSound
    <2> QED
      BY <1>6, <2>1, <2>2
  <1>8. /\ Inner(a) /\ d2 \in {d, c} /\ (disk' = [disk EXCEPT ![Dir(a)] = c] => d2 = c)
    BY <1>4, <1>5, <1>6, <1>7, FileInner
  <1>9. /\ d2.journal = d.journal /\ d2.env = d.env /\ d2.marker = d.marker
        /\ d2.backups \subseteq B /\ d.backups \subseteq d2.backups
    BY <1>4, <1>8
  <1>10. ASSUME Sound(a) PROVE Outcome(a)
    <2>0. NoJournal.phase = "none"
      BY DEF NoJournal
    <2>1. d.journal = NoJournal /\ ~d.marker /\ r.journal.phase = "prepared" /\ Complete /\ Bound(app, ProcOf(a))
      BY <1>1, <1>10 DEF Sound, StepSound, AttemptSteps
    <2>2. d.env = Prior[Dir(a)]
      BY <1>10, <2>0, <2>1 DEF Sound, DiskSound
    <2>3. new = [id |-> r.journal.id, data |-> Prior[Dir(a)]] /\ new.data = Prior[Dir(a)]
      BY <2>2
    <2> HIDE DEF new
    <2>4. actor'[a].pc = "prepare" => new \in d2.backups
      BY <1>4, <1>7, <1>8
    <2>5. StepSound(actor'[a], d2, Prior[Dir(a)], users, Complete, Bound(app, ProcOf(a)))
      BY <1>7, <1>9, <2>1, <2>3, <2>4 DEF StepSound, AttemptSteps
    <2>6. DiskSound(d2, Prior[Dir(a)], users, Complete)
      BY <1>9, <1>10, <2>0, <2>1, <2>3 DEF Sound, DiskSound
    <2>7. Handed(r, actor'[a], d, d2, Prior[Dir(a)], users)
      BY <1>7, <1>9 DEF Handed
    <2> QED
      BY <1>5, <2>5, <2>6, <2>7, FileOutcome
  <1> QED
    BY <1>8, <1>10

LEMMA PrepareJournalStep ==
    ASSUME TypeInv, NEW a \in Actors, PrepareJournal(a)
    PROVE  Inner(a) /\ (Sound(a) => Outcome(a))
  <1> DEFINE r == actor[a]
             d == disk[Dir(a)]
             bare == Without(d.backups, r.journal.id)
             written == Advanced(a, "prepared")
             d2 == disk'[Dir(a)]
  <1>1. r.pc = "prepare" /\ r.pc \in FileSteps
    BY DEF PrepareJournal, At, FileSteps
  <1>2. /\ TypeOK /\ RecordSound(a, r) /\ Dir(a) \in Dirs /\ d \in Disks
        /\ r.journal.id \in Ids => r.journal \in [id : Ids, phase : Phases]
    BY <1>1, AtFacts
  <1>3. r.journal.id \in Ids /\ r.stage = "install" /\ "prepared" \in Phases
    BY <1>1, <1>2 DEF RecordSound, InstallSteps, AttemptSteps, Phases
  <1>4. /\ written \in Disks /\ written.journal = [id |-> r.journal.id, phase |-> "prepared"]
        /\ written.env = d.env /\ written.marker = d.marker /\ written.backups = d.backups
    BY <1>1, <1>3, AdvancedPut
  <1>5. /\ DbUnchanged /\ UNCHANGED <<fileLock, installMu, app>> /\ dbLock' \in Actors \cup {"none"}
        /\ Fault \/ NoFault
    BY <1>2 DEF PrepareJournal, LocksUnchanged, TypeOK
  <1>6. \/ disk' = [disk EXCEPT ![Dir(a)] = written] /\ Goto(a, "env")
        \/ /\ Finish(a, "error")
           /\ \E after \in {d, written}, left \in {bare, d.backups} :
                 /\ disk' = [disk EXCEPT ![Dir(a)] = [after EXCEPT !.backups = left]]
                 /\ after = d \/ "prepare" \in SyncFaults
    BY DEF PrepareJournal, Without
  <1> HIDE DEF written
  <1>7. CASE disk' = [disk EXCEPT ![Dir(a)] = written] /\ Goto(a, "env")
    <2>1. "env" \in FileSteps /\ "env" \notin UndoSteps \cup CompensationSteps
      BY DEF FileSteps, UndoSteps, CompensationSteps
    <2>2. ActorPart(a) /\ actor'[a].journal = r.journal /\ actor'[a].pc = "env"
      BY <1>1, <1>3, <1>7, <2>1, MovesSound
    <2>3. Inner(a) /\ d2 = written
      BY <1>4, <1>5, <1>7, <2>2, FileInner
    <2>4. ASSUME Sound(a) PROVE Outcome(a)
      <3>0. NoJournal.phase = "none" /\ NoJournal.id = "none"
        BY DEF NoJournal
      <3>1. /\ d.journal = NoJournal /\ ~d.marker /\ r.journal.phase = "prepared" /\ Complete
            /\ Bound(app, ProcOf(a)) /\ [id |-> r.journal.id, data |-> Prior[Dir(a)]] \in d.backups
        BY <1>1, <2>4 DEF Sound, StepSound, AttemptSteps
      <3>2. written.journal = r.journal
        BY <1>2, <1>3, <1>4, <3>1
      <3>3. StepSound(actor'[a], d2, Prior[Dir(a)], users, Complete, Bound(app, ProcOf(a)))
        BY <1>4, <2>2, <2>3, <3>1, <3>2 DEF StepSound, AttemptSteps
      <3>4. DiskSound(d2, Prior[Dir(a)], users, Complete)
        BY <1>4, <2>3, <2>4, <3>1, <3>2 DEF Sound, DiskSound
      <3>5. Handed(r, actor'[a], d, d2, Prior[Dir(a)], users)
        BY <1>4, <2>2, <2>3, <3>0, <3>1, <3>2 DEF Handed
      <3> QED
        BY <1>5, <3>3, <3>4, <3>5, FileOutcome
    <2> QED
      BY <2>3, <2>4
  <1>8. ASSUME NEW after \in {d, written}, NEW left \in {bare, d.backups}, Finish(a, "error"),
               disk' = [disk EXCEPT ![Dir(a)] = [after EXCEPT !.backups = left]],
               after = d \/ "prepare" \in SyncFaults
        PROVE  Inner(a) /\ (Sound(a) => Outcome(a))
    <2> DEFINE c == [after EXCEPT !.backups = left]
    <2>1. left \in SUBSET [id : Ids, data : Configs] /\ left \subseteq d.backups
      BY <1>2 DEF Without, Disks
    <2>2. after \in Disks
      BY <1>2, <1>4
    <2>3. c \in Disks /\ c.journal = after.journal /\ c.env = after.env /\ c.marker = after.marker /\ c.backups = left
      BY <2>1, <2>2, BackupsPut
    <2>4. disk' = [disk EXCEPT ![Dir(a)] = c]
      BY <1>8
    <2> HIDE DEF c
    <2>5. ActorPart(a) /\ actor'[a].journal = r.journal /\ actor'[a].pc = "leave"
      BY <1>1, <1>8, EndsSound
    <2>6. Inner(a) /\ d2 = c
      BY <1>5, <2>3, <2>4, <2>5, FileInner
    <2>7. ASSUME Sound(a) PROVE Outcome(a)
      <3>0. NoJournal.phase = "none"
        BY DEF NoJournal
      <3>1. d.journal = NoJournal /\ ~d.marker /\ d.env = Prior[Dir(a)] /\ \A b \in d.backups : b.data = Prior[Dir(a)]
        BY <1>1, <2>7, <3>0 DEF Sound, StepSound, DiskSound, AttemptSteps
      <3>2. /\ d2.env = d.env /\ ~d2.marker /\ d2.backups \subseteq d.backups
            /\ d2.journal = d.journal \/ ("prepare" \in SyncFaults /\ d2.journal.id = r.journal.id
                                                                  /\ d2.journal.phase = "prepared")
        BY <1>4, <1>8, <2>1, <2>3, <2>6, <3>1
      <3>3. StepSound(actor'[a], d2, Prior[Dir(a)], users, Complete, Bound(app, ProcOf(a)))
        BY <2>5, LeavingSound
      <3>4. DiskSound(d2, Prior[Dir(a)], users, Complete)
        BY <3>0, <3>1, <3>2 DEF DiskSound
      <3>5. Handed(r, actor'[a], d, d2, Prior[Dir(a)], users)
        BY <2>5, <3>0, <3>1, <3>2 DEF Handed
      <3> QED
        BY <1>5, <3>3, <3>4, <3>5, FileOutcome
    <2> QED
      BY <2>6, <2>7
  <1> QED
    BY <1>6, <1>7, <1>8

LEMMA WriteEnvStep ==
    ASSUME TypeInv, NEW a \in Actors, WriteEnv(a)
    PROVE  Inner(a) /\ (Sound(a) => Outcome(a))
  <1> DEFINE r == actor[a]
             d == disk[Dir(a)]
             c == [d EXCEPT !.env = r.journal.id]
             d2 == disk'[Dir(a)]
  <1>1. r.pc = "env" /\ r.pc \in FileSteps /\ r.pc \in AttemptSteps
    BY DEF WriteEnv, At, FileSteps, AttemptSteps
  <1>2. /\ TypeOK /\ RecordSound(a, r) /\ Dir(a) \in Dirs /\ d \in Disks
        /\ r.journal.id \in Ids => r.journal \in [id : Ids, phase : Phases]
    BY <1>1, AtFacts
  <1>3. r.journal.id \in Ids /\ r.stage = "install"
    BY <1>1, <1>2 DEF RecordSound, InstallSteps
  <1>4. r.journal.phase \in Phases /\ r.journal = [id |-> r.journal.id, phase |-> r.journal.phase]
    BY <1>2, <1>3
  <1>5. c \in Disks /\ c.journal = d.journal /\ c.env = r.journal.id /\ c.marker = d.marker /\ c.backups = d.backups
    BY <1>2, <1>3, EnvPut DEF Configs
  <1>6. /\ DbUnchanged /\ UNCHANGED <<fileLock, installMu, app>> /\ dbLock' \in Actors \cup {"none"}
        /\ Fault \/ NoFault
    BY <1>2 DEF WriteEnv, FileStep, Store, LocksUnchanged, TypeOK
  <1>7. \/ Rollback(a) /\ (disk' = disk \/ disk' = [disk EXCEPT ![Dir(a)] = c])
        \/ Goto(a, "pending") /\ disk' = [disk EXCEPT ![Dir(a)] = c]
    BY DEF WriteEnv, FileStep, Store
  <1> HIDE DEF c
  <1>8. /\ ActorPart(a) /\ actor'[a].journal = r.journal
        /\ \/ actor'[a].pc = IF r.journal.phase = "admin_pending" THEN "undo_admin" ELSE "undo_config"
           \/ actor'[a].pc = "pending" /\ disk' = [disk EXCEPT ![Dir(a)] = c]
    <2>1. CASE Rollback(a)
      BY <1>1, <1>4, <2>1, RollsBackSound DEF Rollback
    <2>2. CASE Goto(a, "pending") /\ disk' = [disk EXCEPT ![Dir(a)] = c]
      <3>1. "pending" \in FileSteps /\ "pending" \notin UndoSteps \cup CompensationSteps
        BY DEF FileSteps, UndoSteps, CompensationSteps
      <3> QED
        BY <1>1, <1>3, <2>2, <3>1, MovesSound
    <2> QED
      BY <1>7, <2>1, <2>2
  <1>9. /\ Inner(a) /\ d2 \in {d, c} /\ (disk' = [disk EXCEPT ![Dir(a)] = c] => d2 = c)
    BY <1>5, <1>6, <1>7, <1>8, FileInner
  <1>10. /\ d2.journal = d.journal /\ d2.env \in {d.env, r.journal.id} /\ d2.marker = d.marker
         /\ d2.backups = d.backups
    BY <1>5, <1>9
  <1>11. ASSUME Sound(a) PROVE Outcome(a)
    <2>1. /\ d.journal = r.journal /\ ~d.marker /\ r.journal.phase = "prepared" /\ Complete
          /\ Bound(app, ProcOf(a)) /\ [id |-> r.journal.id, data |-> Prior[Dir(a)]] \in d.backups
      BY <1>1, <1>11 DEF Sound, StepSound, AttemptSteps
    <2>2. \/ actor'[a].pc = "undo_config"
          \/ actor'[a].pc = "pending" /\ d2.env = r.journal.id
      BY <1>5, <1>8, <1>9, <2>1
    <2>3. StepSound(actor'[a], d2, Prior[Dir(a)], users, Complete, Bound(app, ProcOf(a)))
      BY <1>8, <1>10, <2>1, <2>2 DEF StepSound, AttemptSteps
    <2>4. DiskSound(d2, Prior[Dir(a)], users, Complete)
      BY <1>10, <1>11, <2>1 DEF Sound, DiskSound
    <2>5. Handed(r, actor'[a], d, d2, Prior[Dir(a)], users)
      BY <1>8, <1>10, <2>1 DEF Handed
    <2> QED
      BY <1>6, <2>3, <2>4, <2>5, FileOutcome
  <1> QED
    BY <1>9, <1>11

LEMMA MarkAdminPendingStep ==
    ASSUME TypeInv, NEW a \in Actors, MarkAdminPending(a)
    PROVE  Inner(a) /\ (Sound(a) => Outcome(a))
  <1> DEFINE r == actor[a]
             d == disk[Dir(a)]
             c == Advanced(a, "admin_pending")
             j == [id |-> r.journal.id, phase |-> "admin_pending"]
             d2 == disk'[Dir(a)]
  <1>1. r.pc = "pending" /\ r.pc \in FileSteps /\ r.pc \in AttemptSteps
    BY DEF MarkAdminPending, At, FileSteps, AttemptSteps
  <1>2. TypeOK /\ RecordSound(a, r) /\ Dir(a) \in Dirs
    BY <1>1, AtFacts
  <1>3. r.journal.id \in Ids /\ r.stage = "install" /\ "admin_pending" \in Phases
    BY <1>1, <1>2 DEF RecordSound, InstallSteps, Phases
  <1>4. c \in Disks /\ c.journal = j /\ c.env = d.env /\ c.marker = d.marker /\ c.backups = d.backups
    BY <1>1, <1>3, AdvancedPut
  <1>5. /\ DbUnchanged /\ UNCHANGED <<fileLock, installMu, app>> /\ dbLock' \in Actors \cup {"none"}
        /\ Fault \/ NoFault
    BY <1>2 DEF MarkAdminPending, FileStep, Store, LocksUnchanged, TypeOK
  <1>6. \/ RollbackFrom(a, "admin_pending") /\ (disk' = disk \/ disk' = [disk EXCEPT ![Dir(a)] = c])
        \/ Advances(a, "admin_pending", "count") /\ disk' = [disk EXCEPT ![Dir(a)] = c]
    BY DEF MarkAdminPending, FileStep, Store, Advances
  <1>7. j.id = r.journal.id /\ j.phase = "admin_pending"
    OBVIOUS
  <1> HIDE DEF c
  <1>8. /\ ActorPart(a) /\ actor'[a].journal = j
        /\ \/ actor'[a].pc = "undo_admin"
           \/ actor'[a].pc = "count" /\ disk' = [disk EXCEPT ![Dir(a)] = c]
    <2>1. CASE RollbackFrom(a, "admin_pending")
      BY <1>1, <1>3, <2>1, RollsBackSound
    <2>2. CASE Advances(a, "admin_pending", "count") /\ disk' = [disk EXCEPT ![Dir(a)] = c]
      <3>1. "count" \in FileSteps /\ "count" \notin UndoSteps \cup CompensationSteps
        BY DEF FileSteps, UndoSteps, CompensationSteps
      <3> QED
        BY <1>1, <1>3, <2>2, <3>1, PhaseSound
    <2> QED
      BY <1>6, <2>1, <2>2
  <1> HIDE DEF j
  <1>9. /\ Inner(a) /\ d2 \in {d, c} /\ (disk' = [disk EXCEPT ![Dir(a)] = c] => d2 = c)
    BY <1>4, <1>5, <1>6, <1>8, FileInner
  <1>10. ASSUME Sound(a) PROVE Outcome(a)
    <2>1. /\ d.journal = r.journal /\ ~d.marker /\ r.journal.phase = "prepared" /\ d.env = r.journal.id
          /\ Complete /\ Bound(app, ProcOf(a)) /\ [id |-> r.journal.id, data |-> Prior[Dir(a)]] \in d.backups
      BY <1>1, <1>10 DEF Sound, StepSound, AttemptSteps
    <2>2. /\ d2.journal \in {r.journal, j} /\ d2.env = r.journal.id /\ ~d2.marker /\ d2.backups = d.backups
          /\ actor'[a].pc = "count" => d2.journal = j
      BY <1>4, <1>8, <1>9, <2>1
    <2>3. StepSound(actor'[a], d2, Prior[Dir(a)], users, Complete, Bound(app, ProcOf(a)))
      BY <1>7, <1>8, <2>1, <2>2 DEF StepSound, AttemptSteps
    <2>4. DiskSound(d2, Prior[Dir(a)], users, Complete)
      BY <1>7, <1>10, <2>1, <2>2 DEF Sound, DiskSound
    <2>5. Handed(r, actor'[a], d, d2, Prior[Dir(a)], users)
      BY <1>7, <1>8, <2>1, <2>2 DEF Handed
    <2> QED
      BY <1>5, <2>3, <2>4, <2>5, FileOutcome
  <1> QED
    BY <1>9, <1>10

LEMMA WriteMarkerStep ==
    ASSUME TypeInv, NEW a \in Actors, WriteMarker(a)
    PROVE  Inner(a) /\ (MarkerAtomic /\ Sound(a) => Outcome(a))
  <1> DEFINE r == actor[a]
             d == disk[Dir(a)]
             c == [d EXCEPT !.marker = TRUE]
             d2 == disk'[Dir(a)]
  <1>1. r.pc = "marker" /\ r.pc \in FileSteps /\ r.pc \in AttemptSteps
    BY DEF WriteMarker, At, FileSteps, AttemptSteps
  <1>2. /\ TypeOK /\ RecordSound(a, r) /\ Dir(a) \in Dirs /\ d \in Disks /\ r \in ActorStates
        /\ r.journal.id \in Ids => r.journal \in [id : Ids, phase : Phases]
    BY <1>1, AtFacts
  <1>3. r.journal.id \in Ids /\ r.stage = "install" /\ r.journal.phase \in Phases
    BY <1>1, <1>2 DEF RecordSound, InstallSteps
  <1>4. c \in Disks /\ c.journal = d.journal /\ c.env = d.env /\ c.marker = TRUE /\ c.backups = d.backups
    BY <1>2, MarkerPut
  <1>5. /\ DbUnchanged /\ UNCHANGED <<schema, fileLock, installMu, app>> /\ dbLock' \in Actors \cup {"none"}
        /\ (Fault \/ NoFault) /\ users' \subseteq Ids
    BY <1>2 DEF WriteMarker, FileStep, Store, LocksUnchanged, DbUnchanged, TypeOK
  <1>6. \/ Rollback(a) /\ disk' = disk
        \/ Rollback(a) /\ disk' = [disk EXCEPT ![Dir(a)] = c] /\ ~MarkerAtomic
        \/ /\ actor' = [actor EXCEPT ![a].mode = "commit", ![a].pc = "clean_backup"]
           /\ disk' = [disk EXCEPT ![Dir(a)] = c]
    BY DEF WriteMarker, FileStep, Store, MarkerAtomic
  <1> HIDE DEF c
  <1>7. CASE Rollback(a) /\ disk' = disk
    BY <1>1, <1>5, <1>7, QuietRollback
  <1>8. CASE Rollback(a) /\ disk' = [disk EXCEPT ![Dir(a)] = c] /\ ~MarkerAtomic
    <2>1. ActorPart(a)
      BY <1>1, <1>3, <1>8, RollsBackSound DEF Rollback
    <2> QED
      BY <1>4, <1>5, <1>8, <2>1, FileInner
  <1>9. CASE /\ actor' = [actor EXCEPT ![a].mode = "commit", ![a].pc = "clean_backup"]
             /\ disk' = [disk EXCEPT ![Dir(a)] = c]
    <2> DEFINE new == [r EXCEPT !.mode = "commit", !.pc = "clean_backup"]
    <2>1. actor' = [actor EXCEPT ![a] = new]
      BY <1>2, <1>9 DEF TypeOK, ActorStates
    <2>2. "clean_backup" \in Steps
      BY DEF Steps
    <2>3. /\ new \in ActorStates /\ new.pc = "clean_backup" /\ new.on = r.on /\ new.stage = r.stage
          /\ new.mode = "commit" /\ new.journal = r.journal
      BY <1>2, <2>2 DEF ActorStates
    <2> HIDE DEF new
    <2>4. /\ actor' \in [Actors -> ActorStates] /\ actor'[a] = new
          /\ \A b \in Actors : b # a => actor'[b] = actor[b]
      BY <1>2, <2>1, <2>3 DEF TypeOK
    <2>5. RecordSound(a, new)
      BY <1>1, <1>2, <1>3, <2>3 DEF RecordSound, InstallSteps, AttemptSteps, UndoSteps, CompensationSteps
    <2>6. ActorPart(a)
      BY <1>1, <2>3, <2>4, <2>5 DEF ActorPart, FileSteps
    <2>7. Inner(a) /\ d2 = c
      BY <1>4, <1>5, <1>9, <2>6, FileInner
    <2>8. ASSUME Sound(a) PROVE Outcome(a)
      <3>1. /\ d.journal = r.journal /\ d.env = r.journal.id /\ users = {r.journal.id}
            /\ Complete /\ Bound(app, ProcOf(a)) /\ ~d.marker
        BY <1>1, <2>8 DEF Sound, StepSound, AttemptSteps
      <3>2. StepSound(actor'[a], d2, Prior[Dir(a)], users, Complete, Bound(app, ProcOf(a)))
        BY <1>4, <2>3, <2>4, <2>7, <3>1 DEF StepSound, AttemptSteps
      <3>3. DiskSound(d2, Prior[Dir(a)], users, Complete)
        BY <1>3, <1>4, <2>7, <2>8, <3>1 DEF Sound, DiskSound
      <3>4. Handed(r, actor'[a], d, d2, Prior[Dir(a)], users)
        BY <1>4, <2>3, <2>4, <2>7, <3>1 DEF Handed
      <3> QED
        BY <1>5, <3>2, <3>3, <3>4, FileOutcome
    <2> QED
      BY <2>7, <2>8
  <1> QED
    BY <1>6, <1>7, <1>8, <1>9

LEMMA BuildRuntimeStep ==
    ASSUME TypeInv, NEW a \in Actors, BuildRuntime(a)
    PROVE  Inner(a) /\ (Sound(a) => Outcome(a))
  <1> DEFINE p == ProcOf(a)
             r == actor[a]
             d == disk[Dir(a)]
  <1>1. r.pc = "build" /\ r.pc \in FileSteps
    BY DEF BuildRuntime, At, FileSteps
  <1>2. TypeOK /\ RecordSound(a, r) /\ p \in Processes /\ Dir(a) \in Dirs
    BY <1>1, AtFacts
  <1>3. r.journal.id \in Ids /\ r.stage = "install"
    BY <1>1, <1>2 DEF RecordSound, InstallSteps, AttemptSteps
  <1>4. /\ DbUnchanged /\ UNCHANGED <<users, schema, disk, fileLock, installMu>> /\ dbLock' \in Actors \cup {"none"}
        /\ Fault \/ NoFault
    BY <1>2 DEF BuildRuntime, LocksUnchanged, DbUnchanged, TypeOK
  <1>5. CASE Finish(a, "error") /\ app' = app
    BY <1>1, <1>4, <1>5, QuietEnd
  <1>6. CASE app' = [app EXCEPT ![p].listening = p \in OmniConfigured] /\ Goto(a, "backup")
    <2>1. "backup" \in FileSteps /\ "backup" \notin UndoSteps \cup CompensationSteps
      BY DEF FileSteps, UndoSteps, CompensationSteps
    <2>2. ActorPart(a) /\ actor'[a].journal = r.journal /\ actor'[a].pc = "backup"
      BY <1>1, <1>3, <1>6, <2>1, MovesSound
    <2> DEFINE x == p \in OmniConfigured
    <2>3. x \in BOOLEAN /\ app' = [app EXCEPT ![p].listening = x]
      BY <1>6
    <2> HIDE DEF x
    <2>4. /\ app' \in [Processes -> AppStates] /\ app'[p].listening = x
          /\ \A q \in Processes : app'[q].state = app[q].state /\ (q # p => app'[q] = app[q])
      BY <1>2, <2>3 DEF TypeOK, AppStates
    <2>5. Inner(a)
      BY <1>2, <1>4, <2>2, <2>4, FaultType DEF Inner, DiskPart, DbPart, LockPart, AppPart, TypeOK, Complete
    <2>6. Bound(app', p)
      BY <2>4 DEF Bound, x
    <2>7. ASSUME Sound(a) PROVE Outcome(a)
      <3>1. d.journal = NoJournal /\ ~d.marker /\ Complete /\ r.journal.phase = "prepared"
        BY <1>1, <2>7 DEF Sound, StepSound, AttemptSteps
      <3>2. StepSound(actor'[a], disk'[Dir(a)], Prior[Dir(a)], users', schema' = Migrations, Bound(app', p))
        BY <1>4, <2>2, <2>6, <3>1 DEF StepSound, AttemptSteps, Complete
      <3>3. DiskSound(disk'[Dir(a)], Prior[Dir(a)], users', schema' = Migrations)
        BY <1>4, <2>7, <3>1 DEF Sound, DiskSound
      <3>4. Handed(r, actor'[a], d, disk'[Dir(a)], Prior[Dir(a)], users')
        BY <1>4, <2>2 DEF Handed
      <3> QED
        BY <3>2, <3>3, <3>4 DEF Outcome
    <2> QED
      BY <2>5, <2>7
  <1> QED
    BY <1>5, <1>6 DEF BuildRuntime

\* What Publish makes of the process's runtime.
LEMMA PublishEffect ==
    ASSUME TypeInv, NEW a \in Actors, Publish(a)
    PROVE  LET p == ProcOf(a)
           IN  /\ p \in Processes /\ app' \in [Processes -> AppStates]
               /\ app'[p].runtime = actor[a].journal.id /\ app'[p].listening = app[p].listening
               /\ \A q \in Processes : app'[q].state = app[q].state /\ (q # p => app'[q] = app[q])
  <1> DEFINE p == ProcOf(a)
             id == actor[a].journal.id
             new == [app[p] EXCEPT !.runtime = id, !.recoveryNeeded = TRUE, !.failed = FALSE, !.workers = FALSE]
  <1>1. actor[a].pc = "publish" /\ actor[a].pc \in FileSteps
    BY DEF Publish, At, FileSteps
  <1>2. TypeOK /\ RecordSound(a, actor[a]) /\ p \in Processes
    BY <1>1, AtFacts
  <1>3. id \in Ids /\ app[p] \in AppStates
    BY <1>1, <1>2 DEF RecordSound, AttemptSteps, TypeOK
  <1>4. app' = [app EXCEPT ![p] = new]
    BY <1>2 DEF Publish, TypeOK, AppStates
  <1>5. /\ new \in AppStates /\ new.runtime = id /\ new.listening = app[p].listening /\ new.state = app[p].state
    BY <1>3 DEF AppStates
  <1> HIDE DEF new
  <1> QED
    BY <1>2, <1>4, <1>5 DEF TypeOK

LEMMA PublishStep ==
    ASSUME TypeInv, NEW a \in Actors, Publish(a)
    PROVE  Inner(a) /\ (Sound(a) => Outcome(a))
  <1> DEFINE p == ProcOf(a)
             r == actor[a]
             d == disk[Dir(a)]
  <1>1. r.pc = "publish" /\ r.pc \in FileSteps
    BY DEF Publish, At, FileSteps
  <1>2. TypeOK /\ RecordSound(a, r) /\ p \in Processes /\ Dir(a) \in Dirs
    BY <1>1, AtFacts
  <1>3. r.stage = "install"
    BY <1>1, <1>2 DEF RecordSound, InstallSteps, AttemptSteps
  <1>4. /\ DbUnchanged /\ UNCHANGED <<users, schema, disk, fileLock, installMu>> /\ dbLock' \in Actors \cup {"none"}
        /\ Fault \/ NoFault
    BY <1>2 DEF Publish, LocksUnchanged, DbUnchanged, TypeOK
  <1>5. /\ "release_db" \in FileSteps /\ "release_db" \notin UndoSteps \cup AttemptSteps \cup CompensationSteps
        /\ Goto(a, "release_db")
    BY DEF Publish, FileSteps, UndoSteps, CompensationSteps, AttemptSteps
  <1>6. ActorPart(a) /\ actor'[a].journal = r.journal /\ actor'[a].pc = "release_db"
    BY <1>1, <1>3, <1>5, MovesSound
  <1>7. Inner(a)
    BY <1>2, <1>4, <1>6, PublishEffect, FaultType DEF Inner, DiskPart, DbPart, LockPart, AppPart, TypeOK, Complete
  <1>8. ASSUME Sound(a) PROVE Outcome(a)
    <2>1. StepSound(actor'[a], disk'[Dir(a)], Prior[Dir(a)], users', schema' = Migrations, Bound(app', p))
      BY <1>6 DEF StepSound, AttemptSteps
    <2>2. DiskSound(disk'[Dir(a)], Prior[Dir(a)], users', schema' = Migrations)
      BY <1>4, <1>8 DEF Sound, DiskSound, Complete
    <2>3. Handed(r, actor'[a], d, disk'[Dir(a)], Prior[Dir(a)], users')
      BY <1>4, <1>6 DEF Handed
    <2> QED
      BY <2>1, <2>2, <2>3 DEF Outcome
  <1> QED
    BY <1>7, <1>8

LEMMA ReleaseDatabaseStep ==
    ASSUME TypeInv, NEW a \in Actors, ReleaseDatabase(a)
    PROVE  Inner(a) /\ (Sound(a) => Outcome(a))
  <1>1. actor[a].pc = "release_db" /\ actor[a].pc \in FileSteps
    BY DEF ReleaseDatabase, At, FileSteps
  <1>2. TypeOK /\ RecordSound(a, actor[a])
    BY <1>1, AtFacts
  <1>3. /\ DbUnchanged /\ UNCHANGED <<fileLock, installMu, app, disk>> /\ dbLock' \in Actors \cup {"none"}
        /\ Fault \/ NoFault
    BY <1>2 DEF ReleaseDatabase, TypeOK
  <1>4. CASE Finish(a, "failstop")
    BY <1>1, <1>3, <1>4, QuietEnd
  <1>5. CASE Goto(a, "release_file")
    <2>1. /\ "release_file" \in FileSteps /\ "release_file" \notin UndoSteps \cup AttemptSteps \cup CompensationSteps
          /\ actor[a].stage = "install"
      BY <1>1, <1>2 DEF RecordSound, FileSteps, InstallSteps, AttemptSteps, UndoSteps, CompensationSteps
    <2>2. \A r2 \in ActorStates : r2.pc = "release_file" =>
               StepSound(r2, disk[Dir(a)], Prior[Dir(a)], users, Complete, Bound(app, ProcOf(a)))
      BY DEF StepSound, AttemptSteps
    <2> QED
      BY <1>1, <1>3, <1>5, <2>1, <2>2, QuietMove
  <1> QED
    BY <1>4, <1>5 DEF ReleaseDatabase

\* The steps under the flock, up to its release.
InnerStep(a) ==
    \/ RecoveryStep(a)
    \/ Allowed(a) \/ Connect(a) \/ Migrate(a) \/ EnsureUsersEmpty(a) \/ BuildRuntime(a)
    \/ WriteBackup(a) \/ PrepareJournal(a) \/ WriteEnv(a) \/ MarkAdminPending(a)
    \/ CountUsers(a) \/ InsertAdmin(a) \/ VerifyLocks(a) \/ WriteMarker(a)
    \/ Publish(a) \/ ReleaseDatabase(a)

LEMMA InnerSteps ==
    ASSUME TypeInv, NEW a \in Actors, InnerStep(a)
    PROVE  Inner(a) /\ (MarkerAtomic /\ Sound(a) => Outcome(a))
  BY RecoverStep, RecoverLockStep, UndoAdminStep, UndoAdminMarkStep, UndoConfigStep, UndoConfigMarkStep,
     CleanBackupStep, CleanJournalStep, AllowedStep, MigrateStep, EnsureUsersEmptyStep, BuildRuntimeStep,
     WriteBackupStep, PrepareJournalStep, WriteEnvStep, MarkAdminPendingStep, CountVerifyStep, InsertAdminStep,
     WriteMarkerStep, PublishStep, ReleaseDatabaseStep
  DEF InnerStep, RecoveryStep

-----------------------------------------------------------------------------
(* The steps outside the flock: the files and the database stay as they are, and   *)
(* whoever moves gets no further than the place where recovery begins.             *)

BaseInv == TypeInv /\ LockInv /\ LifeInv

Settled(b) ==
    \/ actor'[b] = actor[b]
    \/ /\ actor'[b].pc \notin FileSteps \ {"recover"}
       /\ actor'[b].journal.id \in Ids =>
             actor'[b].journal.id = actor[b].journal.id /\ actor'[b].on = actor[b].on

\* A runtime that is there was there before, or is loaded from a finished installation.
RuntimeKept(p) ==
    app'[p].runtime # "none" =>
        \/ app'[p].runtime = app[p].runtime /\ app'[p].listening = app[p].listening
        \/ disk[DirOf[p]].marker /\ app'[p].runtime = disk[DirOf[p]].env /\ Bound(app', p)

\* The listeners a running installation has bound stay.
ListenKept(b) ==
    actor'[b] = actor[b] /\ actor[b].pc \in FileSteps /\ actor[b].stage = "install" =>
        app'[ProcOf(b)].listening = app[ProcOf(b)].listening

Outer ==
    /\ BaseInv' /\ UNCHANGED <<disk, users, schema>>
    /\ \A b \in Actors : Settled(b) /\ ListenKept(b)
    /\ \A p \in Processes : RuntimeKept(p)

Place(a, r) == IF a \in Processes THEN a ELSE r.on

LocksTyped ==
    /\ dbLock' \in Actors \cup {"none"} /\ fileLock' \in [Dirs -> Actors \cup {"none"}]
    /\ installMu' \in [Processes -> Actors \cup {"none"}]

\* One actor moves.
LEMMA OneMoves ==
    ASSUME BaseInv, NEW a \in Actors, NEW new \in ActorStates, RecordSound(a, new),
           actor' = [actor EXCEPT ![a] = new], UNCHANGED <<disk, users, schema>>,
           LocksTyped, app' \in [Processes -> AppStates], faults' \in 0 .. MaxFaults,
           new.pc \notin FileSteps \ {"recover"},
           new.journal.id \in Ids => new.journal.id = actor[a].journal.id /\ new.on = actor[a].on,
           new.pc \in MutexSteps => installMu'[Place(a, new)] = a,
           new.pc \in FileSteps => fileLock'[DirOf[Place(a, new)]] = a,
           \A b \in Actors : b # a =>
               /\ actor[b].pc \in MutexSteps => installMu'[ProcOf(b)] = b
               /\ actor[b].pc \in FileSteps => fileLock'[Dir(b)] = b
    PROVE  /\ TypeInv' /\ LockInv' /\ \A b \in Actors : Settled(b)
           /\ actor'[a] = new /\ \A b \in Actors : b # a => actor'[b] = actor[b]
  <1>1. TypeOK /\ RecordInv
    BY DEF BaseInv, TypeInv
  <1>2. /\ actor' \in [Actors -> ActorStates] /\ actor'[a] = new
        /\ \A b \in Actors : b # a => actor'[b] = actor[b]
    BY <1>1 DEF TypeOK
  <1>3. TypeInv'
    BY <1>1, <1>2 DEF TypeInv, TypeOK, RecordInv, LocksTyped
  <1>4. \A b \in Actors : Settled(b)
    BY <1>2 DEF Settled
  <1>5. ASSUME NEW b \in Actors
        PROVE  /\ actor'[b].pc \in MutexSteps => installMu'[ProcOf(b)'] = b
               /\ actor'[b].pc \in FileSteps => fileLock'[Dir(b)'] = b
    <2>1. CASE b = a
      BY <1>2, <2>1 DEF ProcOf, Dir, Place
    <2>2. CASE b # a
      <3>1. ProcOf(b)' = ProcOf(b) /\ Dir(b)' = Dir(b)
        BY <1>2, <2>2 DEF ProcOf, Dir
      <3> QED
        BY <1>2, <2>2, <3>1
    <2> QED
      BY <2>1, <2>2
  <1> QED
    BY <1>2, <1>3, <1>4, <1>5 DEF LockInv

\* One actor moves and no process changes what it serves with.
LEMMA PlainOuter ==
    ASSUME BaseInv, NEW a \in Actors, NEW new \in ActorStates, TypeInv', LockInv', \A b \in Actors : Settled(b),
           UNCHANGED <<disk, users, schema>>, actor'[a] = new, \A b \in Actors : b # a => actor'[b] = actor[b],
           \A p \in Processes : /\ app'[p].state = app[p].state /\ app'[p].runtime = app[p].runtime
                                /\ app'[p].listening = app[p].listening,
           a \in Processes => /\ new.pc = "idle" <=> actor[a].pc = "idle"
                              /\ new.pc = "serving" <=> actor[a].pc = "serving",
           a \in Requests => new.pc = "idle" \/ (new.on \in Processes /\ app[new.on].state = "serving")
    PROVE  Outer
  <1>1. Processes \cap Requests = {} /\ Actors = Processes \cup Requests
    BY SetupAssumption DEF Actors
  <1>2. LifeInv'
    <2>1. ASSUME NEW p \in Processes
          PROVE  /\ app'[p].state = "down" <=> actor'[p].pc = "idle"
                 /\ app'[p].state = "serving" <=> actor'[p].pc = "serving"
      BY <1>1 DEF BaseInv, LifeInv
    <2>2. ASSUME NEW r \in Requests, actor'[r].pc # "idle"
          PROVE  app'[actor'[r].on].state = "serving"
      <3>1. CASE r = a
        BY <2>2, <3>1
      <3>2. CASE r # a
        <4>1. actor'[r] = actor[r] /\ actor[r].on \in Processes
          BY <1>1, <2>2, <3>2 DEF BaseInv, TypeInv, RecordInv, RecordSound
        <4> QED
          BY <2>2, <4>1 DEF BaseInv, LifeInv
      <3> QED
        BY <3>1, <3>2
    <2> QED
      BY <2>1, <2>2 DEF LifeInv
  <1>3. \A p \in Processes : RuntimeKept(p)
    BY DEF RuntimeKept
  <1>4. ASSUME NEW b \in Actors PROVE ListenKept(b)
    <2>1. actor[b].pc \in FileSteps => ProcOf(b) \in Processes
      BY AtFacts DEF BaseInv
    <2> QED
      BY <2>1 DEF ListenKept
  <1> QED
    BY <1>2, <1>3, <1>4 DEF Outer, BaseInv

LEMMA ActorNames ==
    /\ "none" \notin Actors /\ Processes \cap Requests = {} /\ Actors = Processes \cup Requests
    /\ "none" \notin Ids
  BY SetupAssumption DEF Actors

LEMMA TakeMutexOuter ==
    ASSUME BaseInv, NEW a \in Actors, TakeMutex(a)
    PROVE  Outer
  <1> DEFINE r == actor[a]
             new == [r EXCEPT !.pc = "flock"]
  <1>1. r.pc = "mutex" /\ installMu[ProcOf(a)] = "none"
    BY DEF TakeMutex, At
  <1>2. TypeOK /\ RecordSound(a, r) /\ r \in ActorStates /\ ProcOf(a) \in Processes
    BY <1>1, DirType DEF BaseInv, TypeInv, RecordInv
  <1>3. "flock" \in Steps
    BY DEF Steps
  <1>4. actor' = [actor EXCEPT ![a] = new]
    BY <1>2 DEF TakeMutex, Goto, TypeOK
  <1>5. /\ new \in ActorStates /\ new.pc = "flock" /\ new.on = r.on /\ new.stage = r.stage
        /\ new.mode = r.mode /\ new.journal = r.journal
    BY <1>2, <1>3 DEF ActorStates
  <1> HIDE DEF new
  <1>6. RecordSound(a, new)
    BY <1>1, <1>2, <1>5 DEF RecordSound, InstallSteps, AttemptSteps, UndoSteps, CompensationSteps
  <1>7. /\ UNCHANGED <<disk, users, schema>> /\ app' = app /\ fileLock' = fileLock /\ NoFault
        /\ installMu' = [installMu EXCEPT ![ProcOf(a)] = a] /\ dbLock' = dbLock
    BY DEF TakeMutex, DbUnchanged
  <1>8. LocksTyped /\ app' \in [Processes -> AppStates] /\ faults' \in 0 .. MaxFaults
    BY <1>2, <1>7, FaultType DEF LocksTyped, TypeOK
  <1>9. Place(a, new) = ProcOf(a) /\ installMu'[ProcOf(a)] = a
    BY <1>2, <1>5, <1>7 DEF Place, ProcOf, TypeOK
  <1>10. ASSUME NEW b \in Actors, b # a
         PROVE  /\ actor[b].pc \in MutexSteps => installMu'[ProcOf(b)] = b
                /\ actor[b].pc \in FileSteps => fileLock'[Dir(b)] = b
    <2>1. actor[b].pc \in MutexSteps => installMu[ProcOf(b)] = b /\ ProcOf(b) # ProcOf(a)
      BY <1>1, ActorNames DEF BaseInv, LockInv
    <2>2. installMu \in [Processes -> Actors \cup {"none"}]
      BY <1>2 DEF TypeOK
    <2>3. actor[b].pc \in MutexSteps => ProcOf(b) \in Processes
      BY DirType DEF BaseInv, MutexSteps, FileSteps
    <2> QED
      BY <1>7, <2>1, <2>2, <2>3 DEF BaseInv, LockInv
  <1>11. new.pc \notin FileSteps
    BY <1>5 DEF FileSteps
  <1>12. /\ TypeInv' /\ LockInv' /\ \A b \in Actors : Settled(b)
         /\ actor'[a] = new /\ \A b \in Actors : b # a => actor'[b] = actor[b]
    BY <1>4, <1>5, <1>6, <1>7, <1>8, <1>9, <1>10, <1>11, OneMoves
  <1>13. a \in Requests => new.on \in Processes /\ app[new.on].state = "serving"
    BY <1>1, <1>2, <1>5 DEF BaseInv, LifeInv, RecordSound
  <1> QED
    BY <1>1, <1>5, <1>7, <1>12, <1>13, PlainOuter

\* Nobody else's flock or mutex is the one a holds or takes.
LEMMA OthersKeepLocks ==
    ASSUME BaseInv, NEW a \in Actors, ProcOf(a) \in Processes, NEW b \in Actors, b # a,
           installMu' = installMu \/ (\E x : installMu' = [installMu EXCEPT ![ProcOf(a)] = x]
                                      /\ installMu[ProcOf(a)] \in {a, "none"}),
           fileLock' = fileLock \/ (\E x : fileLock' = [fileLock EXCEPT ![Dir(a)] = x]
                                    /\ fileLock[Dir(a)] \in {a, "none"})
    PROVE  /\ actor[b].pc \in MutexSteps => installMu'[ProcOf(b)] = b
           /\ actor[b].pc \in FileSteps => fileLock'[Dir(b)] = b
  <1>1. /\ installMu \in [Processes -> Actors \cup {"none"}] /\ fileLock \in [Dirs -> Actors \cup {"none"}]
        /\ b # "none"
    BY ActorNames DEF BaseInv, TypeInv, TypeOK
  <1>2. ASSUME actor[b].pc \in MutexSteps PROVE installMu'[ProcOf(b)] = b
    <2>1. installMu[ProcOf(b)] = b /\ ProcOf(b) \in Processes
      BY <1>2, DirType DEF BaseInv, LockInv, MutexSteps, FileSteps
    <2> QED
      BY <1>1, <2>1
  <1>3. ASSUME actor[b].pc \in FileSteps PROVE fileLock'[Dir(b)] = b
    <2>1. fileLock[Dir(b)] = b /\ Dir(b) \in Dirs
      BY <1>3, DirType DEF BaseInv, LockInv, FileSteps
    <2> QED
      BY <1>1, <2>1
  <1> QED
    BY <1>2, <1>3

\* An actor with locks moves to one of the places outside the flock, as the same caller.
LEMMA CallerOuter ==
    ASSUME BaseInv, NEW a \in Actors, actor[a].pc \in MutexSteps \cup {"clear"}, NEW pc \in Steps,
           actor' \in [Actors -> ActorStates], \A b \in Actors : b # a => actor'[b] = actor[b],
           actor'[a].pc = pc, actor'[a].on = actor[a].on, actor'[a].stage = actor[a].stage,
           actor'[a].mode = actor[a].mode, actor'[a].journal = actor[a].journal,
           pc \in {"recover", "leave", "activate", "load", "clear", "check"},
           pc = "activate" => actor[a].stage = "install",
           pc \in MutexSteps => installMu'[ProcOf(a)] = a, pc \in FileSteps => fileLock'[Dir(a)] = a,
           UNCHANGED <<disk, users, schema>>, LocksTyped, faults' \in 0 .. MaxFaults,
           installMu' = installMu \/ (\E x : installMu' = [installMu EXCEPT ![ProcOf(a)] = x]
                                      /\ installMu[ProcOf(a)] \in {a, "none"}),
           fileLock' = fileLock \/ (\E x : fileLock' = [fileLock EXCEPT ![Dir(a)] = x]
                                    /\ fileLock[Dir(a)] \in {a, "none"}),
           app' \in [Processes -> AppStates],
           \A p \in Processes : /\ app'[p].state = app[p].state /\ app'[p].runtime = app[p].runtime
                                /\ app'[p].listening = app[p].listening
    PROVE  Outer
  <1> DEFINE r == actor[a]
             new == actor'[a]
  <1>1. r.pc \notin {"idle", "serving"}
    BY DEF MutexSteps, FileSteps
  <1>2. TypeOK /\ RecordSound(a, r) /\ ProcOf(a) \in Processes
    BY <1>1, DirType DEF BaseInv, TypeInv, RecordInv
  <1>3. new \in ActorStates /\ actor' = [actor EXCEPT ![a] = new]
    BY <1>2 DEF TypeOK
  <1> HIDE DEF new
  <1>4. new.pc = pc /\ new.on = r.on /\ new.stage = r.stage /\ new.mode = r.mode /\ new.journal = r.journal
    BY DEF new
  <1>5. RecordSound(a, new)
    BY <1>1, <1>2, <1>4 DEF RecordSound, InstallSteps, AttemptSteps, UndoSteps, CompensationSteps
  <1>6. Place(a, new) = ProcOf(a) /\ DirOf[Place(a, new)] = Dir(a)
    BY <1>4 DEF Place, ProcOf, Dir
  <1>7. new.pc \notin FileSteps \ {"recover"}
    BY <1>4 DEF FileSteps
  <1>8. \A b \in Actors : b # a => /\ actor[b].pc \in MutexSteps => installMu'[ProcOf(b)] = b
                                   /\ actor[b].pc \in FileSteps => fileLock'[Dir(b)] = b
    BY <1>2, OthersKeepLocks
  <1>9. /\ TypeInv' /\ LockInv' /\ \A b \in Actors : Settled(b)
        /\ actor'[a] = new /\ \A b \in Actors : b # a => actor'[b] = actor[b]
    BY <1>3, <1>4, <1>5, <1>6, <1>7, <1>8, OneMoves
  <1>10. a \in Requests => new.on \in Processes /\ app[new.on].state = "serving"
    BY <1>1, <1>2, <1>4 DEF BaseInv, LifeInv, RecordSound
  <1>11. new.pc \notin {"idle", "serving"}
    BY <1>4
  <1> QED
    BY <1>1, <1>3, <1>9, <1>10, <1>11, PlainOuter

\* What every step of a caller outside the flock leaves alone.
OuterFrame == UNCHANGED <<disk, users, schema>> /\ LocksTyped /\ faults' \in 0 .. MaxFaults

MutexStep(a) ==
    installMu' = installMu \/ (\E x : installMu' = [installMu EXCEPT ![ProcOf(a)] = x]
                               /\ installMu[ProcOf(a)] \in {a, "none"})
FlockStep(a) ==
    fileLock' = fileLock \/ (\E x : fileLock' = [fileLock EXCEPT ![Dir(a)] = x]
                             /\ fileLock[Dir(a)] \in {a, "none"})

AppKept == \A p \in Processes : /\ app'[p].state = app[p].state /\ app'[p].runtime = app[p].runtime
                                /\ app'[p].listening = app[p].listening

\* The caller goes on at pc.
Moves(a, pc) ==
    /\ actor' \in [Actors -> ActorStates] /\ \A b \in Actors : b # a => actor'[b] = actor[b]
    /\ actor'[a].pc = pc /\ actor'[a].on = actor[a].on /\ actor'[a].stage = actor[a].stage
    /\ actor'[a].mode = actor[a].mode /\ actor'[a].journal = actor[a].journal

LEMMA CallerMoves ==
    ASSUME BaseInv, NEW a \in Actors, actor[a].pc \in MutexSteps \cup {"clear"}, NEW pc,
           pc \in {"recover", "leave", "activate", "load", "clear", "check"}, Moves(a, pc),
           pc = "activate" => actor[a].stage = "install",
           pc \in MutexSteps => installMu'[ProcOf(a)] = a, pc \in FileSteps => fileLock'[Dir(a)] = a,
           OuterFrame, MutexStep(a), FlockStep(a), app' \in [Processes -> AppStates], AppKept
    PROVE  Outer
  <1>1. pc \in Steps
    BY DEF Steps
  <1> QED
    BY <1>1, CallerOuter DEF Moves, OuterFrame, MutexStep, FlockStep, AppKept

LEMMA HoldsMutex ==
    ASSUME BaseInv, NEW a \in Actors, actor[a].pc \in MutexSteps
    PROVE  /\ TypeInv /\ TypeOK /\ RecordSound(a, actor[a]) /\ actor[a] \in ActorStates
           /\ ProcOf(a) \in Processes /\ Dir(a) \in Dirs /\ installMu[ProcOf(a)] = a
           /\ installMu \in [Processes -> Actors \cup {"none"}]
           /\ fileLock \in [Dirs -> Actors \cup {"none"}] /\ dbLock \in Actors \cup {"none"}
           /\ app \in [Processes -> AppStates]
  <1>1. actor[a].pc # "idle"
    BY DEF MutexSteps, FileSteps
  <1>2. TypeInv /\ TypeOK /\ RecordSound(a, actor[a]) /\ installMu[ProcOf(a)] = a
    BY DEF BaseInv, TypeInv, RecordInv, LockInv
  <1>3. actor[a] \in ActorStates /\ ProcOf(a) \in Processes /\ Dir(a) \in Dirs
    BY <1>1, <1>2, DirType
  <1> QED
    BY <1>2, <1>3 DEF TypeOK

LEMMA TakeFileLockOuter ==
    ASSUME BaseInv, NEW a \in Actors, TakeFileLock(a)
    PROVE  Outer
  <1>1. actor[a].pc \in MutexSteps
    BY DEF TakeFileLock, At, MutexSteps
  <1>2. /\ TypeOK /\ ProcOf(a) \in Processes /\ Dir(a) \in Dirs /\ installMu[ProcOf(a)] = a
        /\ installMu \in [Processes -> Actors \cup {"none"}]
        /\ fileLock \in [Dirs -> Actors \cup {"none"}] /\ dbLock \in Actors \cup {"none"}
        /\ app \in [Processes -> AppStates]
    BY <1>1, HoldsMutex
  <1>3. /\ UNCHANGED <<disk, users, schema, dbLock, installMu, app>> /\ MutexStep(a) /\ AppKept
        /\ Fault \/ NoFault
    BY DEF TakeFileLock, DbUnchanged, MutexStep, AppKept
  <1>4. faults' \in 0 .. MaxFaults
    BY <1>2, <1>3, FaultType
  <1>5. CASE fileLock[Dir(a)] = "none" /\ fileLock' = [fileLock EXCEPT ![Dir(a)] = a] /\ Goto(a, "recover")
    <2>1. Moves(a, "recover")
      BY <1>2, <1>5, GotoEffect DEF Moves, Steps
    <2>2. FlockStep(a) /\ fileLock'[Dir(a)] = a /\ OuterFrame
      BY <1>2, <1>3, <1>4, <1>5 DEF FlockStep, OuterFrame, LocksTyped
    <2> QED
      BY <1>1, <1>2, <1>3, <2>1, <2>2, CallerMoves
  <1>6. CASE Finish(a, "error") /\ fileLock' = fileLock
    <2>1. Moves(a, "leave")
      BY <1>2, <1>6, FinishEffect DEF Moves
    <2>2. FlockStep(a) /\ OuterFrame /\ "leave" \notin FileSteps
      BY <1>2, <1>3, <1>4, <1>6 DEF FlockStep, OuterFrame, LocksTyped, FileSteps
    <2> QED
      BY <1>1, <1>2, <1>3, <2>1, <2>2, CallerMoves
  <1> QED
    BY <1>5, <1>6 DEF TakeFileLock

LEMMA ReleaseFileOuter ==
    ASSUME BaseInv, NEW a \in Actors, ReleaseFile(a)
    PROVE  Outer
  <1>1. actor[a].pc = "release_file" /\ actor[a].pc \in MutexSteps /\ actor[a].pc \in FileSteps
    BY DEF ReleaseFile, At, MutexSteps, FileSteps
  <1>2. /\ TypeOK /\ ProcOf(a) \in Processes /\ Dir(a) \in Dirs /\ installMu[ProcOf(a)] = a
        /\ installMu \in [Processes -> Actors \cup {"none"}]
        /\ fileLock \in [Dirs -> Actors \cup {"none"}] /\ dbLock \in Actors \cup {"none"}
        /\ app \in [Processes -> AppStates] /\ RecordSound(a, actor[a])
    BY <1>1, HoldsMutex
  <1>3. /\ UNCHANGED <<disk, users, schema, dbLock, installMu, app>> /\ MutexStep(a) /\ AppKept
        /\ Fault \/ NoFault
    BY DEF ReleaseFile, DbUnchanged, MutexStep, AppKept
  <1>4. faults' \in 0 .. MaxFaults
    BY <1>2, <1>3, FaultType
  <1>5. fileLock[Dir(a)] = a /\ fileLock' = [fileLock EXCEPT ![Dir(a)] = "none"]
    BY <1>1 DEF ReleaseFile, BaseInv, LockInv
  <1>6. FlockStep(a) /\ OuterFrame /\ "leave" \notin FileSteps /\ "activate" \notin FileSteps
    BY <1>2, <1>3, <1>4, <1>5 DEF FlockStep, OuterFrame, LocksTyped, FileSteps
  <1>7. CASE Goto(a, "activate")
    <2>1. Moves(a, "activate") /\ actor[a].stage = "install"
      BY <1>1, <1>2, <1>7, GotoEffect DEF Moves, Steps, RecordSound, InstallSteps
    <2> QED
      BY <1>1, <1>2, <1>3, <1>6, <2>1, CallerMoves
  <1>8. CASE Finish(a, "failstop")
    <2>1. Moves(a, "leave")
      BY <1>2, <1>8, FinishEffect DEF Moves
    <2> QED
      BY <1>1, <1>2, <1>3, <1>6, <2>1, CallerMoves
  <1> QED
    BY <1>7, <1>8 DEF ReleaseFile

LEMMA ClearRecoveryNeededOuter ==
    ASSUME BaseInv, NEW r \in Requests, ClearRecoveryNeeded(r)
    PROVE  Outer
  <1> DEFINE p == ProcOf(r)
             new == [app[p] EXCEPT !.recoveryNeeded = FALSE]
  <1>1. r \in Actors /\ actor[r].pc = "clear"
    BY DEF ClearRecoveryNeeded, At, Actors
  <1>2. TypeOK /\ p \in Processes
    BY <1>1, DirType DEF BaseInv, TypeInv
  <1>3. /\ UNCHANGED <<disk, users, schema, dbLock, fileLock, installMu>> /\ NoFault /\ Goto(r, "check")
        /\ app' = [app EXCEPT ![p] = new]
    BY <1>2 DEF ClearRecoveryNeeded, DbUnchanged, LocksUnchanged, TypeOK, AppStates
  <1>4. new \in AppStates /\ new.state = app[p].state /\ new.runtime = app[p].runtime /\ new.listening = app[p].listening
    BY <1>2 DEF TypeOK, AppStates
  <1> HIDE DEF new
  <1>5. app' \in [Processes -> AppStates] /\ AppKept
    BY <1>2, <1>3, <1>4 DEF TypeOK, AppKept
  <1>6. OuterFrame /\ MutexStep(r) /\ FlockStep(r)
    BY <1>2, <1>3, FaultType DEF OuterFrame, LocksTyped, TypeOK, MutexStep, FlockStep
  <1>7. Moves(r, "check")
    BY <1>1, <1>2, <1>3, GotoEffect DEF Moves, Steps
  <1>8. "check" \notin MutexSteps /\ "check" \notin FileSteps
    BY DEF MutexSteps, FileSteps
  <1> QED
    BY <1>1, <1>5, <1>6, <1>7, <1>8, CallerMoves

OthersLocked(a) ==
    \A b \in Actors : b # a => /\ actor[b].pc \in MutexSteps => installMu'[ProcOf(b)] = b
                               /\ actor[b].pc \in FileSteps => fileLock'[Dir(b)] = b

\* A request begins, or ends, without a lock.
LEMMA RequestFresh ==
    ASSUME BaseInv, NEW a \in Requests, NEW new \in ActorStates, RecordSound(a, new), new.journal = NoJournal,
           new.pc \in {"idle", "mutex"}, new.pc = "mutex" => new.on \in Processes /\ app[new.on].state = "serving",
           actor' = [actor EXCEPT ![a] = new], OthersLocked(a),
           OuterFrame, app' \in [Processes -> AppStates], AppKept
    PROVE  Outer
  <1>1. a \in Actors /\ a \notin Processes
    BY SetupAssumption DEF Actors
  <1>2. new.pc \notin MutexSteps /\ new.pc \notin FileSteps
    BY DEF MutexSteps, FileSteps
  <1>3. new.journal.id \notin Ids
    BY ActorNames DEF NoJournal
  <1>4. /\ TypeInv' /\ LockInv' /\ \A b \in Actors : Settled(b)
        /\ actor'[a] = new /\ \A b \in Actors : b # a => actor'[b] = actor[b]
    BY <1>1, <1>2, <1>3, OneMoves DEF OuterFrame, OthersLocked
  <1> QED
    BY <1>1, <1>4, PlainOuter DEF OuterFrame, AppKept

LEMMA IdleSound ==
    /\ Idle \in ActorStates /\ Idle.pc = "idle" /\ Idle.journal = NoJournal
    /\ \A a \in Actors : RecordSound(a, Idle)
  <1>1. "idle" \in Steps /\ NoJournal \in Journals
    BY DEF Steps, Journals
  <1>2. Idle \in ActorStates
    BY <1>1 DEF Idle, ActorStates
  <1> QED
    BY <1>2 DEF Idle, RecordSound, InstallSteps, AttemptSteps, UndoSteps, CompensationSteps

LEMMA BeginsSound ==
    ASSUME NEW a \in Requests, NEW p \in Processes, NEW stage \in {"recover", "install"}
    PROVE  LET new == [Idle EXCEPT !.pc = "mutex", !.stage = stage, !.on = p]
           IN  /\ new \in ActorStates /\ RecordSound(a, new) /\ new.journal = NoJournal
               /\ new.pc = "mutex" /\ new.on = p
  <1> DEFINE new == [Idle EXCEPT !.pc = "mutex", !.stage = stage, !.on = p]
  <1>1. "mutex" \in Steps /\ a \notin Processes
    BY SetupAssumption DEF Steps
  <1>2. /\ new \in ActorStates /\ new.pc = "mutex" /\ new.on = p /\ new.stage = stage /\ new.mode = "none"
        /\ new.journal = NoJournal
    BY <1>1, IdleSound DEF Idle, ActorStates
  <1> HIDE DEF new
  <1>3. RecordSound(a, new)
    BY <1>1, <1>2 DEF RecordSound, InstallSteps, AttemptSteps, UndoSteps, CompensationSteps
  <1> QED
    BY <1>2, <1>3 DEF new

LEMMA ArriveOuter ==
    ASSUME BaseInv, NEW r \in Requests, NEW p \in Processes, Arrive(r, p)
    PROVE  Outer
  <1> DEFINE new == [Idle EXCEPT !.pc = "mutex", !.stage = "recover", !.on = p]
  <1>1. /\ new \in ActorStates /\ RecordSound(r, new) /\ new.journal = NoJournal
        /\ new.pc = "mutex" /\ new.on = p
    BY BeginsSound
  <1>2. actor' = [actor EXCEPT ![r] = new] /\ app[p].state = "serving"
    BY DEF Arrive
  <1> HIDE DEF new
  <1>3. UNCHANGED <<disk, users, schema, dbLock, fileLock, installMu, app>> /\ NoFault
    BY DEF Arrive, DbUnchanged, LocksUnchanged
  <1>4. TypeOK /\ LockInv
    BY DEF BaseInv, TypeInv
  <1>5. OuterFrame /\ app' \in [Processes -> AppStates] /\ AppKept
    BY <1>3, <1>4, FaultType DEF OuterFrame, LocksTyped, TypeOK, AppKept
  <1>6. OthersLocked(r)
    BY <1>3, <1>4 DEF OthersLocked, LockInv
  <1> QED
    BY <1>1, <1>2, <1>5, <1>6, RequestFresh

LEMMA CheckAllowedOuter ==
    ASSUME BaseInv, NEW r \in Requests, CheckAllowed(r)
    PROVE  Outer
  <1> DEFINE p == ProcOf(r)
             new == [Idle EXCEPT !.pc = "mutex", !.stage = "install", !.on = p]
  <1>0. r \in Actors /\ r \notin Processes /\ actor[r].pc = "check"
    BY SetupAssumption DEF CheckAllowed, At, Actors
  <1>1. TypeOK /\ LockInv /\ LifeInv /\ p \in Processes /\ p = actor[r].on
    BY <1>0, DirType DEF BaseInv, TypeInv, ProcOf
  <1>2. app[p].state = "serving"
    BY <1>0, <1>1 DEF LifeInv
  <1>3. UNCHANGED <<disk, users, schema, dbLock, fileLock, installMu, app>> /\ NoFault
    BY DEF CheckAllowed, DbUnchanged, LocksUnchanged
  <1>4. OuterFrame /\ app' \in [Processes -> AppStates] /\ AppKept
    BY <1>1, <1>3, FaultType DEF OuterFrame, LocksTyped, TypeOK, AppKept
  <1>5. OthersLocked(r)
    BY <1>1, <1>3 DEF OthersLocked, LockInv
  <1>6. CASE actor' = [actor EXCEPT ![r] = Idle]
    BY <1>0, <1>4, <1>5, <1>6, IdleSound, RequestFresh
  <1>7. CASE actor' = [actor EXCEPT ![r] = new]
    <2>1. /\ new \in ActorStates /\ RecordSound(r, new) /\ new.journal = NoJournal
          /\ new.pc = "mutex" /\ new.on = p
      BY <1>1, BeginsSound
    <2> HIDE DEF new
    <2> QED
      BY <1>1, <1>2, <1>4, <1>5, <1>7, <2>1, RequestFresh
  <1> QED
    BY <1>6, <1>7 DEF CheckAllowed

LEMMA ActivateOuter ==
    ASSUME BaseInv, NEW a \in Actors, Activate(a)
    PROVE  Outer
  <1> DEFINE p == ProcOf(a)
             new == [app[p] EXCEPT !.workers = TRUE, !.recoveryNeeded = FALSE]
  <1>1. actor[a].pc = "activate" /\ actor[a].pc \in MutexSteps
    BY DEF Activate, At, MutexSteps
  <1>2. /\ TypeOK /\ p \in Processes /\ installMu[p] = a /\ RecordSound(a, actor[a])
        /\ installMu \in [Processes -> Actors \cup {"none"}]
    BY <1>1, HoldsMutex
  <1>3. a \in Requests
    BY <1>1, <1>2 DEF RecordSound, InstallSteps, Actors
  <1>4. /\ UNCHANGED <<disk, users, schema, dbLock, fileLock>> /\ NoFault
        /\ installMu' = [installMu EXCEPT ![p] = "none"] /\ actor' = [actor EXCEPT ![a] = Idle]
        /\ app' = [app EXCEPT ![p] = new]
    BY <1>2 DEF Activate, DbUnchanged, TypeOK, AppStates
  <1>5. new \in AppStates /\ new.state = app[p].state /\ new.runtime = app[p].runtime /\ new.listening = app[p].listening
    BY <1>2 DEF TypeOK, AppStates
  <1> HIDE DEF new
  <1>6. OuterFrame /\ app' \in [Processes -> AppStates] /\ AppKept
    BY <1>2, <1>4, <1>5, FaultType DEF OuterFrame, LocksTyped, TypeOK, AppKept
  <1>7. \E x : installMu' = [installMu EXCEPT ![ProcOf(a)] = x] /\ installMu[ProcOf(a)] \in {a, "none"}
    BY <1>2, <1>4
  <1>8. OthersLocked(a)
    BY <1>2, <1>4, <1>7, OthersKeepLocks DEF OthersLocked
  <1> QED
    BY <1>3, <1>4, <1>6, <1>8, IdleSound, RequestFresh

LEMMA LeaveOuter ==
    ASSUME BaseInv, NEW a \in Actors, Leave(a)
    PROVE  Outer
  <1> DEFINE p == ProcOf(a)
             r == actor[a]
  <1>1. r.pc = "leave" /\ r.pc \in MutexSteps
    BY DEF Leave, At, MutexSteps
  <1>2. /\ TypeOK /\ p \in Processes /\ Dir(a) \in Dirs /\ installMu[p] = a /\ RecordSound(a, r)
        /\ installMu \in [Processes -> Actors \cup {"none"}] /\ r \in ActorStates
        /\ fileLock \in [Dirs -> Actors \cup {"none"}] /\ dbLock \in Actors \cup {"none"}
        /\ app \in [Processes -> AppStates]
    BY <1>1, HoldsMutex
  <1>3. PICK result \in {r.result, "error"} :
            /\ (result = r.result /\ NoFault) \/ Fault
            /\ actor' = [actor EXCEPT ![a] = AfterLeave(a, result)]
            /\ app' = IF result = "failstop"
                      THEN [app EXCEPT ![p].recoveryNeeded = TRUE, ![p].fatal = TRUE] ELSE app
    BY DEF Leave
  <1>4. /\ UNCHANGED <<disk, users, schema>> /\ dbLock' \in Actors \cup {"none"}
        /\ installMu' = [installMu EXCEPT ![p] = "none"]
        /\ fileLock' = [fileLock EXCEPT ![Dir(a)] = IF fileLock[Dir(a)] = a THEN "none" ELSE fileLock[Dir(a)]]
    BY <1>2 DEF Leave, DbUnchanged
  <1>5. MutexStep(a)
    BY <1>2, <1>4 DEF MutexStep
  <1>6. FlockStep(a)
    <2>1. CASE fileLock[Dir(a)] = a
      BY <1>4, <2>1 DEF FlockStep
    <2>2. CASE fileLock[Dir(a)] # a
      BY <1>2, <1>4, <2>2 DEF FlockStep
    <2> QED
      BY <2>1, <2>2
  <1>7. OuterFrame
    BY <1>2, <1>3, <1>4, FaultType DEF OuterFrame, LocksTyped
  <1>8. app' \in [Processes -> AppStates] /\ AppKept
    <2> DEFINE new == [app[p] EXCEPT !.recoveryNeeded = TRUE, !.fatal = TRUE]
    <2>1. new \in AppStates /\ new.state = app[p].state /\ new.runtime = app[p].runtime /\ new.listening = app[p].listening
      BY <1>2 DEF AppStates
    <2>2. app' = app \/ app' = [app EXCEPT ![p] = new]
      BY <1>2, <1>3 DEF AppStates
    <2> HIDE DEF new
    <2> QED
      BY <1>2, <2>1, <2>2 DEF AppKept
  <1>9. CASE r.stage = "boot"
    <2> DEFINE new == [r EXCEPT !.pc = "load", !.result = result]
    <2>1. actor' = [actor EXCEPT ![a] = new]
      BY <1>3, <1>9 DEF AfterLeave
    <2>2. "load" \in Steps /\ "load" \notin MutexSteps /\ "load" \notin FileSteps
      BY DEF Steps, MutexSteps, FileSteps
    <2>3. /\ new \in ActorStates /\ new.pc = "load" /\ new.on = r.on /\ new.stage = r.stage
          /\ new.mode = r.mode /\ new.journal = r.journal
      BY <1>2, <1>3, <2>2 DEF ActorStates
    <2> HIDE DEF new
    <2>4. Moves(a, "load")
      BY <1>2, <2>1, <2>3 DEF Moves, TypeOK
    <2> QED
      BY <1>1, <1>5, <1>6, <1>7, <1>8, <2>2, <2>4, CallerMoves
  <1>10. CASE r.stage = "recover" /\ result = "ok"
    <2> DEFINE new == [r EXCEPT !.pc = "clear"]
    <2>1. actor' = [actor EXCEPT ![a] = new]
      BY <1>3, <1>10 DEF AfterLeave
    <2>2. "clear" \in Steps /\ "clear" \notin MutexSteps /\ "clear" \notin FileSteps
      BY DEF Steps, MutexSteps, FileSteps
    <2>3. /\ new \in ActorStates /\ new.pc = "clear" /\ new.on = r.on /\ new.stage = r.stage
          /\ new.mode = r.mode /\ new.journal = r.journal
      BY <1>2, <2>2 DEF ActorStates
    <2> HIDE DEF new
    <2>4. Moves(a, "clear")
      BY <1>2, <2>1, <2>3 DEF Moves, TypeOK
    <2> QED
      BY <1>1, <1>5, <1>6, <1>7, <1>8, <2>2, <2>4, CallerMoves
  <1>11. CASE r.stage # "boot" /\ ~(r.stage = "recover" /\ result = "ok")
    <2>1. actor' = [actor EXCEPT ![a] = Idle]
      BY <1>3, <1>11 DEF AfterLeave
    <2>2. a \in Requests
      BY <1>1, <1>2, <1>11 DEF RecordSound, Actors
    <2>3. OthersLocked(a)
      BY <1>2, <1>5, <1>6, OthersKeepLocks DEF OthersLocked, MutexStep, FlockStep
    <2> QED
      BY <1>7, <1>8, <2>1, <2>2, <2>3, IdleSound, RequestFresh
  <1> QED
    BY <1>9, <1>10, <1>11

\* A process that serves no request yet goes on, and its memory becomes rec.
LEMMA ProcessOuter ==
    ASSUME BaseInv, NEW p \in Processes, NEW new \in ActorStates, RecordSound(p, new), NEW rec \in AppStates,
           actor' = [actor EXCEPT ![p] = new], app' = [app EXCEPT ![p] = rec], OuterFrame,
           UNCHANGED <<fileLock, installMu>>, app[p].state # "serving", actor[p].pc \notin FileSteps,
           new.pc \in {"mutex", "serving"}, new.pc = "serving" <=> rec.state = "serving", rec.state # "down",
           new.journal.id \in Ids => new.journal.id = actor[p].journal.id /\ new.on = actor[p].on,
           rec.runtime # "none" =>
               \/ rec.runtime = app[p].runtime /\ rec.listening = app[p].listening
               \/ /\ disk[DirOf[p]].marker /\ rec.runtime = disk[DirOf[p]].env
                  /\ rec.listening <=> p \in OmniConfigured
    PROVE  Outer
  <1>1. p \in Actors /\ Processes \cap Requests = {} /\ Actors = Processes \cup Requests
    BY ActorNames
  <1>2. TypeOK /\ LockInv /\ LifeInv /\ RecordInv
    BY DEF BaseInv, TypeInv
  <1>3. app' \in [Processes -> AppStates] /\ app'[p] = rec /\ \A q \in Processes : q # p => app'[q] = app[q]
    BY <1>2 DEF TypeOK
  <1>4. new.pc \notin MutexSteps /\ new.pc \notin FileSteps
    BY DEF MutexSteps, FileSteps
  <1>5. \A b \in Actors : b # p => /\ actor[b].pc \in MutexSteps => installMu'[ProcOf(b)] = b
                                   /\ actor[b].pc \in FileSteps => fileLock'[Dir(b)] = b
    BY <1>2 DEF LockInv
  <1>6. /\ TypeInv' /\ LockInv' /\ \A b \in Actors : Settled(b)
        /\ actor'[p] = new /\ \A b \in Actors : b # p => actor'[b] = actor[b]
    BY <1>1, <1>3, <1>4, <1>5, OneMoves DEF OuterFrame
  <1>7. \A r \in Requests : actor[r].pc # "idle" => actor[r].on \in Processes /\ actor[r].on # p
    BY <1>1, <1>2 DEF LifeInv, RecordInv, RecordSound
  <1>8. LifeInv'
    <2>1. ASSUME NEW q \in Processes
          PROVE  /\ app'[q].state = "down" <=> actor'[q].pc = "idle"
                 /\ app'[q].state = "serving" <=> actor'[q].pc = "serving"
      <3>1. CASE q = p
        BY <1>3, <1>6, <3>1
      <3>2. CASE q # p
        BY <1>1, <1>2, <1>3, <1>6, <3>2 DEF LifeInv
      <3> QED
        BY <3>1, <3>2
    <2>2. ASSUME NEW r \in Requests, actor'[r].pc # "idle"
          PROVE  app'[actor'[r].on].state = "serving"
      <3>1. actor'[r] = actor[r]
        BY <1>1, <1>6
      <3>2. actor[r].on \in Processes /\ actor[r].on # p
        BY <1>7, <2>2, <3>1
      <3> QED
        BY <1>2, <1>3, <2>2, <3>1, <3>2 DEF LifeInv
    <2> QED
      BY <2>1, <2>2 DEF LifeInv
  <1>9. ASSUME NEW b \in Actors PROVE ListenKept(b)
    <2>1. SUFFICES ASSUME actor[b].pc \in FileSteps PROVE app'[ProcOf(b)] = app[ProcOf(b)]
      BY DEF ListenKept
    <2>2. actor[b].pc # "idle" /\ b # p
      BY <2>1 DEF FileSteps
    <2>3. ProcOf(b) \in Processes /\ ProcOf(b) # p
      BY <1>1, <1>7, <2>2 DEF ProcOf
    <2> QED
      BY <1>3, <2>3
  <1>10. ASSUME NEW q \in Processes PROVE RuntimeKept(q)
    <2>1. CASE q = p
      BY <1>3, <2>1 DEF RuntimeKept, Bound
    <2>2. CASE q # p
      BY <1>3, <2>2 DEF RuntimeKept
    <2> QED
      BY <2>1, <2>2
  <1> QED
    BY <1>6, <1>8, <1>9, <1>10 DEF Outer, BaseInv, OuterFrame

LEMMA BootOuter ==
    ASSUME BaseInv, NEW p \in Processes, Boot(p)
    PROVE  Outer
  <1> DEFINE new == [Idle EXCEPT !.pc = "mutex", !.stage = "boot"]
             rec == [app[p] EXCEPT !.state = "starting"]
  <1>1. TypeOK /\ LifeInv /\ p \notin Requests
    BY SetupAssumption DEF BaseInv, TypeInv
  <1>2. "mutex" \in Steps
    BY DEF Steps
  <1>3. /\ new \in ActorStates /\ new.pc = "mutex" /\ new.on = "none" /\ new.stage = "boot" /\ new.mode = "none"
        /\ new.journal = NoJournal
    BY <1>2, IdleSound DEF Idle, ActorStates
  <1>4. rec \in AppStates /\ rec.state = "starting" /\ rec.runtime = app[p].runtime /\ rec.listening = app[p].listening
    BY <1>1 DEF TypeOK, AppStates
  <1>5. /\ actor' = [actor EXCEPT ![p] = new] /\ app' = [app EXCEPT ![p] = rec] /\ app[p].state = "down"
        /\ UNCHANGED <<disk, users, schema, dbLock, fileLock, installMu>> /\ NoFault
    BY <1>1 DEF Boot, DbUnchanged, LocksUnchanged, TypeOK, AppStates
  <1> HIDE DEF new, rec
  <1>6. RecordSound(p, new)
    BY <1>1, <1>3 DEF RecordSound, InstallSteps, AttemptSteps, UndoSteps, CompensationSteps
  <1>7. OuterFrame
    BY <1>1, <1>5, FaultType DEF OuterFrame, LocksTyped, TypeOK
  <1>8. actor[p].pc = "idle" /\ actor[p].pc \notin FileSteps
    BY <1>1, <1>5 DEF LifeInv, FileSteps
  <1>9. new.journal.id \notin Ids
    BY <1>3, ActorNames DEF NoJournal
  <1> QED
    BY <1>3, <1>4, <1>5, <1>6, <1>7, <1>8, <1>9, ProcessOuter

\* The process is gone, and its requests with it.
LEMMA VanishOuter ==
    ASSUME BaseInv, NEW p \in Processes, Vanish(p), UNCHANGED <<disk, users, schema>>, Fault \/ NoFault
    PROVE  Outer
  <1> DEFINE mine == {a \in Actors : a = p \/ actor[a].on = p}
  <1>1. p \in Actors /\ Processes \cap Requests = {} /\ Actors = Processes \cup Requests /\ "none" \notin Actors
        /\ "none" \notin Processes
    BY ActorNames
  <1>2. TypeOK /\ LockInv /\ LifeInv /\ RecordInv /\ TypeInv
    BY DEF BaseInv, TypeInv
  <1>3. /\ app' = [app EXCEPT ![p] = Stopped] /\ actor' = [a \in Actors |-> IF a \in mine THEN Idle ELSE actor[a]]
        /\ installMu' = [installMu EXCEPT ![p] = "none"]
        /\ fileLock' = [d \in Dirs |-> IF fileLock[d] \in mine THEN "none" ELSE fileLock[d]]
        /\ dbLock' = IF dbLock \in mine THEN "none" ELSE dbLock
    BY DEF Vanish
  <1>4. Stopped \in AppStates /\ Stopped.state = "down" /\ Stopped.runtime = "none"
    BY DEF Stopped, AppStates
  <1>5. app' \in [Processes -> AppStates] /\ app'[p] = Stopped /\ \A q \in Processes : q # p => app'[q] = app[q]
    BY <1>2, <1>3, <1>4 DEF TypeOK
  <1>6. \A q \in Processes : q \in mine <=> q = p
    BY <1>1, <1>2 DEF RecordInv, RecordSound
  <1>7. \A b \in Actors : b \notin mine /\ actor[b].pc # "idle" => ProcOf(b) \in Processes /\ ProcOf(b) # p
    BY <1>1, <1>2, DirType DEF ProcOf
  <1>8. \A b \in Actors : actor'[b] = IF b \in mine THEN Idle ELSE actor[b]
    BY <1>3
  <1> HIDE DEF mine
  <1>9. TypeOK'
    <2>1. actor' \in [Actors -> ActorStates]
      BY <1>2, <1>3, IdleSound DEF TypeOK
    <2>2. /\ fileLock' \in [Dirs -> Actors \cup {"none"}] /\ dbLock' \in Actors \cup {"none"}
          /\ installMu' \in [Processes -> Actors \cup {"none"}]
      BY <1>2, <1>3 DEF TypeOK
    <2> QED
      BY <1>2, <1>5, <2>1, <2>2, FaultType DEF TypeOK
  <1>10. RecordInv'
    BY <1>2, <1>8, IdleSound DEF RecordInv
  <1>11. ASSUME NEW b \in Actors
         PROVE  /\ actor'[b].pc \in MutexSteps => installMu'[ProcOf(b)'] = b
                /\ actor'[b].pc \in FileSteps => fileLock'[Dir(b)'] = b
    <2>1. CASE b \in mine
      BY <1>8, <2>1, IdleSound DEF MutexSteps, FileSteps
    <2>2. CASE b \notin mine
      <3>1. actor'[b] = actor[b] /\ ProcOf(b)' = ProcOf(b) /\ Dir(b)' = Dir(b)
        BY <1>8, <2>2 DEF ProcOf, Dir
      <3>2. actor[b].pc \in MutexSteps => installMu'[ProcOf(b)] = b
        <4>1. SUFFICES ASSUME actor[b].pc \in MutexSteps PROVE installMu'[ProcOf(b)] = b
          OBVIOUS
        <4>2. ProcOf(b) \in Processes /\ ProcOf(b) # p
          BY <1>7, <2>2, <4>1 DEF MutexSteps, FileSteps
        <4> QED
          BY <1>2, <1>3, <4>1, <4>2 DEF TypeOK, LockInv
      <3>3. actor[b].pc \in FileSteps => fileLock'[Dir(b)] = b
        <4>1. SUFFICES ASSUME actor[b].pc \in FileSteps PROVE fileLock'[Dir(b)] = b
          OBVIOUS
        <4>2. Dir(b) \in Dirs /\ fileLock[Dir(b)] = b
          BY <1>2, <4>1, DirType DEF FileSteps, LockInv
        <4> QED
          BY <1>3, <2>2, <4>2
      <3> QED
        BY <3>1, <3>2, <3>3
    <2> QED
      BY <2>1, <2>2
  <1>12. LifeInv'
    <2>1. ASSUME NEW q \in Processes
          PROVE  /\ app'[q].state = "down" <=> actor'[q].pc = "idle"
                 /\ app'[q].state = "serving" <=> actor'[q].pc = "serving"
      <3>1. CASE q = p
        BY <1>1, <1>4, <1>5, <1>6, <1>8, <3>1, IdleSound
      <3>2. CASE q # p
        BY <1>1, <1>2, <1>5, <1>6, <1>8, <3>2 DEF LifeInv
      <3> QED
        BY <3>1, <3>2
    <2>2. ASSUME NEW r \in Requests, actor'[r].pc # "idle"
          PROVE  app'[actor'[r].on].state = "serving"
      <3>1. actor'[r] = actor[r] /\ r \notin mine /\ r \in Actors /\ r \notin Processes
        BY <1>1, <1>8, <2>2, IdleSound
      <3>2. actor[r].on \in Processes /\ actor[r].on # p
        BY <1>7, <2>2, <3>1 DEF ProcOf
      <3> QED
        BY <1>2, <1>5, <2>2, <3>1, <3>2 DEF LifeInv
    <2> QED
      BY <2>1, <2>2 DEF LifeInv
  <1>13. ASSUME NEW b \in Actors PROVE Settled(b) /\ ListenKept(b)
    <2>1. CASE b \in mine
      <3>1. actor'[b] = Idle /\ Idle.pc \notin FileSteps /\ Idle.journal.id \notin Ids
        BY <1>8, <2>1, IdleSound, ActorNames DEF FileSteps, NoJournal
      <3> QED
        BY <3>1 DEF Settled, ListenKept
    <2>2. CASE b \notin mine
      <3>1. actor'[b] = actor[b]
        BY <1>8, <2>2
      <3>2. actor[b].pc \in FileSteps => ProcOf(b) \in Processes /\ ProcOf(b) # p
        BY <1>7, <2>2 DEF FileSteps
      <3> QED
        BY <1>5, <3>1, <3>2 DEF Settled, ListenKept
    <2> QED
      BY <2>1, <2>2
  <1>14. \A q \in Processes : RuntimeKept(q)
    BY <1>4, <1>5 DEF RuntimeKept
  <1> QED
    BY <1>9, <1>10, <1>11, <1>12, <1>13, <1>14 DEF Outer, BaseInv, TypeInv, LockInv

LEMMA LoadOuter ==
    ASSUME BaseInv, NEW p \in Processes, Load(p)
    PROVE  Outer
  <1> DEFINE d == disk[DirOf[p]]
             new == [actor[p] EXCEPT !.pc = "serving"]
  <1>1. p \in Actors /\ actor[p].pc = "load"
    BY ActorNames DEF Load, At
  <1>2. TypeOK /\ LifeInv /\ RecordSound(p, actor[p]) /\ p \notin Requests /\ DirOf[p] \in Dirs
    BY <1>1, SetupAssumption DEF BaseInv, TypeInv, RecordInv
  <1>3. UNCHANGED <<disk, users, schema>> /\ (Fault \/ NoFault)
    BY DEF Load, DbUnchanged
  <1>4. ASSUME NEW rec \in AppStates, app' = [app EXCEPT ![p] = rec], Goto(p, "serving"), LocksUnchanged,
               rec.state = "serving",
               rec.runtime # "none" => /\ d.marker /\ rec.runtime = d.env
                                       /\ rec.listening <=> p \in OmniConfigured
        PROVE  Outer
    <2>1. "serving" \in Steps
      BY DEF Steps
    <2>2. actor' = [actor EXCEPT ![p] = new]
      BY <1>1, <1>2, <1>4 DEF Goto, TypeOK
    <2>3. /\ new \in ActorStates /\ new.pc = "serving" /\ new.on = actor[p].on /\ new.stage = actor[p].stage
          /\ new.mode = actor[p].mode /\ new.journal = actor[p].journal
      BY <1>1, <1>2, <2>1 DEF TypeOK, ActorStates
    <2> HIDE DEF new
    <2>4. RecordSound(p, new)
      BY <1>1, <1>2, <2>3 DEF RecordSound, InstallSteps, AttemptSteps, UndoSteps, CompensationSteps
    <2>5. OuterFrame /\ UNCHANGED <<fileLock, installMu>>
      BY <1>2, <1>3, <1>4, FaultType DEF OuterFrame, LocksTyped, TypeOK, LocksUnchanged
    <2>6. app[p].state # "serving" /\ actor[p].pc \notin FileSteps
      BY <1>1, <1>2 DEF LifeInv, FileSteps
    <2> QED
      BY <1>4, <2>2, <2>3, <2>4, <2>5, <2>6, ProcessOuter
  <1>5. CASE Vanish(p)
    BY <1>3, <1>5, VanishOuter
  <1>6. d.env \in Configs
    BY <1>2 DEF TypeOK, Disks
  <1>7. CASE /\ app' = [app EXCEPT ![p] = [Stopped EXCEPT !.state = "serving", !.recoveryNeeded = TRUE]]
             /\ Goto(p, "serving") /\ LocksUnchanged
    <2> DEFINE rec == [Stopped EXCEPT !.state = "serving", !.recoveryNeeded = TRUE]
    <2>1. rec \in AppStates /\ rec.state = "serving" /\ rec.runtime = "none"
      BY DEF Stopped, AppStates
    <2> HIDE DEF rec
    <2>2. app' = [app EXCEPT ![p] = rec]
      BY <1>7 DEF rec
    <2> QED
      BY <1>4, <1>7, <2>1, <2>2
  <1>8. CASE /\ app' = [app EXCEPT ![p] = [Stopped EXCEPT !.state = "serving"]]
             /\ Goto(p, "serving") /\ LocksUnchanged
    <2> DEFINE rec == [Stopped EXCEPT !.state = "serving"]
    <2>1. rec \in AppStates /\ rec.state = "serving" /\ rec.runtime = "none"
      BY DEF Stopped, AppStates
    <2> HIDE DEF rec
    <2>2. app' = [app EXCEPT ![p] = rec]
      BY <1>8 DEF rec
    <2> QED
      BY <1>4, <1>8, <2>1, <2>2
  <1>9. CASE /\ d.marker /\ Configured(DirOf[p])
             /\ app' = [app EXCEPT ![p] = [Stopped EXCEPT !.state = "serving", !.runtime = d.env, !.workers = TRUE,
                                                          !.listening = p \in OmniConfigured]]
             /\ Goto(p, "serving") /\ LocksUnchanged
    <2> DEFINE x == p \in OmniConfigured
               rec == [Stopped EXCEPT !.state = "serving", !.runtime = d.env, !.workers = TRUE, !.listening = x]
    <2>1. d.env \in Ids /\ x \in BOOLEAN /\ app' = [app EXCEPT ![p] = rec]
      BY <1>9 DEF Configured
    <2> HIDE DEF x
    <2>2. rec \in AppStates /\ rec.state = "serving" /\ rec.runtime = d.env /\ rec.listening = x
      BY <2>1 DEF Stopped, AppStates
    <2> HIDE DEF rec
    <2>3. rec.listening <=> p \in OmniConfigured
      BY <2>2 DEF x
    <2> QED
      BY <1>4, <1>9, <2>1, <2>2, <2>3
  <1> QED
    BY <1>5, <1>7, <1>8, <1>9 DEF Load

\* No actor moves, and no process changes its state.
LEMMA StillOuter ==
    ASSUME BaseInv, UNCHANGED <<disk, users, schema, fileLock, installMu, actor>>,
           dbLock' \in Actors \cup {"none"}, Fault \/ NoFault, app' \in [Processes -> AppStates],
           \A p \in Processes : app'[p].state = app[p].state /\ RuntimeKept(p),
           \A b \in Actors : ListenKept(b)
    PROVE  Outer
  <1>1. TypeOK /\ LockInv /\ LifeInv /\ RecordInv
    BY DEF BaseInv, TypeInv
  <1>2. TypeInv'
    BY <1>1, FaultType DEF TypeInv, TypeOK, RecordInv
  <1>3. LockInv'
    BY <1>1 DEF LockInv, ProcOf, Dir
  <1>4. LifeInv'
    <2>1. \A r \in Requests : actor[r].pc # "idle" => actor[r].on \in Processes
      BY <1>1 DEF RecordInv, RecordSound, Actors
    <2> QED
      BY <1>1, <2>1 DEF LifeInv
  <1>5. \A b \in Actors : Settled(b)
    BY DEF Settled
  <1> QED
    BY <1>2, <1>3, <1>4, <1>5 DEF Outer, BaseInv

LEMMA RuntimeFailsOuter ==
    ASSUME BaseInv, NEW p \in Processes, RuntimeFails(p)
    PROVE  Outer
  <1> DEFINE new == [app[p] EXCEPT !.failed = TRUE, !.fatal = TRUE]
  <1>1. TypeOK /\ TypeInv
    BY DEF BaseInv, TypeInv
  <1>2. new \in AppStates /\ new.state = app[p].state /\ new.runtime = app[p].runtime /\ new.listening = app[p].listening
    BY <1>1 DEF TypeOK, AppStates
  <1>3. /\ app' = [app EXCEPT ![p] = new] /\ UNCHANGED <<disk, users, schema, dbLock, fileLock, installMu, actor>>
        /\ Fault
    BY <1>1 DEF RuntimeFails, DbUnchanged, LocksUnchanged, TypeOK, AppStates
  <1> HIDE DEF new
  <1>4. /\ app' \in [Processes -> AppStates]
        /\ \A q \in Processes : /\ app'[q].state = app[q].state /\ app'[q].runtime = app[q].runtime
                                /\ app'[q].listening = app[q].listening
    BY <1>1, <1>2, <1>3 DEF TypeOK
  <1>5. \A q \in Processes : app'[q].state = app[q].state /\ RuntimeKept(q)
    BY <1>4 DEF RuntimeKept
  <1>6. ASSUME NEW b \in Actors PROVE ListenKept(b)
    <2>1. actor[b].pc \in FileSteps => ProcOf(b) \in Processes
      BY <1>1, DirType DEF FileSteps
    <2> QED
      BY <1>4, <2>1 DEF ListenKept
  <1>7. dbLock' \in Actors \cup {"none"}
    BY <1>1, <1>3 DEF TypeOK
  <1> QED
    BY <1>3, <1>4, <1>5, <1>6, <1>7, StillOuter

LEMMA CollectOuter ==
    ASSUME BaseInv, NEW p \in Processes, Collect(p)
    PROVE  Outer
  <1> DEFINE new == [app[p] EXCEPT !.listening = FALSE]
  <1>1. TypeOK /\ TypeInv /\ RecordInv
    BY DEF BaseInv, TypeInv
  <1>2. new \in AppStates /\ new.state = app[p].state /\ new.runtime = app[p].runtime
    BY <1>1 DEF TypeOK, AppStates
  <1>3. /\ app' = [app EXCEPT ![p] = new] /\ UNCHANGED <<disk, users, schema, dbLock, fileLock, installMu, actor>>
        /\ NoFault /\ app[p].runtime = "none" /\ \A a \in Actors : actor[a].stage = "install" => actor[a].on # p
    BY <1>1 DEF Collect, DbUnchanged, LocksUnchanged, TypeOK
  <1> HIDE DEF new
  <1>4. app' \in [Processes -> AppStates] /\ app'[p] = new /\ \A q \in Processes : q # p => app'[q] = app[q]
    BY <1>1, <1>2, <1>3 DEF TypeOK
  <1>5. \A q \in Processes : app'[q].state = app[q].state /\ RuntimeKept(q)
    BY <1>2, <1>3, <1>4 DEF RuntimeKept
  <1>6. ASSUME NEW b \in Actors PROVE ListenKept(b)
    <2>1. SUFFICES ASSUME actor[b].pc \in FileSteps, actor[b].stage = "install"
                   PROVE  app'[ProcOf(b)] = app[ProcOf(b)]
      BY DEF ListenKept
    <2>2. actor[b].pc # "idle" /\ ProcOf(b) \in Processes
      BY <1>1, <2>1, DirType DEF FileSteps
    <2>3. b \notin Processes
      BY <1>1, <2>1, <2>2 DEF RecordInv, RecordSound
    <2>4. ProcOf(b) # p
      BY <1>3, <2>1, <2>3 DEF ProcOf
    <2> QED
      BY <1>4, <2>2, <2>4
  <1>7. dbLock' \in Actors \cup {"none"}
    BY <1>1, <1>3 DEF TypeOK
  <1> QED
    BY <1>3, <1>4, <1>5, <1>6, <1>7, StillOuter

\* The advisory lock is lost; or nothing happens.
LEMMA LockLostOuter ==
    ASSUME BaseInv, LoseDatabaseLock \/ UNCHANGED vars
    PROVE  Outer
  <1>1. TypeOK
    BY DEF BaseInv, TypeInv
  <1>2. /\ UNCHANGED <<disk, users, schema, fileLock, installMu, app, actor>> /\ dbLock' \in Actors \cup {"none"}
        /\ Fault \/ NoFault
    BY <1>1 DEF LoseDatabaseLock, vars, DbUnchanged, NoFault, TypeOK
  <1>3. app' \in [Processes -> AppStates] /\ \A p \in Processes : app'[p].state = app[p].state /\ RuntimeKept(p)
    BY <1>1, <1>2 DEF TypeOK, RuntimeKept
  <1>4. \A b \in Actors : ListenKept(b)
    BY <1>2 DEF ListenKept
  <1> QED
    BY <1>2, <1>3, <1>4, StillOuter

LEMMA OuterSteps ==
    ASSUME BaseInv, [Next]_vars
    PROVE  Outer \/ \E a \in Actors : InnerStep(a)
  <1>1. CASE UNCHANGED vars \/ LoseDatabaseLock
    BY <1>1, LockLostOuter
  <1>2. ASSUME NEW p \in Processes,
               Boot(p) \/ Load(p) \/ RuntimeFails(p) \/ Shutdown(p) \/ Restart(p) \/ Crash(p) \/ Collect(p)
        PROVE  Outer
    <2>1. CASE Shutdown(p) \/ Restart(p) \/ Crash(p)
      <3>1. Vanish(p) /\ UNCHANGED <<disk, users, schema>> /\ (Fault \/ NoFault)
        BY <2>1 DEF Shutdown, Restart, Crash, DbUnchanged
      <3> QED
        BY <3>1, VanishOuter
    <2> QED
      BY <1>2, <2>1, BootOuter, LoadOuter, RuntimeFailsOuter, CollectOuter
  <1>3. ASSUME NEW r \in Requests,
               (\E p \in Processes : Arrive(r, p)) \/ ClearRecoveryNeeded(r) \/ CheckAllowed(r)
        PROVE  Outer
    BY <1>3, ArriveOuter, ClearRecoveryNeededOuter, CheckAllowedOuter
  <1>4. ASSUME NEW a \in Actors, ActorStep(a)
        PROVE  Outer \/ InnerStep(a)
    BY <1>4, TakeMutexOuter, TakeFileLockOuter, ReleaseFileOuter, ActivateOuter, LeaveOuter
    DEF ActorStep, InstallStep, InnerStep
  <1> QED
    BY <1>1, <1>2, <1>3, <1>4 DEF Next

-----------------------------------------------------------------------------
\* A step under the flock keeps the types, the locks and the lives of the processes.
LEMMA InnerBase ==
    ASSUME BaseInv, NEW a \in Actors, Inner(a)
    PROVE  BaseInv' /\ \A b \in Actors : ProcOf(b)' = ProcOf(b) /\ Dir(b)' = Dir(b)
  <1>1. TypeOK /\ LockInv /\ LifeInv /\ RecordInv /\ Actors = Processes \cup Requests
    BY ActorNames DEF BaseInv, TypeInv
  <1>2. /\ actor' \in [Actors -> ActorStates] /\ \A b \in Actors : b # a => actor'[b] = actor[b]
        /\ actor[a].pc \in FileSteps /\ actor'[a].pc \in FileSteps \cup {"leave"}
        /\ actor'[a].on = actor[a].on /\ RecordSound(a, actor'[a])
    BY DEF Inner, ActorPart
  <1>3. TypeInv'
    BY <1>1, <1>2 DEF TypeInv, TypeOK, RecordInv, Inner, DiskPart, DbPart, LockPart, AppPart
  <1>4. \A b \in Actors : ProcOf(b)' = ProcOf(b) /\ Dir(b)' = Dir(b)
    BY <1>2 DEF ProcOf, Dir
  <1>5. \A b \in Actors : /\ actor'[b].pc \in MutexSteps => actor[b].pc \in MutexSteps
                          /\ actor'[b].pc \in FileSteps => actor[b].pc \in FileSteps
    BY <1>2 DEF MutexSteps
  <1>6. LockInv'
    BY <1>1, <1>4, <1>5 DEF LockInv, Inner, LockPart
  <1>7. actor[a].pc \notin {"idle", "serving"} /\ actor'[a].pc \notin {"idle", "serving"}
    BY <1>2 DEF FileSteps
  <1>8. LifeInv'
    <2>1. \A p \in Processes : app'[p].state = app[p].state
      BY DEF Inner, AppPart
    <2>2. \A r \in Requests : actor'[r].pc # "idle" => /\ actor[r].pc # "idle" /\ actor'[r].on = actor[r].on
                                                       /\ actor[r].on \in Processes
      BY <1>1, <1>2, <1>7 DEF RecordInv, RecordSound
    <2>3. \A p \in Processes : /\ actor'[p].pc = "idle" <=> actor[p].pc = "idle"
                               /\ actor'[p].pc = "serving" <=> actor[p].pc = "serving"
      BY <1>1, <1>2, <1>7
    <2> QED
      BY <1>1, <2>1, <2>2, <2>3 DEF LifeInv
  <1> QED
    BY <1>3, <1>4, <1>6, <1>8 DEF BaseInv

LEMMA BaseInitially == Init => BaseInv
  <1> SUFFICES ASSUME Init PROVE BaseInv
    OBVIOUS
  <1>1. Stopped \in AppStates /\ Stopped.state = "down"
    BY DEF Stopped, AppStates
  <1>2. \A d \in Dirs : [env |-> Prior[d], marker |-> FALSE, journal |-> NoJournal, backups |-> {}] \in Disks
    BY SetupAssumption DEF Disks, Configs, Journals
  <1>3. TypeOK
    <2>1. disk \in [Dirs -> Disks]
      BY <1>2 DEF Init
    <2>2. actor \in [Actors -> ActorStates] /\ app \in [Processes -> AppStates]
      BY <1>1, IdleSound DEF Init
    <2> QED
      BY <2>1, <2>2, SetupAssumption DEF Init, TypeOK
  <1>4. \A a \in Actors : actor[a] = Idle
    BY DEF Init
  <1>5. RecordInv
    BY <1>4, IdleSound DEF RecordInv
  <1>6. LockInv
    BY <1>4, IdleSound DEF LockInv, MutexSteps, FileSteps
  <1>7. LifeInv
    BY <1>1, <1>4, IdleSound, ActorNames DEF LifeInv, Init
  <1> QED
    BY <1>3, <1>5, <1>6, <1>7 DEF BaseInv, TypeInv

LEMMA BaseStep == BaseInv /\ [Next]_vars => BaseInv'
  <1> SUFFICES ASSUME BaseInv, [Next]_vars PROVE BaseInv'
    OBVIOUS
  <1>1. ASSUME NEW a \in Actors, InnerStep(a) PROVE BaseInv'
    BY <1>1, InnerSteps, InnerBase DEF BaseInv
  <1> QED
    BY <1>1, OuterSteps DEF Outer

\* THEOREM.  Whatever crashes, failed writes and lost sessions happen, the directories, the
\* database, the three kinds of locks and the goroutines of performInstall and
\* recoverInstallation keep their types, and a migration is applied only once.
THEOREM SetupTypeCorrect == Spec => []TypeOK
  <1>1. BaseInv => TypeOK
    BY DEF BaseInv, TypeInv
  <1> QED
    BY <1>1, BaseInitially, BaseStep, PTL DEF Spec

-----------------------------------------------------------------------------
(* The whole invariant, when no marker stays behind that createInstallLock reports as failed. *)

\* Who is not installing does not depend on the listeners.
LEMMA BoundIrrelevant ==
    ASSUME NEW a \in Actors, NEW r, RecordSound(a, r), NEW d, NEW prior, NEW us, NEW done, NEW bound, NEW bound2,
           StepSound(r, d, prior, us, done, bound), r.stage = "install" => (bound => bound2)
    PROVE  StepSound(r, d, prior, us, done, bound2)
  <1>1. r.mode = "commit" => r.stage = "install"
    BY DEF RecordSound
  <1>2. r.pc \in AttemptSteps => r.stage = "install"
    BY DEF RecordSound, InstallSteps
  <1> QED
    BY <1>1, <1>2 DEF StepSound

\* Another directory's installation adds its own administrator to none, or removes its own.
LEMMA UsersIrrelevant ==
    ASSUME NEW r, NEW d, NEW prior, NEW us, NEW done, NEW bound, NEW us2, NEW done2,
           StepSound(r, d, prior, us, done, bound), done => done2,
           r.journal.id \notin us => r.journal.id \notin us2, us = {r.journal.id} => us2 = us
    PROVE  StepSound(r, d, prior, us2, done2, bound)
  BY DEF StepSound

LEMMA OuterKeeps ==
    ASSUME SetupInv, Outer
    PROVE  SetupInv'
  <1>1. /\ TypeOK /\ RecordInv /\ StepInv /\ DiskInv /\ ClaimInv /\ AdminAccounted /\ RuntimeInv
        /\ UNCHANGED <<disk, users, schema>> /\ BaseInv' /\ TypeInv
    BY DEF SetupInv, TypeInv, Outer
  <1>2. \A b \in Actors : Settled(b) /\ ListenKept(b)
    BY DEF Outer
  <1>3. Complete' = Complete
    BY <1>1 DEF Complete
  <1>4. StepInv'
    <2>1. SUFFICES ASSUME NEW b \in Actors, actor'[b].pc \in FileSteps
                   PROVE  StepSound(actor'[b], disk'[Dir(b)'], Prior[Dir(b)'], users', Complete', Bound(app', ProcOf(b)'))
      BY DEF StepInv
    <2>2. CASE actor'[b] = actor[b]
      <3>1. ProcOf(b)' = ProcOf(b) /\ Dir(b)' = Dir(b) /\ RecordSound(b, actor[b])
        BY <1>1, <2>2 DEF ProcOf, Dir, RecordInv
      <3>2. actor[b].stage = "install" => (Bound(app, ProcOf(b)) => Bound(app', ProcOf(b)))
        BY <1>2, <2>1, <2>2 DEF ListenKept, Bound
      <3>3. StepSound(actor[b], disk[Dir(b)], Prior[Dir(b)], users, Complete, Bound(app, ProcOf(b)))
        BY <1>1, <2>1, <2>2 DEF StepInv
      <3>4. StepSound(actor[b], disk[Dir(b)], Prior[Dir(b)], users, Complete, Bound(app', ProcOf(b)))
        BY <3>1, <3>2, <3>3, BoundIrrelevant
      <3> QED
        BY <1>1, <1>3, <2>2, <3>1, <3>4
    <2>3. CASE actor'[b] # actor[b]
      <3>1. actor'[b].pc = "recover"
        BY <1>2, <2>1, <2>3 DEF Settled
      <3> QED
        BY <3>1 DEF StepSound, AttemptSteps
    <2> QED
      BY <2>2, <2>3
  <1>5. DiskInv' /\ AdminAccounted'
    BY <1>1, <1>3 DEF DiskInv, AdminAccounted
  <1>6. ClaimInv'
    <2>1. ASSUME NEW i \in Ids, NEW d \in Dirs, Claims(d, i)' PROVE Claims(d, i)
      <3>1. CASE disk'[d].env = i \/ disk'[d].journal.id = i
        BY <1>1, <3>1 DEF Claims
      <3>2. ASSUME NEW a \in Actors, ProcOf(a)' \in Processes, Dir(a)' = d, actor'[a].journal.id = i
            PROVE  Claims(d, i)
        <4>1. actor'[a].journal.id = actor[a].journal.id /\ actor'[a].on = actor[a].on
          BY <1>2, <2>1, <3>2 DEF Settled
        <4>2. ProcOf(a)' = ProcOf(a) /\ Dir(a)' = Dir(a)
          BY <4>1 DEF ProcOf, Dir
        <4> QED
          BY <3>2, <4>1, <4>2 DEF Claims
      <3> QED
        BY <2>1, <3>1, <3>2 DEF Claims
    <2> QED
      BY <1>1, <2>1 DEF ClaimInv
  <1>7. RuntimeInv'
    <2>1. SUFFICES ASSUME NEW p \in Processes, app'[p].runtime # "none"
                   PROVE  disk'[DirOf[p]].marker /\ disk'[DirOf[p]].env = app'[p].runtime /\ Bound(app', p)
      BY DEF RuntimeInv, Bound
    <2>2. \/ app'[p].runtime = app[p].runtime /\ app'[p].listening = app[p].listening
          \/ disk[DirOf[p]].marker /\ app'[p].runtime = disk[DirOf[p]].env /\ Bound(app', p)
      BY <2>1 DEF Outer, RuntimeKept
    <2> QED
      BY <1>1, <2>1, <2>2 DEF RuntimeInv, Bound
  <1> QED
    BY <1>1, <1>4, <1>5, <1>6, <1>7 DEF SetupInv, BaseInv

\* What a step under the flock does to the administrators and to the process's runtime.
UsersPart(a) ==
    \/ users' = users
    \/ actor[a].pc = "undo_admin" /\ users' = users \ {actor[a].journal.id}
    \/ actor[a].pc = "insert" /\ users = {} /\ users' = {actor[a].journal.id}

RuntimePart(a) ==
    LET p == ProcOf(a) IN
    \/ app' = app
    \/ actor[a].pc = "publish" /\ app'[p].runtime = actor[a].journal.id /\ app'[p].listening = app[p].listening
    \/ actor[a].pc = "build" /\ app'[p].runtime = app[p].runtime

LEMMA UsersChange ==
    ASSUME NEW a \in Actors, InnerStep(a)
    PROVE  UsersPart(a)
  <1>1. CASE UndoAdmin(a)
    BY <1>1 DEF UndoAdmin, At, UsersPart
  <1>2. CASE InsertAdmin(a)
    BY <1>2 DEF InsertAdmin, At, UsersPart
  <1>3. CASE ~UndoAdmin(a) /\ ~InsertAdmin(a)
    <2>1. users' = users
      <3>1. CASE RecoveryStep(a)
        BY <1>3, <3>1 DEF RecoveryStep, DbUnchanged, Recover, RecoverLock, UndoAdminMark, UndoConfig,
              UndoConfigMark, CleanBackup, CleanJournal, FileStep
      <3>2. CASE Allowed(a) \/ Connect(a) \/ Migrate(a) \/ EnsureUsersEmpty(a) \/ BuildRuntime(a)
        BY <3>2 DEF DbUnchanged, Allowed, Connect, Migrate, EnsureUsersEmpty, BuildRuntime
      <3>3. CASE WriteBackup(a) \/ PrepareJournal(a) \/ WriteEnv(a) \/ MarkAdminPending(a) \/ WriteMarker(a)
        BY <3>3 DEF DbUnchanged, WriteBackup, PrepareJournal, WriteEnv, MarkAdminPending, WriteMarker, FileStep
      <3>4. CASE CountUsers(a) \/ VerifyLocks(a) \/ Publish(a) \/ ReleaseDatabase(a)
        BY <3>4 DEF DbUnchanged, CountUsers, VerifyLocks, Publish, ReleaseDatabase
      <3> QED
        BY <1>3, <3>1, <3>2, <3>3, <3>4 DEF InnerStep
    <2> QED
      BY <2>1 DEF UsersPart
  <1> QED
    BY <1>1, <1>2, <1>3

LEMMA RuntimeChange ==
    ASSUME TypeInv, NEW a \in Actors, InnerStep(a)
    PROVE  RuntimePart(a)
  <1>1. CASE Publish(a)
    BY <1>1, PublishEffect DEF RuntimePart, Publish, At
  <1>2. CASE BuildRuntime(a)
    <2>1. actor[a].pc = "build" /\ actor[a].pc # "idle"
      BY <1>2 DEF BuildRuntime, At
    <2>2. ProcOf(a) \in Processes /\ TypeOK
      BY <2>1, DirType DEF TypeInv
    <2>3. CASE app' = app
      BY <2>3 DEF RuntimePart
    <2>4. CASE app' = [app EXCEPT ![ProcOf(a)].listening = ProcOf(a) \in OmniConfigured]
      BY <2>1, <2>2, <2>4 DEF RuntimePart, TypeOK, AppStates
    <2> QED
      BY <1>2, <2>3, <2>4 DEF BuildRuntime
  <1>3. CASE ~Publish(a) /\ ~BuildRuntime(a)
    <2>1. app' = app
      <3>1. CASE RecoveryStep(a)
        BY <3>1 DEF RecoveryStep, Recover, RecoverLock, UndoAdmin, UndoAdminMark, UndoConfig,
              UndoConfigMark, CleanBackup, CleanJournal, FileStep
      <3>2. CASE Allowed(a) \/ Connect(a) \/ Migrate(a) \/ EnsureUsersEmpty(a)
        BY <3>2 DEF Allowed, Connect, Migrate, EnsureUsersEmpty
      <3>3. CASE WriteBackup(a) \/ PrepareJournal(a) \/ WriteEnv(a) \/ MarkAdminPending(a) \/ WriteMarker(a)
        BY <3>3 DEF WriteBackup, PrepareJournal, WriteEnv, MarkAdminPending, WriteMarker, FileStep
      <3>4. CASE CountUsers(a) \/ InsertAdmin(a) \/ VerifyLocks(a) \/ ReleaseDatabase(a)
        BY <3>4 DEF CountUsers, InsertAdmin, VerifyLocks, ReleaseDatabase
      <3> QED
        BY <1>3, <3>1, <3>2, <3>3, <3>4 DEF InnerStep
    <2> QED
      BY <2>1 DEF RuntimePart
  <1> QED
    BY <1>1, <1>2, <1>3

\* The actor under the flock, and what is already known of its step.
InnerFacts(a) ==
    /\ SetupInv /\ Inner(a) /\ Outcome(a) /\ UsersPart(a) /\ RuntimePart(a)
    /\ BaseInv' /\ (\A b \in Actors : ProcOf(b)' = ProcOf(b) /\ Dir(b)' = Dir(b))

LEMMA InnerGathered ==
    ASSUME MarkerAtomic, SetupInv, NEW a \in Actors, InnerStep(a)
    PROVE  InnerFacts(a)
  <1>1. BaseInv /\ TypeInv /\ StepInv /\ DiskInv
    BY DEF SetupInv, BaseInv
  <1>2. Inner(a) /\ (Sound(a) => Outcome(a))
    BY <1>1, InnerSteps
  <1>3. actor[a].pc \in FileSteps
    BY <1>2 DEF Inner, ActorPart
  <1>4. Dir(a) \in Dirs
    BY <1>1, <1>3, DirType DEF FileSteps
  <1>5. Sound(a)
    BY <1>1, <1>3, <1>4 DEF Sound, StepInv, DiskInv
  <1>6. UsersPart(a) /\ RuntimePart(a)
    BY <1>1, UsersChange, RuntimeChange
  <1> QED
    BY <1>1, <1>2, <1>5, <1>6, InnerBase DEF InnerFacts

\* The ids of another directory are not the ones a works with.
LEMMA OwnId ==
    ASSUME SetupInv, NEW a \in Actors, actor[a].pc \in FileSteps
    PROVE  /\ Dir(a) \in Dirs /\ ProcOf(a) \in Processes /\ fileLock[Dir(a)] = a
           /\ \A e \in Dirs : \A i \in Ids : e # Dir(a) /\ Claims(e, i) => i # actor[a].journal.id
  <1>1. TypeInv /\ LockInv /\ ClaimInv
    BY DEF SetupInv
  <1>2. Dir(a) \in Dirs /\ ProcOf(a) \in Processes
    BY <1>1, DirType DEF FileSteps
  <1>3. Claims(Dir(a), actor[a].journal.id)
    BY <1>2 DEF Claims
  <1> QED
    BY <1>1, <1>2, <1>3 DEF ClaimInv, LockInv

LEMMA InnerKeepsSteps ==
    ASSUME NEW a \in Actors, InnerFacts(a)
    PROVE  StepInv' /\ DiskInv'
  <1>1. /\ SetupInv /\ Inner(a) /\ Outcome(a) /\ UsersPart(a)
        /\ \A b \in Actors : ProcOf(b)' = ProcOf(b) /\ Dir(b)' = Dir(b)
    BY DEF InnerFacts
  <1>2. TypeInv /\ TypeOK /\ LockInv /\ StepInv /\ DiskInv
    BY <1>1 DEF SetupInv, TypeInv
  <1>3. /\ actor[a].pc \in FileSteps /\ \A b \in Actors : b # a => actor'[b] = actor[b]
        /\ \A e \in Dirs : e # Dir(a) => disk'[e] = disk[e]
        /\ Complete => schema' = Migrations
        /\ \A p \in Processes : p # ProcOf(a) => app'[p] = app[p]
    BY <1>1 DEF Inner, ActorPart, DiskPart, DbPart, AppPart
  <1>4. /\ Dir(a) \in Dirs /\ ProcOf(a) \in Processes /\ fileLock[Dir(a)] = a
        /\ \A e \in Dirs : \A i \in Ids : e # Dir(a) /\ Claims(e, i) => i # actor[a].journal.id
    BY <1>1, <1>3, OwnId
  <1>5. Complete' <=> schema' = Migrations
    BY DEF Complete
  <1>6. StepInv'
    <2>1. SUFFICES ASSUME NEW b \in Actors, actor'[b].pc \in FileSteps
                   PROVE  StepSound(actor'[b], disk'[Dir(b)'], Prior[Dir(b)'], users', Complete', Bound(app', ProcOf(b)'))
      BY DEF StepInv
    <2>2. CASE b = a
      <3>1. StepSound(actor'[a], disk'[Dir(a)], Prior[Dir(a)], users', schema' = Migrations, Bound(app', ProcOf(a)))
        BY <1>1 DEF Outcome
      <3> QED
        BY <1>1, <2>2, <3>1 DEF Complete
    <2>3. CASE b # a
      <3> DEFINE i == actor[b].journal.id
      <3>1. actor'[b] = actor[b] /\ actor[b].pc \in FileSteps
        BY <1>3, <2>1, <2>3
      <3>2. Dir(b) \in Dirs /\ ProcOf(b) \in Processes /\ fileLock[Dir(b)] = b
        BY <1>1, <3>1, OwnId
      <3>3. Dir(b) # Dir(a) /\ ProcOf(b) # ProcOf(a)
        BY <1>4, <2>3, <3>2 DEF Dir
      <3>4. disk'[Dir(b)] = disk[Dir(b)] /\ app'[ProcOf(b)] = app[ProcOf(b)]
        BY <1>3, <3>2, <3>3
      <3>5. StepSound(actor[b], disk[Dir(b)], Prior[Dir(b)], users, Complete, Bound(app, ProcOf(b)))
        BY <1>2, <3>1 DEF StepInv
      <3>6. Claims(Dir(b), i)
        BY <3>2 DEF Claims
      <3>7. i \in Ids => i # actor[a].journal.id
        BY <1>4, <3>2, <3>3, <3>6
      <3>8. i \in users => i \in Ids
        BY <1>2 DEF TypeOK
      <3>9. i \notin users => i \notin users'
        <4>1. users' \subseteq Ids
          BY <1>1 DEF Inner, DbPart
        <4> QED
          BY <1>1, <3>7, <4>1 DEF UsersPart
      <3>10. users = {i} => users' = users
        BY <1>1, <3>7, <3>8 DEF UsersPart
      <3>11. StepSound(actor[b], disk[Dir(b)], Prior[Dir(b)], users', Complete', Bound(app, ProcOf(b)))
        BY <1>3, <1>5, <3>5, <3>9, <3>10, UsersIrrelevant
      <3>12. Bound(app', ProcOf(b)) = Bound(app, ProcOf(b))
        BY <3>4 DEF Bound
      <3> QED
        BY <1>1, <3>1, <3>4, <3>11, <3>12
    <2> QED
      BY <2>2, <2>3
  <1>7. DiskInv'
    <2>1. SUFFICES ASSUME NEW e \in Dirs PROVE DiskSound(disk'[e], Prior[e], users', Complete')
      BY DEF DiskInv
    <2>2. CASE e = Dir(a)
      <3>1. DiskSound(disk'[Dir(a)], Prior[Dir(a)], users', schema' = Migrations)
        BY <1>1 DEF Outcome
      <3> QED
        BY <2>2, <3>1 DEF Complete
    <2>3. CASE e # Dir(a)
      <3>1. disk'[e] = disk[e] /\ DiskSound(disk[e], Prior[e], users, Complete)
        BY <1>2, <1>3, <2>3 DEF DiskInv
      <3>2. disk[e].marker => disk[e].env \in Ids /\ users = {disk[e].env} /\ Complete
        BY <3>1 DEF DiskSound
      <3>3. disk[e].marker => disk[e].env # actor[a].journal.id
        BY <1>4, <2>3, <3>2 DEF Claims
      <3>4. disk[e].marker => users' = {disk[e].env} /\ Complete'
        BY <1>1, <1>3, <1>5, <3>2, <3>3 DEF UsersPart
      <3> QED
        BY <3>1, <3>2, <3>4 DEF DiskSound
    <2> QED
      BY <2>2, <2>3
  <1> QED
    BY <1>6, <1>7

LEMMA InnerKeepsClaims ==
    ASSUME NEW a \in Actors, InnerFacts(a)
    PROVE  ClaimInv'
  <1>1. /\ SetupInv /\ Inner(a) /\ Outcome(a)
        /\ \A b \in Actors : ProcOf(b)' = ProcOf(b) /\ Dir(b)' = Dir(b)
    BY DEF InnerFacts
  <1>2. TypeInv /\ TypeOK /\ ClaimInv
    BY <1>1 DEF SetupInv, TypeInv
  <1>3. /\ actor[a].pc \in FileSteps /\ \A b \in Actors : b # a => actor'[b] = actor[b]
        /\ \A e \in Dirs : e # Dir(a) => disk'[e] = disk[e]
    BY <1>1 DEF Inner, ActorPart, DiskPart
  <1>4. Dir(a) \in Dirs /\ ProcOf(a) \in Processes
    BY <1>1, <1>3, OwnId
  <1>5. Handed(actor[a], actor'[a], disk[Dir(a)], disk'[Dir(a)], Prior[Dir(a)], users')
    BY <1>1 DEF Outcome
  <1>6. Prior[Dir(a)] \notin Ids /\ "none" \notin Ids
    BY <1>4, SetupAssumption
  <1>7. ASSUME NEW d \in Dirs, NEW i \in Ids, Claims(d, i) PROVE i \in UsedIds
    BY <1>7 DEF Claims, UsedIds
  <1>8. ASSUME NEW d \in Dirs, NEW i \in Ids, Claims(d, i)'
        PROVE  Claims(d, i) \/ (d = Dir(a) /\ i \notin UsedIds)
    <2>1. CASE d # Dir(a)
      <3>1. disk'[d] = disk[d]
        BY <1>3, <2>1
      <3>2. ASSUME NEW b \in Actors, ProcOf(b)' \in Processes, Dir(b)' = d, actor'[b].journal.id = i
            PROVE  Claims(d, i)
        <4>1. b # a /\ ProcOf(b) \in Processes /\ Dir(b) = d
          BY <1>1, <2>1, <3>2
        <4> QED
          BY <1>3, <3>2, <4>1 DEF Claims
      <3> QED
        BY <1>8, <3>1, <3>2 DEF Claims
    <2>2. CASE d = Dir(a)
      <3>1. Claims(d, actor[a].journal.id) /\ Claims(d, disk[d].journal.id) /\ Claims(d, disk[d].env)
        BY <1>4, <2>2 DEF Claims
      <3>2. CASE disk'[d].env = i
        BY <1>5, <1>6, <2>2, <3>1, <3>2 DEF Handed
      <3>3. CASE disk'[d].journal.id = i
        BY <1>5, <1>6, <2>2, <3>1, <3>3 DEF Handed
      <3>4. ASSUME NEW b \in Actors, ProcOf(b)' \in Processes, Dir(b)' = d, actor'[b].journal.id = i
            PROVE  Claims(d, i) \/ i \notin UsedIds
        <4>1. CASE b = a
          BY <1>5, <2>2, <3>1, <3>4, <4>1 DEF Handed
        <4>2. CASE b # a
          BY <1>1, <1>3, <3>4, <4>2 DEF Claims
        <4> QED
          BY <4>1, <4>2
      <3> QED
        BY <1>8, <2>2, <3>2, <3>3, <3>4 DEF Claims
    <2> QED
      BY <2>1, <2>2
  <1>9. ASSUME NEW i \in Ids, NEW d \in Dirs, NEW e \in Dirs, Claims(d, i)', Claims(e, i)' PROVE d = e
    <2>1. Claims(d, i) \/ (d = Dir(a) /\ i \notin UsedIds)
      BY <1>8, <1>9
    <2>2. Claims(e, i) \/ (e = Dir(a) /\ i \notin UsedIds)
      BY <1>8, <1>9
    <2> QED
      BY <1>2, <1>7, <2>1, <2>2 DEF ClaimInv
  <1> QED
    BY <1>9 DEF ClaimInv

LEMMA InnerKeepsAdmin ==
    ASSUME NEW a \in Actors, InnerFacts(a)
    PROVE  AdminAccounted'
  <1>1. SetupInv /\ Inner(a) /\ Outcome(a) /\ UsersPart(a)
    BY DEF InnerFacts
  <1>2. TypeInv /\ TypeOK /\ StepInv /\ AdminAccounted /\ RecordInv
    BY <1>1 DEF SetupInv, TypeInv
  <1>3. actor[a].pc \in FileSteps /\ \A e \in Dirs : e # Dir(a) => disk'[e] = disk[e]
    BY <1>1 DEF Inner, ActorPart, DiskPart
  <1>4. Dir(a) \in Dirs /\ ProcOf(a) \in Processes
    BY <1>1, <1>3, OwnId
  <1>5. Handed(actor[a], actor'[a], disk[Dir(a)], disk'[Dir(a)], Prior[Dir(a)], users')
    BY <1>1 DEF Outcome
  <1>6. disk'[Dir(a)].marker => users' = {disk'[Dir(a)].env}
    BY <1>1 DEF Outcome, DiskSound
  <1> DEFINE pending(u) == [id |-> u, phase |-> "admin_pending"]
             there(d, u) == (d.marker /\ d.env = u) \/ d.journal = pending(u)
  <1>7. ASSUME NEW u \in users', there(disk[Dir(a)], u) PROVE there(disk'[Dir(a)], u)
    <2>1. CASE disk[Dir(a)].marker /\ disk[Dir(a)].env = u
      BY <1>5, <2>1 DEF Handed
    <2>2. CASE disk[Dir(a)].journal = pending(u)
      <3>1. disk[Dir(a)].journal.id = u /\ disk[Dir(a)].journal.phase = "admin_pending"
        BY <2>2
      <3>2. disk'[Dir(a)].journal = disk[Dir(a)].journal \/ disk'[Dir(a)].marker
        BY <1>5, <1>7, <3>1 DEF Handed
      <3> QED
        BY <1>6, <1>7, <2>2, <3>2
    <2> QED
      BY <1>7, <2>1, <2>2
  <1>8. ASSUME NEW u \in users' PROVE \E d \in Dirs : there(disk'[d], u)
    <2>1. CASE u \in users
      <3>1. PICK d \in Dirs : there(disk[d], u)
        BY <1>2, <2>1 DEF AdminAccounted
      <3>2. CASE d = Dir(a)
        BY <1>4, <1>7, <1>8, <3>1, <3>2
      <3>3. CASE d # Dir(a)
        BY <1>3, <3>1, <3>3
      <3> QED
        BY <3>2, <3>3
    <2>2. CASE u \notin users
      <3>1. actor[a].pc = "insert" /\ u = actor[a].journal.id
        BY <1>1, <1>8, <2>2 DEF UsersPart
      <3>2. disk[Dir(a)].journal = actor[a].journal /\ actor[a].journal.phase = "admin_pending"
        BY <1>2, <1>3, <3>1 DEF StepInv, StepSound
      <3>3. actor[a].journal.id \in Ids /\ actor[a].journal \in Journals
        BY <1>2, <3>1 DEF TypeOK, ActorStates, RecordInv, RecordSound, AttemptSteps
      <3>4. actor[a].journal \in [id : Ids, phase : Phases]
        BY <3>3, SetupAssumption DEF Journals, NoJournal
      <3>5. actor[a].journal = pending(u)
        BY <3>1, <3>2, <3>4
      <3> QED
        BY <1>4, <1>7, <1>8, <3>2, <3>5
    <2> QED
      BY <2>1, <2>2
  <1> QED
    BY <1>8 DEF AdminAccounted

LEMMA InnerKeepsRuntime ==
    ASSUME NEW a \in Actors, InnerFacts(a)
    PROVE  RuntimeInv'
  <1>1. SetupInv /\ Inner(a) /\ Outcome(a) /\ RuntimePart(a)
    BY DEF InnerFacts
  <1>2. TypeInv /\ StepInv /\ RuntimeInv
    BY <1>1 DEF SetupInv
  <1>3. /\ actor[a].pc \in FileSteps /\ \A e \in Dirs : e # Dir(a) => disk'[e] = disk[e]
        /\ \A p \in Processes : p # ProcOf(a) => app'[p] = app[p]
    BY <1>1 DEF Inner, ActorPart, DiskPart, AppPart
  <1>4. disk[Dir(a)].marker => disk'[Dir(a)].marker /\ disk'[Dir(a)].env = disk[Dir(a)].env
    BY <1>1 DEF Outcome, Handed
  <1>5. \A p \in Processes : disk[DirOf[p]].marker =>
            disk'[DirOf[p]].marker /\ disk'[DirOf[p]].env = disk[DirOf[p]].env
    BY <1>3, <1>4, SetupAssumption
  <1>6. StepSound(actor[a], disk[Dir(a)], Prior[Dir(a)], users, Complete, Bound(app, ProcOf(a)))
    BY <1>2, <1>3 DEF StepInv
  <1>7. SUFFICES ASSUME NEW p \in Processes, app'[p].runtime # "none"
                 PROVE  disk'[DirOf[p]].marker /\ disk'[DirOf[p]].env = app'[p].runtime /\ Bound(app', p)
    BY DEF RuntimeInv, Bound
  <1>8. CASE app'[p] = app[p]
    BY <1>2, <1>5, <1>7, <1>8 DEF RuntimeInv, Bound
  <1>9. CASE app'[p] # app[p]
    <2>1. p = ProcOf(a) /\ DirOf[p] = Dir(a)
      BY <1>3, <1>9 DEF Dir
    <2>2. CASE actor[a].pc = "publish" /\ app'[p].runtime = actor[a].journal.id /\ app'[p].listening = app[p].listening
      <3>1. disk[Dir(a)].marker /\ disk[Dir(a)].env = actor[a].journal.id /\ Bound(app, p)
        BY <1>6, <2>1, <2>2 DEF StepSound, AttemptSteps
      <3> QED
        BY <1>4, <2>1, <2>2, <3>1 DEF Bound
    <2>3. CASE actor[a].pc = "build" /\ app'[p].runtime = app[p].runtime
      <3>1. ~disk[Dir(a)].marker
        BY <1>6, <2>3 DEF StepSound, AttemptSteps
      <3> QED
        BY <1>2, <1>7, <2>1, <2>3, <3>1 DEF RuntimeInv
    <2> QED
      BY <1>1, <1>9, <2>1, <2>2, <2>3 DEF RuntimePart
  <1> QED
    BY <1>8, <1>9

LEMMA SetupStep ==
    ASSUME MarkerAtomic
    PROVE  SetupInv /\ [Next]_vars => SetupInv'
  <1> SUFFICES ASSUME SetupInv, [Next]_vars PROVE SetupInv'
    OBVIOUS
  <1>1. BaseInv
    BY DEF SetupInv, BaseInv
  <1>2. ASSUME NEW a \in Actors, InnerStep(a) PROVE SetupInv'
    <2>1. InnerFacts(a)
      BY <1>2, InnerGathered
    <2>2. BaseInv'
      BY <2>1 DEF InnerFacts
    <2> QED
      BY <2>1, <2>2, InnerKeepsSteps, InnerKeepsClaims, InnerKeepsAdmin, InnerKeepsRuntime DEF SetupInv, BaseInv
  <1> QED
    BY <1>1, <1>2, OuterSteps, OuterKeeps

LEMMA SetupInitially == Init => SetupInv
  <1> SUFFICES ASSUME Init PROVE SetupInv
    OBVIOUS
  <1>1. BaseInv
    BY BaseInitially
  <1>2. \A a \in Actors : actor[a] = Idle
    BY DEF Init
  <1>3. \A d \in Dirs : disk[d] = [env |-> Prior[d], marker |-> FALSE, journal |-> NoJournal, backups |-> {}]
    BY DEF Init
  <1>4. StepInv
    BY <1>2, IdleSound DEF StepInv, FileSteps
  <1>5. \A d \in Dirs : /\ disk[d].env = Prior[d] /\ ~disk[d].marker /\ disk[d].backups = {}
                        /\ disk[d].journal.id = "none" /\ disk[d].journal.phase = "none"
    <2>1. NoJournal.id = "none" /\ NoJournal.phase = "none"
      BY DEF NoJournal
    <2>2. ASSUME NEW d \in Dirs
          PROVE  /\ disk[d].env = Prior[d] /\ ~disk[d].marker /\ disk[d].backups = {}
                 /\ disk[d].journal = NoJournal
      <3> DEFINE fresh == [env |-> Prior[d], marker |-> FALSE, journal |-> NoJournal, backups |-> {}]
      <3>1. fresh.env = Prior[d] /\ ~fresh.marker /\ fresh.backups = {} /\ fresh.journal = NoJournal
        OBVIOUS
      <3>2. disk[d] = fresh
        BY <1>3
      <3> HIDE DEF fresh
      <3> QED
        BY <3>1, <3>2
    <2> QED
      BY <2>1, <2>2
  <1>6. DiskInv
    BY <1>5 DEF DiskInv, DiskSound
  <1>7. \A d \in Dirs : \A i \in Ids : ~Claims(d, i)
    <2>1. \A a \in Actors : actor[a].journal.id = "none"
      BY <1>2, IdleSound DEF NoJournal
    <2>2. \A d \in Dirs : Prior[d] \notin Ids
      BY SetupAssumption
    <2> QED
      BY <1>5, <2>1, <2>2, ActorNames DEF Claims
  <1>8. ClaimInv
    BY <1>7 DEF ClaimInv
  <1>9. AdminAccounted
    BY DEF Init, AdminAccounted
  <1>10. RuntimeInv
    BY DEF Init, RuntimeInv, Stopped
  <1> QED
    BY <1>1, <1>4, <1>6, <1>8, <1>9, <1>10 DEF SetupInv, BaseInv

\* THEOREM.  Unless createInstallLock fails after it has put the marker in place, the marker
\* means a finished installation (configuration, one administrator, complete schema), and a
\* process that answers /readyz with OK runs it.
THEOREM InstallationsComplete ==
    ASSUME "marker" \notin SyncFaults
    PROVE  Spec => []InstalledIsComplete
  <1>1. MarkerAtomic
    BY DEF MarkerAtomic
  <1>2. SetupInv => InstalledIsComplete
    <2> SUFFICES ASSUME SetupInv PROVE InstalledIsComplete
      OBVIOUS
    <2>1. DiskInv /\ RuntimeInv
      BY DEF SetupInv
    <2>2. MarkerMeansInstalled
      BY <2>1 DEF DiskInv, DiskSound, MarkerMeansInstalled, Complete
    <2>3. ReadyMeansInstalled
      BY <2>1, <2>2, SetupAssumption DEF RuntimeInv, Ready, ReadyMeansInstalled, MarkerMeansInstalled, Bound
    <2> QED
      BY <2>2, <2>3 DEF InstalledIsComplete
  <1>3. SetupInv /\ [Next]_vars => SetupInv'
    BY <1>1, SetupStep
  <1> QED
    BY <1>2, <1>3, SetupInitially, PTL DEF Spec

\* THEOREM.  Unless that happens to the marker, or prepareInstallJournal fails after its journal
\* is in place and removes the backup: wherever a crash, a failed write or
\* rollbackInstallBeforeMarker stops, either nothing of the attempt is left or the journal, the
\* backup and .env are what recoverInstallation needs to undo it.
THEOREM AttemptsRecoverable ==
    ASSUME SyncFaults \cap {"prepare", "marker"} = {}
    PROVE  Spec => []NothingHalfInstalled
  <1>1. MarkerAtomic
    BY DEF MarkerAtomic
  <1>2. SetupInv => NothingHalfInstalled
    <2> SUFFICES ASSUME SetupInv PROVE NothingHalfInstalled
      OBVIOUS
    <2>1. DiskInv /\ AdminAccounted
      BY DEF SetupInv
    <2>2. ConfigRestored
      <3>1. NoJournal.phase = "none"
        BY DEF NoJournal
      <3> QED
        BY <2>1, <3>1 DEF DiskInv, DiskSound, ConfigRestored
    <2>3. JournalRecoverable
      BY <2>1 DEF DiskInv, DiskSound, JournalRecoverable
    <2> QED
      BY <2>1, <2>2, <2>3 DEF NothingHalfInstalled
  <1>3. SetupInv /\ [Next]_vars => SetupInv'
    BY <1>1, SetupStep
  <1> QED
    BY <1>2, <1>3, SetupInitially, PTL DEF Spec

\* THEOREM.  Also when prepareInstallJournal may leave a journal without its backup, no
\* administrator is forgotten by rollbackInstallBeforeMarker or recoverInstallation, and without
\* marker and journal .env is what it was before.
THEOREM AttemptsAccounted ==
    ASSUME "marker" \notin SyncFaults
    PROVE  Spec => [](AdminAccounted /\ ConfigRestored)
  <1>1. MarkerAtomic
    BY DEF MarkerAtomic
  <1>2. SetupInv => AdminAccounted /\ ConfigRestored
    <2> SUFFICES ASSUME SetupInv PROVE ConfigRestored
      BY DEF SetupInv
    <2>1. DiskInv /\ NoJournal.phase = "none"
      BY DEF SetupInv, NoJournal
    <2> QED
      BY <2>1 DEF DiskInv, DiskSound, ConfigRestored
  <1>3. SetupInv /\ [Next]_vars => SetupInv'
    BY <1>1, SetupStep
  <1> QED
    BY <1>2, <1>3, SetupInitially, PTL DEF Spec

\* THEOREM.  Unless createInstallLock fails after the marker is in place, the marker is never taken back, nor the configuration
\* and the administrator it stands for: recoverInstallation only cleans up after it.
THEOREM InstallationsFinal ==
    ASSUME "marker" \notin SyncFaults
    PROVE  Spec => InstallationIsFinal
  <1> DEFINE final == \A d \in Dirs : disk[d].marker =>
                          disk'[d].marker /\ disk'[d].env = disk[d].env /\ users' = users
  <1>1. MarkerAtomic
    BY DEF MarkerAtomic
  <1>2. SetupInv /\ [Next]_vars => final
    <2> SUFFICES ASSUME SetupInv, [Next]_vars, NEW d \in Dirs, disk[d].marker
                 PROVE  disk'[d].marker /\ disk'[d].env = disk[d].env /\ users' = users
      OBVIOUS
    <2>1. BaseInv /\ DiskInv
      BY DEF SetupInv, BaseInv
    <2>2. CASE Outer
      BY <2>2 DEF Outer
    <2>3. ASSUME NEW a \in Actors, InnerStep(a)
          PROVE  disk'[d].marker /\ disk'[d].env = disk[d].env /\ users' = users
      <3>1. InnerFacts(a) /\ DiskInv'
        BY <1>1, <2>3, InnerGathered, InnerKeepsSteps
      <3>2. disk'[d].marker /\ disk'[d].env = disk[d].env
        BY <3>1 DEF InnerFacts, Inner, DiskPart, Outcome, Handed
      <3>3. users = {disk[d].env} /\ users' = {disk'[d].env}
        BY <2>1, <3>1, <3>2 DEF DiskInv, DiskSound
      <3> QED
        BY <3>2, <3>3
    <2> QED
      BY <2>1, <2>2, <2>3, OuterSteps
  <1>3. SetupInv /\ [Next]_vars => SetupInv'
    BY <1>1, SetupStep
  <1> QED
    BY <1>2, <1>3, SetupInitially, PTL DEF Spec, InstallationIsFinal

=============================================================================
