---------------------------- MODULE DatabaseBackup ----------------------------
(***************************************************************************)
(* Dumping and restoring databases, DatabaseBackupService of               *)
(* backend/src/modules/database/application/database-backup.service.ts.    *)
(*                                                                         *)
(* A backup runs mysqldump and writes its output to a file named after the *)
(* database and the millisecond; it answers with the checksum of what it   *)
(* reads back.  A restore hashes a file, compares the checksum its caller  *)
(* may give, reads the file once more and feeds it to mysql; a rollback of *)
(* RollbackManager is such a restore, noted in a log.  Both write the      *)
(* password to a temporary directory first and remove it in a finally      *)
(* block.  An action is the work between two awaits; requests interleave,  *)
(* any call may fail, and the process may die at any moment and restart.   *)
(*                                                                         *)
(* A text is named by the state of the database it was dumped from and by  *)
(* what befell it on its way: CommandRunner cuts it at maxOutputBytes, and *)
(* it and the restore decode bytes as UTF-8, which replaces those that are *)
(* not.  A checksum is of the bytes of a file and stands for them.         *)
(***************************************************************************)
EXTENDS Integers, FiniteSets

CONSTANTS
  BackupReq, RestoreReq,  \* POST /databases/backups, /databases/restore
  Schema,    \* database names
  Version,   \* states a database can be in
  Long,      \* those whose dump exceeds DATABASE_BACKUP_MAX_BYTES
  Binary,    \* those whose dump has bytes that are not UTF-8, of a BLOB say
  Broken,    \* any other state: half restored, or from a text that lost data
  NoState,
  MaxStarted, \* bound on the requests that are made
  MaxTime    \* bound on the clock, which counts milliseconds

ASSUME BackupAssumption ==
  /\ BackupReq \cap RestoreReq = {}
  /\ Long \subseteq Version /\ Binary \subseteq Version
  /\ {Broken, NoState} \cap Version = {} /\ NoState \notin {Broken} \cup BOOLEAN
  /\ MaxStarted \in Nat /\ MaxTime \in Nat

Requests == BackupReq \cup RestoreReq

State == Version \cup {Broken}

\* A file is named by its database and the time its backup was started, or
\* was put into the directory by hand.
ByHand == -1
Stamp  == ByHand..MaxTime
Path   == Schema \X Stamp

\* What mysqldump writes: bytes, which may all be UTF-8.
Dump(v) == [of |-> v, cut |-> FALSE, form |-> IF v \in Binary THEN "bytes" ELSE "utf8"]
Dumps   == [of : State, cut : BOOLEAN, form : {"utf8", "bytes", "replaced"}]

\* Bytes as a string: what is not UTF-8 is replaced.
Decoded(text) == IF text.form = "bytes" THEN [text EXCEPT !.form = "replaced"] ELSE text

\* The stdout of the command: cut at the limit, then decoded.
Collected(v) == Decoded([Dump(v) EXCEPT !.cut = v \in Long])

\* What a file or a pipe may hold: nothing, a dump, or two dumps overlaid.
Empty == [of |-> NoState, cut |-> FALSE, form |-> "utf8"]
Mixed == [of |-> NoState, cut |-> TRUE, form |-> "utf8"]
Text  == Dumps \cup {Empty, Mixed}
NoText == [of |-> NoState, cut |-> NoState, form |-> NoState]

VARIABLES
  clock,
  db,    \* the state of each database
  file,  \* the text of each backup file, or NoText
  temp,  \* client.cnf of each request: "password", or "none" or not all of it
  job,   \* one record per request
  audit, \* restores with an event in the log of RollbackManager
  seen   \* history: the states of its database since a backup began

logs == <<audit, seen>>
backupVars == <<clock, db, file, temp, job, logs>>

Checksums == {Collected(v) : v \in Version} \cup {Dump(v) : v \in Version}

NewJobs == [base : Schema, stamp : Stamp,
            given : Checksums \cup {NoText}, managed : BOOLEAN,
            pc : {"new"}, ok : {FALSE}, text : {NoText}, sum : {NoText}]

\* A backup is named when it starts; a restore names any file, also one that
\* was put there by hand, and comes from its route or through RollbackManager.
\* A file no restore names is nobody's concern and left out.
BackupsInit ==
  /\ clock = 0
  /\ db \in [Schema -> Version]
  /\ file \in [Path -> {Dump(v) : v \in Version} \cup {NoText}]
  /\ temp = [r \in Requests |-> "none"]
  /\ job \in {f \in [Requests -> NewJobs] :
               \A r \in BackupReq : f[r].stamp = ByHand /\ f[r].given = NoText /\ ~f[r].managed}
  /\ \A p \in Path : file[p] # NoText =>
       p[2] = ByHand /\ \E r \in RestoreReq : <<job[r].base, job[r].stamp>> = p
  /\ audit = {}
  /\ seen = [r \in Requests |-> {}]

Backup(r)  == r \in BackupReq
Restore(r) == r \in RestoreReq
Target(r)  == job[r].base
Active(r)  == job[r].pc \notin {"new", "done", "failed", "unremoved", "lost"}

\* Mutant: the name of a backup has no time in it.
FileOfDay(r) == <<job[r].base, 0>>

File(r) == <<job[r].base, job[r].stamp>>

Continue(r, next) == job' = [job EXCEPT ![r].pc = next]
Take(r, text, next) == job' = [job EXCEPT ![r].pc = next, ![r].text = text]

\* What is left of a request: its answer, the checksum of a backup.
Ended(r, how) ==
  [job[r] EXCEPT !.pc = how, !.text = NoText, !.ok = FALSE,
                 !.sum = IF how = "done" /\ Backup(r) THEN @ ELSE NoText]

\* A database changes: every backup in flight may have seen its new state.
Becomes(d, v) ==
  /\ db' = [db EXCEPT ![d] = v]
  /\ seen' = [r \in Requests |-> IF Backup(r) /\ Active(r) /\ Target(r) = d
                                 THEN seen[r] \cup {v} ELSE seen[r]]

\* A request is made, while the bound allows one more.
Arrives(r) ==
  /\ job[r].pc = "new"
  /\ Cardinality({q \in Requests : job[q].pc # "new"}) < MaxStarted

-----------------------------------------------------------------------------
(* backupDatabase *)

\* mkdir, then the name.
StartBackup(r) ==
  /\ Backup(r) /\ Arrives(r)
  /\ job' = [job EXCEPT ![r].pc = "defaults", ![r].stamp = clock]
  /\ seen' = [seen EXCEPT ![r] = {db[Target(r)]}]
  /\ UNCHANGED <<clock, db, file, temp, audit>>

StartFails(r) ==
  /\ Backup(r) /\ Arrives(r)
  /\ Continue(r, "failed")
  /\ UNCHANGED <<clock, db, file, temp, logs>>

\* mysqldump --single-transaction dumps the database as it is at one moment.
DumpOk(r) ==
  /\ job[r].pc = "dump"
  /\ Take(r, Collected(db[Target(r)]), "open")
  /\ UNCHANGED <<clock, db, file, temp, logs>>

\* Mutant: an error of mysqldump skips the clean-up.
DumpFailsAtOnce(r) ==
  /\ job[r].pc = "dump"
  /\ Continue(r, "failed")
  /\ UNCHANGED <<clock, db, file, temp, logs>>

DumpFails(r) ==
  /\ job[r].pc = "dump"
  /\ Continue(r, "cleanup")
  /\ UNCHANGED <<clock, db, file, temp, logs>>

OpenBackup(r) ==
  /\ job[r].pc = "open"
  /\ file' = [file EXCEPT ![File(r)] = Empty]
  /\ Continue(r, "write")
  /\ UNCHANGED <<clock, db, temp, logs>>

\* All of it is UTF-8.  Over a text of another request, the longer one's end
\* shows through.
WriteBackup(r) ==
  /\ job[r].pc = "write"
  /\ \E text \in {job[r].text, Mixed} :
       /\ file[File(r)] \in {Empty, job[r].text} => text = job[r].text
       /\ file' = [file EXCEPT ![File(r)] = text]
  /\ Continue(r, "metadata")
  /\ UNCHANGED <<clock, db, temp, logs>>

WriteFails(r) ==
  /\ job[r].pc \in {"open", "write"}
  /\ Continue(r, "cleanup")
  /\ UNCHANGED <<clock, db, file, temp, logs>>

BackupMetadata(r) ==
  /\ Backup(r) /\ job[r].pc = "metadata"
  /\ job' = [job EXCEPT ![r].pc = "cleanup", ![r].ok = TRUE,
                        ![r].sum = file[File(r)]]
  /\ UNCHANGED <<clock, db, file, temp, logs>>

-----------------------------------------------------------------------------
(* restoreDatabase *)

Resolve(r) ==
  /\ Restore(r) /\ Arrives(r)
  /\ \E next \in {"metadata", "failed"} :
       /\ file[File(r)] = NoText => next = "failed"
       /\ Continue(r, next)
  /\ UNCHANGED <<clock, db, file, temp, logs>>

\* Mutant: the checksum given is only checked for its form.
MatchesForm(r, sum) == TRUE

Matches(r, sum) == job[r].given = NoText \/ sum = job[r].given

RestoreMetadata(r) ==
  LET sum == file[File(r)] IN
  /\ Restore(r) /\ job[r].pc = "metadata"
  /\ job' = [job EXCEPT ![r].sum = sum,
                        ![r].pc = IF Matches(r, sum) THEN "defaults" ELSE "failed"]
  /\ UNCHANGED <<clock, db, file, temp, logs>>

\* The checksum was of the bytes; what mysql gets is the string.
ReadBackup(r) ==
  /\ job[r].pc = "read"
  /\ Take(r, Decoded(file[File(r)]), "import")
  /\ UNCHANGED <<clock, db, file, temp, logs>>

\* Reading fails: a file to hash, before or after the try block began, or the
\* text to import.
ReadFails(r) ==
  /\ job[r].pc \in {"metadata", "read"}
  /\ Continue(r, IF Restore(r) /\ job[r].pc = "metadata" THEN "failed" ELSE "cleanup")
  /\ UNCHANGED <<clock, db, file, temp, logs>>

\* The state mysql leaves a database in state v when it has run a whole text.
Result(text, v) == IF text = Empty THEN v
                   ELSE IF text = Mixed \/ text.cut \/ text.form # "utf8" THEN Broken
                   ELSE text.of

Imported(r) == Result(job[r].text, db[Target(r)])

ImportOk(r) ==
  /\ job[r].pc = "import"
  /\ Becomes(Target(r), Imported(r))
  /\ job' = [job EXCEPT ![r].pc = "cleanup", ![r].ok = TRUE]
  /\ UNCHANGED <<clock, file, temp, audit>>

\* mysql reports an error, or is killed by the timer, anywhere in the text.
ImportFails(r) ==
  /\ job[r].pc = "import"
  /\ \E v \in {db[Target(r)], Broken, Imported(r)} : Becomes(Target(r), v)
  /\ Continue(r, "cleanup")
  /\ UNCHANGED <<clock, file, temp, audit>>

-----------------------------------------------------------------------------
(* createDefaultsFile and cleanupDefaultsFile *)

WriteDefaults(r) ==
  /\ job[r].pc = "defaults"
  /\ temp' = [temp EXCEPT ![r] = "password"]
  /\ Continue(r, IF Backup(r) THEN "dump" ELSE "read")
  /\ UNCHANGED <<clock, db, file, logs>>

\* Before the try block: what mkdtemp and writeFile have left stays.
WriteDefaultsFails(r) ==
  /\ job[r].pc = "defaults"
  /\ \E left \in {"none", "password"} : temp' = [temp EXCEPT ![r] = left]
  /\ job' = [job EXCEPT ![r] = Ended(r, "unremoved")]
  /\ UNCHANGED <<clock, db, file, logs>>

Cleanup(r) ==
  /\ job[r].pc = "cleanup"
  /\ temp' = [temp EXCEPT ![r] = "none"]
  /\ IF job[r].ok /\ job[r].managed THEN Continue(r, "audit")
     ELSE job' = [job EXCEPT ![r] = Ended(r, IF job[r].ok THEN "done" ELSE "failed")]
  /\ UNCHANGED <<clock, db, file, logs>>

\* Its error takes the place of the result, also of a restore that is done.
CleanupFails(r) ==
  /\ job[r].pc = "cleanup"
  /\ \E left \in {"none", "password"} : temp' = [temp EXCEPT ![r] = left]
  /\ job' = [job EXCEPT ![r] = Ended(r, "unremoved")]
  /\ UNCHANGED <<clock, db, file, logs>>

-----------------------------------------------------------------------------
(* RollbackManager.restoreDatabase: a restore, then an event of it *)

AuditRestore(r) ==
  /\ job[r].pc = "audit"
  /\ audit' = audit \cup {r}
  /\ job' = [job EXCEPT ![r] = Ended(r, "done")]
  /\ UNCHANGED <<clock, db, file, temp, seen>>

AuditFails(r) ==
  /\ job[r].pc = "audit"
  /\ job' = [job EXCEPT ![r] = Ended(r, "failed")]
  /\ UNCHANGED <<clock, db, file, temp, logs>>

-----------------------------------------------------------------------------
(* Surroundings *)

\* The process dies: requests in flight are gone, mysql may have run a part
\* of the text it was given.
Crash ==
  /\ \E r \in Requests : Active(r)
  /\ job' = [r \in Requests |-> IF Active(r) THEN Ended(r, "lost") ELSE job[r]]
  /\ \/ UNCHANGED <<db, seen>>
     \/ \E r \in Requests : job[r].pc = "import" /\ Becomes(Target(r), Broken)
  /\ UNCHANGED <<clock, file, temp, audit>>

DatabaseChanges ==
  /\ \E d \in Schema, v \in Version : v # db[d] /\ Becomes(d, v)
  /\ UNCHANGED <<clock, file, temp, job, audit>>

Tick ==
  /\ clock < MaxTime
  /\ clock' = clock + 1
  /\ UNCHANGED <<db, file, temp, job, logs>>

RequestStep(r) ==
  \/ StartBackup(r) \/ StartFails(r) \/ DumpOk(r) \/ DumpFails(r)
  \/ OpenBackup(r) \/ WriteBackup(r) \/ WriteFails(r) \/ BackupMetadata(r)
  \/ Resolve(r) \/ RestoreMetadata(r) \/ ReadBackup(r) \/ ReadFails(r)
  \/ ImportOk(r) \/ ImportFails(r)
  \/ WriteDefaults(r) \/ WriteDefaultsFails(r) \/ Cleanup(r) \/ CleanupFails(r)
  \/ AuditRestore(r) \/ AuditFails(r)

BackupsNext == Crash \/ DatabaseChanges \/ Tick \/ \E r \in Requests : RequestStep(r)

BackupsSpec == BackupsInit /\ [][BackupsNext]_backupVars

-----------------------------------------------------------------------------
(* Properties *)

Pcs == {"new", "defaults", "dump", "open", "write", "metadata",
        "read", "import", "cleanup", "audit", "done", "failed", "unremoved", "lost"}

BackupsTypeOK ==
  /\ clock \in 0..MaxTime
  /\ db \in [Schema -> State]
  /\ file \in [Path -> Text \cup {NoText}]
  /\ temp \in [Requests -> {"none", "password"}]
  /\ job \in [Requests -> [base : Schema, stamp : Stamp,
                      given : Dumps \cup {NoText}, managed : BOOLEAN, pc : Pcs,
                      ok : BOOLEAN,
                      text : Text \cup {NoText}, sum : Text \cup {NoText}]]
  /\ audit \subseteq RestoreReq
  /\ seen \in [Requests -> SUBSET State]
  /\ \A r \in Requests : job[r].pc = "import" => job[r].text \in Text

\* Two backups of a database in the same millisecond share their file.
Clash(p) ==
  /\ p[2] # ByHand
  /\ \E q, r \in Requests :
       /\ q # r /\ Backup(q) /\ Backup(r)
       /\ job[q].pc # "new" /\ job[r].pc # "new"
       /\ <<job[q].base, job[q].stamp>> = p /\ <<job[r].base, job[r].stamp>> = p

NamedBy(r) == <<job[r].base, job[r].stamp>>

\* A backup that was answered keeps its file, with the checksum answered,
\* whatever else starts, fails or dies, and the file is what CommandRunner
\* collects of a dump of a state its database had while the request ran;
\* unless a second backup shares its name.  A restore of it brings that state
\* back exactly if its dump was neither cut nor had bytes that are not UTF-8:
\* such a dump is answered as a backup, and restoring it breaks the database.
AnsweredBackupStays ==
  \A r \in Requests : Backup(r) /\ job[r].pc = "done" /\ ~Clash(NamedBy(r)) =>
    /\ file[NamedBy(r)] = job[r].sum
    /\ \E v \in seen[r] :
         /\ job[r].sum = Collected(v)
         /\ Result(Decoded(job[r].sum), Broken) = v <=> v \notin Long \cup Binary

\* Nothing but the text a checksum was given for reaches mysql, also when the
\* file named is being written: the file is read once to hash it and once
\* more to import it.  It is exactly that text if a backup wrote the file, and
\* its decoding if the file came from elsewhere.  The event of a rollback then
\* has the checksum of what was imported, and no rollback is answered without
\* its event.
OnlyCheckedTextImported ==
  \A r \in RestoreReq :
    /\ (job[r].pc \in {"import", "audit"} /\ job[r].given # NoText
          /\ ~Clash(NamedBy(r)))
        => /\ job[r].sum = job[r].given
           /\ job[r].text = Decoded(job[r].given)
           /\ job[r].stamp # ByHand => job[r].text = job[r].given
    /\ job[r].managed => (job[r].pc = "done" <=> r \in audit)

\* No request that was answered, and none that failed for any other reason,
\* has left the password on disk: it stays only where the process died under
\* the request, or the request failed because its directory could not be
\* written or removed.
PasswordsRemoved ==
  /\ BackupsTypeOK
  /\ \A r \in Requests :
       temp[r] = "password" => Active(r) \/ job[r].pc \in {"lost", "unremoved"}
=============================================================================
