------------------------------ MODULE AutoBackup ------------------------------
(***************************************************************************)
(* The scheduled backups, AutoBackupScheduler of                           *)
(* backend/src/modules/operations/application/auto-backup-scheduler.ts,    *)
(* as backend/src/app.ts runs it.                                          *)
(*                                                                         *)
(* An interval timer starts a run: dump every database, copy the nginx     *)
(* configuration, if it is found, to a directory named after the start,    *)
(* remove what is older than the retention from the backup directory.  The timer ignores  *)
(* the promise of a run, so a run that fails, and one that finds another   *)
(* running, is an unhandled rejection and ends the backend; its container  *)
(* starts it again.  Meanwhile virtual hosts are written, through          *)
(* temporary files in the directory that is copied, and the rollback       *)
(* manager keeps its audit log in the backup directory.                    *)
(*                                                                         *)
(* The unit of time is arbitrary: the environment allows intervals below   *)
(* and above the retention.  A run is an action per await.                 *)
(***************************************************************************)
EXTENDS Integers, Sequences, FiniteSets

CONSTANTS
  databaseNames,  \* AUTO_BACKUP_DATABASES, a sequence
  Site,           \* the vhosts in sites-available
  Interval, Retention,
  MaxRuns,        \* bound on the runs started
  MaxDuration,    \* bound on the time a run takes, in the same unit
  MaxTime,        \* bound on the clock
  None, Audit

Run  == 1..MaxRuns

ASSUME AutoBackupAssumption ==
  /\ databaseNames \in Seq({databaseNames[i] : i \in DOMAIN databaseNames})
  /\ Interval \in Nat \ {0} /\ Retention \in Nat \ {0}
  /\ MaxRuns \in Nat /\ MaxTime \in Nat
  /\ MaxDuration \in Nat /\ MaxDuration < Retention
  /\ Audit \notin Run /\ None \notin Run \cup (0..MaxTime) \cup {Audit}

File == Site \X {"conf", "tmp"}

\* Entries of the backup directory: the copies by the run that made them, and
\* the audit log of the rollback manager.
Entry == Run \cup {Audit}

VARIABLES
  clock,
  up,        \* is the backend running
  due,       \* when the timer fires next
  running,   \* AutoBackupScheduler.running
  sites,     \* the files in sites-available
  run,       \* one record per call of runOnce
  started,   \* the number of calls
  modified,  \* modification time of each entry of the backup directory, or None
  copied,    \* the files in each copy
  dumps      \* <<database, run>> for each file in DATABASE_BACKUP_DIR

vars == <<clock, up, due, running, sites, run, started, modified, copied, dumps>>

\* copy says whether the run has a copy to answer with, nginxConfigBackupPath.
Idle == [pc |-> "none", startedAt |-> 0, next |-> 1, copy |-> FALSE, todo |-> {},
         cutoff |-> 0, entries |-> {}, expired |-> None]

Init ==
  /\ clock = 0
  /\ up = TRUE
  /\ due = Interval
  /\ running = FALSE
  /\ sites = Site \X {"conf"}
  /\ run = [k \in Run |-> Idle]
  /\ started = 0
  /\ modified = [e \in Entry |-> None]
  /\ copied = [k \in Run |-> {}]
  /\ dumps = {}

Active(k) == run[k].pc \notin {"none", "done", "failed"}

Goto(k, next) == run' = [run EXCEPT ![k].pc = next]

-----------------------------------------------------------------------------
(* The timer and the process *)

\* What is left of a run: when it began, and its answer.
Ended(k, how) == [Idle EXCEPT !.pc = how, !.startedAt = run[k].startedAt,
                              !.copy = how = "done" /\ run[k].copy]

Stopped == [k \in Run |-> IF Active(k) THEN Ended(k, "failed") ELSE run[k]]

\* An unhandled rejection ends the process and all it was doing.
Dies ==
  /\ up' = FALSE
  /\ running' = FALSE
  /\ run' = Stopped
  /\ UNCHANGED <<clock, due, sites, started, modified, copied, dumps>>

Begin == [Idle EXCEPT !.pc = "mkdir", !.startedAt = clock]

\* Mutant: the flag is set after the first await, in MakeDir.
StartRunUnmarked ==
  /\ up /\ clock >= due /\ ~running /\ started < MaxRuns
  /\ due' = due + Interval
  /\ started' = started + 1
  /\ run' = [run EXCEPT ![started'] = Begin]
  /\ UNCHANGED <<clock, up, running, sites, modified, copied, dumps>>

StartRun ==
  /\ up /\ clock >= due /\ ~running /\ started < MaxRuns
  /\ due' = due + Interval
  /\ started' = started + 1
  /\ running' = TRUE
  /\ run' = [run EXCEPT ![started'] = Begin]
  /\ UNCHANGED <<clock, up, sites, modified, copied, dumps>>

\* "Auto backup is already running" is a rejection nobody handles.
Overlap == up /\ clock >= due /\ running /\ Dies

Restart ==
  /\ ~up
  /\ up' = TRUE
  /\ due' = clock + Interval
  /\ UNCHANGED <<clock, running, sites, run, started, modified, copied, dumps>>

-----------------------------------------------------------------------------
(* runOnce *)

MakeDir(k) ==
  /\ run[k].pc = "mkdir"
  /\ Goto(k, "dump")
  /\ UNCHANGED <<clock, up, due, running, sites, started, modified, copied, dumps>>

\* Mutant: the loop stops before the last name.
LastDumpEarly(k) == run[k].next >= Len(databaseNames)

LastDump(k) == run[k].next > Len(databaseNames)

DumpDatabase(k) ==
  /\ run[k].pc = "dump" /\ ~LastDump(k)
  /\ dumps' = dumps \cup {<<databaseNames[run[k].next], k>>}
  /\ run' = [run EXCEPT ![k].next = @ + 1]
  /\ UNCHANGED <<clock, up, due, running, sites, started, modified, copied>>

\* fs.cp makes the target directory and lists the source.
CopyStart(k) ==
  /\ run[k].pc = "dump" /\ LastDump(k)
  /\ modified' = [modified EXCEPT ![k] = clock]
  /\ run' = [run EXCEPT ![k].pc = "copy", ![k].copy = TRUE, ![k].todo = sites]
  /\ UNCHANGED <<clock, up, due, running, sites, started, copied, dumps>>

\* The directory is not there, or cannot be reached: there is nothing to copy,
\* and the run goes on.
SkipCopy(k) ==
  /\ run[k].pc = "dump" /\ LastDump(k)
  /\ Goto(k, "copy")
  /\ UNCHANGED <<clock, up, due, running, sites, started, modified, copied, dumps>>

Cutoff == clock - Retention

CopyFile(k) ==
  /\ run[k].pc = "copy"
  /\ \E f \in run[k].todo \cap sites :
       /\ copied' = [copied EXCEPT ![k] = @ \cup {f}]
       /\ modified' = [modified EXCEPT ![k] = clock]
       /\ run' = [run EXCEPT ![k].todo = @ \ {f}]
  /\ UNCHANGED <<clock, up, due, running, sites, started, dumps>>

\* Mutant: a finally block prunes, also after a failed copy.
CopyVanishesPruning(k) ==
  /\ run[k].pc = "copy" /\ run[k].todo \ sites # {}
  /\ up' = FALSE /\ running' = FALSE /\ run' = Stopped
  /\ modified' = [e \in Entry |->
                    IF modified[e] # None /\ modified[e] < Cutoff
                    THEN None ELSE modified[e]]
  /\ UNCHANGED <<clock, due, sites, started, copied, dumps>>

\* A file that was listed has been renamed: ENOENT rejects the run.
CopyVanishes(k) == run[k].pc = "copy" /\ run[k].todo \ sites # {} /\ Dies

ListBackups(k) ==
  /\ run[k].pc = "copy" /\ run[k].todo = {}
  /\ run' = [run EXCEPT ![k].pc = "prune", ![k].cutoff = Cutoff,
                        ![k].entries = {e \in Entry : modified[e] # None}]
  /\ UNCHANGED <<clock, up, due, running, sites, started, modified, copied, dumps>>

\* Mutant: the comparison includes the cutoff.
ExpiredSoon(k, e) == modified[e] < run[k].cutoff + 1

Expired(k, e) == modified[e] < run[k].cutoff

\* Mutant: an entry that is kept stays to be looked at.
PruneEntryAgain(k) ==
  /\ run[k].pc = "prune" /\ run[k].expired = None
  /\ \E e \in run[k].entries :
       run' = [run EXCEPT ![k].entries = IF Expired(k, e) THEN @ \ {e} ELSE @,
                          ![k].expired = IF Expired(k, e) THEN e ELSE None]
  /\ UNCHANGED <<clock, up, due, running, sites, started, modified, copied, dumps>>

\* An entry's modification time is read, and compared;
PruneEntry(k) ==
  /\ run[k].pc = "prune" /\ run[k].expired = None
  /\ \E e \in run[k].entries :
       run' = [run EXCEPT ![k].entries = @ \ {e},
                          ![k].expired = IF Expired(k, e) THEN e ELSE None]
  /\ UNCHANGED <<clock, up, due, running, sites, started, modified, copied, dumps>>

\* and the entry is removed after another await.
RemoveEntry(k) ==
  /\ run[k].pc = "prune" /\ run[k].expired # None
  /\ run' = [run EXCEPT ![k].expired = None]
  /\ modified' = [modified EXCEPT ![run[k].expired] = None]
  /\ UNCHANGED <<clock, up, due, running, sites, started, copied, dumps>>

Complete(k) ==
  /\ run[k].pc = "prune" /\ run[k].entries = {} /\ run[k].expired = None
  /\ run' = [run EXCEPT ![k] = Ended(k, "done")]
  /\ running' = FALSE
  /\ UNCHANGED <<clock, up, due, sites, started, modified, copied, dumps>>

\* A dump, or a call of the file system, fails.
RunFails(k) == Active(k) /\ Dies

-----------------------------------------------------------------------------
(* Surroundings *)

CreateTemp ==
  /\ up
  /\ \E s \in Site : sites' = sites \cup {<<s, "tmp">>}
  /\ UNCHANGED <<clock, up, due, running, run, started, modified, copied, dumps>>

RenameTemp ==
  /\ up
  /\ \E s \in Site : <<s, "tmp">> \in sites /\ sites' = sites \ {<<s, "tmp">>}
  /\ UNCHANGED <<clock, up, due, running, run, started, modified, copied, dumps>>

\* The rollback manager records a rollback.
AppendAudit ==
  /\ modified' = [modified EXCEPT ![Audit] = clock]
  /\ UNCHANGED <<clock, up, due, running, sites, run, started, copied, dumps>>

Tick ==
  /\ clock < MaxTime
  /\ \A k \in Run : Active(k) => clock < run[k].startedAt + MaxDuration
  /\ up => clock < due
  /\ clock' = clock + 1
  /\ UNCHANGED <<up, due, running, sites, run, started, modified, copied, dumps>>

RunStep(k) ==
  \/ MakeDir(k) \/ DumpDatabase(k) \/ CopyStart(k) \/ SkipCopy(k)
  \/ CopyFile(k) \/ CopyVanishes(k) \/ ListBackups(k) \/ PruneEntry(k)
  \/ RemoveEntry(k) \/ Complete(k)

Next ==
  \/ StartRun \/ Overlap \/ Restart
  \/ \E k \in Run : RunStep(k) \/ RunFails(k)
  \/ CreateTemp \/ RenameTemp \/ AppendAudit \/ Tick

Spec == Init /\ [][Next]_vars

\* The event loop goes on with a run it has started.
FairSpec == Spec /\ \A k \in Run : WF_vars(RunStep(k))

-----------------------------------------------------------------------------
(* Properties *)

TypeOK ==
  /\ clock \in 0..MaxTime
  /\ up \in BOOLEAN /\ running \in BOOLEAN
  /\ due \in Nat /\ due <= clock + Interval
  /\ sites \subseteq File
  /\ run \in [Run -> [pc : {"none", "mkdir", "dump", "copy", "prune", "done",
                            "failed"},
                      startedAt : 0..MaxTime,
                      next : 1..(Len(databaseNames) + 1), copy : BOOLEAN,
                      todo : SUBSET File,
                      cutoff : (-Retention)..MaxTime, entries : SUBSET Entry,
                      expired : Entry \cup {None}]]
  /\ started \in 0..MaxRuns
  /\ modified \in [Entry -> (0..MaxTime) \cup {None}]
  /\ copied \in [Run -> SUBSET File]
  /\ dumps \subseteq {databaseNames[i] : i \in DOMAIN databaseNames} \X Run

\* Two runs never overlap, across restarts too, and the flag that excludes
\* them says whether there is one; so a run that is answered has dumped every
\* database, and the copy it answers with has every vhost.  (It
\* answers with none if it did not find their directory.)
RunsAreWhole ==
  /\ TypeOK
  /\ \A j, k \in Run : Active(j) /\ Active(k) => j = k
  /\ running <=> \E k \in Run : Active(k)
  /\ \A k \in Run : run[k].pc = "done" =>
       /\ \A i \in DOMAIN databaseNames : <<databaseNames[i], k>> \in dumps
       /\ run[k].copy => Site \X {"conf"} \subseteq copied[k]

WholeCopy == \E k \in Run : modified[k] # None /\ Site \X {"conf"} \subseteq copied[k]

\* Pruning comes after a new copy, and a run that fails removes nothing: only a
\* run that has not found the directory of the vhosts, and so made no copy, can
\* remove the last whole one from the backup directory.
NeverWithoutACopy ==
  [][WholeCopy /\ ~WholeCopy' => \E k \in Run : run[k].pc = "prune" /\ ~run[k].copy]_vars

\* A copy that is removed from the backup directory had not been changed for
\* longer than the retention, also at the moment it is removed.
OnlyExpiredPruned ==
  [][\A e \in Run : modified[e] # None /\ modified'[e] = None
                        => modified[e] + Retention < clock]_vars

\* Every run comes to an end.
RunsEnd == \A k \in Run : Active(k) ~> ~Active(k)
=============================================================================
