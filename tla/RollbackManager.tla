---------------------------- MODULE RollbackManager ----------------------------
(***************************************************************************)
(* Restoring nginx configurations, RollbackManager of                      *)
(* backend/src/modules/operations/application/rollback-manager.ts.         *)
(*                                                                         *)
(* A rollback takes a file, or a directory of files, out of the nginx      *)
(* backup directory, copies what it will overwrite to the pre-rollback     *)
(* directory, overwrites it and appends an event to the audit log.  A file *)
(* is restored under its own base name, to sites-available and then to     *)
(* sites-enabled; a directory is copied over sites-available.  The backups *)
(* NginxConfigService makes are named <time>.<site>.conf; an operator may  *)
(* put files and directories of other names beside them.                   *)
(*                                                                         *)
(* An action is one call of the file system, which may fail; a copy that   *)
(* fails removes its target.  Vhosts are written meanwhile, in the three   *)
(* steps NginxConfig details.                                              *)
(***************************************************************************)
EXTENDS Naturals, FiniteSets

CONSTANTS
  LiveFile, \* names of live vhost files
  Old,      \* base names of the backups NginxConfigService has made
  Rollback, Update,  \* requests
  Content,  \* texts
  Absent, Dir  \* a rollback of Dir restores a directory of plain names

ASSUME RollbackAssumption ==
  /\ LiveFile \cap Old = {} /\ Rollback \cap Update = {}
  /\ Absent \notin Content /\ Dir \notin LiveFile \cup Old

Name == LiveFile \cup Old
Req  == Rollback \cup Update

VARIABLES
  available, enabled,  \* the content of each name in either directory, or None
  backups,   \* the content of each file of the nginx backup directory, or None
  directory, \* the content of each file of the directory Dir, or None
  saved,     \* the content of each name each rollback has put aside, or None
  audit,     \* rollbacks with an event in the log
  job,       \* one record per request
  overwrote, \* history: <<rollback, directory, name, content>> it overwrote
  mixed      \* history: requests that overlapped one of the same file

liveFiles == <<available, enabled>>
sources == <<backups, directory>>
history == <<overwrote, mixed>>
rollbackVars == <<liveFiles, sources, saved, audit, job, history>>

Contents == [Name -> Content \cup {Absent}]
Nothing  == [n \in Name |-> Absent]

\* The live files; old backups, and what an operator put beside them.
RollbacksInit ==
  /\ available \in {f \in Contents : \A n \in Name : f[n] # Absent <=> n \in LiveFile}
  /\ enabled = available
  /\ backups \in {f \in Contents : \A n \in Old : f[n] # Absent}
  /\ directory \in {f \in Contents : \A n \in Old : f[n] = Absent}
  /\ saved = [r \in Rollback |-> Nothing]
  /\ audit = {}
  /\ \E of \in [Req -> Name \cup {Dir}], new \in [Update -> Content] :
       /\ \A u \in Update : of[u] \in LiveFile
       /\ job = [r \in Req |-> [pc |-> "new", of |-> of[r], todo |-> {},
                                new |-> IF r \in Update THEN new[r] ELSE Absent]]
  /\ overwrote = {}
  /\ mixed = {}

UnderWay(r) == job[r].pc \notin {"new", "done", "failed"}
Of(r) == job[r].of

GoOn(r, next) == job' = [job EXCEPT ![r].pc = next]
Work(r, next, todo) == job' = [job EXCEPT ![r].pc = next, ![r].todo = todo]

\* Two requests write the same file.
Touch(q, r) == Of(q) = Of(r) \/ Dir \in {Of(q), Of(r)}
Begins(r) ==
  LET others == {q \in Req \ {r} : UnderWay(q) /\ Touch(q, r)}
  IN  mixed' = IF others = {} THEN mixed ELSE mixed \cup others \cup {r}

\* What is lost when text replaces what is old in a directory.
Noted(r, dir, n, old, text) ==
  IF old \in {Absent, text} THEN overwrote ELSE overwrote \cup {<<r, dir, n, old>>}

\* A rollback puts text in sites-available,
Overwrites(r, n, text) ==
  /\ available' = [available EXCEPT ![n] = text]
  /\ overwrote' = Noted(r, "available", n, available[n], text)

\* or in sites-enabled.
Enables(r, text) ==
  /\ enabled' = [enabled EXCEPT ![Of(r)] = text]
  /\ overwrote' = Noted(r, "enabled", Of(r), enabled[Of(r)], text)

-----------------------------------------------------------------------------
(* restoreNginxConfigFile *)

\* Mutant: what is there is not looked for.
SaveFirstNever(r) == "restore"

\* The existing file, if there is one, is put aside first.
SaveFirst(r) == IF available[Of(r)] = Absent THEN "restore" ELSE "save"

FindFile(r) ==
  /\ r \in Rollback /\ job[r].pc = "new" /\ Of(r) # Dir
  /\ GoOn(r, IF backups[Of(r)] = Absent THEN "failed" ELSE SaveFirst(r))
  /\ Begins(r)
  /\ UNCHANGED <<liveFiles, sources, saved, audit, overwrote>>

SaveFile(r) ==
  /\ job[r].pc = "save"
  /\ saved' = [saved EXCEPT ![r][Of(r)] = available[Of(r)]]
  /\ GoOn(r, "restore")
  /\ UNCHANGED <<liveFiles, sources, history, audit>>

RestoreFile(r) ==
  /\ job[r].pc = "restore"
  /\ Overwrites(r, Of(r), backups[Of(r)])
  /\ GoOn(r, "enable")
  /\ UNCHANGED <<sources, enabled, saved, audit, mixed>>

\* Mutant: the live file is left as it is.
EnableFileSkipped(r) ==
  /\ job[r].pc = "enable"
  /\ GoOn(r, "audit")
  /\ UNCHANGED <<liveFiles, sources, history, saved, audit>>

EnableFile(r) ==
  /\ job[r].pc = "enable" /\ available[Of(r)] # Absent
  /\ Enables(r, available[Of(r)])
  /\ GoOn(r, "audit")
  /\ UNCHANGED <<sources, available, saved, audit, mixed>>

-----------------------------------------------------------------------------
(* restoreNginxConfigDirectory *)

FindDirectory(r) ==
  /\ r \in Rollback /\ job[r].pc = "new" /\ Of(r) = Dir
  /\ Work(r, "saveAll", {n \in Name : available[n] # Absent})
  /\ Begins(r)
  /\ UNCHANGED <<liveFiles, sources, saved, audit, overwrote>>

SaveNext(r) ==
  /\ job[r].pc = "saveAll"
  /\ \E n \in job[r].todo :
       /\ available[n] # Absent
       /\ saved' = [saved EXCEPT ![r][n] = available[n]]
       /\ Work(r, "saveAll", job[r].todo \ {n})
  /\ UNCHANGED <<liveFiles, sources, history, audit>>

SaveDone(r) ==
  /\ job[r].pc = "saveAll" /\ job[r].todo = {}
  /\ Work(r, "restoreAll", {n \in Name : directory[n] # Absent})
  /\ UNCHANGED <<liveFiles, sources, history, saved, audit>>

RestoreNext(r) ==
  /\ job[r].pc = "restoreAll"
  /\ \E n \in job[r].todo :
       /\ Overwrites(r, n, directory[n])
       /\ Work(r, "restoreAll", job[r].todo \ {n})
  /\ UNCHANGED <<sources, enabled, saved, audit, mixed>>

RestoreDone(r) ==
  /\ job[r].pc = "restoreAll" /\ job[r].todo = {}
  /\ GoOn(r, "audit")
  /\ UNCHANGED <<liveFiles, sources, history, saved, audit>>

-----------------------------------------------------------------------------
(* audit, and failures *)

\* Mutant: a log that cannot be written does not fail the rollback.
AuditMaybe(r) ==
  /\ job[r].pc = "audit"
  /\ audit' \in {audit, audit \cup {r}}
  /\ GoOn(r, "done")
  /\ UNCHANGED <<liveFiles, sources, history, saved>>

AuditRollback(r) ==
  /\ job[r].pc = "audit"
  /\ audit' = audit \cup {r}
  /\ GoOn(r, "done")
  /\ UNCHANGED <<liveFiles, sources, history, saved>>

\* A call fails, or the process dies.
Fail(r) ==
  /\ r \in Rollback /\ UnderWay(r)
  /\ GoOn(r, "failed")
  /\ \/ UNCHANGED <<liveFiles, overwrote>>
     \/ /\ \/ job[r].pc = "restore" /\ Overwrites(r, Of(r), Absent)
           \/ /\ job[r].pc = "restoreAll"
              /\ \E n \in job[r].todo : Overwrites(r, n, Absent)
        /\ UNCHANGED enabled
     \/ job[r].pc = "enable" /\ Enables(r, Absent) /\ UNCHANGED available
  /\ audit' \in {audit, IF job[r].pc = "audit" THEN audit \cup {r} ELSE audit}
  /\ UNCHANGED <<sources, saved, mixed>>

-----------------------------------------------------------------------------
(* createOrUpdateVhost, in the steps that matter here *)

UpdateBegins(u) ==
  /\ u \in Update /\ job[u].pc = "new"
  /\ GoOn(u, "rename")
  /\ Begins(u)
  /\ UNCHANGED <<liveFiles, sources, saved, audit, overwrote>>

UpdateRenames(u) ==
  /\ job[u].pc = "rename"
  /\ available' = [available EXCEPT ![Of(u)] = job[u].new]
  /\ GoOn(u, "updateEnable")
  /\ UNCHANGED <<sources, history, enabled, saved, audit>>

UpdateEnables(u) ==
  /\ job[u].pc = "updateEnable" /\ available[Of(u)] # Absent
  /\ enabled' = [enabled EXCEPT ![Of(u)] = available[Of(u)]]
  /\ GoOn(u, "done")
  /\ UNCHANGED <<sources, history, available, saved, audit>>

Step(r) ==
  \/ FindFile(r) \/ SaveFile(r) \/ RestoreFile(r) \/ EnableFile(r)
  \/ FindDirectory(r) \/ SaveNext(r) \/ SaveDone(r) \/ RestoreNext(r)
  \/ RestoreDone(r) \/ AuditRollback(r) \/ Fail(r)
  \/ UpdateBegins(r) \/ UpdateRenames(r) \/ UpdateEnables(r)

RollbacksNext == \E r \in Req : Step(r)

RollbacksSpec == RollbacksInit /\ [][RollbacksNext]_rollbackVars

-----------------------------------------------------------------------------
(* Properties *)

Pcs == {"new", "save", "restore", "enable", "saveAll", "restoreAll", "audit",
        "done", "failed", "rename", "updateEnable"}

RollbacksTypeOK ==
  /\ available \in Contents /\ enabled \in Contents
  /\ backups \in Contents /\ directory \in Contents
  /\ saved \in [Rollback -> Contents]
  /\ audit \subseteq Rollback
  /\ job \in [Req -> [pc : Pcs, of : Name \cup {Dir}, todo : SUBSET Name,
                      new : Content \cup {Absent}]]
  /\ overwrote \subseteq Rollback \X {"available", "enabled"} \X Name \X Content
  /\ mixed \subseteq Req
  /\ \A r \in Req : job[r].todo # {} =>
       Of(r) = Dir /\ job[r].pc \in {"saveAll", "restoreAll", "failed"}

\* What a rollback overwrites in sites-available has been put aside by it, if
\* no other request for the same files overlaps it; also when the rollback fails.
\* It puts nothing of sites-enabled aside, though nginx reads it there and its
\* text may be another one: there it overwrites the one file it was asked for,
\* and only after the copy in sites-available.
OverwrittenIsSaved ==
  /\ RollbacksTypeOK
  /\ \A x \in overwrote : x[1] \notin mixed =>
       IF x[2] = "available" THEN saved[x[1]][x[3]] = x[4]
       ELSE x[3] = Of(x[1]) /\ job[x[1]].pc \in {"audit", "done", "failed"}

\* A rollback is in the audit log only when it has restored all it was asked
\* to, and always when it is answered; one of a file is then in force where
\* nginx reads it, if no other request for the file overlaps it.
AnsweredIsEnabled ==
  [][\A r \in Rollback :
       /\ r \in audit' \ audit => job[r].todo = {}
       /\ job'[r].pc = "done" /\ job[r].pc # "done" =>
            /\ r \in audit'
            /\ r \notin mixed /\ Of(r) # Dir =>
                 /\ enabled[Of(r)] = backups[Of(r)]
                 /\ available[Of(r)] = backups[Of(r)]]_rollbackVars
=============================================================================
