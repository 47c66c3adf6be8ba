----------------------------- MODULE NginxConfig -----------------------------
(***************************************************************************)
(* Writing the virtual hosts of nginx, NginxConfigService of               *)
(* backend/src/modules/nginx/application/nginx-config.service.ts.          *)
(*                                                                         *)
(* POST /nginx/sites renders a vhost, copies the file it replaces to the   *)
(* backup directory, writes a temporary file, renames it over the file in  *)
(* sites-available and copies that one to sites-enabled.  Nothing          *)
(* serialises requests, and the name of the temporary file is made of the  *)
(* target and the process id alone, so two requests for a site share it.   *)
(*                                                                         *)
(* An action is one system call of the thread pool.  writeFile truncates   *)
(* and then writes at offset 0, copyFile pins its source, truncates its    *)
(* target and then writes; a descriptor follows its file through a rename. *)
(* A file is the sequence of its blocks, a text one or two of them.  Any   *)
(* call may fail, and the process may die; a copyFile that fails removes   *)
(* its target.                                                             *)
(***************************************************************************)
EXTENDS Integers, Sequences

CONSTANTS
  Site,      \* file names of vhosts
  Req,       \* POST /nginx/sites requests
  Vhost,     \* rendered vhosts
  Size,      \* the number of blocks of each
  Original,  \* the vhost a site starts with, or None
  None,
  MaxTime    \* bound on the clock, which counts milliseconds

ASSUME NginxAssumption ==
  /\ None \notin Vhost /\ None \notin Site /\ None \notin Req
  /\ Site \cap Req = {}
  /\ Size \in [Vhost -> {1, 2}]
  /\ Original \in [Site -> Vhost \cup {None}]
  /\ MaxTime \in Nat

\* Inodes in sites-available: that of the original file, and those of the
\* temporary files requests create.
Inode == Site \cup Req

Text(v) == [i \in 1..Size[v] |-> v]

VARIABLES
  clock,
  data,       \* the blocks of each inode
  available,  \* sites-available: the inode of each site, or None
  temp,       \* <target>.<pid>.tmp of each site, or None
  enabled,    \* sites-enabled: the blocks of each file, or None
  backups,    \* the blocks of each file of the backup directory, or None
  job,        \* one record per request
  replaced,   \* history: texts a rename has replaced, per site
  rushed      \* history: sites two of whose updates overlapped or backed up
              \* in the same millisecond

vars == <<clock, data, available, temp, enabled, backups, job, replaced, rushed>>

Init ==
  /\ clock = 0
  /\ data = [n \in Inode |-> IF n \in Site /\ Original[n] # None
                             THEN Text(Original[n]) ELSE <<>>]
  /\ available = [s \in Site |-> IF Original[s] # None THEN s ELSE None]
  /\ temp = [s \in Site |-> None]
  /\ enabled = [s \in Site |-> IF Original[s] # None THEN Text(Original[s])
                               ELSE None]
  /\ backups = [b \in Site \X (0..MaxTime) |-> None]
  /\ job \in [Req -> [pc : {"new"}, site : Site, vhost : Vhost, stamp : {0},
                      file : {None}]]
  /\ replaced = [s \in Site |-> {}]
  /\ rushed = {}

\* A write at offset 0 of a file that has these blocks by now.
Overlay(blocks, text) ==
  [i \in 1..(IF Len(blocks) > Len(text) THEN Len(blocks) ELSE Len(text)) |->
     IF i <= Len(text) THEN text[i] ELSE blocks[i]]

\* The blocks of a file after the copy's write; the file may be gone.
CopiedOver(blocks, text) == IF blocks = None THEN None ELSE Overlay(blocks, text)

Backup(r)   == <<job[r].site, job[r].stamp>>
InFlight(r) == job[r].pc \notin {"new", "done", "failed"}

Goto(r, next)  == job' = [job EXCEPT ![r].pc = next]
Hold(r, f, next) == job' = [job EXCEPT ![r].pc = next, ![r].file = f]

-----------------------------------------------------------------------------
(* createOrUpdateVhost *)

Rushes(r) ==
  \E q \in Req \ {r} :
    /\ job[q].site = job[r].site
    /\ InFlight(q) \/ (job[q].pc # "new" /\ job[q].stamp = clock)

\* Mutant: the name of a backup has no time in it.
LookTimeless(r) ==
  /\ job[r].pc = "new"
  /\ job' = [job EXCEPT ![r].pc = IF available[job[r].site] = None
                                  THEN "openTemp" ELSE "backup"]
  /\ rushed' = IF Rushes(r) THEN rushed \cup {job[r].site} ELSE rushed
  /\ UNCHANGED <<clock, data, available, temp, enabled, backups, replaced>>

\* The directories exist; is there a file to back up, and the time its copy
\* is named after.
Look(r) ==
  /\ job[r].pc = "new"
  /\ job' = [job EXCEPT ![r].stamp = clock,
                        ![r].pc = IF available[job[r].site] = None
                                  THEN "openTemp" ELSE "backup"]
  /\ rushed' = IF Rushes(r) THEN rushed \cup {job[r].site} ELSE rushed
  /\ UNCHANGED <<clock, data, available, temp, enabled, backups, replaced>>

BackupOpen(r) ==
  /\ job[r].pc = "backup"
  /\ backups' = [backups EXCEPT ![Backup(r)] = <<>>]
  /\ Hold(r, available[job[r].site], "backupData")
  /\ UNCHANGED <<clock, data, available, temp, enabled, replaced, rushed>>

BackupData(r) ==
  /\ job[r].pc = "backupData"
  /\ backups' = [backups EXCEPT ![Backup(r)] = CopiedOver(@, data[job[r].file])]
  /\ Hold(r, None, "openTemp")
  /\ UNCHANGED <<clock, data, available, temp, enabled, replaced, rushed>>

\* Mutant: the target itself is opened.
OpenTempInPlace(r) ==
  LET s == job[r].site
      f == IF available[s] = None THEN r ELSE available[s]
  IN  /\ job[r].pc = "openTemp"
      /\ data' = [data EXCEPT ![f] = <<>>]
      /\ temp' = [temp EXCEPT ![s] = f]
      /\ Hold(r, f, "writeTemp")
      /\ UNCHANGED <<clock, available, enabled, backups, replaced, rushed>>

OpenTemp(r) ==
  LET s == job[r].site
      f == IF temp[s] = None THEN r ELSE temp[s]
  IN  /\ job[r].pc = "openTemp"
      /\ data' = [data EXCEPT ![f] = <<>>]
      /\ temp' = [temp EXCEPT ![s] = f]
      /\ Hold(r, f, "writeTemp")
      /\ UNCHANGED <<clock, available, enabled, backups, replaced, rushed>>

WriteTemp(r) ==
  /\ job[r].pc = "writeTemp"
  /\ data' = [data EXCEPT ![job[r].file] = Overlay(@, Text(job[r].vhost))]
  /\ Hold(r, None, "rename")
  /\ UNCHANGED <<clock, available, temp, enabled, backups, replaced, rushed>>

\* Without a temporary file, another request has renamed it: ENOENT.
Rename(r) ==
  LET s == job[r].site IN
  /\ job[r].pc = "rename" /\ temp[s] # None
  /\ available' = [available EXCEPT ![s] = temp[s]]
  /\ temp' = [temp EXCEPT ![s] = None]
  /\ replaced' = IF available[s] = None THEN replaced
                 ELSE [replaced EXCEPT ![s] = @ \cup {data[available[s]]}]
  /\ Goto(r, "enable")
  /\ UNCHANGED <<clock, data, enabled, backups, rushed>>

\* Mutant: a site that is enabled is taken to be up to date.
EnableOpenOnce(r) ==
  LET there == enabled[job[r].site] # None IN
  /\ job[r].pc = "enable"
  /\ enabled' = [enabled EXCEPT ![job[r].site] = IF there THEN @ ELSE <<>>]
  /\ Hold(r, available[job[r].site], IF there THEN "done" ELSE "enableData")
  /\ UNCHANGED <<clock, data, available, temp, backups, replaced, rushed>>

EnableOpen(r) ==
  /\ job[r].pc = "enable"
  /\ enabled' = [enabled EXCEPT ![job[r].site] = <<>>]
  /\ Hold(r, available[job[r].site], "enableData")
  /\ UNCHANGED <<clock, data, available, temp, backups, replaced, rushed>>

EnableData(r) ==
  /\ job[r].pc = "enableData"
  /\ enabled' = [enabled EXCEPT ![job[r].site] =
                   CopiedOver(@, data[job[r].file])]
  /\ Hold(r, None, "done")
  /\ UNCHANGED <<clock, data, available, temp, backups, replaced, rushed>>

\* The next call fails, or the process dies.  Only a copy that fails cleans
\* up after itself.
Fail(r) ==
  /\ InFlight(r)
  /\ Hold(r, None, "failed")
  /\ \/ UNCHANGED <<enabled, backups>>
     \/ /\ job[r].pc = "backupData"
        /\ backups' = [backups EXCEPT ![Backup(r)] = None]
        /\ UNCHANGED enabled
     \/ /\ job[r].pc = "enableData"
        /\ enabled' = [enabled EXCEPT ![job[r].site] = None]
        /\ UNCHANGED backups
  /\ UNCHANGED <<clock, data, available, temp, replaced, rushed>>

\* Time tells a request to come from one that has read the clock.
Tick ==
  /\ clock < MaxTime
  /\ \E r, q \in Req : job[r].pc = "new" /\ job[q].pc # "new" /\ job[q].stamp = clock
  /\ clock' = clock + 1
  /\ UNCHANGED <<data, available, temp, enabled, backups, job, replaced, rushed>>

WriterStep(r) ==
  \/ Look(r) \/ BackupOpen(r) \/ BackupData(r)
  \/ OpenTemp(r) \/ WriteTemp(r) \/ Rename(r)
  \/ EnableOpen(r) \/ EnableData(r) \/ Fail(r)

Next == Tick \/ \E r \in Req : WriterStep(r)

Spec == Init /\ [][Next]_vars

-----------------------------------------------------------------------------
(* Properties *)

Pcs == {"new", "backup", "backupData", "openTemp", "writeTemp", "rename",
        "enable", "enableData", "done", "failed"}

Blocks == UNION {[1..n -> Vhost] : n \in 0..2}

TypeOK ==
  /\ clock \in 0..MaxTime
  /\ data \in [Inode -> Blocks]
  /\ available \in [Site -> Inode \cup {None}]
  /\ temp \in [Site -> Inode \cup {None}]
  /\ backups \in [Site \X (0..MaxTime) -> Blocks \cup {None}]
  /\ job \in [Req -> [pc : Pcs, site : Site, vhost : Vhost,
                      stamp : 0..MaxTime, file : Inode \cup {None}]]
  /\ replaced \in [Site -> SUBSET Blocks]
  /\ rushed \subseteq Site

Whole == {Text(v) : v \in Vhost}

\* At every moment the file of a site in sites-available is a whole vhost,
\* whichever call failed and wherever the process died, if its updates do
\* not rush each other.
WholeUnlessRushed ==
  /\ TypeOK
  /\ \A s \in Site \ rushed : available[s] # None => data[available[s]] \in Whole

\* Every text an update has replaced can be found in the backup directory,
\* if the updates of the site do not rush each other.
BackedUpUnlessRushed ==
  \A s \in Site \ rushed : \A text \in replaced[s] :
    \E t \in 0..MaxTime : backups[<<s, t>>] = text

\* The last request for a site has been answered with success.
Settled(s) ==
  /\ \A r \in Req : job[r].site = s => job[r].pc \in {"new", "done"}
  /\ \E r \in Req : job[r].site = s /\ job[r].pc = "done"
=============================================================================
