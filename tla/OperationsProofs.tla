--------------------------- MODULE OperationsProofs ---------------------------
(***************************************************************************)
(* The scheduled backups, for any databases, vhosts, interval and          *)
(* retention, and any bounds: runs never overlap and are whole, only a run *)
(* that has made no copy can prune the last whole one, and nothing within  *)
(* the retention is removed.  And     *)
(* what restores them: a rollback saves what it overwrites, and what it    *)
(* answers is in force.                                                    *)
(***************************************************************************)
EXTENDS AutoBackup, RollbackManager, TLAPS

Conf == Site \X {"conf"}

\* The flag says whether a run is under way; there is at most one, and none
\* while the backend is down.
Alone ==
  /\ \A j, k \in Run : Active(j) /\ Active(k) => j = k
  /\ running <=> \E k \in Run : Active(k)
  /\ running => up

\* How far a run is.
Progress(k) ==
  /\ run[k].pc = "mkdir" => run[k].next = 1
  /\ run[k].pc \in {"mkdir", "dump"} => ~run[k].copy
  /\ run[k].pc # "prune" => run[k].expired = None
  /\ run[k].pc = "dump" => \A i \in 1..(run[k].next - 1) : <<databaseNames[i], k>> \in dumps
  /\ run[k].pc \in {"copy", "prune", "done"} =>
       \A i \in DOMAIN databaseNames : <<databaseNames[i], k>> \in dumps
  /\ run[k].copy /\ run[k].pc = "copy" => Conf \subseteq copied[k] \cup run[k].todo
  /\ run[k].copy /\ run[k].pc \in {"prune", "done"} => Conf \subseteq copied[k]

\* When a run began; what it has copied is younger than what it removes.
Timing(k) ==
  /\ k > started => run[k].pc = "none" /\ modified[k] = None
  /\ Active(k) => run[k].startedAt <= clock /\ clock <= run[k].startedAt + MaxDuration
  /\ run[k].copy /\ run[k].pc \in {"copy", "prune"} =>
       modified[k] # None /\ modified[k] >= run[k].startedAt
  /\ run[k].pc = "prune" =>
       /\ run[k].cutoff + Retention <= clock /\ run[k].cutoff < run[k].startedAt
       /\ \A e \in run[k].entries : modified[e] # None
       /\ run[k].expired \notin run[k].entries
       /\ run[k].expired # None => modified[run[k].expired] # None
       /\ run[k].expired \in Run => modified[run[k].expired] < run[k].cutoff

\* The inductive invariant.
IInv ==
  /\ TypeOK /\ Conf \subseteq sites /\ Alone
  /\ \A k \in Run : Progress(k) /\ Timing(k)

-----------------------------------------------------------------------------
(* The state, step by step *)

RunRecord ==
  [pc : {"none", "mkdir", "dump", "copy", "prune", "done", "failed"},
   startedAt : 0..MaxTime, next : 1..(Len(databaseNames) + 1), copy : BOOLEAN, todo : SUBSET File,
   cutoff : (-Retention)..MaxTime, entries : SUBSET Entry, expired : Entry \cup {None}]

\* The constants, as numbers and names.
LEMMA Constants ==
  /\ Len(databaseNames) \in Nat /\ DOMAIN databaseNames = 1..Len(databaseNames)
  /\ Interval \in Nat /\ Retention \in Nat /\ MaxRuns \in Nat /\ MaxTime \in Nat
  /\ MaxDuration \in Nat /\ MaxDuration < Retention
  /\ Audit \notin Run /\ None \notin Entry /\ None \notin 0..MaxTime
  /\ Run \subseteq Entry /\ Audit \in Entry
BY AutoBackupAssumption DEF AutoBackupAssumption, Entry

\* A run that has ended, or not begun, holds nothing.
LEMMA IdleType ==
  ASSUME NEW t \in 0..MaxTime,
         NEW pc \in {"none", "mkdir", "dump", "copy", "prune", "done", "failed"},
         NEW c \in BOOLEAN
  PROVE  /\ [Idle EXCEPT !.pc = pc, !.startedAt = t] \in RunRecord
         /\ [Idle EXCEPT !.pc = pc, !.startedAt = t, !.copy = c] \in RunRecord
<1>1. 0 \in (-Retention)..MaxTime /\ 1 \in 1..(Len(databaseNames) + 1)
  BY Constants
<1>2. Idle \in RunRecord
  BY <1>1 DEF Idle, RunRecord
<1> QED
  BY <1>2 DEF RunRecord

\* The state of one run, out of the type invariant.
LEMMA Records ==
  ASSUME TypeOK, NEW k \in Run
  PROVE  /\ run[k] \in RunRecord /\ run = [j \in Run |-> run[j]]
         /\ modified[k] \in (0..MaxTime) \cup {None} /\ copied[k] \in SUBSET File
BY Constants DEF TypeOK, RunRecord

\* A run that is over, or has not begun, needs only what it has made.
LEMMA OthersKeep ==
  ASSUME NEW j \in Run, Progress(j), Timing(j), ~Active(j), run'[j] = run[j],
         dumps \subseteq dumps', copied[j] \subseteq copied'[j],
         j > started' => j > started, modified'[j] \in {modified[j], None}
  PROVE  Progress(j)' /\ Timing(j)'
<1>1. run[j].pc \in {"none", "done", "failed"}
  BY DEF Active
<1> QED
  BY <1>1 DEF Progress, Timing, Active

\* The process dies: the run under way has failed.
LEMMA DiesKeeps ==
  ASSUME IInv, Dies
  PROVE  IInv'
<1>1. /\ clock' = clock /\ due' = due /\ sites' = sites /\ started' = started
      /\ modified' = modified /\ copied' = copied /\ dumps' = dumps
      /\ up' = FALSE /\ running' = FALSE /\ run' = Stopped
  BY DEF Dies
<1>2. ASSUME NEW k \in Run
      PROVE  /\ Active(k) => run'[k] = Ended(k, "failed")
             /\ ~Active(k) => run'[k] = run[k]
             /\ run'[k] \in RunRecord
  <2>1. run[k] \in RunRecord
    BY Records DEF IInv
  <2>2. run'[k] = IF Active(k) THEN Ended(k, "failed") ELSE run[k]
    BY <1>1 DEF Stopped
  <2>3. Ended(k, "failed") \in RunRecord
    <3>1. run[k].startedAt \in 0..MaxTime
      BY <2>1 DEF RunRecord
    <3> QED
      BY <3>1, IdleType DEF Ended
  <2> QED
    BY <2>1, <2>2, <2>3
<1>3. ASSUME NEW k \in Run
      PROVE  /\ ~Active(k)'
             /\ Active(k) => run'[k].pc = "failed" /\ run[k].pc # "none"
  BY <1>2 DEF Active, Ended, Idle
<1>4. TypeOK'
  <2>1. run' = [k \in Run |-> run'[k]]
    BY <1>1 DEF Stopped
  <2>2. run' \in [Run -> RunRecord]
    BY <1>2, <2>1
  <2> QED
    BY <1>1, <2>2 DEF IInv, TypeOK, RunRecord
<1>5. Conf \subseteq sites' /\ Alone'
  BY <1>1, <1>3 DEF IInv, Alone
<1>6. ASSUME NEW k \in Run PROVE Progress(k)' /\ Timing(k)'
  <2>1. Progress(k) /\ Timing(k)
    BY DEF IInv
  <2>2. CASE Active(k)
    <3>1. run'[k].expired = None
      BY <1>2, <2>2 DEF Ended, Idle
    <3> QED
      BY <1>1, <1>3, <2>1, <2>2, <3>1 DEF Progress, Timing
  <2>3. CASE ~Active(k)
    BY <1>1, <1>2, <2>1, <2>3, OthersKeep
  <2> QED
    BY <2>2, <2>3
<1> QED
  BY <1>4, <1>5, <1>6 DEF IInv

\* A run begins, the only one.
LEMMA StartKeeps ==
  ASSUME IInv, StartRun
  PROVE  IInv'
<1> DEFINE n == started + 1
<1>1. /\ clock' = clock /\ up' = up /\ sites' = sites /\ modified' = modified
      /\ copied' = copied /\ dumps' = dumps /\ started' = n /\ running' = TRUE
      /\ due' = due + Interval /\ clock >= due /\ up /\ ~running
      /\ run' = [run EXCEPT ![n] = Begin]
  BY DEF StartRun
<1>2. n \in Run /\ n > started /\ started \in Nat
  BY Constants DEF StartRun, Run, IInv, TypeOK
<1>3. /\ Begin \in RunRecord /\ Begin.pc = "mkdir" /\ Begin.next = 1
      /\ Begin.startedAt = clock /\ Begin.expired = None /\ ~Begin.copy
  <2>1. clock \in 0..MaxTime
    BY DEF IInv, TypeOK
  <2>2. Begin \in RunRecord
    BY <2>1, IdleType DEF Begin
  <2> QED
    BY <2>2 DEF Begin, Idle
<1>4. /\ run'[n] = Begin
      /\ \A k \in Run \ {n} : run'[k] = run[k]
      /\ run' \in [Run -> RunRecord]
  BY <1>1, <1>2, <1>3 DEF IInv, TypeOK, RunRecord
<1>5. \A k \in Run : ~Active(k)
  BY <1>1 DEF IInv, Alone
<1>6. run'[n].pc = "mkdir" /\ \A k \in Run \ {n} : run'[k].pc \in {"none", "done", "failed"}
  BY <1>3, <1>4, <1>5 DEF Active
<1>7. TypeOK'
  <2>1. due' \in Nat /\ due' <= clock' + Interval /\ started' \in 0..MaxRuns
    BY <1>1, <1>2, Constants DEF IInv, TypeOK, Run
  <2> QED
    BY <1>1, <1>4, <2>1 DEF IInv, TypeOK, RunRecord
<1>8. Conf \subseteq sites' /\ Alone'
  <2>1. \A k \in Run : Active(k)' <=> k = n
    BY <1>2, <1>6 DEF Active
  <2> QED
    BY <1>1, <1>2, <2>1 DEF IInv, Alone
<1>9. ASSUME NEW k \in Run PROVE Progress(k)' /\ Timing(k)'
  <2>1. Progress(k) /\ Timing(k) /\ ~Active(k)
    BY <1>5 DEF IInv
  <2>2. CASE k = n
    <3>1. /\ run'[k].pc = "mkdir" /\ run'[k].next = 1 /\ run'[k].startedAt = clock
          /\ run'[k].expired = None /\ ~run'[k].copy
      BY <1>3, <1>4, <2>2
    <3>2. clock \in Nat
      BY Constants DEF IInv, TypeOK
    <3> QED
      BY <1>1, <1>2, <2>2, <3>1, <3>2, Constants DEF Progress, Timing
  <2>3. CASE k # n
    <3>1. k \in Nat
      BY Constants DEF Run
    <3>2. k > started' => k > started
      BY <1>1, <1>2, <3>1
    <3> QED
      BY <1>1, <1>4, <2>1, <2>3, <3>2, OthersKeep
  <2> QED
    BY <2>2, <2>3
<1> QED
  BY <1>7, <1>8, <1>9 DEF IInv

\* A step of the run under way touches its own record and copy.
LEMMA StepKeeps ==
  ASSUME IInv, NEW k \in Run, Active(k), NEW x \in RunRecord,
         run' = [run EXCEPT ![k] = x],
         UNCHANGED <<clock, up, due, sites, started>>, running' \in BOOLEAN,
         running' <=> x.pc \notin {"none", "done", "failed"},
         modified' \in [Entry -> (0..MaxTime) \cup {None}],
         \A j \in Run \ {k} : modified'[j] \in {modified[j], None},
         copied' \in [Run -> SUBSET File], \A j \in Run : copied[j] \subseteq copied'[j],
         dumps \subseteq dumps',
         dumps' \subseteq {databaseNames[i] : i \in DOMAIN databaseNames} \X Run,
         Progress(k)', Timing(k)'
  PROVE  IInv'
<1>1. run'[k] = x /\ run' \in [Run -> RunRecord] /\ \A j \in Run \ {k} : run'[j] = run[j]
  BY DEF IInv, TypeOK, RunRecord
<1>2. \A j \in Run \ {k} : ~Active(j)
  BY DEF IInv, Alone
<1>3. TypeOK'
  BY <1>1 DEF IInv, TypeOK, RunRecord
<1>4. Alone'
  <2>1. \A j \in Run : Active(j)' => j = k
    BY <1>1, <1>2 DEF Active
  <2>2. Active(k)' <=> running'
    BY <1>1 DEF Active
  <2>3. running /\ up
    BY DEF IInv, Alone
  <2> QED
    BY <2>1, <2>2, <2>3 DEF Alone
<1>5. ASSUME NEW j \in Run PROVE Progress(j)' /\ Timing(j)'
  <2>1. CASE j = k
    BY <2>1
  <2>2. CASE j # k
    <3>1. Progress(j) /\ Timing(j)
      BY DEF IInv
    <3> QED
      BY <1>1, <1>2, <2>2, <3>1, OthersKeep
  <2> QED
    BY <2>1, <2>2
<1> QED
  BY <1>3, <1>4, <1>5 DEF IInv

\* runOnce up to its dumps.
LEMMA DumpKeeps ==
  ASSUME IInv, NEW k \in Run, MakeDir(k) \/ DumpDatabase(k)
  PROVE  IInv'
<1>1. /\ UNCHANGED <<clock, up, due, running, sites, started, modified, copied>>
      /\ Active(k) /\ Progress(k) /\ Timing(k) /\ running /\ TypeOK
  BY DEF MakeDir, DumpDatabase, Active, IInv, Alone
<1>2. run[k] \in RunRecord
  BY <1>1, Records
<1>3. CASE MakeDir(k)
  <2>1. PICK x : x = [run[k] EXCEPT !.pc = "dump"]
    OBVIOUS
  <2>2. /\ run' = [run EXCEPT ![k] = x] /\ x \in RunRecord /\ x.pc = "dump"
        /\ x.next = 1 /\ x.startedAt = run[k].startedAt /\ dumps' = dumps
        /\ x.expired = run[k].expired /\ ~x.copy
    BY <1>1, <1>2, <1>3, <2>1, Constants DEF MakeDir, Goto, RunRecord,
       Progress, TypeOK
  <2>3. run'[k] = x
    BY <1>1, <2>2 DEF TypeOK
  <2>4. Progress(k)' /\ Timing(k)'
    BY <1>1, <1>3, <2>2, <2>3 DEF MakeDir, Progress, Timing, Active
  <2> QED
    BY <1>1, <2>2, <2>4, StepKeeps DEF TypeOK
<1>4. CASE DumpDatabase(k)
  <2>1. PICK x : x = [run[k] EXCEPT !.next = @ + 1]
    OBVIOUS
  <2>2. /\ run[k].next \in 1..Len(databaseNames) /\ run[k].pc = "dump"
        /\ dumps' = dumps \cup {<<databaseNames[run[k].next], k>>}
    BY <1>2, <1>4, Constants DEF DumpDatabase, LastDump, RunRecord
  <2>3. /\ run' = [run EXCEPT ![k] = x] /\ x \in RunRecord /\ x.pc = "dump"
        /\ x.next = run[k].next + 1 /\ x.startedAt = run[k].startedAt
        /\ x.expired = run[k].expired /\ ~x.copy
    <3>1. run[k].next + 1 \in 1..(Len(databaseNames) + 1)
      BY <2>2, Constants
    <3> QED
      BY <1>1, <1>2, <1>4, <2>1, <2>2, <3>1 DEF DumpDatabase, RunRecord, TypeOK,
         Progress
  <2>4. run'[k] = x
    BY <1>1, <2>3 DEF TypeOK
  <2>5. \A i \in 1..(x.next - 1) : <<databaseNames[i], k>> \in dumps'
    BY <1>1, <2>2, <2>3 DEF Progress
  <2>6. Progress(k)' /\ Timing(k)'
    BY <1>1, <2>2, <2>3, <2>4, <2>5 DEF Progress, Timing, Active
  <2>7. dumps' \subseteq {databaseNames[i] : i \in DOMAIN databaseNames} \X Run
    BY <1>1, <2>2, Constants DEF TypeOK
  <2> QED
    BY <1>1, <2>2, <2>3, <2>6, <2>7, StepKeeps DEF TypeOK
<1> QED
  BY <1>3, <1>4

\* The copy of the vhosts, and the list of what there is to prune.
LEMMA CopyKeeps ==
  ASSUME IInv, NEW k \in Run,
         CopyStart(k) \/ SkipCopy(k) \/ CopyFile(k) \/ ListBackups(k)
  PROVE  IInv'
<1>1. /\ UNCHANGED <<clock, up, due, running, sites, started, dumps>>
      /\ Active(k) /\ Progress(k) /\ Timing(k) /\ running /\ TypeOK
  BY DEF CopyStart, SkipCopy, CopyFile, ListBackups, Active, IInv, Alone
<1>2. run[k] \in RunRecord /\ clock \in 0..MaxTime /\ clock \in Int
  BY <1>1, Records, Constants DEF TypeOK
<1>3. run[k].startedAt \in Int /\ run[k].startedAt <= clock
      /\ clock <= run[k].startedAt + MaxDuration
  BY <1>1, <1>2, Constants DEF Timing, RunRecord
<1>4. CASE CopyStart(k) \/ SkipCopy(k)
  <2>1. \A i \in DOMAIN databaseNames : <<databaseNames[i], k>> \in dumps
    <3>1. /\ run[k].next > Len(databaseNames) /\ run[k].next \in Nat
          /\ \A i \in 1..(run[k].next - 1) : <<databaseNames[i], k>> \in dumps
      BY <1>1, <1>2, <1>4, Constants DEF CopyStart, SkipCopy, LastDump, Progress,
         RunRecord
    <3> QED
      BY <3>1, Constants
  <2>2. CASE CopyStart(k)
    <3>1. PICK x : x = [run[k] EXCEPT !.pc = "copy", !.copy = TRUE, !.todo = sites]
      OBVIOUS
    <3>2. /\ run' = [run EXCEPT ![k] = x] /\ x \in RunRecord /\ x.pc = "copy"
          /\ x.todo = sites /\ x.startedAt = run[k].startedAt /\ copied' = copied
          /\ x.expired = run[k].expired /\ run[k].pc = "dump"
          /\ modified' = [modified EXCEPT ![k] = clock]
      BY <1>1, <1>2, <2>2, <3>1 DEF CopyStart, RunRecord, TypeOK
    <3>3. run'[k] = x /\ modified'[k] = clock /\ clock # None
      BY <1>1, <1>2, <3>2, Constants DEF TypeOK
    <3>4. modified' \in [Entry -> (0..MaxTime) \cup {None}]
          /\ \A e \in Entry \ {k} : modified'[e] = modified[e]
      BY <1>1, <1>2, <3>2 DEF TypeOK
    <3>5. Progress(k)'
      BY <1>1, <2>1, <3>2, <3>3 DEF Progress, IInv
    <3>6. Timing(k)'
      BY <1>1, <1>3, <3>2, <3>3 DEF Timing, Active
    <3> QED
      BY <1>1, <3>2, <3>4, <3>5, <3>6, StepKeeps, Constants DEF TypeOK
  <2>3. CASE SkipCopy(k)
    <3>1. PICK x : x = [run[k] EXCEPT !.pc = "copy"]
      OBVIOUS
    <3>2. /\ run' = [run EXCEPT ![k] = x] /\ x \in RunRecord /\ x.pc = "copy"
          /\ x.copy = FALSE /\ x.startedAt = run[k].startedAt
          /\ copied' = copied /\ modified' = modified
          /\ x.expired = run[k].expired /\ run[k].pc = "dump"
      BY <1>1, <1>2, <2>3, <3>1 DEF SkipCopy, Goto, RunRecord, TypeOK, Progress
    <3>3. run'[k] = x
      BY <1>1, <3>2 DEF TypeOK
    <3>4. Progress(k)'
      BY <1>1, <2>1, <3>2, <3>3 DEF Progress
    <3>5. Timing(k)'
      BY <1>1, <1>3, <3>2, <3>3 DEF Timing, Active
    <3> QED
      BY <1>1, <3>2, <3>4, <3>5, StepKeeps DEF TypeOK
  <2> QED
    BY <1>4, <2>2, <2>3
<1>5. CASE CopyFile(k)
  <2>1. PICK f \in run[k].todo \cap sites :
          /\ copied' = [copied EXCEPT ![k] = @ \cup {f}]
          /\ modified' = [modified EXCEPT ![k] = clock]
          /\ run' = [run EXCEPT ![k].todo = @ \ {f}]
    BY <1>5 DEF CopyFile
  <2>2. PICK x : x = [run[k] EXCEPT !.todo = @ \ {f}]
    OBVIOUS
  <2>3. /\ run' = [run EXCEPT ![k] = x] /\ x \in RunRecord /\ x.pc = "copy"
        /\ run[k].pc = "copy"
        /\ x.todo = run[k].todo \ {f} /\ x.startedAt = run[k].startedAt
        /\ x.expired = run[k].expired /\ x.copy = run[k].copy
    BY <1>1, <1>2, <1>5, <2>1, <2>2 DEF CopyFile, RunRecord, TypeOK
  <2>4. run'[k] = x /\ modified'[k] = clock /\ clock # None
    BY <1>1, <1>2, <2>1, <2>3, Constants DEF TypeOK
  <2>5. modified' \in [Entry -> (0..MaxTime) \cup {None}]
        /\ \A e \in Entry \ {k} : modified'[e] = modified[e]
    BY <1>1, <1>2, <2>1 DEF TypeOK
  <2>6. /\ copied'[k] = copied[k] \cup {f} /\ copied' \in [Run -> SUBSET File]
        /\ \A j \in Run : copied[j] \subseteq copied'[j]
    BY <1>1, <1>2, <2>1 DEF TypeOK, RunRecord
  <2>7. Progress(k)'
    BY <1>1, <2>3, <2>4, <2>6 DEF Progress, IInv
  <2>8. Timing(k)'
    BY <1>1, <1>3, <2>3, <2>4 DEF Timing, Active
  <2> QED
    BY <1>1, <2>3, <2>5, <2>6, <2>7, <2>8, StepKeeps, Constants DEF TypeOK
<1>6. CASE ListBackups(k)
  <2>1. PICK x : x = [run[k] EXCEPT !.pc = "prune", !.cutoff = Cutoff,
                                    !.entries = {e \in Entry : modified[e] # None}]
    OBVIOUS
  <2>2. Cutoff \in (-Retention)..MaxTime /\ Cutoff + Retention <= clock
        /\ Cutoff < run[k].startedAt
    BY <1>2, <1>3, Constants DEF Cutoff
  <2>3. /\ run' = [run EXCEPT ![k] = x] /\ x \in RunRecord /\ x.pc = "prune"
        /\ x.cutoff = Cutoff /\ x.entries = {e \in Entry : modified[e] # None}
        /\ x.startedAt = run[k].startedAt /\ x.expired = run[k].expired
        /\ x.copy = run[k].copy /\ run[k].pc = "copy" /\ run[k].todo = {}
        /\ copied' = copied /\ modified' = modified
    BY <1>1, <1>2, <1>6, <2>1, <2>2 DEF ListBackups, RunRecord, TypeOK
  <2>4. run'[k] = x
    BY <1>1, <2>3 DEF TypeOK
  <2>5. Progress(k)'
    BY <1>1, <2>3, <2>4 DEF Progress
  <2>6. Timing(k)'
    <3>1. x.expired = None
      BY <1>1, <2>3 DEF Progress
    <3> QED
      BY <1>1, <1>3, <2>2, <2>3, <2>4, <3>1, Constants DEF Timing, Active
  <2> QED
    BY <1>1, <2>3, <2>5, <2>6, StepKeeps, Constants DEF TypeOK
<1> QED
  BY <1>4, <1>5, <1>6

\* The copy of the run that prunes, if it has made one, was made after the
\* cutoff: there is a whole copy as long as this one stays.
LEMMA OwnCopy ==
  ASSUME IInv, NEW k \in Run, run[k].pc = "prune"
  PROVE  /\ run[k].copy =>
              modified[k] # None /\ Conf \subseteq copied[k] /\ run[k].expired # k
         /\ run[k].expired \in Run =>
              modified[run[k].expired] + Retention < clock
<1>1. Progress(k) /\ Timing(k) /\ TypeOK
  BY DEF IInv
<1>2. run[k] \in RunRecord /\ clock \in Int
  BY <1>1, Records, Constants DEF TypeOK
<1>3. /\ run[k].copy => modified[k] # None /\ modified[k] >= run[k].startedAt
      /\ run[k].cutoff < run[k].startedAt /\ run[k].cutoff + Retention <= clock
      /\ run[k].expired \in Run => modified[run[k].expired] < run[k].cutoff
  BY <1>1 DEF Timing
<1>4. /\ run[k].copy => modified[k] \in 0..MaxTime
      /\ run[k].startedAt \in 0..MaxTime /\ run[k].cutoff \in (-Retention)..MaxTime
  BY <1>1, <1>2, <1>3, Records DEF RunRecord
<1>5. run[k].copy => run[k].expired # k
  BY <1>3, <1>4, Constants
<1>6. ASSUME run[k].expired \in Run
      PROVE  modified[run[k].expired] + Retention < clock
  <2>1. modified[run[k].expired] # None
    BY <1>1, <1>6, Constants DEF Timing
  <2>2. modified[run[k].expired] \in 0..MaxTime
    BY <1>1, <1>6, <2>1, Records
  <2> QED
    BY <1>2, <1>3, <1>4, <1>6, <2>2, Constants
<1> QED
  BY <1>1, <1>3, <1>5, <1>6 DEF Progress

\* Pruning, and the end of a run.
LEMMA PruneKeeps ==
  ASSUME IInv, NEW k \in Run, PruneEntry(k) \/ RemoveEntry(k) \/ Complete(k)
  PROVE  IInv'
<1>1. /\ UNCHANGED <<clock, up, due, sites, started, copied, dumps>>
      /\ run[k].pc = "prune" /\ Active(k) /\ Progress(k) /\ Timing(k) /\ running
      /\ TypeOK
  BY DEF PruneEntry, RemoveEntry, Complete, Active, IInv, Alone
<1>2. run[k] \in RunRecord /\ (run[k].copy => Conf \subseteq copied[k])
  BY <1>1, Records DEF Progress
<1>3. run[k].copy => modified[k] # None /\ run[k].expired # k
  BY <1>1, OwnCopy
<1>4. CASE PruneEntry(k)
  <2>1. PICK e \in run[k].entries :
          run' = [run EXCEPT ![k].entries = @ \ {e},
                             ![k].expired = IF Expired(k, e) THEN e ELSE None]
    BY <1>4 DEF PruneEntry
  <2>2. PICK x : x = [run[k] EXCEPT !.entries = @ \ {e},
                                    !.expired = IF Expired(k, e) THEN e ELSE None]
    OBVIOUS
  <2>3. /\ run' = [run EXCEPT ![k] = x] /\ x \in RunRecord /\ x.pc = "prune"
        /\ x.entries = run[k].entries \ {e}
        /\ x.expired = (IF Expired(k, e) THEN e ELSE None)
        /\ x.startedAt = run[k].startedAt /\ x.cutoff = run[k].cutoff
        /\ x.copy = run[k].copy /\ e \in Entry
    BY <1>1, <1>2, <2>1, <2>2 DEF RunRecord, TypeOK
  <2>4. run'[k] = x /\ running' = running /\ modified' = modified
    BY <1>1, <1>4, <2>3 DEF TypeOK, PruneEntry
  <2>5. Progress(k)'
    BY <1>1, <2>3, <2>4 DEF Progress
  <2>6. Timing(k)'
    <3>1. modified[e] # None
      BY <1>1 DEF Timing
    <3>2. x.expired = None \/ (x.expired = e /\ modified[e] < run[k].cutoff)
      <4>1. CASE Expired(k, e)
        BY <2>3, <4>1 DEF Expired
      <4>2. CASE ~Expired(k, e)
        BY <2>3, <4>2 DEF Expired
      <4> QED
        BY <4>1, <4>2
    <3>3. None \notin run[k].entries /\ None \notin Run
      BY <1>2, Constants DEF RunRecord
    <3> QED
      BY <1>1, <2>3, <2>4, <3>1, <3>2, <3>3 DEF Timing, Active
  <2> QED
    BY <1>1, <2>3, <2>4, <2>5, <2>6, StepKeeps DEF TypeOK
<1>5. CASE RemoveEntry(k)
  <2>1. PICK x : x = [run[k] EXCEPT !.expired = None]
    OBVIOUS
  <2>2. /\ run' = [run EXCEPT ![k] = x] /\ x \in RunRecord /\ x.pc = "prune"
        /\ x.entries = run[k].entries /\ x.expired = None
        /\ x.startedAt = run[k].startedAt /\ x.cutoff = run[k].cutoff
        /\ x.copy = run[k].copy
    BY <1>1, <1>2, <1>5, <2>1 DEF RunRecord, TypeOK, RemoveEntry
  <2>3. /\ run'[k] = x /\ running' = running
        /\ modified' = [modified EXCEPT ![run[k].expired] = None]
    BY <1>1, <1>5, <2>2 DEF TypeOK, RemoveEntry
  <2>4. /\ modified' \in [Entry -> (0..MaxTime) \cup {None}]
        /\ \A e \in Entry : modified'[e] \in {modified[e], None}
        /\ \A e \in Entry \ {run[k].expired} : modified'[e] = modified[e]
    BY <1>1, <2>3 DEF TypeOK
  <2>5. run[k].copy => modified'[k] = modified[k]
    BY <1>3, <2>4, Constants
  <2>6. Progress(k)'
    BY <1>1, <2>2, <2>3 DEF Progress
  <2>7. Timing(k)'
    <3>1. \A e \in run[k].entries : modified'[e] # None
      BY <1>1, <1>2, <2>4 DEF Timing, RunRecord
    <3>2. None \notin run[k].entries /\ None \notin Run
      BY <1>2, Constants DEF RunRecord
    <3> QED
      BY <1>1, <2>2, <2>3, <2>5, <3>1, <3>2 DEF Timing, Active
  <2> QED
    BY <1>1, <2>2, <2>3, <2>4, <2>6, <2>7, StepKeeps, Constants DEF TypeOK
<1>6. CASE Complete(k)
  <2>1. PICK x : x = Ended(k, "done")
    OBVIOUS
  <2>2. x \in RunRecord /\ x.pc = "done" /\ x.expired = None /\ x.copy = run[k].copy
    <3>1. run[k].startedAt \in 0..MaxTime /\ run[k].copy \in BOOLEAN
      BY <1>2 DEF RunRecord
    <3>2. x = [Idle EXCEPT !.pc = "done", !.startedAt = run[k].startedAt,
                           !.copy = run[k].copy]
      BY <2>1, <3>1 DEF Ended
    <3>3. x \in RunRecord
      BY <3>1, <3>2, IdleType
    <3> QED
      BY <3>2, <3>3 DEF Idle
  <2>3. /\ run' = [run EXCEPT ![k] = x] /\ running' = FALSE /\ modified' = modified
    BY <1>6, <2>1 DEF Complete
  <2>4. run'[k] = x
    BY <1>1, <2>3 DEF TypeOK
  <2>5. Progress(k)'
    BY <1>1, <2>2, <2>4 DEF Progress
  <2>6. Timing(k)'
    BY <1>1, <2>2, <2>3, <2>4 DEF Timing, Active
  <2> QED
    BY <1>1, <2>2, <2>3, <2>5, <2>6, StepKeeps DEF TypeOK
<1> QED
  BY <1>4, <1>5, <1>6

\* What happens around the runs.
LEMMA SurroundingsKeep ==
  ASSUME IInv, Restart \/ CreateTemp \/ RenameTemp \/ AppendAudit \/ Tick
  PROVE  IInv'
<1>1. /\ UNCHANGED <<running, run, started, copied, dumps>>
      /\ TypeOK /\ Conf \subseteq sites /\ Alone /\ clock \in Nat
  BY Constants DEF Restart, CreateTemp, RenameTemp, AppendAudit, Tick, IInv,
                   TypeOK
<1>2. /\ modified' \in [Entry -> (0..MaxTime) \cup {None}]
      /\ \A e \in Run : modified'[e] = modified[e]
      /\ \A e \in Entry : modified[e] # None => modified'[e] # None
  <2>1. CASE AppendAudit
    <3>1. modified' = [modified EXCEPT ![Audit] = clock] /\ clock # None
          /\ clock \in 0..MaxTime
      BY <1>1, <2>1, Constants DEF AppendAudit, TypeOK
    <3> QED
      BY <1>1, <3>1, Constants DEF TypeOK
  <2>2. CASE Restart \/ CreateTemp \/ RenameTemp \/ Tick
    BY <1>1, <2>2, Constants DEF Restart, CreateTemp, RenameTemp, Tick, TypeOK
  <2> QED
    BY <2>1, <2>2
<1>3. /\ clock' \in 0..MaxTime /\ clock' >= clock
      /\ \A k \in Run : Active(k) => clock' <= run[k].startedAt + MaxDuration
  <2>1. CASE Tick
    <3>1. clock' = clock + 1 /\ clock < MaxTime
          /\ \A k \in Run : Active(k) => clock < run[k].startedAt + MaxDuration
      BY <2>1 DEF Tick
    <3>2. \A k \in Run : run[k].startedAt \in Nat
      BY <1>1, Records, Constants DEF RunRecord
    <3> QED
      BY <1>1, <3>1, <3>2, Constants
  <2>2. CASE Restart \/ CreateTemp \/ RenameTemp \/ AppendAudit
    <3>1. clock' = clock
      BY <2>2 DEF Restart, CreateTemp, RenameTemp, AppendAudit
    <3>2. clock \in 0..MaxTime /\ \A k \in Run : Timing(k)
      BY <1>1 DEF TypeOK, IInv
    <3> QED
      BY <1>1, <3>1, <3>2 DEF Timing
  <2> QED
    BY <2>1, <2>2
<1>4. up' \in BOOLEAN /\ (up => up') /\ due' \in Nat /\ due' <= clock' + Interval
  <2>1. CASE Restart
    BY <1>1, <2>1, Constants DEF Restart, TypeOK
  <2>2. CASE CreateTemp \/ RenameTemp \/ AppendAudit \/ Tick
    BY <1>1, <2>2, Constants DEF CreateTemp, RenameTemp, AppendAudit, Tick,
                                 TypeOK
  <2> QED
    BY <2>1, <2>2
<1>5. sites' \subseteq File /\ Conf \subseteq sites'
  <2>1. CASE CreateTemp
    BY <1>1, <2>1 DEF CreateTemp, TypeOK, File, Conf
  <2>2. CASE RenameTemp
    BY <1>1, <2>2 DEF RenameTemp, TypeOK, File, Conf
  <2>3. CASE Restart \/ AppendAudit \/ Tick
    BY <1>1, <2>3 DEF Restart, AppendAudit, Tick, TypeOK
  <2> QED
    BY <2>1, <2>2, <2>3
<1>6. TypeOK'
  BY <1>1, <1>2, <1>3, <1>4, <1>5 DEF TypeOK
<1>7. Alone'
  BY <1>1, <1>4 DEF Alone, Active
<1>8. ASSUME NEW k \in Run PROVE Progress(k)' /\ Timing(k)'
  <2>1. /\ Progress(k) /\ Timing(k) /\ run'[k] = run[k] /\ copied'[k] = copied[k]
        /\ modified'[k] = modified[k]
    BY <1>1, <1>2 DEF IInv
  <2>2. Progress(k)'
    BY <1>1, <2>1 DEF Progress
  <2>3. run[k] \in RunRecord
    BY <1>1, Records
  <2>4. /\ run[k].startedAt \in Int /\ run[k].cutoff \in Int /\ run[k].entries \subseteq Entry
        /\ run[k].expired \in Entry \cup {None}
    BY <2>3, Constants DEF RunRecord
  <2>5. Active(k)' <=> Active(k)
    BY <2>1 DEF Active
  <2>6. Active(k) => run[k].startedAt <= clock' /\ clock' <= run[k].startedAt + MaxDuration
    BY <1>1, <1>3, <2>1, <2>4, Constants DEF Timing
  <2>7. run[k].pc = "prune" => run[k].cutoff + Retention <= clock'
    BY <1>1, <1>3, <2>1, <2>4, Constants DEF Timing
  <2>8. Timing(k)'
    BY <1>1, <1>2, <2>1, <2>4, <2>5, <2>6, <2>7 DEF Timing
  <2> QED
    BY <2>2, <2>8
<1> QED
  BY <1>5, <1>6, <1>7, <1>8 DEF IInv

-----------------------------------------------------------------------------
(* The theorems *)

\* Nothing has run yet.
LEMMA IInvInit == Init => IInv
<1> SUFFICES ASSUME Init PROVE IInv
  OBVIOUS
<1>1. /\ \A k \in Run : run[k] = Idle /\ modified[k] = None /\ copied[k] = {}
      /\ Idle.pc = "none" /\ Idle.expired = None
  BY Constants DEF Init, Idle
<1>2. Idle \in RunRecord
  <2>1. 0 \in (-Retention)..MaxTime /\ 1 \in 1..(Len(databaseNames) + 1)
        /\ 0 \in 0..MaxTime
    BY Constants
  <2> QED
    BY <2>1 DEF Idle, RunRecord
<1>3. TypeOK
  <2>1. run \in [Run -> RunRecord]
    BY <1>2 DEF Init
  <2>2. modified \in [Entry -> (0..MaxTime) \cup {None}]
        /\ copied \in [Run -> SUBSET File]
    BY DEF Init
  <2>3. clock \in 0..MaxTime /\ due \in Nat /\ due <= clock + Interval
        /\ started \in 0..MaxRuns
    BY Constants DEF Init
  <2> QED
    BY <2>1, <2>2, <2>3 DEF Init, TypeOK, RunRecord, File
<1>4. Conf \subseteq sites /\ Alone
  BY <1>1 DEF Init, Conf, Alone, Active
<1>5. \A k \in Run : Progress(k) /\ Timing(k)
  BY <1>1 DEF Progress, Timing, Active
<1> QED
  BY <1>3, <1>4, <1>5 DEF IInv

\* Every step keeps the invariant.
LEMMA IInvNext == IInv /\ [Next]_vars => IInv'
<1> SUFFICES ASSUME IInv, [Next]_vars PROVE IInv'
  OBVIOUS
<1>1. CASE StartRun
  BY <1>1, StartKeeps
<1>2. CASE Overlap
  BY <1>2, DiesKeeps DEF Overlap
<1>3. CASE Restart \/ CreateTemp \/ RenameTemp \/ AppendAudit \/ Tick
  BY <1>3, SurroundingsKeep
<1>4. ASSUME NEW k \in Run, RunStep(k) \/ RunFails(k) PROVE IInv'
  <2>1. CASE MakeDir(k) \/ DumpDatabase(k)
    BY <2>1, DumpKeeps
  <2>2. CASE CopyStart(k) \/ SkipCopy(k) \/ CopyFile(k) \/ ListBackups(k)
    BY <2>2, CopyKeeps
  <2>3. CASE PruneEntry(k) \/ RemoveEntry(k) \/ Complete(k)
    BY <2>3, PruneKeeps
  <2>4. CASE CopyVanishes(k) \/ RunFails(k)
    BY <2>4, DiesKeeps DEF CopyVanishes, RunFails
  <2> QED
    BY <1>4, <2>1, <2>2, <2>3, <2>4 DEF RunStep
<1>5. CASE UNCHANGED vars
  BY <1>5 DEF vars, IInv, TypeOK, Alone, Progress, Timing, Active
<1> QED
  BY <1>1, <1>2, <1>3, <1>4, <1>5 DEF Next

\* Runs never overlap, across restarts too, and a run that ends well has dumped
\* every database, and copied every vhost if it answers with a copy.
THEOREM RunsCorrect == Spec => []RunsAreWhole
<1>1. IInv => RunsAreWhole
  BY DEF IInv, RunsAreWhole, Alone, Progress, Conf
<1> QED
  BY <1>1, IInvInit, IInvNext, PTL DEF Spec

\* What the modification times and the copies can change to: only pruning
\* removes an entry, and a copy only grows.
LEMMA Entries ==
  ASSUME IInv, [Next]_vars
  PROVE  /\ \A e \in Run : modified[e] # None /\ modified'[e] = None =>
              \E k \in Run : /\ run[k].pc = "prune" /\ run[k].expired = e
                            /\ copied' = copied
                            /\ \A f \in Run \ {e} : modified'[f] = modified[f]
         /\ \A e \in Run : copied[e] \subseteq copied'[e]
<1>1. ASSUME NEW k \in Run, RemoveEntry(k)
      PROVE  /\ run[k].pc = "prune" /\ copied' = copied
             /\ \A e \in Run : modified'[e] # modified[e] => e = run[k].expired
  BY <1>1, Constants DEF RemoveEntry, IInv, TypeOK
<1>2. ASSUME NEW k \in Run, CopyStart(k) \/ CopyFile(k)
      PROVE  /\ \A e \in Run : modified[e] # None => modified'[e] # None
             /\ \A e \in Run : copied[e] \subseteq copied'[e]
  <2>1. modified' = [modified EXCEPT ![k] = clock] /\ clock # None
    BY <1>2, Constants DEF CopyStart, CopyFile, IInv, TypeOK
  <2>2. CASE CopyStart(k)
    BY <2>1, <2>2, Constants DEF CopyStart, IInv, TypeOK
  <2>3. CASE CopyFile(k)
    <3>1. PICK f \in run[k].todo \cap sites : copied' = [copied EXCEPT ![k] = @ \cup {f}]
      BY <2>3 DEF CopyFile
    <3>2. \A e \in Run : copied[e] \subseteq copied'[e]
      BY <3>1 DEF IInv, TypeOK
    <3> QED
      BY <2>1, <3>2, Constants DEF IInv, TypeOK
  <2> QED
    BY <1>2, <2>2, <2>3
<1>3. CASE AppendAudit
  BY <1>3, Constants DEF AppendAudit, IInv, TypeOK
<1>4. CASE modified' = modified /\ copied' = copied
  BY <1>4
<1>5. \/ \E k \in Run : RemoveEntry(k) \/ CopyStart(k) \/ CopyFile(k)
      \/ AppendAudit
      \/ modified' = modified /\ copied' = copied
  <2>1. ASSUME NEW k \in Run, RunStep(k) \/ RunFails(k)
        PROVE  \/ RemoveEntry(k) \/ CopyStart(k) \/ CopyFile(k)
               \/ (modified' = modified /\ copied' = copied)
    BY <2>1 DEF RunStep, RunFails, Dies, MakeDir, DumpDatabase, SkipCopy,
                CopyVanishes, ListBackups, PruneEntry, Complete
  <2>2. CASE StartRun \/ Overlap \/ Restart \/ CreateTemp \/ RenameTemp \/ Tick
    BY <2>2 DEF StartRun, Overlap, Dies, Restart, CreateTemp, RenameTemp, Tick
  <2>3. CASE UNCHANGED vars
    BY <2>3 DEF vars
  <2>4. CASE \E k \in Run : RunStep(k) \/ RunFails(k)
    BY <2>1, <2>4
  <2> QED
    BY <2>2, <2>3, <2>4 DEF Next
<1>6. CASE \E k \in Run : RemoveEntry(k)
  BY <1>1, <1>6
<1>7. CASE \E k \in Run : CopyStart(k) \/ CopyFile(k)
  BY <1>2, <1>7
<1> QED
  BY <1>3, <1>4, <1>5, <1>6, <1>7

\* Only a run that has made no copy can remove the last whole one: pruning comes
\* after the copy of its own run, which is younger than the cutoff.
THEOREM CopyCorrect == Spec => NeverWithoutACopy
<1> DEFINE Kept == WholeCopy /\ ~WholeCopy' =>
                     \E k \in Run : run[k].pc = "prune" /\ ~run[k].copy
<1>1. ASSUME IInv, [Next]_vars PROVE [Kept]_vars
  <2> SUFFICES ASSUME WholeCopy, ~WholeCopy'
               PROVE  \E k \in Run : run[k].pc = "prune" /\ ~run[k].copy
    OBVIOUS
  <2>1. PICK e \in Run : modified[e] # None /\ Site \X {"conf"} \subseteq copied[e]
    BY DEF WholeCopy
  <2>2. copied[e] \subseteq copied'[e]
    BY <1>1, Entries
  <2>3. modified'[e] = None
    BY <2>1, <2>2 DEF WholeCopy
  <2>4. PICK k \in Run : /\ run[k].pc = "prune" /\ run[k].expired = e
                         /\ copied' = copied
                         /\ \A f \in Run \ {e} : modified'[f] = modified[f]
    BY <1>1, <2>1, <2>3, Entries
  <2>5. ~run[k].copy
    <3> SUFFICES ASSUME run[k].copy PROVE FALSE
      OBVIOUS
    <3>1. modified[k] # None /\ Conf \subseteq copied[k] /\ e # k
      BY <1>1, <2>4, OwnCopy
    <3>2. modified'[k] # None /\ Site \X {"conf"} \subseteq copied'[k]
      BY <2>4, <3>1 DEF Conf
    <3> QED
      BY <3>2 DEF WholeCopy
  <2> QED
    BY <2>4, <2>5
<1> QED
  BY <1>1, IInvInit, IInvNext, PTL DEF Spec, NeverWithoutACopy

\* A copy that is removed had not been changed for longer than the retention.
THEOREM PruneCorrect == Spec => OnlyExpiredPruned
<1> DEFINE Pruned == \A e \in Run : modified[e] # None /\ modified'[e] = None
                                      => modified[e] + Retention < clock
<1>1. ASSUME IInv, [Next]_vars PROVE [Pruned]_vars
  <2>1. ASSUME NEW e \in Run, modified[e] # None, modified'[e] = None
        PROVE  \E k \in Run : run[k].pc = "prune" /\ run[k].expired = e
    BY <1>1, <2>1, Entries
  <2> QED
    BY <1>1, <2>1, OwnCopy
<1> QED
  BY <1>1, IInvInit, IInvNext, PTL DEF Spec, OnlyExpiredPruned

-----------------------------------------------------------------------------
(* Restoring what NginxConfigService has put aside.  No fact of AutoBackup is   *)
(* used.                                                                        *)

\* Which request is where.
Placed(r) ==
  /\ job[r].pc \in {"save", "restore", "enable"} => r \in Rollback /\ Of(r) # Dir
  /\ job[r].pc \in {"saveAll", "restoreAll"} => r \in Rollback /\ Of(r) = Dir
  /\ job[r].pc = "audit" => r \in Rollback
  /\ job[r].pc \in {"rename", "updateEnable"} => r \in Update
  /\ r \in Update => Of(r) \in LiveFile
  /\ r \in Update => job[r].new \in Content

\* Requests for one file that are under way together are known to overlap.
Apart ==
  \A q, r \in Req : q # r /\ UnderWay(q) /\ UnderWay(r) /\ Touch(q, r) =>
    q \in mixed /\ r \in mixed

\* What is live under a name is not there, or a rollback has put it aside.
Aside(r, n) == available[n] \in {Absent, saved[r][n]}

Dirs == {"available", "enabled"}

\* A rollback that saves has overwritten nothing yet, and nothing in
\* sites-enabled before the end.
Fresh(r) ==
  /\ job[r].pc \in {"new", "save", "saveAll"} => \A x \in overwrote : x[1] # r
  /\ \A x \in overwrote : x[1] = r /\ x[2] = "enabled" =>
       x[3] = Of(r) /\ job[r].pc \in {"audit", "done", "failed"}

\* What a rollback nobody overlaps knows of the live files.
Knows(r) ==
  r \notin mixed =>
    /\ job[r].pc = "restore" => Aside(r, Of(r))
    /\ job[r].pc = "saveAll" => \A n \in Name \ job[r].todo : Aside(r, n)
    /\ job[r].pc = "restoreAll" => \A n \in job[r].todo : Aside(r, n)
    /\ job[r].pc = "enable" => available[Of(r)] = backups[Of(r)]
    /\ job[r].pc = "audit" /\ Of(r) # Dir =>
         available[Of(r)] = backups[Of(r)] /\ enabled[Of(r)] = backups[Of(r)]

\* The inductive invariant of the restores.
RollbackInv ==
         /\ OverwrittenIsSaved
         /\ \A r \in Req : Placed(r)
         /\ Apart
         /\ \A r \in Rollback : Fresh(r) /\ Knows(r)

JobRecord == [pc : Pcs, of : Name \cup {Dir}, todo : SUBSET Name,
              new : Content \cup {Absent}]

\* Before any request: nothing is put aside or overwritten.
LEMMA RollbackInit == RollbacksInit => RollbackInv
<1> SUFFICES ASSUME RollbacksInit PROVE RollbackInv
  OBVIOUS
<1> USE RollbackAssumption DEF RollbackAssumption
<1>1. PICK of \in [Req -> Name \cup {Dir}], new \in [Update -> Content] :
        /\ \A u \in Update : of[u] \in LiveFile
        /\ job = [r \in Req |-> [pc |-> "new", of |-> of[r], todo |-> {},
                                    new |-> IF r \in Update THEN new[r] ELSE Absent]]
  BY DEF RollbacksInit
<1>2. job \in [Req -> JobRecord]
  BY <1>1 DEF JobRecord, Pcs
<1>3. \A r \in Req : /\ job[r].pc = "new" /\ job[r].todo = {}
                     /\ r \in Update => Of(r) \in LiveFile /\ job[r].new \in Content
  BY <1>1 DEF Of, Req
<1>4. RollbacksTypeOK
  BY <1>2, <1>3 DEF RollbacksInit, RollbacksTypeOK, JobRecord, Nothing, Contents
<1>5. \A r \in Req : Placed(r)
  BY <1>3 DEF Placed
<1>6. Apart
  BY <1>3 DEF Apart, UnderWay
<1>7. \A r \in Rollback : Fresh(r) /\ Knows(r)
  BY <1>3 DEF Fresh, Knows, RollbacksInit, Req
<1> QED
  BY <1>4, <1>5, <1>6, <1>7 DEF RollbackInv, OverwrittenIsSaved, RollbacksInit

-----------------------------------------------------------------------------
(* What a step changes *)

\* An overwrite by q is of one live file, and noted with what it replaces.
LEMMA OverwriteFacts ==
  ASSUME RollbacksTypeOK, NEW q \in Rollback, NEW n \in Name, NEW text \in Content \cup {Absent},
         Overwrites(q, n, text)
  PROVE  /\ available' \in Contents
         /\ available'[n] = text
         /\ \A m \in Name \ {n} : available'[m] = available[m]
         /\ overwrote' \subseteq Rollback \X Dirs \X Name \X Content
         /\ overwrote \subseteq overwrote'
         /\ \A x \in overwrote' : \/ x \in overwrote
                                  \/ /\ x[1] = q /\ x[2] = "available" /\ x[3] = n
                                     /\ x[4] = available[n] /\ available[n] # Absent
BY DEF RollbacksTypeOK, Contents, Overwrites, Noted, Dirs

\* The same of a file in sites-enabled.
LEMMA EnablesFacts ==
  ASSUME RollbacksTypeOK, NEW q \in Rollback, Of(q) \in Name,
         NEW text \in Content \cup {Absent}, Enables(q, text)
  PROVE  /\ enabled' \in Contents
         /\ enabled'[Of(q)] = text
         /\ \A m \in Name \ {Of(q)} : enabled'[m] = enabled[m]
         /\ overwrote' \subseteq Rollback \X Dirs \X Name \X Content
         /\ overwrote \subseteq overwrote'
         /\ \A x \in overwrote' : \/ x \in overwrote
                                  \/ x[1] = q /\ x[2] = "enabled" /\ x[3] = Of(q)
BY DEF RollbacksTypeOK, Contents, Enables, Noted, Dirs

\* A request that begins is known to overlap those it touches.
LEMMA BeginsFacts ==
  ASSUME RollbacksTypeOK, NEW q \in Req, Begins(q)
  PROVE  /\ mixed \subseteq mixed' /\ mixed' \subseteq Req
         /\ \A r \in Req \ {q} : UnderWay(r) /\ Touch(r, q) => r \in mixed' /\ q \in mixed'
BY DEF RollbacksTypeOK, Begins

\* The step a request takes is of its own record, and of the file it is for.
StepOf(q) ==
  /\ \E j \in JobRecord :
       /\ job' = [job EXCEPT ![q] = j]
       /\ j.of = Of(q) /\ j.new = job[q].new
       /\ j.todo # {} => Of(q) = Dir /\ j.pc \in {"saveAll", "restoreAll", "failed"}
  /\ available' \in Contents /\ enabled' \in Contents
  /\ \A n \in Name : (available'[n] # available[n] \/ enabled'[n] # enabled[n])
       => UnderWay(q) /\ Of(q) \in {n, Dir}
  /\ saved' \in [Rollback -> Contents]
  /\ \A r \in Rollback \ {q} : saved'[r] = saved[r]
  /\ overwrote' \subseteq Rollback \X Dirs \X Name \X Content
  /\ \A x \in overwrote' : x \in overwrote \/ x[1] = q
  /\ audit' \subseteq Rollback
  /\ UNCHANGED sources
  /\ mixed \subseteq mixed' /\ mixed' \subseteq Req
  /\ ~UnderWay(q) /\ job'[q].pc \notin {"new", "done", "failed"} => Begins(q)

\* Every step is of this form.
LEMMA StepEffects ==
  ASSUME RollbackInv, NEW q \in Req, Step(q)
  PROVE  StepOf(q)
<1> USE RollbackAssumption DEF RollbackAssumption
<1>1. RollbacksTypeOK /\ Placed(q)
  BY DEF RollbackInv, OverwrittenIsSaved
<1>2. job \in [Req -> JobRecord] /\ job[q] \in JobRecord
  BY <1>1 DEF RollbacksTypeOK, JobRecord
<1>3. /\ available \in Contents /\ enabled \in Contents /\ saved \in [Rollback -> Contents]
      /\ overwrote \subseteq Rollback \X Dirs \X Name \X Content
      /\ audit \subseteq Rollback /\ mixed \subseteq Req
      /\ backups \in Contents /\ directory \in Contents
      /\ job[q].todo # {} => Of(q) = Dir /\ job[q].pc \in {"saveAll", "restoreAll", "failed"}
  BY <1>1 DEF RollbacksTypeOK, Dirs
<1>g. ASSUME NEW p \in Pcs, NEW t \in SUBSET Name,
             Work(q, p, t),
             t # {} => Of(q) = Dir /\ p \in {"saveAll", "restoreAll", "failed"}
      PROVE  \E j \in JobRecord :
               /\ job' = [job EXCEPT ![q] = j] /\ j.pc = p
               /\ j.of = Of(q) /\ j.new = job[q].new
               /\ j.todo # {} => Of(q) = Dir /\ j.pc \in {"saveAll", "restoreAll", "failed"}
  <2>1. PICK j : j = [job[q] EXCEPT !.pc = p, !.todo = t]
    OBVIOUS
  <2>2. j \in JobRecord /\ j.pc = p /\ j.todo = t /\ j.of = Of(q) /\ j.new = job[q].new
    BY <2>1, <1>2 DEF JobRecord, Of
  <2>3. job' = [job EXCEPT ![q] = j]
    BY <1>g, <1>2, <2>1 DEF Work
  <2> QED
    BY <1>g, <2>2, <2>3
<1>h. ASSUME NEW p \in Pcs, GoOn(q, p), job[q].todo = {} \/ p = "failed"
      PROVE  \E j \in JobRecord :
               /\ job' = [job EXCEPT ![q] = j] /\ j.pc = p
               /\ j.of = Of(q) /\ j.new = job[q].new
               /\ j.todo # {} => Of(q) = Dir /\ j.pc \in {"saveAll", "restoreAll", "failed"}
  <2>1. PICK j : j = [job[q] EXCEPT !.pc = p]
    OBVIOUS
  <2>2. /\ j \in JobRecord /\ j.pc = p /\ j.todo = job[q].todo /\ j.of = Of(q)
        /\ j.new = job[q].new
    BY <2>1, <1>2 DEF JobRecord, Of
  <2>3. job' = [job EXCEPT ![q] = j]
    BY <1>h, <1>2, <2>1 DEF GoOn
  <2> QED
    BY <1>h, <1>3, <2>2, <2>3
<1> DEFINE P(p) == \E j \in JobRecord :
               /\ job' = [job EXCEPT ![q] = j] /\ j.pc = p
               /\ j.of = Of(q) /\ j.new = job[q].new
               /\ j.todo # {} => Of(q) = Dir /\ j.pc \in {"saveAll", "restoreAll", "failed"}
<1>p. ASSUME NEW p, P(p)
      PROVE  /\ \E j \in JobRecord :
                  /\ job' = [job EXCEPT ![q] = j]
                  /\ j.of = Of(q) /\ j.new = job[q].new
                  /\ j.todo # {} => Of(q) = Dir /\ j.pc \in {"saveAll", "restoreAll", "failed"}
             /\ job'[q].pc = p
  BY <1>p, <1>2
<1>b. Begins(q) => mixed \subseteq mixed' /\ mixed' \subseteq Req
  BY <1>1, BeginsFacts
<1> HIDE DEF P
<1>4. CASE FindFile(q) \/ FindDirectory(q) \/ UpdateBegins(q)
  <2>1. PICK p \in Pcs : P(p)
    <3>1. CASE FindFile(q)
      BY <3>1, <1>3, <1>h DEF P, FindFile, SaveFirst, Pcs
    <3>2. CASE UpdateBegins(q)
      BY <3>2, <1>3, <1>h DEF P, UpdateBegins, Pcs
    <3>3. CASE FindDirectory(q)
      <4>1. {n \in Name : available[n] # Absent} \in SUBSET Name /\ "saveAll" \in Pcs
        BY DEF Pcs
      <4>2. Work(q, "saveAll", {n \in Name : available[n] # Absent}) /\ Of(q) = Dir
        BY <3>3 DEF FindDirectory
      <4>3. P("saveAll")
        BY <4>1, <4>2, <1>g DEF P
      <4> QED
        BY <4>1, <4>3
    <3> QED
      BY <1>4, <3>1, <3>2, <3>3
  <2>2. Begins(q) /\ UNCHANGED <<liveFiles, sources, saved, audit, overwrote>>
    BY <1>4 DEF FindFile, FindDirectory, UpdateBegins
  <2> QED
    BY <2>1, <2>2, <1>p, <1>b, <1>3 DEF StepOf, liveFiles, sources
<1>5. CASE SaveFile(q) \/ SaveNext(q) \/ SaveDone(q) \/ RestoreDone(q) \/ AuditRollback(q)
  <2>1. PICK p \in Pcs : P(p)
    <3>1. CASE SaveFile(q)
      BY <3>1, <1>3, <1>h DEF P, SaveFile, Pcs
    <3>2. CASE SaveNext(q)
      <4>1. PICK n \in job[q].todo : Work(q, "saveAll", job[q].todo \ {n})
        BY <3>2 DEF SaveNext
      <4>2. job[q].todo \ {n} \in SUBSET Name /\ "saveAll" \in Pcs
        BY <1>2 DEF JobRecord, Pcs
      <4>3. Of(q) = Dir
        BY <3>2, <1>1 DEF SaveNext, Placed
      <4>4. P("saveAll")
        BY <4>1, <4>2, <4>3, <1>g DEF P
      <4> QED
        BY <4>2, <4>4
    <3>3. CASE SaveDone(q)
      <4>1. {n \in Name : directory[n] # Absent} \in SUBSET Name /\ "restoreAll" \in Pcs
        BY DEF Pcs
      <4>2. Work(q, "restoreAll", {n \in Name : directory[n] # Absent}) /\ Of(q) = Dir
        BY <3>3, <1>1 DEF SaveDone, Placed
      <4>3. P("restoreAll")
        BY <4>1, <4>2, <1>g DEF P
      <4> QED
        BY <4>1, <4>3
    <3>4. CASE RestoreDone(q)
      BY <3>4, <1>h DEF P, RestoreDone, Pcs
    <3>5. CASE AuditRollback(q)
      BY <3>5, <1>3, <1>h DEF P, AuditRollback, Pcs
    <3> QED
      BY <1>5, <3>1, <3>2, <3>3, <3>4, <3>5
  <2>2. UNCHANGED <<liveFiles, sources, history>> /\ UnderWay(q)
    BY <1>5 DEF SaveFile, SaveNext, SaveDone, RestoreDone,
                AuditRollback, UnderWay
  <2>3. /\ saved' \in [Rollback -> Contents]
        /\ \A r \in Rollback \ {q} : saved'[r] = saved[r]
    <3>1. CASE UNCHANGED saved
      BY <3>1, <1>3
    <3>2. CASE SaveFile(q)
      BY <3>2, <1>1, <1>2, <1>3 DEF SaveFile, Placed, JobRecord, Of,
                                    Contents
    <3>3. CASE SaveNext(q)
      BY <3>3, <1>1, <1>2, <1>3 DEF SaveNext, Placed, JobRecord, Of,
                                    Contents
    <3> QED
      BY <1>5, <3>1, <3>2, <3>3 DEF SaveDone, RestoreDone, AuditRollback
  <2>4. audit' \subseteq Rollback
    BY <1>5, <1>3, <1>1 DEF SaveFile, SaveNext, SaveDone,
                            RestoreDone, AuditRollback, Placed, Req
  <2> QED
    BY <2>1, <2>2, <2>3, <2>4, <1>p, <1>3 DEF StepOf, liveFiles, history
<1>6. CASE RestoreFile(q)
  <2>1. P("enable") /\ UnderWay(q) /\ Of(q) \in Name /\ q \in Rollback
    BY <1>6, <1>1, <1>2, <1>3, <1>h DEF P, RestoreFile, UnderWay, Placed,
                                        JobRecord, Of, Pcs
  <2>2. Overwrites(q, Of(q), backups[Of(q)]) /\ backups[Of(q)] \in Content \cup {Absent}
    BY <1>6, <2>1, <1>3 DEF RestoreFile, Contents
  <2>3. UNCHANGED <<sources, enabled, saved, audit, mixed>>
    BY <1>6 DEF RestoreFile
  <2> QED
    BY <2>1, <2>2, <2>3, <1>1, <1>3, <1>p, OverwriteFacts DEF StepOf
<1>7. CASE RestoreNext(q)
  <2>1. PICK n \in job[q].todo : /\ Overwrites(q, n, directory[n])
                                 /\ Work(q, "restoreAll", job[q].todo \ {n})
    BY <1>7 DEF RestoreNext
  <2>2. /\ job[q].todo \ {n} \in SUBSET Name /\ "restoreAll" \in Pcs /\ n \in Name
        /\ Of(q) = Dir /\ q \in Rollback /\ UnderWay(q)
    BY <2>1, <1>7, <1>1, <1>2 DEF JobRecord, Pcs, RestoreNext, Placed,
                                  UnderWay
  <2>3. P("restoreAll")
    BY <2>1, <2>2, <1>g DEF P
  <2>4. directory[n] \in Content \cup {Absent}
    BY <2>2, <1>3 DEF Contents
  <2>5. UNCHANGED <<sources, enabled, saved, audit, mixed>>
    BY <1>7 DEF RestoreNext
  <2> QED
    BY <2>1, <2>2, <2>3, <2>4, <2>5, <1>1, <1>3, <1>p, OverwriteFacts DEF StepOf
<1>8. CASE EnableFile(q) \/ UpdateEnables(q)
  <2>1. PICK p \in Pcs : P(p)
    BY <1>8, <1>3, <1>h DEF P, EnableFile, UpdateEnables, Pcs
  <2>2. Of(q) \in Name /\ available[Of(q)] \in Content \cup {Absent}
    BY <1>8, <1>1, <1>2, <1>3 DEF EnableFile, UpdateEnables, Placed, JobRecord,
                                  Of, Name, Contents
  <2>3. CASE EnableFile(q)
    <3>1. /\ UNCHANGED <<sources, available, saved, audit, mixed>> /\ UnderWay(q)
          /\ Enables(q, available[Of(q)]) /\ q \in Rollback
      BY <2>3, <1>1 DEF EnableFile, UnderWay, Placed
    <3> QED
      BY <2>1, <2>2, <3>1, <1>1, <1>3, <1>p, EnablesFacts DEF StepOf
  <2>4. CASE UpdateEnables(q)
    <3>1. /\ UNCHANGED <<sources, history, available, saved, audit>>
          /\ enabled' = [enabled EXCEPT ![Of(q)] = available[Of(q)]]
          /\ UnderWay(q)
      BY <2>4 DEF UpdateEnables, UnderWay
    <3> QED
      BY <2>1, <2>2, <3>1, <1>3, <1>p DEF StepOf, history, Contents
  <2> QED
    BY <1>8, <2>3, <2>4
<1>9. CASE UpdateRenames(q)
  <2>1. P("updateEnable") /\ UnderWay(q) /\ Of(q) \in Name /\ job[q].new \in Content
    BY <1>9, <1>1, <1>3, <1>h DEF P, UpdateRenames, UnderWay, Placed,
                                  Pcs, Name
  <2> QED
    BY <1>9, <2>1, <1>3, <1>p DEF StepOf, UpdateRenames, history,
                                  Contents
<1>10. CASE Fail(q)
  <2>1. P("failed") /\ UnderWay(q) /\ q \in Rollback
    BY <1>10, <1>3, <1>h DEF P, Fail, Pcs
  <2>2. UNCHANGED <<sources, saved, mixed>> /\ audit' \subseteq Rollback
    BY <1>10, <2>1, <1>3 DEF Fail
  <2>3. CASE UNCHANGED <<liveFiles, overwrote>>
    BY <2>1, <2>2, <2>3, <1>3, <1>p DEF StepOf, liveFiles
  <2>4. ASSUME NEW n \in Name, Overwrites(q, n, Absent), UNCHANGED enabled, Of(q) \in {n, Dir}
        PROVE  StepOf(q)
    BY <2>1, <2>2, <2>4, <1>1, <1>3, <1>p, OverwriteFacts DEF StepOf
  <2>5. CASE job[q].pc = "restore" /\ Overwrites(q, Of(q), Absent) /\ UNCHANGED enabled
    BY <2>4, <2>5, <1>1, <1>2 DEF Placed, JobRecord, Of
  <2>6. CASE /\ job[q].pc = "restoreAll" /\ UNCHANGED enabled
             /\ \E n \in job[q].todo : Overwrites(q, n, Absent)
    BY <2>4, <2>6, <1>1, <1>2 DEF Placed, JobRecord
  <2>7. CASE job[q].pc = "enable" /\ Enables(q, Absent) /\ UNCHANGED available
    <3>1. Of(q) \in Name
      BY <2>7, <1>1, <1>2 DEF Placed, JobRecord, Of
    <3> QED
      BY <2>1, <2>2, <2>7, <3>1, <1>1, <1>3, <1>p, EnablesFacts DEF StepOf
  <2> QED
    BY <1>10, <2>3, <2>5, <2>6, <2>7 DEF Fail
<1> QED
  BY <1>4, <1>5, <1>6, <1>7, <1>8, <1>9, <1>10 DEF Step

\* Another request is where it was, and what it knows stays true unless the
\* two are known to overlap.
LEMMA OtherRequestsKeep ==
  ASSUME RollbackInv, NEW q \in Req, StepOf(q), NEW r \in Req \ {q}
  PROVE  /\ Placed(r)'
         /\ r \in Rollback => Fresh(r)' /\ Knows(r)'
<1>1. RollbacksTypeOK /\ Placed(r) /\ Apart /\ (r \in Rollback => Fresh(r) /\ Knows(r))
  BY DEF RollbackInv, OverwrittenIsSaved
<1>2. job'[r] = job[r]
  BY <1>1 DEF StepOf, RollbacksTypeOK
<1>3. Placed(r)'
  BY <1>1, <1>2 DEF Placed, Of
<1>4. ASSUME r \in Rollback PROVE Fresh(r)'
  BY <1>1, <1>2, <1>4 DEF Fresh, StepOf, Of
<1>5. ASSUME r \in Rollback, r \notin mixed', UnderWay(r), NEW n \in Name, Of(r) \in {n, Dir}
      PROVE  /\ available'[n] = available[n] /\ enabled'[n] = enabled[n]
             /\ saved'[r] = saved[r] /\ backups' = backups
  <2>1. r \notin mixed /\ saved'[r] = saved[r] /\ backups' = backups
    BY <1>5 DEF StepOf, sources
  <2>2. ASSUME available'[n] # available[n] \/ enabled'[n] # enabled[n] PROVE FALSE
    <3>1. UnderWay(q) /\ Of(q) \in {n, Dir}
      BY <2>2 DEF StepOf
    <3>2. Touch(q, r)
      BY <3>1, <1>5 DEF Touch
    <3> QED
      BY <1>1, <1>5, <2>1, <3>1, <3>2 DEF Apart
  <2> QED
    BY <2>1, <2>2
<1>6. ASSUME r \in Rollback PROVE Knows(r)'
  <2> SUFFICES ASSUME r \notin mixed' PROVE Knows(r)'
    BY DEF Knows
  <2>1. r \notin mixed /\ job'[r].pc = job[r].pc /\ Of(r)' = Of(r) /\ job'[r].todo = job[r].todo
    BY <1>2 DEF StepOf, Of
  <2>2. ASSUME job[r].pc \in {"restore", "enable", "audit"}, Of(r) # Dir
        PROVE  /\ available'[Of(r)] = available[Of(r)] /\ enabled'[Of(r)] = enabled[Of(r)]
               /\ saved'[r] = saved[r] /\ backups' = backups
    BY <1>1, <1>5, <1>6, <2>2 DEF UnderWay, RollbacksTypeOK, Of
  <2>3. ASSUME job[r].pc \in {"saveAll", "restoreAll"}, NEW n \in Name
        PROVE  available'[n] = available[n] /\ saved'[r] = saved[r]
    BY <1>1, <1>5, <1>6, <2>3 DEF UnderWay, Placed
  <2>4. job[r].todo \subseteq Name
    BY <1>1 DEF RollbacksTypeOK
  <2>5. job[r].pc \in {"restore", "enable"} => Of(r) # Dir
    BY <1>1 DEF Placed
  <2>6. (job[r].pc = "restore" => Aside(r, Of(r)))'
    BY <1>1, <1>6, <2>1, <2>2, <2>5 DEF Knows, Aside
  <2>7. (job[r].pc = "saveAll" => \A n \in Name \ job[r].todo : Aside(r, n))'
    BY <1>1, <1>6, <2>1, <2>3 DEF Knows, Aside
  <2>8. (job[r].pc = "restoreAll" => \A n \in job[r].todo : Aside(r, n))'
    BY <1>1, <1>6, <2>1, <2>3, <2>4 DEF Knows, Aside
  <2>9. /\ job'[r].pc = "enable" => available'[Of(r)'] = backups'[Of(r)']
        /\ job'[r].pc = "audit" /\ Of(r)' # Dir =>
             available'[Of(r)'] = backups'[Of(r)'] /\ enabled'[Of(r)'] = backups'[Of(r)']
    BY <1>1, <1>6, <2>1, <2>2, <2>5 DEF Knows
  <2> QED
    BY <2>6, <2>7, <2>8, <2>9 DEF Knows
<1> QED
  BY <1>3, <1>4, <1>6

\* What a rollback nobody overlaps has overwritten, it has put aside.
Owns(q) ==
  \A x \in overwrote : x[1] = q /\ q \notin mixed /\ x[2] = "available" =>
    saved[q][x[3]] = x[4]

\* The request that takes the step knows what it must about the next one.
LEMMA OwnKnows ==
  ASSUME RollbackInv, NEW q \in Req, Step(q)
  PROVE  Placed(q)' /\ Owns(q)' /\ (q \in Rollback => Fresh(q)' /\ Knows(q)')
<1> USE RollbackAssumption DEF RollbackAssumption
<1>1. /\ RollbacksTypeOK /\ Placed(q) /\ (q \in Rollback => Fresh(q) /\ Knows(q))
      /\ \A x \in overwrote : x[1] \notin mixed /\ x[2] = "available" =>
           saved[x[1]][x[3]] = x[4]
  BY DEF RollbackInv, OverwrittenIsSaved
<1>2. job \in [Req -> JobRecord] /\ job[q] \in JobRecord
  BY <1>1 DEF RollbacksTypeOK, JobRecord
<1>3. /\ available \in Contents /\ enabled \in Contents /\ saved \in [Rollback -> Contents]
      /\ overwrote \subseteq Rollback \X Dirs \X Name \X Content
      /\ backups \in Contents /\ directory \in Contents
      /\ job[q].todo # {} => Of(q) = Dir /\ job[q].pc \in {"saveAll", "restoreAll", "failed"}
      /\ job[q].todo \subseteq Name
  BY <1>1 DEF RollbacksTypeOK, Dirs
<1>g. ASSUME NEW p, NEW t, Work(q, p, t)
      PROVE  job'[q].pc = p /\ job'[q].todo = t /\ Of(q)' = Of(q) /\ job'[q].new = job[q].new
  BY <1>g, <1>2 DEF Work, Of, JobRecord
<1>h. ASSUME NEW p, GoOn(q, p)
      PROVE  /\ job'[q].pc = p /\ job'[q].todo = job[q].todo /\ Of(q)' = Of(q)
             /\ job'[q].new = job[q].new
  BY <1>h, <1>2 DEF GoOn, Of, JobRecord
<1>b. Begins(q) => mixed \subseteq mixed'
  BY <1>1, BeginsFacts
<1>f. ASSUME NEW p, q \in Rollback, job[q].pc \in {"restore", "saveAll", "restoreAll"},
             job'[q].pc = p, p \in {"enable", "restoreAll", "failed"},
             \A x \in overwrote' : x \in overwrote \/ (x[1] = q /\ x[2] = "available")
      PROVE  Fresh(q)'
  <2>1. \A x \in overwrote' : x[1] = q => x[2] # "enabled"
    BY <1>1, <1>f DEF Fresh
  <2> QED
    BY <1>f, <2>1 DEF Fresh
<1>o. ASSUME UNCHANGED <<overwrote, saved>>, mixed \subseteq mixed' PROVE Owns(q)'
  BY <1>1, <1>o DEF Owns
<1>4. CASE FindFile(q)
  <2>1. PICK p : GoOn(q, p) /\ (p = "failed" \/ p = SaveFirst(q))
    BY <1>4 DEF FindFile
  <2>2. /\ UNCHANGED <<liveFiles, sources, saved, audit, overwrote>> /\ Begins(q)
        /\ q \in Rollback /\ job[q].pc = "new" /\ Of(q) # Dir
    BY <1>4 DEF FindFile
  <2>3. p \in {"failed", "save"} \/ (p = "restore" /\ available[Of(q)] = Absent)
    BY <2>1 DEF SaveFirst
  <2>4. /\ job'[q].pc = p /\ Of(q)' = Of(q) /\ available' = available /\ overwrote' = overwrote
        /\ \A x \in overwrote : x[1] # q
    BY <2>1, <2>2, <1>1, <1>h DEF Fresh, liveFiles
  <2>5. Placed(q)'
    BY <2>2, <2>3, <2>4 DEF Placed
  <2>6. Fresh(q)' /\ Knows(q)'
    BY <2>3, <2>4 DEF Fresh, Knows, Aside
  <2> QED
    BY <2>2, <2>5, <2>6, <1>b, <1>o
<1>5. CASE SaveFile(q)
  <2>1. /\ q \in Rollback /\ Of(q) \in Name /\ GoOn(q, "restore")
        /\ saved' = [saved EXCEPT ![q][Of(q)] = available[Of(q)]]
        /\ UNCHANGED <<available, overwrote, mixed>> /\ Of(q) # Dir
    BY <1>5, <1>1, <1>2 DEF SaveFile, Placed, JobRecord, Of, liveFiles,
                            history
  <2>2. saved'[q][Of(q)] = available[Of(q)]
    BY <2>1, <1>3 DEF Contents
  <2>3. \A x \in overwrote : x[1] # q
    BY <1>5, <1>1, <2>1 DEF Fresh, SaveFile
  <2> QED
    BY <2>1, <2>2, <2>3, <1>h DEF Placed, Fresh, Knows, Aside, Owns
<1>6. CASE RestoreFile(q)
  <2>1. /\ q \in Rollback /\ Of(q) \in Name /\ GoOn(q, "enable") /\ Of(q) # Dir
        /\ Overwrites(q, Of(q), backups[Of(q)]) /\ backups[Of(q)] \in Content \cup {Absent}
        /\ UNCHANGED <<sources, saved, mixed>>
    BY <1>6, <1>1, <1>2, <1>3 DEF RestoreFile, Placed, JobRecord, Of,
                                  Contents
  <2>2. q \notin mixed => Aside(q, Of(q))
    BY <1>6, <1>1, <2>1 DEF Knows, RestoreFile
  <2>3. Owns(q)'
    BY <2>1, <2>2, <1>1, OverwriteFacts DEF Owns, Aside
  <2>4. available'[Of(q)] = backups[Of(q)] /\ backups' = backups
    BY <2>1, <1>1, OverwriteFacts DEF sources
  <2>5. Fresh(q)'
    <3>1. job'[q].pc = "enable" /\ job[q].pc = "restore"
      BY <1>6, <2>1, <1>h DEF RestoreFile
    <3>2. \A x \in overwrote' : x \in overwrote \/ (x[1] = q /\ x[2] = "available")
      BY <2>1, <1>1, OverwriteFacts
    <3> QED
      BY <2>1, <3>1, <3>2, <1>f
  <2> QED
    BY <2>1, <2>3, <2>4, <2>5, <1>h DEF Placed, Knows
<1>7. CASE EnableFile(q)
  <2>1. /\ q \in Rollback /\ Of(q) \in Name /\ GoOn(q, "audit") /\ Of(q) # Dir
        /\ Enables(q, available[Of(q)]) /\ available[Of(q)] \in Content \cup {Absent}
        /\ UNCHANGED <<sources, available, saved, mixed>>
    BY <1>7, <1>1, <1>2, <1>3 DEF EnableFile, Placed, JobRecord, Of, Contents
  <2>2. enabled'[Of(q)] = available[Of(q)] /\ Owns(q)'
    BY <2>1, <1>1, EnablesFacts DEF Owns
  <2>3. q \notin mixed => available[Of(q)] = backups[Of(q)]
    BY <1>7, <1>1, <2>1 DEF Knows, EnableFile
  <2>4. Fresh(q)'
    BY <2>1, <1>1, <1>h, EnablesFacts DEF Fresh
  <2> QED
    BY <2>1, <2>2, <2>3, <2>4, <1>h DEF Placed, Knows, sources
<1>8. CASE FindDirectory(q)
  <2>1. /\ q \in Rollback /\ Of(q) = Dir /\ job[q].pc = "new"
        /\ Work(q, "saveAll", {n \in Name : available[n] # Absent})
        /\ UNCHANGED <<liveFiles, saved, overwrote>> /\ Begins(q)
    BY <1>8 DEF FindDirectory
  <2> QED
    BY <2>1, <1>1, <1>b, <1>g, <1>o DEF Placed, Fresh, Knows, Aside, liveFiles
<1>9. CASE SaveNext(q)
  <2>1. /\ q \in Rollback /\ Of(q) = Dir /\ job[q].pc = "saveAll"
        /\ UNCHANGED <<available, overwrote, mixed>>
    BY <1>9, <1>1 DEF SaveNext, Placed, liveFiles, history
  <2>2. PICK n \in job[q].todo : /\ saved' = [saved EXCEPT ![q][n] = available[n]]
                                 /\ Work(q, "saveAll", job[q].todo \ {n})
    BY <1>9 DEF SaveNext
  <2>3. /\ saved'[q][n] = available[n]
        /\ \A m \in Name \ {n} : saved'[q][m] = saved[q][m]
    BY <2>1, <2>2, <1>3 DEF Contents
  <2>4. \A x \in overwrote : x[1] # q
    BY <1>1, <2>1 DEF Fresh
  <2>5. q \notin mixed => \A m \in Name \ (job[q].todo \ {n}) : Aside(q, m)'
    BY <1>1, <2>1, <2>3 DEF Knows, Aside
  <2>6. Owns(q)'
    BY <2>1, <2>4 DEF Owns
  <2> QED
    BY <2>1, <2>2, <2>4, <2>5, <2>6, <1>g DEF Placed, Fresh, Knows
<1>10. CASE SaveDone(q)
  <2>1. /\ q \in Rollback /\ Of(q) = Dir /\ job[q].pc = "saveAll" /\ job[q].todo = {}
        /\ UNCHANGED <<available, saved, overwrote, mixed>>
        /\ Work(q, "restoreAll", {n \in Name : directory[n] # Absent})
    BY <1>10, <1>1 DEF SaveDone, Placed, liveFiles, history
  <2>2. q \notin mixed => \A n \in Name : Aside(q, n)
    BY <1>1, <2>1 DEF Knows
  <2>3. Fresh(q)'
    <3>1. job'[q].pc = "restoreAll"
      BY <2>1, <1>g
    <3> QED
      BY <2>1, <3>1, <1>f
  <2> QED
    BY <2>1, <2>2, <2>3, <1>g, <1>o DEF Placed, Knows, Aside
<1>11. CASE RestoreNext(q)
  <2>1. PICK n \in job[q].todo : /\ Overwrites(q, n, directory[n])
                                 /\ Work(q, "restoreAll", job[q].todo \ {n})
    BY <1>11 DEF RestoreNext
  <2>2. /\ n \in Name /\ directory[n] \in Content \cup {Absent}
        /\ q \in Rollback /\ Of(q) = Dir /\ job[q].pc = "restoreAll"
        /\ UNCHANGED <<saved, mixed>>
    BY <2>1, <1>11, <1>1, <1>3 DEF RestoreNext, Placed, Contents
  <2>3. q \notin mixed => \A m \in job[q].todo : Aside(q, m)
    BY <2>2, <1>1 DEF Knows
  <2>4. Owns(q)'
    BY <2>1, <2>2, <2>3, <1>1, OverwriteFacts DEF Owns, Aside
  <2>5. \A m \in Name \ {n} : available'[m] = available[m]
    BY <2>1, <2>2, <1>1, OverwriteFacts
  <2>6. q \notin mixed' => \A m \in job[q].todo \ {n} : Aside(q, m)'
    BY <2>2, <2>3, <2>5, <1>3 DEF Aside
  <2>7. Fresh(q)'
    <3>1. job'[q].pc = "restoreAll"
      BY <2>1, <1>g
    <3>2. \A x \in overwrote' : x \in overwrote \/ (x[1] = q /\ x[2] = "available")
      BY <2>1, <2>2, <1>1, OverwriteFacts
    <3> QED
      BY <2>2, <3>1, <3>2, <1>f
  <2> QED
    BY <2>1, <2>2, <2>4, <2>6, <2>7, <1>g DEF Placed, Knows
<1>12. CASE RestoreDone(q) \/ AuditRollback(q)
  <2>1. PICK p \in {"audit", "done"} : GoOn(q, p) /\ (p = "audit" => Of(q) = Dir)
    BY <1>12, <1>1 DEF RestoreDone, AuditRollback, Placed
  <2>2. q \in Rollback /\ UNCHANGED <<overwrote, mixed, saved>>
    BY <1>12, <1>1 DEF RestoreDone, AuditRollback, Placed, history
  <2>3. Fresh(q)'
    BY <2>1, <2>2, <1>1, <1>h DEF Fresh
  <2> QED
    BY <2>1, <2>2, <2>3, <1>h, <1>o DEF Placed, Knows
<1>13. CASE Fail(q)
  <2>1. GoOn(q, "failed") /\ q \in Rollback /\ UNCHANGED <<saved, mixed>>
    BY <1>13 DEF Fail
  <2>2. CASE UNCHANGED overwrote
    BY <2>1, <2>2, <1>1, <1>h, <1>o DEF Placed, Fresh, Knows
  <2>3. ASSUME NEW n \in Name, Overwrites(q, n, Absent), q \notin mixed => Aside(q, n)
        PROVE  Owns(q)'
    BY <2>1, <2>3, <1>1, OverwriteFacts DEF Owns, Aside
  <2>4. CASE job[q].pc = "restore" /\ Overwrites(q, Of(q), Absent)
    <3>1. Of(q) \in Name /\ (q \notin mixed => Aside(q, Of(q)))
      BY <2>1, <2>4, <1>1, <1>2 DEF Placed, JobRecord, Of, Knows
    <3>2. Fresh(q)'
      <4>1. job'[q].pc = "failed"
        BY <2>1, <1>h
      <4>2. \A x \in overwrote' : x \in overwrote \/ (x[1] = q /\ x[2] = "available")
        BY <2>1, <2>4, <3>1, <1>1, OverwriteFacts
      <4> QED
        BY <2>1, <2>4, <4>1, <4>2, <1>f
    <3> QED
      BY <2>1, <2>3, <2>4, <3>1, <3>2, <1>h DEF Placed, Knows
  <2>5. CASE job[q].pc = "restoreAll" /\ \E n \in job[q].todo : Overwrites(q, n, Absent)
    <3>1. PICK n \in job[q].todo : Overwrites(q, n, Absent)
      BY <2>5
    <3>2. n \in Name /\ (q \notin mixed => Aside(q, n))
      BY <2>1, <2>5, <1>1, <1>3 DEF Knows
    <3>3. Fresh(q)'
      <4>1. job'[q].pc = "failed"
        BY <2>1, <1>h
      <4>2. \A x \in overwrote' : x \in overwrote \/ (x[1] = q /\ x[2] = "available")
        BY <2>1, <3>1, <3>2, <1>1, OverwriteFacts
      <4> QED
        BY <2>1, <2>5, <4>1, <4>2, <1>f
    <3> QED
      BY <2>1, <2>3, <3>1, <3>2, <3>3, <1>h DEF Placed, Knows
  <2>6. CASE job[q].pc = "enable" /\ Enables(q, Absent)
    <3>1. Of(q) \in Name
      BY <2>6, <1>1, <1>2 DEF Placed, JobRecord, Of
    <3>2. Owns(q)' /\ Fresh(q)'
      BY <2>1, <2>6, <3>1, <1>1, <1>h, EnablesFacts DEF Owns, Fresh
    <3> QED
      BY <2>1, <3>2, <1>h DEF Placed, Knows
  <2> QED
    BY <1>13, <2>2, <2>4, <2>5, <2>6 DEF Fail
<1>14. CASE UpdateBegins(q) \/ UpdateRenames(q) \/ UpdateEnables(q)
  <2>1. PICK p \in {"rename", "updateEnable", "done"} : GoOn(q, p)
    BY <1>14 DEF UpdateBegins, UpdateRenames, UpdateEnables
  <2>2. q \in Update /\ q \notin Rollback /\ UNCHANGED <<saved, overwrote>>
    BY <1>14, <1>1 DEF UpdateBegins, UpdateRenames, UpdateEnables,
                       Placed, history
  <2>3. mixed \subseteq mixed'
    BY <1>14, <1>b DEF UpdateBegins, UpdateRenames, UpdateEnables,
                       history
  <2> QED
    BY <2>1, <2>2, <2>3, <1>1, <1>h, <1>o DEF Placed
<1> QED
  BY <1>4, <1>5, <1>6, <1>7, <1>8, <1>9, <1>10, <1>11, <1>12, <1>13,
     <1>14 DEF Step

\* Every step keeps the invariant.
LEMMA Stepped == RollbackInv /\ [RollbacksNext]_rollbackVars => RollbackInv'
<1> SUFFICES ASSUME RollbackInv, [RollbacksNext]_rollbackVars PROVE RollbackInv'
  OBVIOUS
<1>1. CASE UNCHANGED rollbackVars
  BY <1>1 DEF rollbackVars, liveFiles, sources, history, RollbackInv,
              OverwrittenIsSaved, RollbacksTypeOK, Placed, Apart,
       Touch, UnderWay, Of, Fresh, Knows, Aside
<1>2. CASE RollbacksNext
  <2>1. PICK q \in Req : Step(q)
    BY <1>2 DEF RollbacksNext
  <2>2. StepOf(q) /\ RollbacksTypeOK
    BY <2>1, StepEffects DEF RollbackInv, OverwrittenIsSaved
  <2>3. PICK j \in JobRecord :
          /\ job' = [job EXCEPT ![q] = j]
          /\ j.of = Of(q)
          /\ j.todo # {} => Of(q) = Dir /\ j.pc \in {"saveAll", "restoreAll", "failed"}
    BY <2>2 DEF StepOf
  <2>4. /\ job'[q] = j /\ \A r \in Req \ {q} : job'[r] = job[r]
        /\ \A r \in Req : Of(r)' = Of(r)
        /\ job' \in [Req -> JobRecord]
    BY <2>2, <2>3 DEF RollbacksTypeOK, JobRecord, Of
  <2>5. RollbacksTypeOK'
    <3>1. \A r \in Req : job'[r].todo # {} =>
            Of(r)' = Dir /\ job'[r].pc \in {"saveAll", "restoreAll", "failed"}
      BY <2>2, <2>3, <2>4 DEF RollbacksTypeOK
    <3>2. backups' = backups /\ directory' = directory
      BY <2>2 DEF StepOf, sources
    <3> QED
      BY <2>2, <2>4, <3>1, <3>2 DEF StepOf, RollbacksTypeOK, JobRecord, Dirs
  <2>6. \A r \in Req : Placed(r)'
    BY <2>1, <2>2, OwnKnows, OtherRequestsKeep
  <2>7. \A r \in Rollback : Fresh(r)' /\ Knows(r)'
    BY <2>1, <2>2, OwnKnows, OtherRequestsKeep DEF Req
  <2>8. Apart'
    <3> SUFFICES ASSUME NEW a \in Req, NEW b \in Req, a # b, UnderWay(a)', UnderWay(b)', Touch(a, b)'
                 PROVE  a \in mixed' /\ b \in mixed'
      BY DEF Apart
    <3>1. Touch(a, b) /\ Touch(b, a) /\ mixed \subseteq mixed'
      BY <2>2, <2>4 DEF Touch, StepOf
    <3>2. ASSUME NEW r \in Req \ {q}, UnderWay(q)', UnderWay(r)', Touch(r, q)
          PROVE  r \in mixed' /\ q \in mixed'
      <4>1. UnderWay(r) /\ Touch(q, r)
        BY <2>4, <3>2 DEF UnderWay, Touch
      <4>2. CASE UnderWay(q)
        BY <3>1, <4>1, <4>2 DEF RollbackInv, Apart
      <4>3. CASE ~UnderWay(q)
        <5>1. Begins(q)
          BY <2>2, <3>2, <4>3 DEF StepOf, UnderWay
        <5> QED
          BY <2>2, <3>2, <4>1, <5>1, BeginsFacts
      <4> QED
        BY <4>2, <4>3
    <3>3. CASE a = q \/ b = q
      BY <3>1, <3>2, <3>3
    <3>4. CASE a # q /\ b # q
      BY <3>1, <3>4, <2>4 DEF RollbackInv, Apart, UnderWay
    <3> QED
      BY <3>3, <3>4
  <2>9. OverwrittenIsSaved'
    <3>1. ASSUME NEW x \in overwrote', x[1] \notin mixed', x[2] = "available"
          PROVE  saved'[x[1]][x[3]] = x[4]
      <4>1. CASE x[1] = q
        BY <2>1, <3>1, <4>1, OwnKnows DEF Owns
      <4>2. CASE x[1] # q
        <5>1. x \in overwrote /\ x[1] \notin mixed /\ x[1] \in Rollback
          BY <2>2, <3>1, <4>2 DEF StepOf, RollbacksTypeOK
        <5> QED
          BY <2>2, <3>1, <4>2, <5>1 DEF StepOf, RollbackInv, OverwrittenIsSaved
      <4> QED
        BY <4>1, <4>2
    <3>2. ASSUME NEW x \in overwrote', x[2] # "available"
          PROVE  x[3] = Of(x[1])' /\ job'[x[1]].pc \in {"audit", "done", "failed"}
      <4>1. x[1] \in Rollback /\ x[2] = "enabled"
        BY <2>2, <3>2 DEF StepOf, Dirs
      <4> QED
        BY <2>7, <3>2, <4>1 DEF Fresh
    <3> QED
      BY <2>5, <3>1, <3>2 DEF OverwrittenIsSaved
  <2> QED
    BY <2>6, <2>7, <2>8, <2>9 DEF RollbackInv
<1> QED
  BY <1>1, <1>2

\* What a rollback overwrites in sites-available, of vhosts nobody else changes
\* meanwhile, it has put aside, whichever call fails; in sites-enabled it
\* overwrites the one file it was asked for, and last (rollback-manager.ts,
\* restoreNginxConfigFile, restoreNginxConfigDirectory, backupExistingPath).
THEOREM SavedCorrect == RollbacksSpec => []OverwrittenIsSaved
<1>1. RollbackInv => OverwrittenIsSaved
  BY DEF RollbackInv
<1> QED
  BY <1>1, RollbackInit, Stepped, PTL DEF RollbacksSpec

\* A rollback is in the log only once it has restored all it was to, is
\* answered only once in the log, and a file nobody else changes is then in
\* force where nginx reads it.
THEOREM AnswerCorrect == RollbacksSpec => AnsweredIsEnabled
<1> DEFINE A(r) ==
       /\ r \in audit' \ audit => job[r].todo = {}
       /\ job'[r].pc = "done" /\ job[r].pc # "done" =>
            /\ r \in audit'
            /\ r \notin mixed /\ Of(r) # Dir =>
                 /\ enabled[Of(r)] = backups[Of(r)]
                 /\ available[Of(r)] = backups[Of(r)]
<1>1. ASSUME RollbackInv, [RollbacksNext]_rollbackVars PROVE [\A r \in Rollback : A(r)]_rollbackVars
  <2> SUFFICES ASSUME RollbacksNext, NEW r \in Rollback PROVE A(r)
    BY <1>1
  <2>1. PICK q \in Req : Step(q)
    BY DEF RollbacksNext
  <2>2. RollbacksTypeOK /\ Placed(q) /\ Knows(r)
    BY <1>1 DEF RollbackInv, OverwrittenIsSaved
  <2>3. StepOf(q)
    BY <1>1, <2>1, StepEffects
  <2>4. r # q => job'[r] = job[r]
    BY <2>2, <2>3 DEF StepOf, RollbacksTypeOK, Req
  <2>5. CASE AuditRollback(q)
    BY <2>2, <2>4, <2>5 DEF AuditRollback, GoOn, RollbacksTypeOK, Knows, Req
  <2>6. CASE Fail(q)
    <3>1. job'[q].pc = "failed"
      BY <2>2, <2>6 DEF Fail, GoOn, RollbacksTypeOK
    <3>2. r \in audit' \ audit => r = q /\ job[q].pc = "audit"
      BY <2>6 DEF Fail
    <3> QED
      BY <2>2, <2>4, <3>1, <3>2 DEF RollbacksTypeOK
  <2>7. CASE UpdateEnables(q)
    <3>1. q # r /\ UNCHANGED audit
      BY <2>2, <2>7, RollbackAssumption DEF UpdateEnables, Placed,
         RollbackAssumption
    <3> QED
      BY <2>4, <3>1
  <2>8. CASE ~AuditRollback(q) /\ ~Fail(q) /\ ~UpdateEnables(q)
    <3>1. UNCHANGED audit
      BY <2>1, <2>8 DEF Step, FindFile, SaveFile, RestoreFile,
                        EnableFile, FindDirectory,
             SaveNext, SaveDone, RestoreNext, RestoreDone,
             UpdateBegins, UpdateRenames
    <3>2. job'[q].pc # "done"
      BY <2>1, <2>2, <2>8 DEF Step, FindFile, SaveFile,
                              RestoreFile, EnableFile,
             FindDirectory, SaveNext, SaveDone, RestoreNext,
             RestoreDone, UpdateBegins,
             UpdateRenames, GoOn, Work, SaveFirst, RollbacksTypeOK
    <3> QED
      BY <2>4, <3>1, <3>2
  <2> QED
    BY <2>5, <2>6, <2>7, <2>8
<1>2. [\A r \in Rollback : A(r)]_rollbackVars =>
        [\A r \in Rollback :
           /\ r \in audit' \ audit => job[r].todo = {}
           /\ job'[r].pc = "done" /\ job[r].pc # "done" =>
                /\ r \in audit'
                /\ r \notin mixed /\ Of(r) # Dir =>
                     /\ enabled[Of(r)] = backups[Of(r)]
                     /\ available[Of(r)] = backups[Of(r)]]_rollbackVars
  OBVIOUS
<1> QED
  BY <1>1, <1>2, RollbackInit, Stepped, PTL DEF RollbacksSpec, AnsweredIsEnabled
=============================================================================
