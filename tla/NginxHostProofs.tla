---------------------------- MODULE NginxHostProofs ----------------------------
(***************************************************************************)
(* The files and commands of NginxHost implement the nginx of NginxRuntime,*)
(* whose configuration changes at any moment to anything, for any number   *)
(* of sites, updates and commands; so what NginxRuntime guarantees holds   *)
(* of them: when nginx goes down, and what it serves.  An update leaves    *)
(* its site a whole text, the old one in the backups, and the new one      *)
(* enabled, unless two updates of the site are at work at once; and        *)
(* certificates are kept.                                                  *)
(***************************************************************************)
EXTENDS NginxHost, SequenceTheorems, TLAPS

-----------------------------------------------------------------------------
(* Blocks of files *)

\* A file of n blocks, then the lines of a certificate.
Ended(t, n) == /\ t \in [1..(n + 1) -> Vhost \cup {Tls}]
               /\ \A i \in 1..n : t[i] \in Vhost
               /\ t[n + 1] = Tls

\* A sequence of at most two blocks is the content of an available file.
LEMMA BlocksAre ==
  ASSUME NEW n \in 0..2, NEW t \in [1..n -> Vhost]
  PROVE  t \in Blocks
BY DEF Blocks

\* Blocks, with or without the closing block certbot adds, are the content of
\* an enabled file.
LEMMA TextsAre ==
  ASSUME NEW n \in 0..2, NEW t, Ended(t, n)
  PROVE  t \in Texts
<1> DEFINE b == [i \in 1..n |-> t[i]]
<1>1. b \in [1..n -> Vhost]
  BY DEF Ended
<1>2. t = [i \in 1..(n + 1) |-> IF i <= n THEN b[i] ELSE Tls]
  BY DEF Ended
<1> HIDE DEF b
<1>3. b \in Seq(Vhost) /\ Len(b) = n
  BY <1>1
<1>4. t = b \o <<Tls>>
  BY <1>2, <1>3
<1> QED
  BY <1>1, <1>4, BlocksAre DEF Texts

\* What the renderer writes for a vhost is blocks.
LEMMA TextIsBlocks ==
  ASSUME NEW v \in Vhost
  PROVE  Text(v) \in Blocks
<1>1. Size[v] \in 0..2
  BY NginxAssumption
<1> QED
  BY <1>1, BlocksAre DEF Text

\* Blocks are at most two.
LEMMA BlocksLength ==
  ASSUME NEW t \in Blocks
  PROVE  \E n \in 0..2 : t \in [1..n -> Vhost] /\ Len(t) = n
BY DEF Blocks

\* What an enabled file holds is at most three blocks, the third certbot's.
LEMMA TextsLength ==
  ASSUME NEW t \in Texts \ Blocks
  PROVE  \E n \in 0..2 : Ended(t, n) /\ Len(t) = n + 1
<1>1. PICK b \in Blocks : t = b \o <<Tls>>
  BY DEF Texts
<1>2. PICK n \in 0..2 : b \in [1..n -> Vhost] /\ Len(b) = n
  BY BlocksLength
<1>3. b \in Seq(Vhost)
  BY <1>2
<1>4. t = [i \in 1..(n + 1) |-> IF i <= n THEN b[i] ELSE Tls] /\ Len(t) = n + 1
  BY <1>1, <1>2, <1>3
<1> QED
  BY <1>4, <1>2 DEF Ended

\* A write over blocks leaves blocks; over an enabled file, an enabled file.
LEMMA OverlayBlocks ==
  ASSUME NEW blocks \in Blocks, NEW text \in Blocks
  PROVE  Overlay(blocks, text) \in Blocks
<1>1. PICK m \in 0..2 : blocks \in [1..m -> Vhost] /\ Len(blocks) = m
  BY BlocksLength
<1>2. PICK n \in 0..2 : text \in [1..n -> Vhost] /\ Len(text) = n
  BY BlocksLength
<1>3. CASE m > n
  <2>1. Overlay(blocks, text) = [i \in 1..m |-> IF i <= n THEN text[i] ELSE blocks[i]]
    BY <1>1, <1>2, <1>3 DEF Overlay
  <2>2. Overlay(blocks, text) \in [1..m -> Vhost]
    BY <2>1, <1>1, <1>2
  <2> QED
    BY <2>2, BlocksAre
<1>4. CASE m <= n
  <2>1. Overlay(blocks, text) = [i \in 1..n |-> IF i <= n THEN text[i] ELSE blocks[i]]
    BY <1>1, <1>2, <1>4 DEF Overlay
  <2>2. Overlay(blocks, text) \in [1..n -> Vhost]
    BY <2>1, <1>1, <1>2, <1>4
  <2> QED
    BY <2>2, BlocksAre
<1> QED
  BY <1>3, <1>4

\* A write over an enabled file leaves the content of an enabled file.
LEMMA OverlayTexts ==
  ASSUME NEW t \in Texts, NEW text \in Blocks
  PROVE  Overlay(t, text) \in Texts
<1>1. CASE t \in Blocks
  BY <1>1, OverlayBlocks DEF Texts
<1>2. CASE t \notin Blocks
  <2>1. PICK m \in 0..2 : Ended(t, m) /\ Len(t) = m + 1
    BY <1>2, TextsLength
  <2>2. PICK n \in 0..2 : text \in [1..n -> Vhost] /\ Len(text) = n
    BY BlocksLength
  <2> DEFINE o == Overlay(t, text)
  <2>3. CASE m + 1 > n
    <3>1. o = [i \in 1..(m + 1) |-> IF i <= n THEN text[i] ELSE t[i]]
      BY <2>1, <2>2, <2>3 DEF Overlay
    <3> HIDE DEF o
    <3>2. Ended(o, m)
      BY <3>1, <2>1, <2>2, <2>3 DEF Ended
    <3> QED
      BY <3>2, TextsAre DEF o
  <2>4. CASE m + 1 <= n
    <3>1. o = [i \in 1..n |-> IF i <= n THEN text[i] ELSE t[i]]
      BY <2>1, <2>2, <2>4 DEF Overlay
    <3>2. o \in [1..n -> Vhost]
      BY <3>1, <2>2
    <3> QED
      BY <3>2, BlocksAre DEF Texts
  <2> QED
    BY <2>3, <2>4
<1> QED
  BY <1>1, <1>2

-----------------------------------------------------------------------------
(* The files *)

\* A request that is about to write a file holds it, and one that is about
\* to enable a site finds its file.
Holding(u) ==
  /\ job[u].pc \in {"writeTemp", "enableData"} => job[u].file \in Inode
  /\ job[u].pc = "enable" => available[job[u].site] \in Inode

FilesInv ==
  /\ clock \in 0..MaxTime
  /\ data \in [Inode -> Blocks]
  /\ available \in [Site -> Inode \cup {None}]
  /\ temp \in [Site -> Inode \cup {None}]
  /\ enabled \in Configs
  /\ job \in [Req -> [pc : Pcs, site : Site, vhost : Vhost,
                      stamp : 0..MaxTime, file : Inode \cup {None}]]
  /\ \A u \in Req : Holding(u)

\* No open file is the absence of one.
LEMMA NoneIsNoFile == None \notin Inode
BY NginxAssumption DEF Inode

\* A file just created is empty, which is a content of both kinds of file.
LEMMA EmptyFile == <<>> \in Blocks /\ <<>> \in Texts
<1>1. <<>> \in Seq(Vhost) /\ Len(<<>>) = 0
  OBVIOUS
<1>2. <<>> \in [1..0 -> Vhost]
  BY <1>1, LenProperties
<1>3. <<>> \in Blocks
  BY <1>2, 0 \in 0..2 DEF Blocks
<1> QED
  BY <1>3 DEF Texts

\* The files are well-formed before the first update.
LEMMA FilesInvInit == Init => FilesInv
<1> SUFFICES ASSUME Init PROVE FilesInv
  OBVIOUS
<1>1. \A s \in Site : Original[s] # None => Text(Original[s]) \in Blocks
  BY TextIsBlocks, NginxAssumption
<1>2. data \in [Inode -> Blocks]
  BY <1>1, EmptyFile DEF Init
<1>3. enabled \in Configs
  BY <1>1 DEF Init, Configs, Texts
<1>4. available \in [Site -> Inode \cup {None}] /\ temp \in [Site -> Inode \cup {None}]
  BY DEF Init, Inode
<1>5. job \in [Req -> [pc : {"new"}, site : Site, vhost : Vhost, stamp : {0},
                       file : {None}]] /\ clock = 0
  BY DEF Init
<1>6. job \in [Req -> [pc : Pcs, site : Site, vhost : Vhost,
                      stamp : 0..MaxTime, file : Inode \cup {None}]]
  BY <1>5, NginxAssumption DEF Pcs
<1>7. \A u \in Req : Holding(u)
  BY <1>5 DEF Holding
<1> QED
  BY <1>2, <1>3, <1>4, <1>5, <1>6, <1>7, NginxAssumption DEF FilesInv

\* What an enabled file is once a copy over it has been written.
LEMMA CopiedIsText ==
  ASSUME FilesInv, NEW u \in Req, job[u].file \in Inode, NEW s \in Site
  PROVE  CopiedOver(enabled[s], data[job[u].file]) \in Texts \cup {None}
<1>1. enabled[s] \in Texts \cup {None} /\ data[job[u].file] \in Blocks
  BY DEF FilesInv, Configs
<1> QED
  BY <1>1, OverlayTexts DEF CopiedOver

\* Every step of an update keeps the files well-formed.
LEMMA FilesInvStep ==
  ASSUME FilesInv, NEW u \in Req, WriterStep(u)
  PROVE  FilesInv'
<1> USE NoneIsNoFile DEF FilesInv, Holding, Pcs
<1>0. job[u].site \in Site /\ job[u].vhost \in Vhost
  OBVIOUS
<1>1. CASE Look(u)
  <2>1. /\ job'[u].pc \in {"openTemp", "backup"}
        /\ \A q \in Req \ {u} : job'[q] = job[q]
        /\ UNCHANGED <<clock, data, available, temp, enabled>>
    BY <1>1 DEF Look
  <2>2. job' \in [Req -> [pc : Pcs, site : Site, vhost : Vhost,
                          stamp : 0..MaxTime, file : Inode \cup {None}]]
    BY <1>1 DEF Look
  <2> QED
    BY <2>1, <2>2
<1>2. CASE BackupOpen(u)
  BY <1>0, <1>2 DEF BackupOpen, Hold
<1>3. CASE BackupData(u)
  BY <1>3 DEF BackupData, Hold
<1>4. CASE OpenTemp(u)
  <2> DEFINE f == IF temp[job[u].site] = None THEN u ELSE temp[job[u].site]
  <2>1. f \in Inode
    BY <1>0 DEF Inode
  <2> HIDE DEF f
  <2>2. /\ data' = [data EXCEPT ![f] = <<>>]
        /\ temp' = [temp EXCEPT ![job[u].site] = f]
        /\ job' = [job EXCEPT ![u].pc = "writeTemp", ![u].file = f]
        /\ UNCHANGED <<clock, available, enabled>>
    BY <1>4 DEF OpenTemp, Hold, f
  <2>3. data' \in [Inode -> Blocks] /\ temp' \in [Site -> Inode \cup {None}]
    BY <1>0, <2>1, <2>2, EmptyFile
  <2>4. job' \in [Req -> [pc : Pcs, site : Site, vhost : Vhost,
                          stamp : 0..MaxTime, file : Inode \cup {None}]]
    <3>1. [job[u] EXCEPT !.pc = "writeTemp", !.file = f] \in
             [pc : Pcs, site : Site, vhost : Vhost, stamp : 0..MaxTime,
              file : Inode \cup {None}]
      BY <2>1
    <3> QED
      BY <2>2, <3>1
  <2>5. ASSUME NEW q \in Req PROVE Holding(q)'
    <3>1. CASE q = u
      BY <2>1, <2>2, <3>1
    <3>2. CASE q # u
      BY <2>2, <3>2
    <3> QED
      BY <3>1, <3>2
  <2> QED
    BY <2>2, <2>3, <2>4, <2>5
<1>5. CASE WriteTemp(u)
  <2>1. Overlay(data[job[u].file], Text(job[u].vhost)) \in Blocks
    BY <1>0, <1>5, OverlayBlocks, TextIsBlocks DEF WriteTemp
  <2> QED
    BY <1>5, <2>1 DEF WriteTemp, Hold
<1>6. CASE Rename(u)
  BY <1>0, <1>6 DEF Rename, Goto
<1>7. CASE EnableOpen(u)
  BY <1>0, <1>7, EmptyFile DEF EnableOpen, Hold, Configs
<1>8. CASE EnableData(u)
  <2>1. CopiedOver(enabled[job[u].site], data[job[u].file]) \in Texts \cup {None}
    BY <1>0, <1>8, CopiedIsText DEF EnableData
  <2> QED
    BY <1>8, <2>1 DEF EnableData, Hold, Configs
<1>9. CASE Fail(u)
  <2>1. enabled' \in Configs
    BY <1>9, <1>0 DEF Fail, Configs
  <2>2. /\ job' = [job EXCEPT ![u].pc = "failed", ![u].file = None]
        /\ UNCHANGED <<clock, data, available, temp>>
    BY <1>9 DEF Fail, Hold
  <2>3. job' \in [Req -> [pc : Pcs, site : Site, vhost : Vhost,
                          stamp : 0..MaxTime, file : Inode \cup {None}]]
    <3>1. [job[u] EXCEPT !.pc = "failed", !.file = None] \in
             [pc : Pcs, site : Site, vhost : Vhost, stamp : 0..MaxTime,
              file : Inode \cup {None}]
      OBVIOUS
    <3> QED
      BY <2>2, <3>1
  <2>4. ASSUME NEW q \in Req PROVE Holding(q)'
    <3>1. job'[q] = job[q] \/ job'[q].pc = "failed"
      BY <2>2
    <3> QED
      BY <2>2, <3>1
  <2> QED
    BY <2>1, <2>2, <2>3, <2>4
<1> QED
  BY <1>1, <1>2, <1>3, <1>4, <1>5, <1>6, <1>7, <1>8, <1>9 DEF WriterStep

\* Every step of the host keeps the files well-formed, the commands because
\* they read them, certbot because it edits only what it has read.
LEMMA FilesInvKept == FilesInv /\ [HostNext]_allvars => FilesInv'
<1> SUFFICES ASSUME FilesInv, [HostNext]_allvars PROVE FilesInv'
  OBVIOUS
<1>1. ASSUME UNCHANGED <<files, enabled>> PROVE FilesInv'
  BY <1>1 DEF files, FilesInv, Holding
<1>2. CASE Update
  BY <1>2, FilesInvStep DEF Update
<1>3. CASE Time
  BY <1>3, NginxAssumption DEF Time, Tick, FilesInv, Holding
<1>4. ASSUME UNCHANGED files, enabled' \in Configs PROVE FilesInv'
  BY <1>4 DEF files, FilesInv, Holding
<1>5. CASE Host
  BY <1>5, <1>1 DEF Host, Runtime!MasterReloads, Runtime!UnitStarts
<1>6. ASSUME NEW r \in Cmd, CertbotReads(r) PROVE FilesInv'
  BY <1>6, <1>1 DEF CertbotReads
<1>7. ASSUME NEW r \in Cmd, CertbotOk(r) \/ CertbotFails(r) PROVE FilesInv'
  <2>1. UNCHANGED files
    BY <1>7 DEF CertbotOk, CertbotFails
  <2>2. enabled' \in Configs
    BY <1>7 DEF CertbotOk, CertbotFails, Runtime!CertbotOk,
                Runtime!CertbotFails,
                Runtime!CertbotEdits, Good, FilesInv
  <2> QED
    BY <2>1, <2>2, <1>4
<1>8. ASSUME NEW r \in Cmd, Command(r) PROVE FilesInv'
  BY <1>8, <1>1
  DEF Command, Runtime!RefuseInput, Runtime!StartIssue, Runtime!Start,
      Runtime!TestOk, Runtime!TestFails, Runtime!ReloadOk, Runtime!ReloadFails,
      Runtime!RestartStops, Runtime!RestartOk, Runtime!RestartFails
<1>9. CASE UNCHANGED allvars
  BY <1>9, <1>1 DEF allvars
<1> QED
  BY <1>2, <1>3, <1>5, <1>6, <1>7, <1>8, <1>9 DEF HostNext

-----------------------------------------------------------------------------
(* The refinement *)

\* A step of the host is a step of the nginx of NginxRuntime or leaves it alone.
LEMMA StepRefines ==
  ASSUME FilesInv, [HostNext]_allvars
  PROVE  [Runtime!Next]_(Runtime!vars)
<1>1. ASSUME UNCHANGED <<enabled, runtime, stale>> PROVE UNCHANGED Runtime!vars
  BY <1>1 DEF runtime, Runtime!vars
<1>2. CASE Update
  <2>1. UNCHANGED runtime
    BY <1>2 DEF Update
  <2>2. CASE enabled' = enabled
    BY <1>2, <2>1, <2>2, <1>1 DEF Update
  <2>3. CASE enabled' # enabled
    <3>1. enabled' \in Configs
      BY FilesInvKept DEF FilesInv
    <3>2. Runtime!Outdated
      BY <1>2, <2>3 DEF Update
    <3>3. Runtime!ConfigChanges
      BY <2>1, <2>3, <3>1, <3>2 DEF Runtime!ConfigChanges, runtime
    <3> QED
      BY <3>3 DEF Runtime!Next
  <2> QED
    BY <2>2, <2>3
<1>3. CASE Time
  BY <1>3, <1>1 DEF Time, Tick
<1>4. CASE Host
  BY <1>4 DEF Host, Runtime!Next
<1>5. ASSUME NEW r \in Cmd, CertbotReads(r) PROVE UNCHANGED Runtime!vars
  BY <1>5, <1>1 DEF CertbotReads
<1>6. ASSUME NEW r \in Cmd, CertbotOk(r) \/ CertbotFails(r) \/ Command(r)
      PROVE  Runtime!Step(r)
  BY <1>6 DEF CertbotOk, CertbotFails, Command, Runtime!Step
<1>7. CASE UNCHANGED allvars
  BY <1>7, <1>1 DEF allvars
<1> QED
  BY <1>2, <1>3, <1>4, <1>5, <1>6, <1>7 DEF HostNext, Runtime!Next

\* Whatever updates and certificate requests do to the files, step by step,
\* the commands of nginx.routes.ts run in the nginx of NginxRuntime.
THEOREM HostImplementsRuntime == HostSpec => ImplementsRuntime
<1>1. HostInit => FilesInv /\ Runtime!Init
  BY FilesInvInit DEF HostInit
<1> QED
  BY <1>1, FilesInvKept, StepRefines, PTL DEF HostSpec, ImplementsRuntime,
     Runtime!Spec

-----------------------------------------------------------------------------
(* What nginx does *)

\* Between a stop and the start that follows nginx is down.
Stopped ==
  unitBy # None => serving = None /\ ~hup /\ pc[unitBy] \in {"restarting", "done", "failed"}

\* While nothing has changed since its test, a request knows that the files
\* are good, and so does systemd once it has stopped the unit for it.
KnownGood ==
  /\ unitBy # None /\ unitBy \notin stale => enabled \in Good
  /\ \A r \in Cmd \ stale : pc[r] \in {"reload", "restart", "restarting", "done"}
                              => enabled \in Good

\* What nginx does next for a request makes it serve the files.
ServesNext == hup \/ unitBy # None \/ serving = enabled
Coming     == \A r \in Cmd \ stale :
                pc[r] = "restarting" \/ Runtime!Answered(r) => ServesNext

RuntimeInv == Runtime!TypeOK /\ Stopped /\ KnownGood /\ Coming

\* The invariant of the commands holds at the start.
LEMMA RuntimeInvInit == Runtime!Init => RuntimeInv
BY HostAssumption
DEF Runtime!Init, RuntimeInv, Runtime!TypeOK, Runtime!Pcs, Stopped, KnownGood,
    Coming,
    Runtime!Answered

\* No configuration and no command is None.
LEMMA NoneIsNotServed == None \notin Good /\ None \notin Cmd
BY HostAssumption DEF Good

\* Every step of a command keeps the invariant of the commands.
LEMMA CommandKeepsInv ==
  ASSUME RuntimeInv, NEW r \in Cmd, Runtime!Step(r)
  PROVE  RuntimeInv'
<1> USE NoneIsNotServed
    DEF RuntimeInv, Runtime!TypeOK, Runtime!Pcs, Stopped, KnownGood, Coming,
        ServesNext,
        Runtime!Answered, Runtime!Goto
<1>1. CASE Runtime!RefuseInput(r)
  BY <1>1 DEF Runtime!RefuseInput
<1>2. CASE Runtime!StartIssue(r)
  BY <1>2 DEF Runtime!StartIssue
<1>3. CASE Runtime!CertbotOk(r)
  BY <1>3 DEF Runtime!CertbotOk, Runtime!CertbotEdits, Runtime!Outdated, Good
<1>4. CASE Runtime!CertbotFails(r)
  BY <1>4 DEF Runtime!CertbotFails, Runtime!CertbotEdits, Runtime!Outdated, Good
<1>5. CASE Runtime!Start(r)
  BY <1>5 DEF Runtime!Start, Runtime!AfterStart
<1>6. CASE Runtime!TestOk(r)
  BY <1>6 DEF Runtime!TestOk, Runtime!AfterTest, Runtime!Kinds
<1>7. CASE Runtime!TestFails(r)
  BY <1>7 DEF Runtime!TestFails
<1>8. CASE Runtime!ReloadOk(r)
  BY <1>8 DEF Runtime!ReloadOk
<1>9. CASE Runtime!ReloadFails(r)
  BY <1>9 DEF Runtime!ReloadFails
<1>10. CASE Runtime!RestartStops(r)
  BY <1>10 DEF Runtime!RestartStops
<1>11. CASE Runtime!RestartOk(r)
  BY <1>11 DEF Runtime!RestartOk
<1>12. CASE Runtime!RestartFails(r)
  BY <1>12 DEF Runtime!RestartFails
<1> QED
  BY <1>1, <1>2, <1>3, <1>4, <1>5, <1>6, <1>7, <1>8, <1>9, <1>10, <1>11, <1>12
  DEF Runtime!Step

\* Every step of NginxRuntime keeps the invariant of the commands.
LEMMA RuntimeInvStep == RuntimeInv /\ [Runtime!Next]_(Runtime!vars) => RuntimeInv'
<1> SUFFICES ASSUME RuntimeInv, [Runtime!Next]_(Runtime!vars) PROVE RuntimeInv'
  OBVIOUS
<1> USE NoneIsNotServed
    DEF RuntimeInv, Runtime!TypeOK, Runtime!Pcs, Stopped, KnownGood, Coming,
        ServesNext,
        Runtime!Answered
<1>1. CASE Runtime!MasterReloads
  BY <1>1 DEF Runtime!MasterReloads
<1>2. CASE Runtime!UnitStarts
  BY <1>2 DEF Runtime!UnitStarts
<1>3. CASE Runtime!ConfigChanges
  BY <1>3 DEF Runtime!ConfigChanges, Runtime!Outdated
<1>4. CASE UNCHANGED Runtime!vars
  BY <1>4 DEF Runtime!vars
<1> QED
  BY <1>1, <1>2, <1>3, <1>4, CommandKeepsInv DEF Runtime!Next

\* A step that takes nginx down is that of a restart whose files have changed.
LEMMA DownStep ==
  RuntimeInv /\ [Runtime!Next]_(Runtime!vars) =>
    [/\ serving # None /\ serving' = None => unitBy' # None
     /\ unitBy # None /\ unitBy' = None /\ serving' = None => unitBy \in stale]_(Runtime!vars)
<1> USE NoneIsNotServed DEF RuntimeInv, Stopped, KnownGood, Runtime!TypeOK
<1> SUFFICES ASSUME RuntimeInv, Runtime!Next
             PROVE  /\ serving # None /\ serving' = None => unitBy' # None
                    /\ unitBy # None /\ unitBy' = None /\ serving' = None => unitBy \in stale
  OBVIOUS
<1>1. CASE Runtime!MasterReloads
  BY <1>1 DEF Runtime!MasterReloads
<1>2. CASE Runtime!UnitStarts
  BY <1>2 DEF Runtime!UnitStarts
<1>3. CASE Runtime!ConfigChanges
  BY <1>3 DEF Runtime!ConfigChanges
<1>4. ASSUME NEW r \in Cmd, Runtime!RestartStops(r)
      PROVE  unitBy' # None /\ unitBy = None
  BY <1>4 DEF Runtime!RestartStops
<1>5. ASSUME NEW r \in Cmd, Runtime!Step(r), ~Runtime!RestartStops(r)
      PROVE  UNCHANGED <<serving, unitBy>>
  BY <1>5
  DEF Runtime!Step, Runtime!RefuseInput, Runtime!StartIssue, Runtime!CertbotOk,
      Runtime!CertbotFails, Runtime!Start, Runtime!TestOk, Runtime!TestFails,
      Runtime!ReloadOk, Runtime!ReloadFails, Runtime!RestartOk,
      Runtime!RestartFails
<1> QED
  BY <1>1, <1>2, <1>3, <1>4, <1>5 DEF Runtime!Next

\* A reload never takes nginx down, and a restart leaves it down only if the
\* files have changed since it tested them.
THEOREM DownCorrect == HostSpec => DownOnlyByRestartOfChanged
<1>1. RuntimeInv /\ [][Runtime!Next]_(Runtime!vars)
        => [][/\ serving # None /\ serving' = None => unitBy' # None
              /\ unitBy # None /\ unitBy' = None /\ serving' = None
                   => unitBy \in stale]_(Runtime!vars)
  BY RuntimeInvStep, DownStep, PTL
<1> QED
  BY <1>1, RuntimeInvInit, HostImplementsRuntime, PTL
  DEF ImplementsRuntime, Runtime!Spec, DownOnlyByRestartOfChanged,
      Runtime!DownOnlyByRestartOfChanged

\* A reload, restart or certificate that was answered is served: once nginx
\* is at rest, what it has loaded is what the files say, unless they have
\* changed since the request tested them.
TestedIsServed ==
  \A r \in Cmd : Runtime!Answered(r) /\ Runtime!AtRest => serving = enabled

\* Once nginx is at rest, what it has loaded is what the files say, for every
\* request answered and not outdated since its test.
THEOREM ServedCorrect == HostSpec => [](Runtime!TypeOK /\ TestedIsServed)
<1>1. RuntimeInv => Runtime!TypeOK /\ TestedIsServed
  BY DEF RuntimeInv, TestedIsServed, Coming, ServesNext, Runtime!Answered,
         Runtime!AtRest
<1> QED
  BY <1>1, RuntimeInvInit, RuntimeInvStep, HostImplementsRuntime, PTL
  DEF ImplementsRuntime, Runtime!Spec

-----------------------------------------------------------------------------
(* The updates of a site that do not rush each other                        *)

\* The site an inode was created for.
Owner(n) == IF n \in Site THEN n ELSE job[n].site

\* Sites share no inode, and one that was renamed is not written any more.
Owned ==
  /\ \A s \in Site :
       /\ available[s] # None => Owner(available[s]) = s /\ available[s] # temp[s]
       /\ temp[s] # None => Owner(temp[s]) = s
  /\ \A u \in Req :
       /\ job[u].pc = "writeTemp" => Owner(job[u].file) = job[u].site
       /\ job[u].pc \in {"new", "backup", "backupData", "openTemp"} =>
            \A s \in Site : u # available[s] /\ u # temp[s]

\* What backups hold while updates come and go, rushed or not.
Backups ==
  /\ backups \in [Site \X (0..MaxTime) -> Blocks \cup {None}]
  /\ replaced \in [Site -> SUBSET Blocks]
  /\ rushed \subseteq Site
  /\ \A u \in Req :
       /\ job[u].pc = "backup" => available[job[u].site] # None
       /\ job[u].pc = "backupData" => job[u].file \in Inode

\* One update of a site at a time, each with a backup of its own name.
Alone(s) ==
  \A u, q \in Req : u # q /\ job[u].site = s /\ job[q].site = s =>
    /\ InFlight(u) => ~InFlight(q)
    /\ job[u].pc # "new" /\ job[q].pc # "new" => job[u].stamp # job[q].stamp

\* What an update has done so far.
Progress(u) ==
  LET s == job[u].site
      f == available[s] IN
  /\ job[u].pc \in {"backup", "backupData"} => f # None
  /\ job[u].pc = "backupData" => job[u].file = f /\ backups[Backup(u)] = <<>>
  /\ job[u].pc \in {"openTemp", "writeTemp", "rename"} /\ f # None =>
       backups[Backup(u)] = data[f]
  /\ job[u].pc = "writeTemp" => job[u].file = temp[s] /\ data[temp[s]] = <<>>
  /\ job[u].pc = "rename" => temp[s] # None /\ data[temp[s]] = Text(job[u].vhost)
  /\ job[u].pc \in {"enable", "enableData"} =>
       f # None /\ data[f] = Text(job[u].vhost)
  /\ job[u].pc = "enableData" => job[u].file = f

\* A file that some update put there is that of one of them.
Updated(s) ==
  (\E u \in Req : job[u].site = s /\ job[u].pc \in {"enable", "enableData", "done"})
    => /\ available[s] # None
       /\ \E q \in Req : job[q].site = s /\ data[available[s]] = Text(job[q].vhost)

\* Every text replaced is in the backup of the update that replaced it.
Kept(s) ==
  \A text \in replaced[s] : \E q \in Req :
    /\ job[q].site = s /\ job[q].pc \in {"enable", "enableData", "done", "failed"}
    /\ backups[<<s, job[q].stamp>>] = text

SiteInv(s) ==
  /\ Alone(s) /\ Updated(s) /\ Kept(s)
  /\ available[s] # None => data[available[s]] \in Whole
  /\ \A u \in Req : job[u].site = s => Progress(u)

UpdatesInv ==
  /\ FilesInv /\ Owned /\ Backups
  /\ \A s \in Site \ rushed : SiteInv(s)

-----------------------------------------------------------------------------
(* Updates beside certificates                                              *)

\* certbot runs alone, and what it read is what is enabled as long as no
\* update came in between.
CertbotInv ==
  /\ read \in [Cmd -> Configs \cup {None}]
  /\ \A r \in Cmd :
       /\ pc[r] = "certbot" => kind[r] = "issue"
       /\ pc[r] \in {"new", "certbot", "test"} => r \notin stale
       /\ read[r] # None => pc[r] = "certbot"
       /\ read[r] # None /\ r \notin crossed => read[r] = enabled /\ ~Updating
  /\ \A r, q \in Cmd : read[r] # None /\ read[q] # None => r = q
  /\ domain \in [Cmd -> Site]

\* The file of a site that no certificate request crossed is what the update
\* copies, and then that of the update, with a certificate or without.
Enabled(s) ==
  ~Crossed(s) =>
    /\ \A u \in Req : job[u].site = s /\ job[u].pc = "enableData" => enabled[s] = <<>>
    /\ Settled(s) => enabled[s] \in {data[available[s]], With(data[available[s]])}

\* The lines of a certificate stay, in the file and in what certbot has read.
Certified(r) ==
  kind[r] = "issue" /\ pc[r] \notin {"new", "certbot", "failed"} =>
    /\ HasTls(enabled[domain[r]])
    /\ \A q \in Cmd : read[q] # None => HasTls(read[q][domain[r]])

HostInv ==
  /\ UpdatesInv /\ RuntimeInv /\ CertbotInv
  /\ \A s \in Site \ rushed : Enabled(s)
  /\ \A r \in Cmd \ (crossed \cup stale) : Certified(r)

-----------------------------------------------------------------------------
\* What a request's record is after a step that holds a file.
LEMMA HoldFacts ==
  ASSUME FilesInv, NEW u \in Req, NEW f, NEW next, Hold(u, f, next)
  PROVE  /\ job'[u].pc = next /\ job'[u].file = f
         /\ job'[u].site = job[u].site /\ job'[u].vhost = job[u].vhost
         /\ job'[u].stamp = job[u].stamp
         /\ \A q \in Req \ {u} : job'[q] = job[q]
BY DEF FilesInv, Hold

\* The fields of a request.
LEMMA JobFields ==
  ASSUME FilesInv, NEW u \in Req
  PROVE  /\ job[u].site \in Site /\ job[u].vhost \in Vhost
         /\ job[u].stamp \in 0..MaxTime /\ job[u].file \in Inode \cup {None}
         /\ job[u].pc \in Pcs /\ Backup(u) \in Site \X (0..MaxTime)
BY DEF FilesInv, Backup

\* A step of an update changes its own record only, its site and vhost never.
LEMMA JobFacts ==
  ASSUME FilesInv, NEW u \in Req, WriterStep(u)
  PROVE  /\ job'[u].site = job[u].site /\ job'[u].vhost = job[u].vhost
         /\ \A q \in Req \ {u} : job'[q] = job[q]
         /\ ~Look(u) => job'[u].stamp = job[u].stamp /\ InFlight(u)
         /\ job'[u].pc # "new"
<1>1. CASE Look(u)
  BY <1>1 DEF Look, FilesInv
<1>2. CASE Rename(u)
  BY <1>2 DEF Rename, Goto, FilesInv, InFlight
<1>3. ASSUME ~Look(u), ~Rename(u)
      PROVE  InFlight(u) /\ \E f, next : Hold(u, f, next) /\ next # "new"
  BY <1>3
  DEF WriterStep, BackupOpen, BackupData, OpenTemp, WriteTemp, EnableOpen,
      EnableData, Fail, InFlight
<1> QED
  BY <1>1, <1>2, <1>3, HoldFacts

\* Writing over an empty file leaves what was written.
LEMMA OverlayOfEmpty ==
  ASSUME NEW text \in Blocks
  PROVE  Overlay(<<>>, text) = text /\ CopiedOver(<<>>, text) = text
<1>1. PICK n \in 0..2 : text \in [1..n -> Vhost] /\ Len(text) = n
  BY BlocksLength
<1>2. Len(<<>>) = 0
  OBVIOUS
<1>3. Overlay(<<>>, text) = [i \in 1..n |-> text[i]]
  BY <1>1, <1>2 DEF Overlay
<1>4. <<>> # None
  BY EmptyFile, HostAssumption
<1> QED
  BY <1>1, <1>3, <1>4 DEF CopiedOver

\* Files are touched at the site of the update only.
Frame(u) ==
  LET s == job[u].site IN
  /\ \A q \in Req \ {u} : job'[q] = job[q]
  /\ job'[u].site = s /\ job'[u].vhost = job[u].vhost
  /\ \A z \in Site \ {s} :
       /\ available'[z] = available[z] /\ temp'[z] = temp[z]
       /\ replaced'[z] = replaced[z]
       /\ \A t \in 0..MaxTime : backups'[<<z, t>>] = backups[<<z, t>>]
  /\ \A n \in Inode : Owner(n) # s => data'[n] = data[n]

\* Every step of an update keeps to its site.
LEMMA WriterFrame ==
  ASSUME UpdatesInv, NEW u \in Req, WriterStep(u)
  PROVE  Frame(u)
<1> DEFINE s == job[u].site
<1>1. /\ job'[u].site = s /\ job'[u].vhost = job[u].vhost
      /\ \A q \in Req \ {u} : job'[q] = job[q]
  BY JobFacts DEF UpdatesInv
<1>2. /\ s \in Site /\ job[u].stamp \in 0..MaxTime
      /\ data \in [Inode -> Blocks]
      /\ available \in [Site -> Inode \cup {None}]
      /\ temp \in [Site -> Inode \cup {None}]
      /\ backups \in [Site \X (0..MaxTime) -> Blocks \cup {None}]
      /\ replaced \in [Site -> SUBSET Blocks]
  BY JobFields DEF UpdatesInv, FilesInv, Backups
<1>3. \A z \in Site \ {s} : available'[z] = available[z] /\ temp'[z] = temp[z]
                              /\ replaced'[z] = replaced[z]
  BY <1>2 DEF WriterStep, Look, BackupOpen, BackupData, OpenTemp, WriteTemp,
              Rename, EnableOpen, EnableData, Fail
<1>4. \A z \in Site \ {s}, t \in 0..MaxTime : backups'[<<z, t>>] = backups[<<z, t>>]
  <2>1. UNCHANGED backups \/ \E b : backups' = [backups EXCEPT ![Backup(u)] = b]
    BY DEF WriterStep, Look, BackupOpen, BackupData, OpenTemp, WriteTemp,
           Rename, EnableOpen, EnableData, Fail
  <2> QED
    BY <1>2, <2>1 DEF Backup
<1>5. ASSUME NEW n \in Inode, Owner(n) # s PROVE data'[n] = data[n]
  <2>1. CASE OpenTemp(u)
    <3>1. PICK f : /\ f = IF temp[s] = None THEN u ELSE temp[s]
                   /\ data' = [data EXCEPT ![f] = <<>>]
      BY <2>1 DEF OpenTemp
    <3>2. Owner(f) = s
      BY <1>2, <3>1, NginxAssumption DEF UpdatesInv, Owned, Owner
    <3> QED
      BY <1>2, <1>5, <3>1, <3>2
  <2>2. CASE WriteTemp(u)
    <3>1. \E b : data' = [data EXCEPT ![job[u].file] = b]
      BY <2>2 DEF WriteTemp
    <3>2. Owner(job[u].file) = s
      BY <2>2 DEF WriteTemp, UpdatesInv, Owned
    <3> QED
      BY <1>2, <1>5, <3>1, <3>2
  <2>3. CASE ~OpenTemp(u) /\ ~WriteTemp(u)
    BY <2>3 DEF WriterStep, Look, BackupOpen, BackupData, Rename, EnableOpen,
                EnableData, Fail
  <2> QED
    BY <2>1, <2>2, <2>3
<1> QED
  BY <1>1, <1>3, <1>4, <1>5 DEF Frame

\* Sites share no inode after a step either.
LEMMA OwnedStep ==
  ASSUME UpdatesInv, NEW u \in Req, WriterStep(u)
  PROVE  Owned'
<1> DEFINE s == job[u].site
<1>1. /\ s \in Site /\ None \notin Inode
      /\ available \in [Site -> Inode \cup {None}]
      /\ temp \in [Site -> Inode \cup {None}]
  BY JobFields, NoneIsNoFile DEF UpdatesInv, FilesInv
<1>2. \A q \in Req : job'[q].site = job[q].site
  BY WriterFrame DEF Frame
<1>3. /\ \A q \in Req \ {u} : job'[q] = job[q]
      /\ job'[u].site = s
  BY WriterFrame DEF Frame
<1> USE DEF UpdatesInv, Owned
<1>7. ASSUME NEW q \in Req, q # u, job'[q].pc = "writeTemp"
      PROVE  Owner(job[q].file)' = job'[q].site
  <2>1. /\ job[q].pc = "writeTemp" /\ job'[q].file = job[q].file
        /\ job[q].file \in Inode /\ Owner(job[q].file) = job[q].site
    BY <1>3, <1>7 DEF FilesInv, Holding
  <2> QED
    BY <1>2, <2>1 DEF Owner, Inode
<1>4. CASE OpenTemp(u)
  <2>1. PICK f : /\ f = IF temp[s] = None THEN u ELSE temp[s]
                 /\ temp' = [temp EXCEPT ![s] = f]
                 /\ Hold(u, f, "writeTemp") /\ UNCHANGED available
    BY <1>4 DEF OpenTemp
  <2>2. f \in Inode /\ Owner(f) = s
    BY <1>1, <2>1, NginxAssumption DEF Owner, Inode
  <2>3. f # available[s]
    BY <1>1, <1>4, <2>1 DEF OpenTemp
  <2>4. /\ temp'[s] = f /\ available' = available
        /\ \A z \in Site \ {s} : temp'[z] = temp[z]
    BY <1>1, <2>1
  <2>5. job'[u].pc = "writeTemp" /\ job'[u].file = f
    BY <2>1, HoldFacts
  <2>6. \A z \in Site :
          /\ available'[z] # None =>
               Owner(available[z])' = z /\ available'[z] # temp'[z]
          /\ temp'[z] # None => Owner(temp[z])' = z
    BY <1>1, <1>2, <2>2, <2>3, <2>4 DEF Owner, Inode
  <2>7. \A q \in Req \ {u} : \A z \in Site : q = temp'[z] => q = temp[z]
    BY <2>1, <2>4
  <2> QED
    <3>1. Owner(job[u].file)' = job'[u].site
      BY <1>2, <1>3, <2>2, <2>5 DEF Owner, Inode
    <3>2. \A q \in Req : job'[q].pc \in {"new", "backup", "backupData", "openTemp"}
            => \A z \in Site : q # available'[z] /\ q # temp'[z]
      BY <1>3, <2>4, <2>5, <2>7
    <3> QED
      BY <1>7, <2>6, <3>1, <3>2
<1>5. CASE Rename(u)
  <2>1. /\ temp[s] # None
        /\ available' = [available EXCEPT ![s] = temp[s]]
        /\ temp' = [temp EXCEPT ![s] = None]
        /\ job'[u].pc = "enable"
    BY <1>5 DEF Rename, Goto, FilesInv
  <2>2. \A z \in Site :
          /\ available'[z] # None =>
               Owner(available[z])' = z /\ available'[z] # temp'[z]
          /\ temp'[z] # None => Owner(temp[z])' = z
    BY <1>1, <1>2, <2>1 DEF Owner, Inode
  <2>3. \A q \in Req : \A z \in Site :
          q = available'[z] \/ q = temp'[z] => q = available[z] \/ q = temp[z]
    BY <1>1, <2>1, NginxAssumption
  <2> QED
    <3>1. \A q \in Req : job'[q].pc \in {"new", "backup", "backupData", "openTemp"}
            => \A z \in Site : q # available'[z] /\ q # temp'[z]
      BY <1>3, <2>1, <2>3
    <3> QED
      BY <1>7, <2>1, <2>2, <3>1
<1>6. CASE ~OpenTemp(u) /\ ~Rename(u)
  <2>1. UNCHANGED <<available, temp>>
    BY <1>6 DEF WriterStep, Look, BackupOpen, BackupData, WriteTemp, EnableOpen,
                EnableData, Fail
  <2>2. /\ job'[u].pc # "writeTemp"
        /\ job'[u].pc \in {"new", "backup", "backupData", "openTemp"} =>
             job[u].pc \in {"new", "backup", "backupData", "openTemp"}
    <3>1. CASE Look(u)
      BY <3>1 DEF Look, FilesInv
    <3>2. CASE ~Look(u)
      <4>1. \E f, next : /\ Hold(u, f, next) /\ next # "writeTemp"
                         /\ next \in {"new", "backup", "backupData", "openTemp"} =>
                              job[u].pc \in {"backup", "backupData"}
        BY <1>6, <3>2 DEF WriterStep, BackupOpen, BackupData, WriteTemp,
                          EnableOpen, EnableData, Fail
      <4> QED
        BY <4>1, HoldFacts
    <3> QED
      BY <3>1, <3>2
  <2> QED
    <3>1. \A z \in Site :
            /\ available'[z] # None =>
                 Owner(available[z])' = z /\ available'[z] # temp'[z]
            /\ temp'[z] # None => Owner(temp[z])' = z
      BY <1>1, <1>2, <2>1 DEF Owner, Inode
    <3>2. \A q \in Req : job'[q].pc \in {"new", "backup", "backupData", "openTemp"}
            => \A z \in Site : q # available'[z] /\ q # temp'[z]
      BY <1>3, <2>1, <2>2
    <3> QED
      BY <1>7, <2>2, <3>1, <3>2
<1> QED
  BY <1>4, <1>5, <1>6

\* The types of what backs the files up.
LEMMA BackupsStep ==
  ASSUME UpdatesInv, NEW u \in Req, WriterStep(u)
  PROVE  Backups'
<1> DEFINE s == job[u].site
<1>1. /\ s \in Site /\ Backup(u) \in Site \X (0..MaxTime)
      /\ available \in [Site -> Inode \cup {None}] /\ data \in [Inode -> Blocks]
      /\ backups \in [Site \X (0..MaxTime) -> Blocks \cup {None}]
      /\ replaced \in [Site -> SUBSET Blocks]
      /\ rushed \subseteq Site /\ None \notin Inode
  BY JobFields, NoneIsNoFile DEF UpdatesInv, FilesInv, Backups
<1>2. backups' \in [Site \X (0..MaxTime) -> Blocks \cup {None}]
  <2>1. UNCHANGED backups
          \/ \E b \in Blocks \cup {None} : backups' = [backups EXCEPT ![Backup(u)] = b]
    <3>1. CASE BackupData(u)
      <4>1. backups[Backup(u)] \in Blocks \cup {None} /\ data[job[u].file] \in Blocks
        BY <1>1, <3>1 DEF BackupData, UpdatesInv, Backups
      <4>2. CopiedOver(backups[Backup(u)], data[job[u].file]) \in Blocks \cup {None}
        BY <4>1, OverlayBlocks DEF CopiedOver
      <4> QED
        BY <3>1, <4>2 DEF BackupData
    <3>2. CASE ~BackupData(u)
      BY <3>2, EmptyFile
      DEF WriterStep, Look, BackupOpen, OpenTemp, WriteTemp, Rename, EnableOpen,
          EnableData, Fail
    <3> QED
      BY <3>1, <3>2
  <2> QED
    BY <1>1, <2>1
<1>3. replaced' \in [Site -> SUBSET Blocks] /\ rushed' \subseteq Site
  <2>1. CASE Rename(u)
    BY <1>1, <2>1 DEF Rename
  <2>2. CASE ~Rename(u)
    BY <1>1, <2>2 DEF WriterStep, Look, BackupOpen, BackupData, OpenTemp,
                      WriteTemp, EnableOpen, EnableData, Fail
  <2> QED
    BY <2>1, <2>2
<1>4. \A z \in Site : available[z] # None => available'[z] # None
  BY <1>1 DEF WriterStep, Look, BackupOpen, BackupData, OpenTemp, WriteTemp,
              Rename, EnableOpen, EnableData, Fail
<1>5. ASSUME NEW q \in Req
      PROVE  /\ job'[q].pc = "backup" => available'[job'[q].site] # None
             /\ job'[q].pc = "backupData" => job'[q].file \in Inode
  <2>1. CASE q # u
    BY <1>4, <2>1, JobFacts, JobFields DEF UpdatesInv, Backups
  <2>2. CASE q = u /\ Look(u)
    <3>1. job'[u].pc \in {"openTemp", "backup"} /\ job'[u].site = s
      BY <2>2 DEF Look, UpdatesInv, FilesInv
    <3>2. job'[u].pc = "backup" => available[s] # None
      BY <2>2 DEF Look, UpdatesInv, FilesInv
    <3> QED
      BY <1>1, <1>4, <2>2, <3>1, <3>2
  <2>3. CASE q = u /\ BackupOpen(u)
    <3>1. job'[u].pc = "backupData" /\ job'[u].file = available[s]
      BY <2>3, HoldFacts DEF BackupOpen, UpdatesInv
    <3>2. available[s] # None
      BY <2>3 DEF BackupOpen, UpdatesInv, Backups
    <3> QED
      BY <1>1, <2>3, <3>1, <3>2
  <2>4. CASE q = u /\ Rename(u)
    BY <2>4 DEF Rename, Goto, UpdatesInv, FilesInv
  <2>5. CASE q = u /\ ~Look(u) /\ ~BackupOpen(u) /\ ~Rename(u)
    <3>1. \E f, next : Hold(u, f, next) /\ next \notin {"backup", "backupData"}
      BY <2>5 DEF WriterStep, BackupData, OpenTemp, WriteTemp, EnableOpen,
                  EnableData, Fail
    <3> QED
      BY <2>5, <3>1, HoldFacts DEF UpdatesInv
  <2> QED
    BY <2>1, <2>2, <2>3, <2>4, <2>5
<1> QED
  BY <1>2, <1>3, <1>5 DEF Backups

\* The other sites stay as they are.
LEMMA ElsewhereKept ==
  ASSUME UpdatesInv, NEW u \in Req, Frame(u),
         NEW s \in Site \ rushed, s # job[u].site
  PROVE  SiteInv(s)'
<1>1. \A q \in Req : job'[q].site = s \/ job[q].site = s => job'[q] = job[q]
  BY DEF Frame
<1>2. /\ available'[s] = available[s] /\ temp'[s] = temp[s]
      /\ replaced'[s] = replaced[s]
      /\ \A t \in 0..MaxTime : backups'[<<s, t>>] = backups[<<s, t>>]
  BY DEF Frame
<1>3. /\ available[s] # None => data'[available[s]] = data[available[s]]
      /\ temp[s] # None => data'[temp[s]] = data[temp[s]]
  BY DEF UpdatesInv, FilesInv, Owned, Frame
<1>4. /\ SiteInv(s)
      /\ \A q \in Req : job[q].stamp \in 0..MaxTime
      /\ \A q \in Req : job[q].pc = "writeTemp" => job[q].file # None
  BY JobFields, NoneIsNoFile DEF UpdatesInv, FilesInv, Holding
<1>5. \A q \in Req : job[q].site = s \/ job'[q].site = s =>
        backups'[<<s, job[q].stamp>>] = backups[<<s, job[q].stamp>>]
  BY <1>2, <1>4
<1>6. Alone(s)'
  BY <1>1, <1>4 DEF SiteInv, Alone, InFlight
<1>7. Updated(s)' /\ (available'[s] # None => data'[available'[s]] \in Whole)
  BY <1>1, <1>2, <1>3, <1>4 DEF SiteInv, Updated
<1>8. Kept(s)'
  <2> SUFFICES ASSUME NEW text \in replaced[s]
               PROVE  \E q \in Req :
                        /\ job'[q].site = s
                        /\ job'[q].pc \in {"enable", "enableData", "done", "failed"}
                        /\ backups'[<<s, job'[q].stamp>>] = text
    BY <1>2 DEF Kept
  <2>1. PICK q \in Req :
          /\ job[q].site = s
          /\ job[q].pc \in {"enable", "enableData", "done", "failed"}
          /\ backups[<<s, job[q].stamp>>] = text
    BY <1>4 DEF SiteInv, Kept
  <2> QED
    BY <1>1, <1>5, <2>1
<1>9. ASSUME NEW q \in Req, job'[q].site = s PROVE Progress(q)'
  <2>1. /\ job'[q] = job[q] /\ Progress(q) /\ job[q].site = s
        /\ backups'[<<s, job[q].stamp>>] = backups[<<s, job[q].stamp>>]
    BY <1>1, <1>4, <1>5, <1>9 DEF SiteInv
  <2>2. job[q].pc = "writeTemp" => temp[s] # None
    BY <1>4, <2>1 DEF Progress
  <2> QED
    BY <1>2, <1>3, <2>1, <2>2 DEF Progress, Backup
<1> QED
  BY <1>6, <1>7, <1>8, <1>9 DEF SiteInv

\* While an update of a site that is not rushed runs, no other of it does, and
\* none has a backup of the same name.
LEMMA OthersRest ==
  ASSUME UpdatesInv, NEW u \in Req, InFlight(u), job[u].site \notin rushed,
         NEW q \in Req \ {u}, job[q].site = job[u].site
  PROVE  /\ ~InFlight(q)
         /\ job[q].pc # "new" => job[q].stamp # job[u].stamp
BY JobFields DEF UpdatesInv, SiteInv, Alone, InFlight

\* What is left to show of a step at its own site.
LEMMA HereKept ==
  ASSUME UpdatesInv, NEW u \in Req, WriterStep(u), ~Look(u),
         NEW s \in Site \ rushed, job[u].site = s,
         Progress(u)', Updated(s)', Kept(s)',
         (available[s] # None => data[available[s]] \in Whole)'
  PROVE  SiteInv(s)'
<1>1. /\ job'[u].site = s /\ job'[u].stamp = job[u].stamp /\ InFlight(u)
      /\ \A q \in Req \ {u} : job'[q] = job[q]
  BY JobFacts DEF UpdatesInv
<1>2. \A q \in Req \ {u} : job[q].site = s =>
        ~InFlight(q) /\ (job[q].pc # "new" => job[q].stamp # job[u].stamp)
  BY <1>1, OthersRest
<1>3. \A q \in Req \ {u} : job'[q].site = s => ~InFlight(q)' /\ Progress(q)'
  BY <1>1, <1>2 DEF InFlight, Progress
<1>4. Alone(s)'
  <2>1. Alone(s)
    BY DEF UpdatesInv, SiteInv
  <2> QED
    BY <1>1, <1>2, <1>3, <2>1 DEF Alone, InFlight
<1> QED
  BY <1>1, <1>3, <1>4 DEF SiteInv

\* A step that leaves the file of the site alone keeps what is true of it.
LEMMA FileKept ==
  ASSUME UpdatesInv, NEW u \in Req, WriterStep(u), ~Look(u),
         NEW s \in Site \ rushed, job[u].site = s,
         available'[s] = available[s],
         available[s] # None => data'[available[s]] = data[available[s]],
         replaced'[s] = replaced[s],
         \A t \in 0..MaxTime : t # job[u].stamp => backups'[<<s, t>>] = backups[<<s, t>>],
         job'[u].pc \in {"enable", "enableData", "done"}
           => job[u].pc \in {"enable", "enableData"},
         job[u].pc \in {"enable", "enableData"} =>
           /\ job'[u].pc \in {"enable", "enableData", "done", "failed"}
           /\ UNCHANGED backups
  PROVE  /\ Updated(s)' /\ Kept(s)'
         /\ (available[s] # None => data[available[s]] \in Whole)'
<1>1. /\ job'[u].site = s /\ job'[u].stamp = job[u].stamp /\ InFlight(u)
      /\ job'[u].vhost = job[u].vhost
      /\ \A q \in Req \ {u} : job'[q] = job[q]
      /\ \A q \in Req : job[q].stamp \in 0..MaxTime
  BY JobFacts, JobFields DEF UpdatesInv
<1>2. Updated(s) /\ Kept(s) /\ (available[s] # None => data[available[s]] \in Whole)
  BY DEF UpdatesInv, SiteInv
<1>3. Updated(s)'
  <2>1. ASSUME NEW q \in Req, job'[q].site = s,
               job'[q].pc \in {"enable", "enableData", "done"}
        PROVE  job[q].site = s /\ job[q].pc \in {"enable", "enableData", "done"}
    BY <1>1, <2>1
  <2>2. \A q \in Req : job'[q].site = job[q].site /\ job'[q].vhost = job[q].vhost
    BY <1>1
  <2> QED
    BY <1>2, <2>1, <2>2 DEF Updated
<1>4. Kept(s)'
  <2> SUFFICES ASSUME NEW text \in replaced[s]
               PROVE  \E q \in Req :
                        /\ job'[q].site = s
                        /\ job'[q].pc \in {"enable", "enableData", "done", "failed"}
                        /\ backups'[<<s, job'[q].stamp>>] = text
    BY DEF Kept
  <2>1. PICK q \in Req :
          /\ job[q].site = s
          /\ job[q].pc \in {"enable", "enableData", "done", "failed"}
          /\ backups[<<s, job[q].stamp>>] = text
    BY <1>2 DEF Kept
  <2>2. CASE q = u
    BY <1>1, <2>1, <2>2 DEF InFlight
  <2>3. CASE q # u
    BY <1>1, <2>1, <2>3, OthersRest
  <2> QED
    BY <2>2, <2>3
<1> QED
  BY <1>2, <1>3, <1>4

\* A request that looks for a file to back up takes the time its backup is
\* named after.
LEMMA LookKeeps ==
  ASSUME UpdatesInv, NEW u \in Req, Look(u),
         NEW s \in Site \ rushed', job[u].site = s
  PROVE  SiteInv(s)'
<1>1. /\ job' = [job EXCEPT ![u].stamp = clock,
                            ![u].pc = IF available[s] = None THEN "openTemp"
                                                             ELSE "backup"]
      /\ job[u].pc = "new"
      /\ UNCHANGED <<clock, data, available, temp, enabled, backups, replaced>>
  BY DEF Look
<1>2. /\ job'[u].stamp = clock /\ job'[u].site = s /\ job'[u].vhost = job[u].vhost
      /\ job'[u].pc = IF available[s] = None THEN "openTemp" ELSE "backup"
      /\ \A q \in Req \ {u} : job'[q] = job[q]
  BY <1>1 DEF UpdatesInv, FilesInv
<1>3. s \notin rushed /\ ~Rushes(u)
  BY DEF Look
<1>4. SiteInv(s)
  BY <1>3 DEF UpdatesInv
<1>5. \A q \in Req \ {u} : job[q].site = s =>
        ~InFlight(q) /\ (job[q].pc # "new" => job[q].stamp # clock)
  BY <1>3 DEF Rushes
<1>6. Alone(s)'
  BY <1>2, <1>4, <1>5 DEF SiteInv, Alone, InFlight
<1>7. \A q \in Req : job'[q].site = s => Progress(q)'
  <2>1. \A q \in Req \ {u} : job'[q].site = s => Progress(q)'
    BY <1>2, <1>5 DEF InFlight, Progress
  <2>2. Progress(u)'
    BY <1>1, <1>2 DEF Progress
  <2> QED
    BY <2>1, <2>2
<1>8. Updated(s)'
  <2>1. \A q \in Req : job'[q].pc \in {"enable", "enableData", "done"} => q # u
    BY <1>2
  <2>2. \A q \in Req : job'[q].site = job[q].site /\ job'[q].vhost = job[q].vhost
    BY <1>2
  <2> QED
    BY <1>1, <1>2, <1>4, <2>1, <2>2 DEF SiteInv, Updated
<1>9. Kept(s)'
  <2> SUFFICES ASSUME NEW text \in replaced[s]
               PROVE  \E q \in Req :
                        /\ job'[q].site = s
                        /\ job'[q].pc \in {"enable", "enableData", "done", "failed"}
                        /\ backups'[<<s, job'[q].stamp>>] = text
    BY <1>1 DEF Kept
  <2>1. PICK q \in Req :
          /\ job[q].site = s
          /\ job[q].pc \in {"enable", "enableData", "done", "failed"}
          /\ backups[<<s, job[q].stamp>>] = text
    BY <1>4 DEF SiteInv, Kept
  <2>2. q # u
    BY <1>1, <2>1
  <2> QED
    BY <1>1, <1>2, <2>1, <2>2
<1>10. (available[s] # None => data[available[s]] \in Whole)'
  BY <1>1, <1>4 DEF SiteInv
<1> QED
  BY <1>6, <1>7, <1>8, <1>9, <1>10 DEF SiteInv

\* Each call of an update moves it on, and the others leave the site alone.
LEMMA WriterKeeps ==
  ASSUME UpdatesInv, NEW u \in Req, WriterStep(u), ~Look(u),
         NEW s \in Site \ rushed, job[u].site = s
  PROVE  SiteInv(s)'
<1> DEFINE b == <<s, job[u].stamp>>
           f == available[s]
<1>1. /\ job'[u].site = s /\ job'[u].stamp = job[u].stamp /\ InFlight(u)
      /\ job'[u].vhost = job[u].vhost
      /\ job[u].stamp \in 0..MaxTime /\ job[u].vhost \in Vhost
      /\ b \in Site \X (0..MaxTime) /\ Backup(u) = b /\ Backup(u)' = b
  BY JobFacts, JobFields DEF UpdatesInv, Backup
<1>2. /\ data \in [Inode -> Blocks] /\ available \in [Site -> Inode \cup {None}]
      /\ temp \in [Site -> Inode \cup {None}]
      /\ backups \in [Site \X (0..MaxTime) -> Blocks \cup {None}]
      /\ replaced \in [Site -> SUBSET Blocks]
      /\ None \notin Inode
  BY NoneIsNoFile DEF UpdatesInv, FilesInv, Backups
<1>3. /\ Progress(u) /\ (f # None => data[f] \in Whole)
      /\ f # None => f # temp[s]
  BY DEF UpdatesInv, SiteInv, Owned
<1>4. CASE BackupOpen(u)
  <2>1. /\ backups' = [backups EXCEPT ![b] = <<>>]
        /\ UNCHANGED <<data, available, temp, replaced>>
        /\ job[u].pc = "backup" /\ job'[u].pc = "backupData" /\ job'[u].file = f
    BY <1>1, <1>4, HoldFacts DEF BackupOpen, UpdatesInv
  <2>2. backups'[b] = <<>> /\ \A t \in 0..MaxTime : t # job[u].stamp =>
                                backups'[<<s, t>>] = backups[<<s, t>>]
    BY <1>1, <1>2, <2>1
  <2>3. Progress(u)'
    BY <1>1, <1>3, <2>1, <2>2 DEF Progress
  <2> QED
    BY <2>1, <2>2, <2>3, FileKept, HereKept
<1>5. CASE BackupData(u)
  <2>1. /\ backups' = [backups EXCEPT ![b] = CopiedOver(backups[b], data[job[u].file])]
        /\ UNCHANGED <<data, available, temp, replaced>>
        /\ job[u].pc = "backupData" /\ job'[u].pc = "openTemp"
    BY <1>1, <1>5, HoldFacts DEF BackupData, UpdatesInv
  <2>2. f # None /\ CopiedOver(backups[b], data[job[u].file]) = data[f]
    BY <1>1, <1>2, <1>3, <2>1, OverlayOfEmpty DEF Progress
  <2>3. backups'[b] = data[f] /\ \A t \in 0..MaxTime : t # job[u].stamp =>
                                   backups'[<<s, t>>] = backups[<<s, t>>]
    BY <1>1, <1>2, <2>1, <2>2
  <2>4. Progress(u)'
    BY <1>1, <1>3, <2>1, <2>3 DEF Progress
  <2> QED
    BY <2>1, <2>3, <2>4, FileKept, HereKept
<1>6. CASE OpenTemp(u)
  <2>1. PICK g : /\ g = IF temp[s] = None THEN u ELSE temp[s]
                 /\ data' = [data EXCEPT ![g] = <<>>]
                 /\ temp' = [temp EXCEPT ![s] = g]
                 /\ Hold(u, g, "writeTemp")
                 /\ UNCHANGED <<available, backups, replaced>>
                 /\ job[u].pc = "openTemp"
    BY <1>6 DEF OpenTemp
  <2>2. job'[u].pc = "writeTemp" /\ job'[u].file = g
    BY <2>1, HoldFacts DEF UpdatesInv
  <2>3. g \in Inode /\ (f # None => g # f)
    BY <1>2, <1>3, <2>1 DEF UpdatesInv, Owned, Inode
  <2>4. temp'[s] = g /\ data'[g] = <<>> /\ (f # None => data'[f] = data[f])
    BY <1>2, <2>1, <2>3
  <2>5. Progress(u)'
    BY <1>1, <1>3, <2>1, <2>2, <2>4 DEF Progress
  <2> QED
    BY <2>1, <2>2, <2>4, <2>5, FileKept, HereKept
<1>7. CASE WriteTemp(u)
  <2> DEFINE g == temp[s]
  <2>1. /\ job[u].pc = "writeTemp" /\ job[u].file = g /\ g \in Inode
        /\ data[g] = <<>> /\ (f # None => g # f)
    BY <1>1, <1>3, <1>7 DEF WriteTemp, Progress, UpdatesInv, FilesInv, Holding
  <2>2. /\ data' = [data EXCEPT ![g] = Overlay(<<>>, Text(job[u].vhost))]
        /\ UNCHANGED <<available, temp, backups, replaced>>
        /\ job'[u].pc = "rename"
    BY <1>7, <2>1, HoldFacts DEF WriteTemp, UpdatesInv
  <2>3. data'[g] = Text(job[u].vhost) /\ (f # None => data'[f] = data[f])
    BY <1>1, <1>2, <2>1, <2>2, TextIsBlocks, OverlayOfEmpty
  <2>4. Progress(u)'
    BY <1>1, <1>2, <1>3, <2>1, <2>2, <2>3 DEF Progress
  <2> QED
    BY <2>1, <2>2, <2>3, <2>4, FileKept, HereKept
<1>8. CASE Rename(u)
  <2> DEFINE g == temp[s]
  <2>1. /\ job[u].pc = "rename" /\ g # None /\ g \in Inode
        /\ data[g] = Text(job[u].vhost)
        /\ f # None => backups[b] = data[f]
    BY <1>1, <1>2, <1>3, <1>8 DEF Rename, Progress
  <2>2. /\ available'[s] = g /\ UNCHANGED <<data, backups>>
        /\ replaced'[s] = replaced[s] \cup (IF f = None THEN {} ELSE {data[f]})
        /\ job'[u].pc = "enable"
    BY <1>1, <1>2, <1>8 DEF Rename, Goto, UpdatesInv, FilesInv
  <2>3. Progress(u)'
    BY <1>1, <2>1, <2>2 DEF Progress
  <2>4. Updated(s)' /\ (available[s] # None => data[available[s]] \in Whole)'
    BY <1>1, <2>1, <2>2 DEF Updated, Whole
  <2>5. Kept(s)'
    <3> SUFFICES ASSUME NEW text \in replaced'[s]
                 PROVE  \E q \in Req :
                          /\ job'[q].site = s
                          /\ job'[q].pc \in {"enable", "enableData", "done", "failed"}
                          /\ backups[<<s, job'[q].stamp>>] = text
      BY <2>2 DEF Kept
    <3>1. CASE text \in replaced[s]
      <4>1. PICK q \in Req :
              /\ job[q].site = s
              /\ job[q].pc \in {"enable", "enableData", "done", "failed"}
              /\ backups[<<s, job[q].stamp>>] = text
        BY <3>1 DEF UpdatesInv, SiteInv, Kept
      <4> QED
        BY <2>1, <4>1, JobFacts DEF UpdatesInv
    <3>2. CASE f # None /\ text = data[f]
      BY <1>1, <2>1, <2>2, <3>2
    <3> QED
      BY <2>2, <3>1, <3>2
  <2> QED
    BY <2>3, <2>4, <2>5, HereKept
<1>9. CASE EnableOpen(u) \/ EnableData(u)
  <2>1. /\ UNCHANGED <<data, available, temp, backups, replaced>>
        /\ job[u].pc \in {"enable", "enableData"}
        /\ \/ job[u].pc = "enable" /\ job'[u].pc = "enableData" /\ job'[u].file = f
           \/ job'[u].pc = "done"
    BY <1>1, <1>9, HoldFacts DEF EnableOpen, EnableData, UpdatesInv
  <2>2. Progress(u)'
    BY <1>1, <1>3, <2>1 DEF Progress
  <2> QED
    BY <2>1, <2>2, FileKept, HereKept
<1>10. CASE Fail(u)
  <2>1. /\ UNCHANGED <<data, available, temp, replaced>> /\ job'[u].pc = "failed"
        /\ \/ UNCHANGED backups
           \/ job[u].pc = "backupData" /\ backups' = [backups EXCEPT ![b] = None]
    BY <1>1, <1>10, HoldFacts DEF Fail, UpdatesInv
  <2>2. \A t \in 0..MaxTime : t # job[u].stamp =>
          backups'[<<s, t>>] = backups[<<s, t>>]
    BY <1>1, <1>2, <2>1
  <2>3. Progress(u)'
    BY <2>1 DEF Progress
  <2> QED
    BY <2>1, <2>2, <2>3, FileKept, HereKept
<1> QED
  BY <1>4, <1>5, <1>6, <1>7, <1>8, <1>9, <1>10 DEF WriterStep

\* Every call of an update.
LEMMA UpdatesInvStep ==
  ASSUME UpdatesInv, NEW u \in Req, WriterStep(u)
  PROVE  UpdatesInv'
<1>1. FilesInv' /\ Owned' /\ Backups' /\ Frame(u)
  BY FilesInvStep, OwnedStep, BackupsStep, WriterFrame DEF UpdatesInv
<1>2. rushed \subseteq rushed' /\ (~Look(u) => rushed' = rushed)
  BY DEF WriterStep, Look, BackupOpen, BackupData, OpenTemp, WriteTemp, Rename,
         EnableOpen, EnableData, Fail
<1>3. ASSUME NEW s \in Site \ rushed' PROVE SiteInv(s)'
  BY <1>1, <1>2, ElsewhereKept, LookKeeps, WriterKeeps
<1> QED
  BY <1>1, <1>3 DEF UpdatesInv

\* Nothing is under way at the start.
LEMMA UpdatesInvInit ==
  ASSUME Init
  PROVE  UpdatesInv
<1>1. /\ FilesInv /\ None \notin Inode
      /\ \A s \in Site : Original[s] # None => Text(Original[s]) \in Whole
  BY FilesInvInit, NoneIsNoFile, NginxAssumption DEF Whole
<1>2. /\ \A u \in Req : job[u].pc = "new"
      /\ \A s \in Site : available[s] \in {s, None} /\ temp[s] = None
                           /\ replaced[s] = {}
      /\ \A s \in Site : available[s] # None => data[available[s]] \in Whole
  BY <1>1 DEF Init, Inode
<1>3. Owned
  BY <1>1, <1>2, NginxAssumption DEF Owned, Owner
<1>4. Backups
  BY <1>2 DEF Init, Backups
<1>5. \A s \in Site : SiteInv(s)
  BY <1>2 DEF SiteInv, Alone, Updated, Kept, InFlight, Progress
<1> QED
  BY <1>1, <1>3, <1>4, <1>5 DEF UpdatesInv

\* The updates are as they were when only certbot, nginx or the clock moved.
LEMMA UpdatesInvKept ==
  ASSUME UpdatesInv, FilesInv',
         UNCHANGED <<data, available, temp, backups, job, replaced, rushed>>
  PROVE  UpdatesInv'
<1>1. Owned' /\ Backups'
  BY DEF UpdatesInv, Owned, Owner, Backups
<1>2. \A s \in Site \ rushed : SiteInv(s)'
  BY DEF UpdatesInv, SiteInv, Alone, Updated, Kept, InFlight, Progress, Backup
<1> QED
  BY <1>1, <1>2 DEF UpdatesInv

\* What a certificate adds to a file, it adds once.
LEMMA WithTls ==
  ASSUME NEW t \in Texts
  PROVE  HasTls(With(t)) /\ With(With(t)) = With(t)
<1>1. CASE HasTls(t)
  BY <1>1 DEF With
<1>2. CASE ~HasTls(t)
  <2>1. None \notin Texts
    BY HostAssumption
  <2>2. t \in Blocks
    <3>1. CASE t \notin Blocks
      <4>1. PICK n \in 0..2 : Ended(t, n) /\ Len(t) = n + 1
        BY <3>1, TextsLength
      <4>2. t # <<>> /\ t[Len(t)] = Tls
        BY <4>1 DEF Ended
      <4> QED
        BY <1>2, <2>1, <4>2 DEF HasTls
    <3> QED
      BY <3>1
  <2>3. PICK n \in 0..2 : t \in [1..n -> Vhost] /\ Len(t) = n
    BY <2>2, BlocksLength
  <2>4. t \in Seq(Vhost)
    BY <2>3
  <2>5. With(t) = t \o <<Tls>> /\ With(t) \in Texts
    BY <1>2, <2>2 DEF With, Texts
  <2>6. Len(t \o <<Tls>>) = n + 1 /\ (t \o <<Tls>>)[n + 1] = Tls
    BY <2>3, <2>4
  <2>7. HasTls(With(t))
    <3>1. Len(With(t)) = n + 1 /\ With(t)[n + 1] = Tls
      BY <2>5, <2>6
    <3>2. Len(<<>>) = 0 /\ n + 1 # 0
      OBVIOUS
    <3>3. With(t) # <<>> /\ With(t) # None
      BY <2>1, <2>5, <3>1, <3>2
    <3>4. With(t)[Len(With(t))] = Tls
      BY <3>1
    <3> HIDE DEF With
    <3> QED
      BY <3>3, <3>4 DEF HasTls
  <2> QED
    BY <2>7 DEF With
<1> QED
  BY <1>1, <1>2

\* What a request for nginx or for a certificate does to itself.
LEMMA CommandFacts ==
  ASSUME RuntimeInv, NEW r \in Cmd, Command(r)
  PROVE  /\ UNCHANGED <<files, enabled, cert, kind>>
         /\ \A q \in Cmd \ {r} : pc'[q] = pc[q] /\ (q \in stale' <=> q \in stale)
         /\ pc[r] # "certbot"
         /\ pc'[r] = "certbot" => kind[r] = "issue"
         /\ pc'[r] \in {"new", "certbot", "test"} => pc[r] = "new"
         /\ r \in stale /\ r \notin stale' => pc[r] = "test"
         /\ r \in stale' => r \in stale
         /\ kind[r] = "issue" /\ pc'[r] \notin {"new", "certbot", "failed"} =>
              pc[r] \notin {"new", "certbot", "failed"}
<1>1. UNCHANGED <<files, enabled, cert, kind>>
  BY DEF Command, cert, Runtime!RefuseInput, Runtime!StartIssue, Runtime!Start,
         Runtime!TestOk, Runtime!TestFails, Runtime!ReloadOk,
         Runtime!ReloadFails, Runtime!RestartStops, Runtime!RestartOk,
         Runtime!RestartFails
<1>2. PICK next : /\ pc' = [pc EXCEPT ![r] = next] /\ pc[r] # "certbot"
                  /\ next = "certbot" => kind[r] = "issue"
                  /\ next \in {"new", "certbot", "test"} => pc[r] = "new"
                  /\ stale' = stale \/ (stale' = stale \ {r} /\ pc[r] = "test")
                  /\ kind[r] = "issue" /\ next \notin {"new", "certbot", "failed"}
                       => pc[r] \notin {"new", "certbot", "failed"}
  BY DEF Command, Runtime!Goto, Runtime!RefuseInput, Runtime!StartIssue,
         Runtime!Start, Runtime!AfterStart, Runtime!TestOk, Runtime!AfterTest,
         Runtime!TestFails, Runtime!ReloadOk, Runtime!ReloadFails,
         Runtime!RestartStops, Runtime!RestartOk, Runtime!RestartFails
<1>3. pc \in [Cmd -> Runtime!Pcs]
  BY DEF RuntimeInv, Runtime!TypeOK
<1> QED
  BY <1>1, <1>2, <1>3

\* How a certificate request that ends in certbot leaves the files.
LEMMA CertbotFacts ==
  ASSUME HostInv, NEW r \in Cmd, CertbotOk(r) \/ CertbotFails(r)
  PROVE  /\ UNCHANGED <<files, domain, crossed, kind>> /\ pc[r] = "certbot"
         /\ pc' = [pc EXCEPT ![r] = IF CertbotOk(r) THEN "test" ELSE "failed"]
         /\ read' = [read EXCEPT ![r] = None]
         /\ UNCHANGED <<enabled, stale>> \/ Runtime!Outdated
         /\ \/ UNCHANGED enabled
            \/ /\ read[r] # None /\ read[r][domain[r]] \in Texts
               /\ \E text \in {read[r][domain[r]], With(read[r][domain[r]])} :
                    enabled' = [enabled EXCEPT ![domain[r]] = text]
         /\ CertbotOk(r) => /\ read[r] # None /\ read[r][domain[r]] \in Texts
                            /\ enabled' = [enabled EXCEPT
                                 ![domain[r]] = With(read[r][domain[r]])]
<1>1. read[r] # None => read[r][domain[r]] \in Texts \cup {None}
  BY DEF HostInv, CertbotInv, Configs
<1>2. CASE CertbotOk(r)
  BY <1>1, <1>2
  DEF CertbotOk, CertbotSaves, Found, Writes, Ends, Runtime!CertbotOk,
      Runtime!CertbotEdits, Runtime!Goto
<1>3. CASE CertbotFails(r) /\ ~CertbotOk(r)
  BY <1>1, <1>3
  DEF CertbotFails, CertbotSaves, Found, Writes, Ends, Runtime!CertbotFails,
      Runtime!CertbotEdits, Runtime!Goto
<1> QED
  BY <1>2, <1>3

\* What certbot has read stays what is enabled until an update comes in between.
LEMMA CertbotInvStep ==
  ASSUME HostInv, [HostNext]_allvars
  PROVE  CertbotInv'
<1>1. /\ CertbotInv /\ RuntimeInv /\ enabled \in Configs /\ None \notin Configs
      /\ read \in [Cmd -> Configs \cup {None}] /\ pc \in [Cmd -> Runtime!Pcs]
  BY HostAssumption
  DEF HostInv, UpdatesInv, FilesInv, RuntimeInv, Runtime!TypeOK, CertbotInv
<1>2. ASSUME UNCHANGED <<read, domain, pc, kind, stale, crossed, enabled, job>>
      PROVE  CertbotInv'
  BY <1>1, <1>2 DEF CertbotInv, Updating, InFlight
<1>3. CASE Update
  <2>1. /\ UNCHANGED <<read, domain, pc, kind>>
        /\ crossed' = crossed \cup {r \in Cmd : Issuing(r)}
        /\ UNCHANGED stale \/ Runtime!Outdated
    BY <1>3 DEF Update, runtime
  <2>2. \A r \in Cmd : read[r] # None => r \in crossed'
    BY <1>1, <2>1 DEF CertbotInv, Issuing
  <2> QED
    BY <1>1, <2>1, <2>2 DEF CertbotInv, Runtime!Outdated
<1>4. CASE Time \/ Host \/ UNCHANGED allvars
  BY <1>2, <1>4
  DEF Time, Tick, Host, files, runtime, cert, allvars, Runtime!MasterReloads,
      Runtime!UnitStarts
<1>5. ASSUME NEW r \in Cmd, CertbotReads(r) PROVE CertbotInv'
  <2>1. /\ pc[r] = "certbot" /\ \A q \in Cmd : read[q] = None
        /\ read' = [read EXCEPT ![r] = enabled]
        /\ crossed' = IF Updating THEN crossed \cup {r} ELSE crossed
        /\ UNCHANGED <<enabled, pc, kind, stale, domain, job>>
    BY <1>5 DEF CertbotReads, files, runtime
  <2>2. read'[r] = enabled /\ \A q \in Cmd \ {r} : read'[q] = None
    BY <1>1, <2>1
  <2>3. r \notin crossed' => ~Updating'
    BY <2>1 DEF Updating, InFlight
  <2> QED
    BY <1>1, <2>1, <2>2, <2>3 DEF CertbotInv
<1>6. ASSUME NEW r \in Cmd, CertbotOk(r) \/ CertbotFails(r) PROVE CertbotInv'
  <2>1. /\ UNCHANGED <<files, domain, crossed, kind>> /\ pc[r] = "certbot"
        /\ pc' = [pc EXCEPT ![r] = IF CertbotOk(r) THEN "test" ELSE "failed"]
        /\ read' = [read EXCEPT ![r] = None]
        /\ UNCHANGED stale \/ Runtime!Outdated
        /\ UNCHANGED enabled \/ read[r] # None
    BY <1>6, CertbotFacts
  <2>2. read'[r] = None /\ \A q \in Cmd \ {r} : read'[q] = read[q]
    BY <1>1, <2>1
  <2>3. pc'[r] \in {"test", "failed"} /\ \A q \in Cmd \ {r} : pc'[q] = pc[q]
    BY <1>1, <2>1
  <2>4. \A q \in Cmd \ {r} : read[q] # None => UNCHANGED enabled
    BY <1>1, <2>1 DEF CertbotInv
  <2>5. \A q \in Cmd : pc'[q] \in {"new", "certbot", "test"} => q \notin stale'
    BY <1>1, <2>1, <2>3 DEF CertbotInv, Runtime!Outdated
  <2>6. Updating' = Updating
    BY <2>1 DEF Updating, InFlight, files
  <2> QED
    BY <1>1, <2>1, <2>2, <2>3, <2>4, <2>5, <2>6 DEF CertbotInv
<1>7. ASSUME NEW r \in Cmd, Command(r) PROVE CertbotInv'
  <2>1. UNCHANGED <<read, domain, kind, crossed, enabled, job>>
    BY <1>1, <1>7, CommandFacts DEF files, cert
  <2>2. \A q \in Cmd :
          /\ pc'[q] = "certbot" => kind[q] = "issue"
          /\ pc'[q] \in {"new", "certbot", "test"} => q \notin stale'
          /\ read[q] # None => pc'[q] = "certbot"
    BY <1>1, <1>7, CommandFacts DEF CertbotInv
  <2>3. Updating' = Updating
    BY <2>1 DEF Updating, InFlight
  <2> QED
    BY <1>1, <2>1, <2>2, <2>3 DEF CertbotInv
<1> QED
  BY <1>3, <1>4, <1>5, <1>6, <1>7 DEF HostNext

\* A call of an update, at the site or elsewhere: the enabled file is empty
\* while it is copied, and then it is the update's.
LEMMA EnabledAfterUpdate ==
  ASSUME UpdatesInv, NEW u \in Req, WriterStep(u),
         NEW s \in Site \ rushed', UNCHANGED domain, crossed \subseteq crossed',
         Enabled(s)
  PROVE  Enabled(s)'
<1>1. /\ s \notin rushed /\ SiteInv(s) /\ UpdatesInv' /\ SiteInv(s)'
      /\ (Crossed(s) => Crossed(s)')
  <2>1. rushed \subseteq rushed'
    BY DEF WriterStep, Look, BackupOpen, BackupData, OpenTemp, WriteTemp,
           Rename,
           EnableOpen, EnableData, Fail
  <2> QED
    BY <2>1, UpdatesInvStep DEF UpdatesInv, Crossed
<1>2. /\ job[u].site \in Site /\ job'[u].site = job[u].site
      /\ job'[u].pc # "new" /\ (~Look(u) => InFlight(u))
      /\ \A q \in Req \ {u} : job'[q] = job[q]
      /\ enabled \in Configs /\ data \in [Inode -> Blocks]
  BY JobFacts, JobFields DEF UpdatesInv, FilesInv
<1>3. CASE job[u].site # s
  <2>1. enabled'[s] = enabled[s]
    BY <1>2, <1>3
    DEF Configs, WriterStep, Look, BackupOpen, BackupData, OpenTemp, WriteTemp,
        Rename, EnableOpen, EnableData, Fail
  <2>2. /\ Settled(s)' => Settled(s)
        /\ \A q \in Req : job'[q].site = s => job'[q] = job[q]
    BY <1>2, <1>3 DEF Settled
  <2>3. Settled(s) => available[s] # None
    BY <1>1 DEF SiteInv, Updated, Settled
  <2>4. Settled(s) => /\ available'[s] = available[s]
                      /\ data'[available[s]] = data[available[s]]
    BY <1>3, <2>3, WriterFrame DEF Frame, UpdatesInv, Owned, FilesInv
  <2> QED
    BY <1>1, <2>1, <2>2, <2>4 DEF Enabled
<1>4. CASE job[u].site = s
  <2>1. ASSUME NEW q \in Req, job'[q].site = s, job'[q].pc = "enableData"
        PROVE  enabled'[s] = <<>>
    <3>1. q = u
      <4>1. q # u => InFlight(q) /\ job[q].site = s
        BY <1>2, <2>1 DEF InFlight
      <4>2. q # u => ~Look(u)
        BY <1>4, <4>1 DEF Look, Rushes
      <4> QED
        BY <1>1, <1>2, <1>4, <4>1, <4>2, OthersRest
    <3>2. EnableOpen(u)
      <4>1. ~Look(u)
        BY <2>1, <3>1 DEF Look, UpdatesInv, FilesInv
      <4>2. ~Rename(u)
        BY <2>1, <3>1 DEF Rename, Goto, UpdatesInv, FilesInv
      <4>3. ASSUME ~EnableOpen(u) PROVE FALSE
        <5>1. \E f, next : Hold(u, f, next) /\ next # "enableData"
          BY <4>1, <4>2, <4>3 DEF WriterStep, BackupOpen, BackupData, OpenTemp,
                                  WriteTemp, EnableData, Fail
        <5> QED
          BY <2>1, <3>1, <5>1, HoldFacts DEF UpdatesInv
      <4> QED
        BY <4>3
    <3> QED
      BY <1>2, <1>4, <3>2 DEF EnableOpen, Configs
  <2>2. ASSUME Settled(s)', ~Crossed(s)
        PROVE  enabled'[s] = data'[available'[s]]
    <3>1. job'[u].pc = "done"
      BY <1>2, <1>4, <2>2 DEF Settled
    <3>2. EnableData(u)
      <4>1. ~Look(u)
        BY <3>1 DEF Look, UpdatesInv, FilesInv
      <4>2. ~Rename(u)
        BY <3>1 DEF Rename, Goto, UpdatesInv, FilesInv
      <4>3. ASSUME ~EnableData(u) PROVE FALSE
        <5>1. \E f, next : Hold(u, f, next) /\ next # "done"
          BY <4>1, <4>2, <4>3 DEF WriterStep, BackupOpen, BackupData, OpenTemp,
                                  WriteTemp, EnableOpen, Fail
        <5> QED
          BY <3>1, <5>1, HoldFacts DEF UpdatesInv
      <4> QED
        BY <4>3
    <3>3. /\ job[u].pc = "enableData" /\ job[u].file = available[s]
          /\ job[u].file \in Inode /\ enabled[s] = <<>>
      BY <1>1, <1>4, <2>2, <3>2
      DEF EnableData, SiteInv, Progress, UpdatesInv, FilesInv, Holding, Enabled
    <3>4. /\ UNCHANGED <<data, available>>
          /\ enabled' = [enabled EXCEPT ![s] = CopiedOver(<<>>, data[available[s]])]
      BY <1>4, <3>2, <3>3 DEF EnableData
    <3>5. enabled'[s] = data[available[s]]
      BY <1>2, <3>3, <3>4, OverlayOfEmpty DEF Configs
    <3> QED
      BY <3>4, <3>5
  <2> QED
    BY <1>1, <2>1, <2>2 DEF Enabled
<1> QED
  BY <1>3, <1>4

\* The enabled file of a site, whichever step is taken.
LEMMA EnabledStep ==
  ASSUME HostInv, [HostNext]_allvars, NEW s \in Site \ rushed'
  PROVE  Enabled(s)'
<1>1. /\ UpdatesInv /\ CertbotInv /\ RuntimeInv /\ enabled \in Configs
      /\ data \in [Inode -> Blocks]
  BY DEF HostInv, UpdatesInv, FilesInv
<1>2. s \notin rushed => Enabled(s) /\ SiteInv(s)
  BY <1>1 DEF HostInv, UpdatesInv
<1>3. ASSUME UNCHANGED <<enabled, data, available, job, rushed, domain>>,
             crossed \subseteq crossed'
      PROVE  Enabled(s)'
  BY <1>2, <1>3 DEF Enabled, Crossed, Settled
<1>4. CASE Update
  <2>1. PICK u \in Req : WriterStep(u)
    BY <1>4 DEF Update
  <2>2. UNCHANGED domain /\ crossed \subseteq crossed'
    BY <1>4 DEF Update
  <2>3. rushed \subseteq rushed'
    BY <2>1 DEF WriterStep, Look, BackupOpen, BackupData, OpenTemp, WriteTemp,
                Rename, EnableOpen, EnableData, Fail
  <2> QED
    BY <1>1, <1>2, <2>1, <2>2, <2>3, EnabledAfterUpdate
<1>5. CASE Time \/ Host \/ UNCHANGED allvars
  BY <1>3, <1>5
  DEF Time, Tick, Host, files, runtime, cert, allvars, Runtime!MasterReloads,
      Runtime!UnitStarts
<1>6. ASSUME NEW r \in Cmd, CertbotReads(r) PROVE Enabled(s)'
  BY <1>3, <1>6 DEF CertbotReads, files
<1>7. ASSUME NEW r \in Cmd, Command(r) PROVE Enabled(s)'
  BY <1>1, <1>3, <1>7, CommandFacts DEF files, cert
<1>8. ASSUME NEW r \in Cmd, CertbotOk(r) \/ CertbotFails(r) PROVE Enabled(s)'
  <2>1. /\ UNCHANGED <<files, domain, crossed>>
        /\ \/ UNCHANGED enabled
           \/ /\ read[r] # None /\ read[r][domain[r]] \in Texts
              /\ \E text \in {read[r][domain[r]], With(read[r][domain[r]])} :
                   enabled' = [enabled EXCEPT ![domain[r]] = text]
    BY <1>8, CertbotFacts
  <2>2. CASE UNCHANGED enabled
    BY <1>3, <2>1, <2>2 DEF files
  <2>3. CASE ~UNCHANGED enabled
    <3>1. PICK text \in {read[r][domain[r]], With(read[r][domain[r]])} :
            enabled' = [enabled EXCEPT ![domain[r]] = text]
      BY <2>1, <2>3
    <3>2. /\ UNCHANGED <<data, available, job, rushed, domain, crossed>>
          /\ s \notin rushed /\ domain[r] \in Site
      BY <1>1, <2>1 DEF files, CertbotInv
    <3>3. CASE s # domain[r]
      <4>1. enabled'[s] = enabled[s]
        BY <1>1, <3>1, <3>3 DEF Configs
      <4> QED
        BY <1>2, <3>2, <4>1 DEF Enabled, Crossed, Settled
    <3>4. CASE s = domain[r] /\ r \in crossed
      BY <3>2, <3>4 DEF Enabled, Crossed
    <3>5. CASE s = domain[r] /\ r \notin crossed
      <4>1. /\ read[r] = enabled /\ ~Updating /\ enabled[s] \in Texts
            /\ enabled'[s] \in {enabled[s], With(enabled[s])}
        BY <1>1, <2>1, <2>3, <3>1, <3>2, <3>5 DEF CertbotInv, Configs
      <4>2. \A u \in Req : job[u].pc # "enableData"
        BY <4>1 DEF Updating, InFlight
      <4> DEFINE d == data[available[s]]
      <4>3. Settled(s) => d \in Texts
        BY <1>1, <1>2, <3>2
        DEF SiteInv, Updated, Settled, UpdatesInv, FilesInv, Texts
      <4>4. Settled(s) /\ ~Crossed(s) => enabled[s] \in {d, With(d)}
        BY <1>2, <3>2 DEF Enabled
      <4>5. Settled(s) /\ ~Crossed(s) => enabled'[s] \in {d, With(d)}
        BY <4>1, <4>3, <4>4, WithTls
      <4> QED
        BY <3>2, <4>2, <4>5 DEF Enabled, Crossed, Settled
    <3> QED
      BY <3>3, <3>4, <3>5
  <2> QED
    BY <2>2, <2>3
<1> QED
  BY <1>4, <1>5, <1>6, <1>7, <1>8 DEF HostNext

\* A certificate installed stays where it was installed, whichever step is
\* taken.
LEMMA CertifiedStep ==
  ASSUME HostInv, [HostNext]_allvars, NEW r \in Cmd \ (crossed' \cup stale')
  PROVE  Certified(r)'
<1>1. /\ CertbotInv /\ RuntimeInv /\ enabled \in Configs
      /\ read \in [Cmd -> Configs \cup {None}] /\ pc \in [Cmd -> Runtime!Pcs]
      /\ domain[r] \in Site
  BY DEF HostInv, UpdatesInv, FilesInv, RuntimeInv, Runtime!TypeOK, CertbotInv
<1>2. r \notin crossed \cup stale => Certified(r)
  BY DEF HostInv
<1>3. \A t \in Texts : HasTls(With(t))
  BY WithTls
<1>4. ASSUME UNCHANGED <<enabled, read, domain, pc, kind, stale>>,
             crossed \subseteq crossed'
      PROVE  Certified(r)'
  BY <1>2, <1>4 DEF Certified
<1>5. CASE Update
  <2>1. /\ UNCHANGED <<read, domain, pc, kind>>
        /\ crossed' = crossed \cup {q \in Cmd : Issuing(q)}
        /\ (UNCHANGED enabled /\ UNCHANGED stale) \/ Runtime!Outdated
    BY <1>5 DEF Update, runtime
  <2>2. CASE UNCHANGED enabled /\ UNCHANGED stale
    BY <1>4, <2>1, <2>2
  <2>3. CASE Runtime!Outdated
    <3>1. pc[r] \in {"new", "certbot", "test"}
      BY <2>3 DEF Runtime!Outdated
    <3>2. ~Issuing(r)
      BY <2>1
    <3> QED
      BY <2>1, <3>1, <3>2 DEF Issuing, Certified
  <2> QED
    BY <2>1, <2>2, <2>3
<1>6. CASE Time \/ Host \/ UNCHANGED allvars
  BY <1>4, <1>6
  DEF Time, Tick, Host, files, runtime, cert, allvars, Runtime!MasterReloads,
      Runtime!UnitStarts
<1>7. ASSUME NEW c \in Cmd, CertbotReads(c) PROVE Certified(r)'
  <2>1. /\ read' = [read EXCEPT ![c] = enabled]
        /\ UNCHANGED <<enabled, domain, pc, kind, stale>>
        /\ crossed \subseteq crossed'
    BY <1>7 DEF CertbotReads, runtime
  <2>2. \A q \in Cmd : read'[q] = read[q] \/ read'[q] = enabled
    BY <1>1, <2>1
  <2> QED
    BY <1>2, <2>1, <2>2 DEF Certified
<1>8. ASSUME NEW c \in Cmd, CertbotOk(c) \/ CertbotFails(c) PROVE Certified(r)'
  <2>1. /\ UNCHANGED <<domain, crossed, kind>> /\ pc[c] = "certbot"
        /\ pc' = [pc EXCEPT ![c] = IF CertbotOk(c) THEN "test" ELSE "failed"]
        /\ read' = [read EXCEPT ![c] = None]
        /\ UNCHANGED <<enabled, stale>> \/ Runtime!Outdated
        /\ \/ UNCHANGED enabled
           \/ /\ read[c] # None /\ read[c][domain[c]] \in Texts
              /\ \E text \in {read[c][domain[c]], With(read[c][domain[c]])} :
                   enabled' = [enabled EXCEPT ![domain[c]] = text]
        /\ CertbotOk(c) => /\ read[c] # None /\ read[c][domain[c]] \in Texts
                           /\ enabled' = [enabled EXCEPT
                                ![domain[c]] = With(read[c][domain[c]])]
    BY <1>8, CertbotFacts
  <2>2. /\ read'[c] = None /\ \A q \in Cmd \ {c} : read'[q] = read[q]
        /\ read[c] # None => \A q \in Cmd : read'[q] = None
    BY <1>1, <2>1 DEF CertbotInv
  <2>3. CASE r = c /\ CertbotOk(c)
    <3>1. HasTls(enabled'[domain[r]])
      BY <1>1, <1>3, <2>1, <2>3 DEF Configs
    <3> QED
      BY <2>1, <2>2, <2>3, <3>1 DEF Certified
  <2>4. CASE r = c /\ ~CertbotOk(c)
    BY <1>1, <2>1, <2>4 DEF Certified
  <2>5. CASE r # c
    <3>1. pc'[r] = pc[r] /\ r \notin crossed
      BY <1>1, <2>1, <2>5
    <3>2. Certified(r)
      BY <1>1, <1>2, <2>1, <3>1 DEF CertbotInv, Runtime!Outdated
    <3>3. CASE UNCHANGED enabled
      BY <2>1, <2>2, <2>5, <3>1, <3>2, <3>3 DEF Certified
    <3>4. CASE ~UNCHANGED enabled
      <4>1. PICK text \in {read[c][domain[c]], With(read[c][domain[c]])} :
              /\ read[c] # None /\ read[c][domain[c]] \in Texts
              /\ enabled' = [enabled EXCEPT ![domain[c]] = text]
        BY <2>1, <3>4
      <4>2. CASE domain[c] = domain[r]
        <5>1. enabled'[domain[r]] = text
          BY <1>1, <4>1, <4>2 DEF Configs
        <5>2. HasTls(read[c][domain[r]]) => HasTls(text)
          BY <1>3, <4>1, <4>2
        <5> QED
          BY <2>1, <2>2, <3>1, <3>2, <4>1, <5>1, <5>2 DEF Certified
      <4>3. CASE domain[c] # domain[r]
        <5>1. enabled'[domain[r]] = enabled[domain[r]]
          BY <1>1, <4>1, <4>3 DEF Configs
        <5> QED
          BY <2>1, <2>2, <3>1, <3>2, <4>1, <5>1 DEF Certified
      <4> QED
        BY <4>2, <4>3
    <3> QED
      BY <3>3, <3>4
  <2> QED
    BY <2>3, <2>4, <2>5
<1>9. ASSUME NEW c \in Cmd, Command(c) PROVE Certified(r)'
  <2>1. /\ UNCHANGED <<enabled, read, domain, kind, crossed>>
        /\ r # c => pc'[r] = pc[r] /\ r \notin stale
        /\ r = c => /\ r \notin stale \/ pc[r] = "test"
                    /\ kind[r] = "issue" /\ pc'[r] \notin {"new", "certbot", "failed"}
                         => pc[r] \notin {"new", "certbot", "failed"}
    BY <1>1, <1>9, CommandFacts DEF cert
  <2>2. Certified(r)
    BY <1>1, <1>2, <2>1 DEF CertbotInv
  <2> QED
    BY <2>1, <2>2 DEF Certified
<1> QED
  BY <1>5, <1>6, <1>7, <1>8, <1>9 DEF HostNext

\* Every step of the host.
LEMMA HostInvStep ==
  ASSUME HostInv, [HostNext]_allvars
  PROVE  HostInv'
<1>1. FilesInv' /\ RuntimeInv'
  BY FilesInvKept, StepRefines, RuntimeInvStep DEF HostInv, UpdatesInv
<1>2. UpdatesInv'
  <2>1. CASE Update
    BY <2>1, UpdatesInvStep DEF Update, HostInv
  <2>2. CASE ~Update
    <3>1. UNCHANGED <<data, available, temp, backups, job, replaced, rushed>>
      BY <2>2, CommandFacts
      DEF HostNext, Time, Tick, Host, CertbotReads, CertbotOk, CertbotFails,
          files, allvars, HostInv
    <3> QED
      BY <1>1, <3>1, UpdatesInvKept DEF HostInv
  <2> QED
    BY <2>1, <2>2
<1> QED
  BY <1>1, <1>2, CertbotInvStep, EnabledStep, CertifiedStep DEF HostInv

\* For any constants, in every state of the host.
LEMMA HostInvAlways == HostSpec => []HostInv
<1>1. ASSUME HostInit PROVE HostInv
  <2>1. UpdatesInv /\ RuntimeInv
    BY <1>1, UpdatesInvInit, RuntimeInvInit DEF HostInit
  <2>2. CertbotInv
    BY <1>1 DEF HostInit, Runtime!Init, CertbotInv
  <2>3. \A s \in Site : Enabled(s)
    BY <1>1 DEF HostInit, Init, Enabled, Settled
  <2>4. \A r \in Cmd : Certified(r)
    BY <1>1 DEF HostInit, Runtime!Init, Certified
  <2> QED
    BY <2>1, <2>2, <2>3, <2>4 DEF HostInv
<1> QED
  BY <1>1, HostInvStep, PTL DEF HostSpec

-----------------------------------------------------------------------------
\* The file of a site is a whole vhost at every moment, whichever call failed
\* and wherever the process died, unless its updates rush each other.
THEOREM WholeCorrect == HostSpec => []WholeUnlessRushed
<1>1. HostInv => WholeUnlessRushed
  BY DEF HostInv, UpdatesInv, FilesInv, Backups, SiteInv, WholeUnlessRushed,
         TypeOK
<1> QED
  BY <1>1, HostInvAlways, PTL

\* What an update replaced is in the backup directory, unless the updates of
\* the site rush each other.
THEOREM BackupsCorrect == HostSpec => []BackedUpUnlessRushed
<1>1. HostInv => BackedUpUnlessRushed
  <2> SUFFICES ASSUME HostInv, NEW s \in Site \ rushed, NEW text \in replaced[s]
               PROVE  \E t \in 0..MaxTime : backups[<<s, t>>] = text
    BY DEF BackedUpUnlessRushed
  <2>1. FilesInv /\ Kept(s)
    BY DEF HostInv, UpdatesInv, SiteInv
  <2>2. PICK q \in Req : Backup(q)[1] = s /\ backups[Backup(q)] = text
    BY <2>1 DEF Kept, Backup
  <2>3. job[q].stamp \in 0..MaxTime
    BY <2>1, JobFields
  <2> QED
    BY <2>2, <2>3 DEF Backup
<1> QED
  BY <1>1, HostInvAlways, PTL

\* An answered update is enabled, and is that of a request.
THEOREM EnabledCorrect == HostSpec => []AnsweredIsEnabled
<1>1. HostInv => AnsweredIsEnabled
  BY DEF HostInv, UpdatesInv, SiteInv, Updated, Settled, Enabled,
         AnsweredIsEnabled
<1> QED
  BY <1>1, HostInvAlways, PTL

\* An answered update is served once nginx is at rest, when a reload, restart
\* or certificate was answered that tested it.
THEOREM AnswersServed == HostSpec => []AnsweredIsServing
<1>1. HostInv /\ Runtime!TypeOK /\ TestedIsServed => AnsweredIsServing
  BY DEF HostInv, UpdatesInv, SiteInv, Updated, Settled, Enabled,
         TestedIsServed,
         AnsweredIsServing
<1> QED
  BY <1>1, HostInvAlways, ServedCorrect, PTL

\* An answered certificate is enabled, and served once nginx is at rest.
THEOREM CertificatesKept == HostSpec => []CertificateKept
<1>1. HostInv /\ TestedIsServed => CertificateKept
  BY DEF HostInv, Certified, TestedIsServed, Runtime!Answered, CertificateKept
<1> QED
  BY <1>1, HostInvAlways, ServedCorrect, PTL
=============================================================================
