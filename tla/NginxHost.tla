------------------------------- MODULE NginxHost -------------------------------
(***************************************************************************)
(* nginx on the host: the vhosts NginxConfigService writes, and the tests, *)
(* reloads, restarts and certificates of NginxRuntimeService and           *)
(* LetsEncryptService, all of them requests of                             *)
(* backend/src/modules/nginx/http/nginx.routes.ts that nothing keeps from  *)
(* overlapping.                                                            *)
(*                                                                         *)
(* NginxConfig gives the steps of the updates, NginxRuntime those of the   *)
(* commands; the configuration nginx reads is what is in sites-enabled,    *)
(* with its files half copied at times.  certbot --nginx reads that        *)
(* directory, and minutes later writes the file of its domain again with   *)
(* the lines of the certificate in it, or puts back what it read.  These   *)
(* lines are in the enabled copy alone: the file in sites-available, from  *)
(* which an update copies, never has them.                                 *)
(***************************************************************************)
EXTENDS NginxConfig

CONSTANTS
  Cmd,       \* test, reload, restart and certificate requests
  Asks,      \* what each of them may ask
  Rejected,  \* vhosts nginx -t rejects, say for an upstream it cannot resolve
  Tls        \* the lines of a certificate, a block

Texts     == Blocks \cup {text \o <<Tls>> : text \in Blocks}
HasTls(t) == t \notin {None, <<>>} /\ t[Len(t)] = Tls
With(t)   == IF HasTls(t) THEN t ELSE t \o <<Tls>>
Loads(t)  == \/ t \in {None, <<>>}
             \/ \E v \in Vhost \ Rejected : t \in {Text(v), With(Text(v))}

Configs == [Site -> Texts \cup {None}]
Good    == {c \in Configs : \A s \in Site : Loads(c[s])}

ASSUME HostAssumption ==
  /\ Rejected \subseteq Vhost /\ Tls \notin Vhost
  /\ Cmd \cap (Req \cup Site) = {}
  /\ None \notin Cmd \cup Configs \cup Texts
  /\ Asks \in [Cmd -> SUBSET {"test", "reload", "restart", "issue"}]

VARIABLES
  serving, hup, unitBy, kind, pc, stale,  \* as in NginxRuntime
  domain,  \* the site of each certificate request
  read,    \* what certbot has read for each request, or None; it locks others
           \* out until it ends
  crossed  \* history: certificate requests certbot ran for, or nginx was
           \* tested for, while an update was under way

files   == <<clock, data, available, temp, backups, job, replaced, rushed>>
runtime == <<serving, hup, unitBy, kind, pc>>
cert    == <<domain, read, crossed>>
allvars == <<files, enabled, runtime, stale, cert>>

Runtime == INSTANCE NginxRuntime WITH
  Req <- Cmd, config <- enabled, Config <- Configs,
  Valid <- Good

HostInit ==
  /\ Init
  /\ serving = enabled
  /\ kind \in {k \in [Cmd -> UNION {Asks[r] : r \in Cmd}] :
                \A r \in Cmd : k[r] \in Asks[r]}
  /\ Runtime!Init
  /\ domain \in [Cmd -> Site]
  /\ read = [r \in Cmd |-> None]
  /\ crossed = {}

-----------------------------------------------------------------------------
(* POST /nginx/sites *)

Issuing(r) == kind[r] = "issue" /\ pc[r] \in {"certbot", "test"}
Updating   == \E u \in Req : InFlight(u)

\* Whoever has tested the files tested others once a step changes them.
Update ==
  /\ \E u \in Req : WriterStep(u)
  /\ IF enabled' = enabled THEN UNCHANGED stale ELSE Runtime!Outdated
  /\ crossed' = crossed \cup {r \in Cmd : Issuing(r)}
  /\ UNCHANGED <<runtime, domain, read>>

Time == Tick /\ UNCHANGED <<runtime, stale, cert>>

-----------------------------------------------------------------------------
(* POST /nginx/ssl/lets-encrypt *)

\* certbot parses what is enabled, unless another certbot runs.
CertbotReads(r) ==
  /\ pc[r] = "certbot" /\ \A q \in Cmd : read[q] = None
  /\ read' = [read EXCEPT ![r] = enabled]
  /\ crossed' = IF Updating THEN crossed \cup {r} ELSE crossed
  /\ UNCHANGED <<files, enabled, runtime, stale, domain>>

Writes(r, text) == enabled' = [enabled EXCEPT ![domain[r]] = text]
Found(r)        == read[r] # None /\ read[r][domain[r]] \notin {None, <<>>}
Ends(r)         == read' = [read EXCEPT ![r] = None]

\* Mutant: the certificate is obtained and not installed.
CertbotSavesOnly(r) == Found(r) /\ Writes(r, read[r][domain[r]])

\* The server block it found gets the certificate.
CertbotSaves(r) == Found(r) /\ Writes(r, With(read[r][domain[r]]))

CertbotOk(r) ==
  /\ pc[r] = "certbot"
  /\ CertbotSaves(r)
  /\ Runtime!CertbotOk(r)
  /\ Ends(r)
  /\ UNCHANGED <<files, domain, crossed>>

\* It leaves the files alone, or puts back what it read, or is killed when it
\* has written.
CertbotFails(r) ==
  /\ pc[r] = "certbot"
  /\ Runtime!CertbotFails(r)
  /\ \/ UNCHANGED enabled
     \/ Found(r) /\ Writes(r, read[r][domain[r]])
     \/ CertbotSaves(r)
  /\ Ends(r)
  /\ UNCHANGED <<files, domain, crossed>>

-----------------------------------------------------------------------------
(* POST /nginx/test, reload and restart; nginx and systemd *)

Command(r) ==
  /\ \/ Runtime!RefuseInput(r) \/ Runtime!StartIssue(r)
     \/ Runtime!Start(r) \/ Runtime!TestOk(r) \/ Runtime!TestFails(r)
     \/ Runtime!ReloadOk(r) \/ Runtime!ReloadFails(r)
     \/ Runtime!RestartStops(r) \/ Runtime!RestartOk(r) \/ Runtime!RestartFails(r)
  /\ UNCHANGED <<files, cert>>

Host ==
  /\ Runtime!MasterReloads \/ Runtime!UnitStarts
  /\ UNCHANGED <<files, cert>>

HostNext ==
  \/ Update \/ Time \/ Host
  \/ \E r \in Cmd : CertbotReads(r) \/ CertbotOk(r) \/ CertbotFails(r) \/ Command(r)

HostSpec == HostInit /\ [][HostNext]_allvars

-----------------------------------------------------------------------------
(* Properties *)

\* A certificate request edits the file of a site while an update writes it.
Crossed(s) == \E r \in crossed : domain[r] = s

\* An answered update is in force: what nginx will read is what
\* sites-available holds, with a certificate or without, and that is the
\* vhost of one of the requests, unless an update or a certificate request
\* ran at the same time.
AnsweredIsEnabled ==
  \A s \in Site \ rushed : Settled(s) /\ ~Crossed(s) =>
    /\ enabled[s] \in {data[available[s]], With(data[available[s]])}
    /\ \E u \in Req : job[u].site = s /\ data[available[s]] = Text(job[u].vhost)

\* Once nginx is at rest, it serves what the files say when a reload, a
\* restart or a certificate was answered and the files are those it tested,
\* whatever other requests have done meanwhile; so a reload that tests an
\* answered update serves the update, and not the file half copied.
AnsweredIsServing ==
  /\ Runtime!TypeOK
  /\ \A r \in Cmd : Runtime!Answered(r) /\ Runtime!AtRest =>
       /\ serving = enabled
       /\ \A s \in Site \ rushed : Settled(s) /\ ~Crossed(s) =>
            \E u \in Req : /\ job[u].site = s
                           /\ serving[s] \in {Text(job[u].vhost), With(Text(job[u].vhost))}

\* An answered certificate is enabled, and served once nginx is at rest,
\* until the next update of a site: that one copies a file without it.
CertificateKept ==
  \A r \in Cmd \ crossed : Runtime!Answered(r) /\ kind[r] = "issue" =>
    /\ HasTls(enabled[domain[r]])
    /\ Runtime!AtRest => HasTls(serving[domain[r]])

\* For the commands, all of this is the nginx of NginxRuntime, whose
\* configuration files may change at any moment to anything.
ImplementsRuntime == Runtime!Spec

\* A restart leaves nginx down only if the configuration changed between its
\* test and the start of the unit; a reload never takes it down.
DownOnlyByRestartOfChanged == Runtime!DownOnlyByRestartOfChanged
=============================================================================
