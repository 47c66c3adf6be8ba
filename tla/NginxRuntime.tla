----------------------------- MODULE NginxRuntime -----------------------------
(***************************************************************************)
(* Testing, reloading and restarting nginx and issuing certificates:       *)
(* NginxRuntimeService and LetsEncryptService of                           *)
(* backend/src/modules/nginx/application/, called by the routes of         *)
(* backend/src/modules/nginx/http/nginx.routes.ts.                         *)
(*                                                                         *)
(* Each request is a sequence of commands, awaited one by one, and nothing *)
(* serialises requests or keeps the configuration from changing between    *)
(* two commands.  An action is a command, or one of its effects where they *)
(* come apart: nginx -s reload parses the configuration and signals the    *)
(* master, which reads it later; systemctl restart stops the unit and then *)
(* starts it, and systemd goes on with it when the runner has given up.    *)
(***************************************************************************)
EXTENDS Naturals

CONSTANTS
  Req,     \* requests
  Config,  \* contents of the enabled configuration
  Valid,   \* those nginx -t accepts
  None

Kinds == {"test", "reload", "restart", "issue"}

VARIABLES
  config,   \* what the configuration files say now
  serving,  \* what nginx has loaded, or None when it is down
  hup,      \* has the master a signal to handle
  unitBy,   \* the restart whose stop systemd will follow by a start, or None
  kind,     \* what each request asks
  pc,
  stale     \* history: requests past their test, if any, since when the files
            \* have changed

vars == <<config, serving, hup, unitBy, kind, pc, stale>>

Init ==
  /\ config \in Config
  /\ serving \in Valid \cup {None}
  /\ hup = FALSE
  /\ unitBy = None
  /\ kind \in [Req -> Kinds]
  /\ pc = [r \in Req |-> "new"]
  /\ stale = {}

Goto(r, next) == pc' = [pc EXCEPT ![r] = next]

-----------------------------------------------------------------------------
(* issueCertificate *)

\* An invalid address or domain is refused before certbot runs.
RefuseInput(r) ==
  /\ pc[r] = "new" /\ kind[r] = "issue"
  /\ Goto(r, "failed")
  /\ UNCHANGED <<config, serving, hup, unitBy, kind, stale>>

StartIssue(r) ==
  /\ pc[r] = "new" /\ kind[r] = "issue"
  /\ Goto(r, "certbot")
  /\ UNCHANGED <<config, serving, hup, unitBy, kind, stale>>

\* The files change: what a request has tested is out of date.
Outdated == stale' = {r \in Req : pc[r] \notin {"new", "certbot", "test"}}

\* certbot --nginx tests the configuration, edits it and signals nginx.
CertbotEdits == \E c \in Valid : config' = c /\ Outdated

CertbotOk(r) ==
  /\ pc[r] = "certbot" /\ config \in Valid
  /\ CertbotEdits
  /\ hup' = (serving # None)
  /\ Goto(r, "test")
  /\ UNCHANGED <<serving, unitBy, kind>>

\* It fails and restores what it changed, or is killed after it.
CertbotFails(r) ==
  /\ pc[r] = "certbot"
  /\ UNCHANGED <<config, stale>> \/ (config \in Valid /\ CertbotEdits)
  /\ Goto(r, "failed")
  /\ UNCHANGED <<serving, hup, unitBy, kind>>

-----------------------------------------------------------------------------
(* testConfig, reload and restart *)

\* Mutant: a restart goes ahead without a test.
AfterStartUntested(r) == IF kind[r] = "restart" THEN "restart" ELSE "test"

AfterStart(r) == "test"

Start(r) ==
  /\ pc[r] = "new" /\ kind[r] # "issue"
  /\ Goto(r, AfterStart(r))
  /\ UNCHANGED <<config, serving, hup, unitBy, kind, stale>>

\* Mutant: reload answers when the test has passed.
AfterTestOnly(r) == IF kind[r] = "restart" THEN "restart" ELSE "done"

AfterTest(r) == CASE kind[r] = "test"    -> "done"
                  [] kind[r] = "restart" -> "restart"
                  [] OTHER               -> "reload"

TestOk(r) ==
  /\ pc[r] = "test" /\ config \in Valid
  /\ Goto(r, AfterTest(r))
  /\ stale' = stale \ {r}
  /\ UNCHANGED <<config, serving, hup, unitBy, kind>>

\* A command that fails rejects the request; a test may be killed as well.
TestFails(r) ==
  /\ pc[r] = "test"
  /\ Goto(r, "failed")
  /\ UNCHANGED <<config, serving, hup, unitBy, kind, stale>>

ReloadOk(r) ==
  /\ pc[r] = "reload" /\ config \in Valid /\ serving # None
  /\ hup' = TRUE
  /\ Goto(r, "done")
  /\ UNCHANGED <<config, serving, unitBy, kind, stale>>

ReloadFails(r) ==
  /\ pc[r] = "reload"
  /\ hup' \in {hup, hup \/ (serving # None /\ config \in Valid)}
  /\ Goto(r, "failed")
  /\ UNCHANGED <<config, serving, unitBy, kind, stale>>

RestartStops(r) ==
  /\ pc[r] = "restart" /\ unitBy = None
  /\ serving' = None
  /\ hup' = FALSE
  /\ unitBy' = r
  /\ Goto(r, "restarting")
  /\ UNCHANGED <<config, kind, stale>>

\* systemctl answers when the unit is up, or has failed to start.
RestartOk(r) ==
  /\ pc[r] = "restarting" /\ unitBy # r /\ serving # None
  /\ Goto(r, "done")
  /\ UNCHANGED <<config, serving, hup, unitBy, kind, stale>>

RestartFails(r) ==
  /\ pc[r] \in {"restart", "restarting"}
  /\ Goto(r, "failed")
  /\ UNCHANGED <<config, serving, hup, unitBy, kind, stale>>

-----------------------------------------------------------------------------
(* nginx, systemd and the writers of the configuration *)

\* A master that reads a bad configuration keeps the old one.
MasterReloads ==
  /\ hup
  /\ hup' = FALSE
  /\ serving' = IF config \in Valid THEN config ELSE serving
  /\ UNCHANGED <<config, unitBy, kind, pc, stale>>

UnitStarts ==
  /\ unitBy # None
  /\ unitBy' = None
  /\ serving' = IF config \in Valid THEN config ELSE None
  /\ UNCHANGED <<config, hup, kind, pc, stale>>

\* A virtual host is written, or a rollback restores one.
ConfigChanges ==
  /\ \E c \in Config \ {config} : config' = c
  /\ Outdated
  /\ UNCHANGED <<serving, hup, unitBy, kind, pc>>

Step(r) ==
  \/ RefuseInput(r) \/ StartIssue(r) \/ CertbotOk(r) \/ CertbotFails(r)
  \/ Start(r) \/ TestOk(r) \/ TestFails(r) \/ ReloadOk(r) \/ ReloadFails(r)
  \/ RestartStops(r) \/ RestartOk(r) \/ RestartFails(r)

Next == MasterReloads \/ UnitStarts \/ ConfigChanges \/ \E r \in Req : Step(r)

Spec == Init /\ [][Next]_vars

-----------------------------------------------------------------------------
(* Properties *)

Pcs == {"new", "certbot", "test", "reload", "restart", "restarting", "done",
        "failed"}

TypeOK ==
  /\ config \in Config
  /\ serving \in Valid \cup {None}
  /\ hup \in BOOLEAN
  /\ unitBy \in Req \cup {None}
  /\ kind \in [Req -> Kinds]
  /\ pc \in [Req -> Pcs]
  /\ stale \subseteq Req
  /\ hup => serving # None

\* A restart leaves nginx down only if the configuration changed between its
\* test and the start of the unit; a reload never takes it down.
DownOnlyByRestartOfChanged ==
  [][/\ serving # None /\ serving' = None => unitBy' # None
     /\ unitBy # None /\ unitBy' = None /\ serving' = None => unitBy \in stale]_vars

\* Nginx is at rest, and what it has to serve for an answer is known: a
\* reload, a restart or a certificate was answered, and the files are still
\* those it tested.
Answered(r) == pc[r] = "done" /\ kind[r] # "test" /\ r \notin stale
AtRest == ~hup /\ unitBy = None
=============================================================================
