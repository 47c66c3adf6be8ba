---------------------------- MODULE PackageManager ----------------------------
(***************************************************************************)
(* Installing nginx, MySQL, MariaDB, UFW and certbot,                      *)
(* SystemPackageManagerService of                                          *)
(* backend/src/modules/system/application/package-manager.service.ts,      *)
(* called by backend/src/modules/system/http/system.routes.ts.             *)
(*                                                                         *)
(* For each component in turn: apt-get update, apt-get install, systemctl  *)
(* enable --now, each awaited, and the first that fails ends the request.  *)
(* An action is a step of a request or of the command it waits for; the    *)
(* backend may die while apt-get goes on.  What apt and dpkg do is         *)
(* external: one apt-get of a kind at a time, the next fails at once; a    *)
(* killed install leaves a dpkg that refuses to install until an operator  *)
(* repairs it; installing a component removes the one it conflicts with,   *)
(* and dpkg -s goes on succeeding for a package that was removed.          *)
(***************************************************************************)
EXTENDS Naturals, Sequences, FiniteSets

CONSTANTS
  Req,       \* install and install-stack requests
  Query,     \* status calls, one per component a status request is about
  Component,
  Packages,  \* componentPackages: the packages of each component
  Service,   \* the components with a serviceName
  Rival,     \* pairs of components that cannot both be installed
  Ask,       \* what requests ask: a list of components, and startService
  MaxDeaths  \* bound on the deaths of the backend

Package == UNION {Packages[c] : c \in Component}

ASSUME PackageAssumption ==
  /\ Service \subseteq Component
  /\ Rival \subseteq Component \X Component
  /\ \A c, d \in Component : <<c, d>> \in Rival => <<d, c>> \in Rival /\ c # d
  /\ \A c, d \in Component : c # d => Packages[c] \cap Packages[d] = {}
  /\ Ask \subseteq [list : Seq(Component) \ {<<>>}, start : BOOLEAN]
  /\ Req \cap Query = {} /\ MaxDeaths \in Nat

VARIABLES
  installed,    \* packages that are unpacked and configured
  known,        \* packages dpkg has a status of
  running,      \* services that are enabled and started
  interrupted,  \* dpkg was killed at work
  ask,          \* what each request asks
  at,           \* the component of the list each request is at
  stage,        \* new, what each request waits for, done, failed or lost
  command,      \* the command that runs for each request, or "none"
  deaths,
  ousted,       \* history: pairs of a request and a component a rival was
                \* installed over after the request had installed it
  query,        \* what each status call is about and has found
  before        \* history: the packages known when each status call began

host    == <<installed, known, running, interrupted, ousted>>
requestState == <<ask, at, stage>>
queries == <<query, before>>
packageVars == <<host, requestState, command, deaths, queries>>

PackagesInit ==
  /\ installed = {} /\ known = {} /\ running = {} /\ interrupted = FALSE
  /\ ask \in [Req -> Ask]
  /\ at = [r \in Req |-> 1]
  /\ stage = [r \in Req |-> "new"]
  /\ command = [r \in Req |-> "none"]
  /\ deaths = 0
  /\ ousted = {}
  /\ query \in [Query -> [of : Component, pc : {"new"}, found : {{}},
                         missed : {{}}, broke : {{}}]]
  /\ before = [q \in Query |-> {}]

Waiting == {"update", "install", "service"}

List(r)    == ask[r].list
Current(r) == List(r)[at[r]]
Rivals(c)  == {d \in Component : <<c, d>> \in Rival}

\* What a request has installed.
Has(r) == {List(r)[i] : i \in 1..(at[r] - 1)}
            \cup (IF stage[r] = "service" THEN {Current(r)} ELSE {})

Goto(r, next) == stage' = [stage EXCEPT ![r] = next]

-----------------------------------------------------------------------------
(* install, installStack *)

StartInstall(r) ==
  /\ stage[r] = "new"
  /\ Goto(r, "update")
  /\ UNCHANGED <<host, ask, at, command, deaths, queries>>

\* Mutant: a service is left to the scripts of its package.
NeedsServiceNever(r) == FALSE

NeedsService(r) == ask[r].start /\ Current(r) \in Service

\* A component is done: the next one of the list, or the answer.
Onward(r) ==
  /\ at' = [at EXCEPT ![r] = @ + 1]
  /\ Goto(r, IF at[r] = Len(List(r)) THEN "done" ELSE "update")

\* The awaited command of the current component has succeeded.
Proceed(r) ==
  \/ stage[r] = "update" /\ Goto(r, "install") /\ UNCHANGED at
  \/ stage[r] = "install" /\ NeedsService(r) /\ Goto(r, "service") /\ UNCHANGED at
  \/ stage[r] = "install" /\ ~NeedsService(r) /\ Onward(r)
  \/ stage[r] = "service" /\ Onward(r)

\* Mutant: the stack goes on with the next component.
RejectAndGoOn(r) ==
  IF at[r] = Len(List(r)) THEN Goto(r, "failed") /\ UNCHANGED at ELSE Onward(r)

\* Mutant: the component is tried again.
RejectAndRetry(r) == Goto(r, "update") /\ UNCHANGED at

\* It has failed.
Reject(r) == Goto(r, "failed") /\ UNCHANGED at

-----------------------------------------------------------------------------
(* The commands *)

\* What a finished command tells its request, if it still waits.
Tell(r, ok) ==
  /\ IF stage[r] \notin Waiting THEN UNCHANGED <<at, stage>>
     ELSE IF ok THEN Proceed(r) ELSE Reject(r)
  /\ UNCHANGED ask

Free(k) == \A q \in Req : command[q] # k

\* The command begins; an install unpacks and removes what is in its way.
Begin(r) ==
  LET c == Current(r) IN
  /\ stage[r] \in Waiting /\ command[r] = "none"
  /\ command' = [command EXCEPT ![r] = stage[r]]
  /\ \/ stage[r] = "update" /\ Free("update") /\ UNCHANGED host
     \/ /\ stage[r] = "service"
        /\ UNCHANGED host
     \/ /\ stage[r] = "install" /\ Free("install") /\ ~interrupted
        /\ known' = known \cup Packages[c]
        /\ LET out == {d \in Rivals(c) : Packages[d] \cap installed # {}} IN
           /\ installed' = installed \ UNION {Packages[d] : d \in out}
           /\ running' = running \ out
           /\ ousted' = ousted \cup {x \in Req \X out : x[2] \in Has(x[1])}
        /\ UNCHANGED interrupted
  /\ UNCHANGED <<requestState, deaths, queries>>

\* It fails without an effect: refused, locked out, or no network.
NotBegun(r) ==
  /\ stage[r] \in Waiting /\ command[r] = "none"
  /\ Reject(r)
  /\ UNCHANGED <<host, ask, command, deaths, queries>>

\* An install leaves its packages configured; their scripts start a service
\* or not.
Installs(c) ==
  /\ installed' = installed \cup Packages[c]
  /\ running' \in {running, running \cup ({c} \cap Service)}

\* The unit is there as long as its package is.
Starts(c) ==
  /\ Packages[c] \subseteq installed
  /\ running' = running \cup {c}
  /\ UNCHANGED installed

Ends(r) == command' = [command EXCEPT ![r] = "none"]

Succeeds(r) ==
  /\ command[r] # "none"
  /\ CASE command[r] = "update"  -> UNCHANGED <<installed, running>>
       [] command[r] = "install" -> Installs(Current(r))
       [] OTHER                  -> Starts(Current(r))
  /\ Ends(r)
  /\ Tell(r, TRUE)
  /\ UNCHANGED <<known, interrupted, ousted, deaths, queries>>

\* It exits with an error, before or after its effect, or is killed when it
\* has taken too long.
Fails(r) ==
  /\ command[r] # "none"
  /\ \/ UNCHANGED <<installed, running, interrupted>>
     \/ command[r] = "install" /\ interrupted' = TRUE /\ UNCHANGED <<installed, running>>
     \/ command[r] = "install" /\ Installs(Current(r)) /\ UNCHANGED interrupted
     \/ command[r] = "service" /\ Starts(Current(r)) /\ UNCHANGED interrupted
  /\ Ends(r)
  /\ Tell(r, FALSE)
  /\ UNCHANGED <<known, ousted, deaths, queries>>

\* The backend dies and is started again; its commands run to their end.
Dies ==
  /\ deaths < MaxDeaths
  /\ deaths' = deaths + 1
  /\ stage' = [r \in Req |-> IF stage[r] \in Waiting THEN "lost" ELSE stage[r]]
  /\ query' = [q \in Query |-> IF query[q].pc = "open"
                               THEN [query[q] EXCEPT !.pc = "lost"] ELSE query[q]]
  /\ UNCHANGED <<host, ask, at, command, before>>

\* An operator runs dpkg --configure -a.
Repair ==
  /\ interrupted
  /\ interrupted' = FALSE
  /\ UNCHANGED <<installed, known, running, ousted, requestState, command,
                 deaths, queries>>

-----------------------------------------------------------------------------
(* status *)

QueryBegins(q) ==
  /\ query[q].pc = "new"
  /\ query' = [query EXCEPT ![q].pc = "open"]
  /\ before' = [before EXCEPT ![q] = known \cap Packages[query[q].of]]
  /\ UNCHANGED <<host, requestState, command, deaths>>

\* Mutant: it says "installed" unless dpkg has said it is not.
FailedLookTrusts(q, p) == [query[q] EXCEPT !.found = @ \cup {p}, !.broke = @ \cup {p}]

Found(q, p)      == [query[q] EXCEPT !.found = @ \cup {p}]
Missed(q, p)     == [query[q] EXCEPT !.missed = @ \cup {p}]
\* A dpkg -s that fails for another reason says "not installed" too.
FailedLook(q, p) == [query[q] EXCEPT !.missed = @ \cup {p}, !.broke = @ \cup {p}]

Left(q) == Packages[query[q].of] \ (query[q].found \cup query[q].missed)

\* dpkg -s of one of the packages that are left.
Look(q) ==
  /\ query[q].pc = "open"
  /\ \E p \in Left(q) :
       query' \in {[query EXCEPT ![q] = IF p \in known THEN Found(q, p) ELSE Missed(q, p)],
                   [query EXCEPT ![q] = FailedLook(q, p)]}
  /\ UNCHANGED <<host, requestState, command, deaths, before>>

QueryEnds(q) ==
  /\ query[q].pc = "open" /\ Left(q) = {}
  /\ query' = [query EXCEPT ![q].pc = "done"]
  /\ UNCHANGED <<host, requestState, command, deaths, before>>

RequestStep(r) == Begin(r) \/ NotBegun(r) \/ Succeeds(r) \/ Fails(r)

PackagesNext ==
  \/ Dies \/ Repair
  \/ \E r \in Req : StartInstall(r) \/ RequestStep(r)
  \/ \E q \in Query : QueryBegins(q) \/ Look(q) \/ QueryEnds(q)

PackagesSpec == PackagesInit /\ [][PackagesNext]_packageVars

\* Every command has a time limit and ends when it is sent SIGTERM.
FairPackagesSpec == PackagesSpec /\ \A r \in Req : WF_packageVars(RequestStep(r))

-----------------------------------------------------------------------------
(* Properties *)

\* The shape of the state.
PackagesTypeOK ==
  /\ installed \subseteq known /\ known \subseteq Package
  /\ running \subseteq Service /\ interrupted \in BOOLEAN
  /\ ask \in [Req -> Ask]
  /\ at \in [Req -> Nat] /\ \A r \in Req : at[r] \in 1..(Len(List(r)) + 1)
  /\ stage \in [Req -> Waiting \cup {"new", "done", "failed", "lost"}]
  /\ command \in [Req -> Waiting \cup {"none"}]
  /\ deaths \in 0..MaxDeaths
  /\ ousted \subseteq Req \X Component
  /\ query \in [Query -> [of : Component,
                          pc : {"new", "open", "done", "lost"}, found : SUBSET Package,
                          missed : SUBSET Package, broke : SUBSET Package]]
  /\ before \in [Query -> SUBSET Package]

Reached(r) == {List(r)[i] : i \in 1..(IF at[r] > Len(List(r)) THEN Len(List(r)) ELSE at[r])}

\* Wherever a request is, or has failed or was lost with the backend, the
\* components before that point of its list are installed, their services
\* started if it asked for that, except those a rival was installed over
\* since, by another request or by itself; and nothing beyond the points the
\* requests have reached was touched.  An answered request is at the end.
StackIsPrefix ==
  /\ PackagesTypeOK
  /\ \A r \in Req : \A i \in 1..(at[r] - 1) :
       LET c == List(r)[i] IN
       \/ <<r, c>> \in ousted
       \/ /\ Packages[c] \subseteq installed
          /\ ask[r].start /\ c \in Service => c \in running
  /\ \A r \in Req : stage[r] = "done" => at[r] = Len(List(r)) + 1
  /\ known \subseteq UNION {Packages[c] : c \in UNION {Reached(r) : r \in Req}}

\* A status answer is about every package of its component; what it reports
\* as installed is on the host, though perhaps removed since or never
\* configured, and what it reports as missing was so when it began, or its
\* query has failed.
StatusKnows ==
  \A q \in Query : query[q].pc = "done" =>
    /\ query[q].found \cup query[q].missed = Packages[query[q].of]
    /\ query[q].found \subseteq known
    /\ query[q].missed \cap before[q] \subseteq query[q].broke

\* A request is answered at last, whatever others lock it out of, unless the
\* backend dies; apt-get never waits for a lock.
RequestsEnd ==
  \A r \in Req : stage[r] = "update" ~> stage[r] \in {"done", "failed", "lost"}
=============================================================================
