# Verification of NhiTVPS

TLA+ models of NhiTVPS, its backend (`backend/src`, TypeScript on Fastify) and
its page (`frontend/src/App.tsx`, React), the TLC instances that check them and
TLAPS proofs about them. Paths are relative to the repository root; `M:n` after a
module name is a line of the code it names.

The backend is one Node.js process that administers a VPS: accounts and
sessions, files, firewall rules, MySQL databases, nginx virtual hosts,
backups. It holds little state itself. Its state is the host: files, UFW rules,
databases, services. Its hard part is that every operation is a sequence of
awaited calls on that host, that nothing serialises requests, and that every
call can fail in the middle. The page has the same problem from the other end:
its buttons start chains of requests while the user goes on clicking. That is
what the models are about.

How to run: `tlc -config X.cfg MCX` for a row of the table of runs,
`tlapm X.tla` for the modules whose names end in `Proofs`.

## 1. Inventory

| Component | State it keeps | Operations | Hard behaviour | What makes it correct |
|---|---|---|---|---|
| Authentication (`modules/auth`) | users with status, failure counter, `lockedUntil`; sessions; in memory | login, session guard, permission guard, logout | login decides on a copy read before a slow hash; guards race logouts and expiry | the counter counts every failure, the lock is placed by the threshold rule, no request passes on a session that had ended |
| Authorization (`authorization.service`, `permissions`, `rbac.guard`) | none, permission keys of a user | the guard, `hasGrantedPermission` | same copy problem; `manage` keys grant others | only permitted users pass |
| TOTP, recovery codes (`totp.service`, `recovery-code.service`) | none | base32, tokens, a window of periods; generate, hash and verify recovery codes | overflow of the accumulators, the edges of the window, codes shorter than their form | secrets survive their encoding, a token is accepted only inside its window, a recovery code however it is typed and no other |
| Command runner (`infrastructure/command`) | per command: child, timer, collected output, promise | `run` | exit, close, error, timer and audit hook in any order | one answer, in agreement with the audit trail, always given |
| UFW adapter and rules (`modules/firewall`) | rules of the host | validate, render, apply with rollback | partial failure; requests sharing rules | a rule covers what it says; a failed request takes back what it did |
| Database provisioning (`modules/database`) | databases, accounts, grants of the server | create, user, grant, provision with compensation | lost answers; compensation by name | compensation removes only what the request made |
| Database backup (`database-backup.service`) | dump files, temporary password files | backup, restore | cut output, decoded text, double reading, equal names, failing removal, death | an answered backup stays and is what was collected of a dump; only checked text is imported |
| Nginx virtual hosts (`nginx-config.service`) | `sites-available`, `sites-enabled`, backups | write a vhost | shared temporary name, copies of stale text | files stay whole, replaced texts are put aside, answered means enabled |
| Nginx runtime, certificates (`nginx-runtime.service`, `lets-encrypt.service`) | what nginx serves | test, reload, restart, issue | the test is of another configuration than the one read later | a tested configuration is what is served; nginx stays up |
| Automatic backups (`auto-backup-scheduler`) | timer, `running`, backup directory | tick, run, prune | overlapping ticks, failures half way, restarts | runs exclude each other, pruning leaves a whole copy once the run has made one |
| Rollback manager (`rollback-manager`) | live and backup configurations, audit log | rollback of a file, a directory, a database | writes between a copy and an overwrite | what is overwritten in `sites-available` was put aside; answered means audited and in force |
| File manager (`modules/file-manager`) | files of the allowed roots | list, read, download, upload, write, chmod, chown, zip, unzip | looking and acting are separate awaits | nothing replaced unasked, a refused request changes nothing, an answer is about one state of the file |
| Path sandbox (`security/path-sandbox`) | none | resolve a path within the roots | links, `..`, roots in one another, paths compared as text | a path that an answer tells leads back to the file it is about |
| Monitoring (`modules/monitoring`) | a timer per socket | snapshot, stream | overlapping snapshots, closed sockets | a timer runs exactly while its socket is open |
| System packages (`modules/system`) | packages of the host | status, install, install a stack | stops half way; locks of apt, a dpkg killed at work, packages that exclude each other | what is installed is a prefix of what was asked, a status answer rests on what dpkg said |
| HTTP shell (`app.ts`, `server.ts`, `plugins`, `shared`) | none | wiring, errors, shutdown | shutdown does not wait for commands | – |
| Page (`frontend/src/App.tsx`) | the session it believes in, the view on screen, and the state of that view: listing, editor, busy flag, stream | login, logout, navigation; browse, edit, upload, archive; snapshot, stream; one-request operations | chains of requests that fail half way, views left with requests under way, late events of old sockets | one operation at a time per view, what is shown is of one place, a save undoes no earlier one, no stream outlives its view |
| Schema (`migrations`), deployment (`docker`, `scripts`) | – | – | – | – |

How they interact. Every HTTP request passes the guards of Authentication. The
firewall, nginx, certificates, database dumps and packages reach the host only
through the command runner, whose answer (success, failure, timeout, cut output)
is what their models take as the outcome of a step. Database provisioning uses a
MySQL connection instead. The scheduler calls Database backup and copies the
directory Nginx virtual hosts writes to; the rollback manager overwrites the same
directory, calls Database backup to restore, and keeps its log in the directory
the scheduler prunes. The backend has no handler for unhandled rejections, so a
rejected promise nobody awaits (the scheduler's tick) ends the process and the
container starts it again. So would a rejecting audit hook of the command runner,
which is called in an event handler; no caller in the application passes one, and the
model covers it as the constructor's parameter. The page calls the routes of all of
these; its components are mounted and unmounted by React as
the user navigates, while the requests they sent go on.

The hazards, each at its line, with the properties that would catch it going
wrong, are listed under `hazards` in `PROJECT.json`.

## 2. Modules

One event loop runs all handlers, so two of them interleave exactly at their
awaits. An action is therefore the code between two awaits, or one effect of a
call on the host where its effects come apart. Variables with the comment
`history` are not state of the program: they record what properties speak of.

| Module | Models | Correspondence |
|---|---|---|
| `AuthService` | `auth.service.ts`, `in-memory-auth.repository.ts`, `rbac.guard.ts`, `auth.routes.ts` | `status`, `failedLoginCount`, `lockedUntil` are the fields of a user; `session` is the repository's map. A login is find → verify (hash) → count a failure, or reset → create the session; a guard is find session → find user → touch; a logout is find → revoke. `clock` is `Date.now()`. |
| `Authorization` | `authorization.service.ts`, `permissions.ts` | `HasGrantedPermission` over keys as pairs; `MCAuthService` computes from it who is permitted |
| `TwoFactor` | `totp.service.ts`, `recovery-code.service.ts` | operators, one per function; the accumulators are integers modulo `Words`, HMAC is a table of counters, SHA-256 the identity |
| `SecondFactor` | both of these | `AuthService` with the operators of `TwoFactor`: where what they promise is a property |
| `CommandContract` | the promise `run` makes | a command is new, started or answered, once, with an answer that its outcome allows |
| `CommandRunner` | `command-runner.ts` | `Validate` and the blocked answer, the audit calls, `spawn`, the collector, the timer with its SIGTERM, the `error` and `close` events, and the kernel's part (the child ends). Implements `CommandContract` by the mapping in the module. |
| `UfwRenderer` | `firewall.validators.ts`, `renderUfwCommands` | operators `Validate`, `Render`, over abstract addresses and ports as intervals; filters of lists are closed forms (the k-th index that passes), so that rendering can be proved about |
| `UfwFirewall` | `applyRule`, `rollback` | one step per command; UFW is a set of rules, external; a failed command may have taken effect |
| `Firewall` | both | `UfwFirewall` with the plans of `UfwRenderer` |
| `DatabaseProvisioning` | `database-provisioning.service.ts`, `database-sql.executor.ts` | one step per statement; a statement that is answered with an error may have taken effect |
| `DatabaseBackup` | `database-backup.service.ts`, `restoreDatabase` of `rollback-manager.ts` | one step per await: password file, dump, write, read back; hash, password file, read, import; removal in `finally`, which may fail; for a rollback, the event (`audit`); death at any step. `Collected` is what the command runner makes of a dump, `Decoded` what reading as UTF-8 does |
| `NginxConfig` | `nginx-config.service.ts` | one step per system call; files are inodes with blocks, so that two writers of one temporary file can tear it |
| `NginxRuntime` | `nginx-runtime.service.ts`, `lets-encrypt.service.ts` | one step per command; nginx and systemd are external; the configuration may change at any step |
| `NginxHost` | the routes of `nginx.routes.ts` together | the updates of `NginxConfig` and the commands of `NginxRuntime` over one `sites-enabled`; certbot, external, reads it, and later writes one file of it. Implements `NginxRuntime` with `config <- enabled` |
| `AutoBackup` | `auto-backup-scheduler.ts`, its wiring in `app.ts` | timer, run (dumps, copy file by file or none if the directory is not found, prune entry by entry), failure that ends the process, restart |
| `RollbackManager` | `rollback-manager.ts` | one step per call of the file system, with vhost updates beside it; `overwrote` notes what is lost in either directory |
| `FileManager` | all operations of `file-manager.service.ts` | look, open (creates or truncates), write, also half way; measure, read, decode; names, entries; a file is its text, owner, mode and size |
| `PathSandbox` | `path-sandbox.ts`, the path helpers of `file-manager.service.ts` | paths are sequences of names; `Normalize`, `Resolve` and `Relative` are node's `path`, `RealPath` the operating system's, of what exists and of what opening would create; the names of entries, `PlainName`, are any set without `.` and `..` |
| `FileManagerPaths` | the file manager's requests and their paths | `FileManager` with the operators of `PathSandbox` |
| `PackageManager` | `package-manager.service.ts`, `system.routes.ts` | a request is update → install → service for each component of its list, each step the command's beginning and its end; a status is one `dpkg -s` per package; apt, dpkg and systemd are external |
| `MountedView` | `App`, `DashboardShell` | which view is on screen; `instance` numbers the components React has mounted, so that an answer for one that is gone can be told |
| `FileManagerView` | `FileManagerView` of `App.tsx` | `view` is the component's state; an operation is the chain of requests its handler awaits, each sent, served, answered, refused (a write perhaps half way, `Spoils`) or lost |
| `MetricsStream` | `monitoring.routes.ts`, `system-metrics.service.ts` | each socket as its client and as the server see it, its timer and the snapshots under way |
| `MonitoringView` | `MonitoringView` of `App.tsx` | `socketRef`, `isStreaming`; start, stop, the close event, the cleanup of the effect |
| `Dashboard` | the page | composes the four; login, logout, navigation, and the views that send one request under one flag |

`MCX` gives `X` its instance for TLC (`MCAuthService` that of `SecondFactor` and
`Authorization`, `MCFileManager` that of `FileManagerPaths`). The theorems are in the
modules whose names end in `Proofs` (section 5). `map` in `PROJECT.json` relates every
definition to the lines it models.

### Where data is abstracted

Passwords are right or wrong, tokens are fresh and name their session. Arguments of a
command are classes (a subcommand, plain, refused by a pattern). Addresses are model
values, ports are intervals of integers with their real bounds. SQL names are model
values, the tests on them a set of faults. A dump is named by the state of the database
it was taken from, whether it was cut, and whether its bytes are UTF-8, are not, or were
replaced by decoding; a checksum stands for the bytes. Vhosts are one or two blocks
long, enough for a torn write to be told from a whole one. A file's text is the request
that wrote it, or `mixed`, and UTF-8 or not. A path is the sequence of its names; links
lead to real paths, of files or of nothing. A permission key is the pair of its parts.
The bytes of a secret are, in the run, five that set different bits; the accumulator has
20 bits there (`Words = 2^20`), which five bytes overflow as more than four overflow the
32 of the code. The theorem about it is for every multiple of 4096, both of these among
them.

## 3. Runs

| Run | Instance | Shows |
|---|---|---|
| `AuthService` | an active and a disabled user, 4 logins, 2 guarded or logout requests, threshold 2, a lock of 2 and a session of 1 time units, clock to 2; secrets of up to 5 bytes, tokens of 12 moments in periods of 2, recovery codes of 3 groups of 2 over four characters | the lock is placed as the threshold rule says (`LockMatchesThreshold`) though it is decided on copies, no failure is lost (`FailuresAllCounted`), and disabled users never hold a session (all: `LockIsRight`); a lock that was due holds for its time: no login that begins gets as far as its password, though a failure decided on an older copy may clear `lockedUntil` (`LockoutHolds`); no request is admitted that was sent after a logout answered or after the expiry (`NoStaleAdmission`); base32 is that of RFC 4648 and decodes to what was encoded, tokens are accepted one period early to one late, recovery codes however they are typed (`SecondFactorWorks`) |
| `AuthLockoutExpires` | 4 logins and no requests, a lock of 1 time unit | **violated**: a user stays refused after the lock's fifteen minutes |
| `CommandRunner` | 2 commands, 3 kinds of request, 2 chunks of output, a hook that may reject | the contract is implemented; the audit trail tells the same story as the answer, and cut output is reported (`AuditAgrees`); with children that honour SIGTERM every started command is answered unless the process dies |
| `Firewall` | a request with every rule of up to two targets and ports, beside one that shares commands; the host empty or with one of the rules | rendering neither widens nor loses a rule nor repeats a command, and ports are in range (`RenderCoversRule`); a rejected request leaves at most the rule of the command that failed; an applied rule is enforced unless a contrary or withdrawn request shares it |
| `DatabaseProvisioning` | 3 requests out of 9 bodies over 2 databases and 2 accounts, one of which exists | a rollback drops only what its request made; what was acknowledged stays; a rejected request leaves only what it was never told of; a grant goes only with its account |
| `DatabaseBackup` | 2 requests out of 2 backups of one database and a restore of any file, by its route or as a rollback; 2 milliseconds; a plain dump, and one beyond the limit that is not UTF-8 | an answered backup stays as it was answered, what was collected of a dump of a state the database had meanwhile, and brings that state back exactly if nothing of it was cut or replaced, unless names clash (`AnsweredBackupStays`); mysql gets only the text a checksum was given for, or its decoding; a rollback is answered if and only if its event is in the log (`OnlyCheckedTextImported`); a password stays on disk only after a death or when its directory could not be written or removed (`PasswordsRemoved`) |
| `NginxHost` | 2 updates of one existing site, vhosts of two blocks and of one that nginx rejects, 2 milliseconds; a request for a certificate or a restart and one for a reload or a restart | a site whose updates do not overlap has whole files, backed-up texts and, once answered, the enabled copy; what was answered is served, and for a certificate that is the vhost with its lines, until the next update (`CertificateKept`); nginx goes down only by a restart of files changed since its test |
| `PackageManager` | 2 requests out of 4 bodies over two databases that exclude each other and a component of two packages, one of them a stack that installs over itself; 1 status call; 1 death | what a request has installed, wherever it stopped, is a prefix of its list, but for what a rival was installed over (`StackIsPrefix`); a status answer rests on what dpkg said (`StatusKnows`); every request is answered unless the backend dies (`RequestsEnd`) |
| `AutoBackup` | 3 runs, 2 databases, 1 vhost with its temporary file, retention 2, clock to 4 | runs exclude each other, across restarts, and a completed run has every dump, and every vhost in the copy it answers with (`RunsAreWhole`); pruning removes only expired copies, and the last whole one only in a run that did not find the vhosts; every run ends |
| `RollbackManager` | 2 rollbacks (of a file, a dated backup or a directory) and an update | what is overwritten in `sites-available` was put aside, unless overlapped, and `sites-enabled` is overwritten only after that (`OverwrittenIsSaved`); answered means audited and in force (`AnsweredIsEnabled`) |
| `FileManager` | 3 requests over 2 files, two of five kinds that change files and one of six other kinds, sizes 1 and 2 against a limit of 1; 4 roots, one in another and one that is a link out of the others, links between them, out of them, to `/` and to nothing, all requests of up to three names out of eleven | an upload never replaces a file unasked, other writes only when overlapped; a refused request has changed nothing and no oversized archive stays; an answered request has its text, mode or ids in place and no others, a reader is told the size of the text it gets, which is the file's if that is UTF-8, and a listing is what the directory holds (`AnsweredIsDone`); the paths that answers tell lead back to their files (`AnswersLeadBack`) |
| `Dashboard` | 2 mounted views, 2 roots, a directory with a file in its parent, 4 file operations (the load at mount is one), 1 edit; 3 sockets of the page, 1 of another client; a logout | an instance has one operation at a time and its flag says so (`OneOperationPerInstance`); listing, path and editor are of one root and directory (`ShownAgrees`); a stream and its timer end with the view, the session or the next stream (`StreamsFollowTheView`); a save keeps what an earlier one of the same instance wrote, or has failed with that text still in the editor (`OwnSavesKept`) |

**Why the bounds are enough.** Every hazard listed needs at most two actors on
one object, plus a third that comes before or after them; the runs have three
(two where the third adds only symmetric states). Thresholds are at the smallest
value that tells "reached", "one short" and "beyond" apart. Clocks count the
smallest unit the code compares: a collision needs two requests in one unit and
its absence two units. Every named bound (`MaxTime`, `MaxRuns`, `MaxDeaths`, `MaxBytes`,
`MaxDuration`, `MaxChunk`, `MaxSize`, `MaxOperations`, `MaxInstances`, `MaxSnapshots`,
`MaxLogouts`, `MaxStarted`) is a constant used in guards. In `Dashboard` four operations
are the load at mount, an opening and two saves, the shortest way to undo a save; three
sockets are one stopped, one started and the one its late close event lets start.
Requests are finite in number, so every instance ends: the runs do not check deadlock.

In `NginxHost` one site with two updates is the smallest rush; a certificate and a
restart are the commands that change files or take nginx down, and every pair of
commands occurs. In `PackageManager` the second request is the one that holds the lock
or ousts a package; a third would only do so again. The operators of `PathSandbox` and
`TwoFactor` are evaluated on every input of the bounds, once a request is answered and
in the first states. In `DatabaseBackup` two requests are enough: two backups for equal
names, a backup and a restore for a file that is read while it is written; the proofs
have any number.

**Type invariants.** Every specification has one `TypeOK`. It is the first conjunct of a
safety invariant of its run (`WholeUnlessRushed`, `PasswordsRemoved`, `RunsAreWhole`,
`AnsweredIsServing`, `OverwrittenIsSaved`, `RefusedChangesNothing`,
`OneOperationPerInstance`, `StackIsPrefix`), or of the inductive invariant of its proofs
(`AuthService`, `UfwFirewall`, `DatabaseProvisioning`), or has a theorem of its own
(`CommandRunner`: `RunnerTypeCorrect`). So it is proved of every specification. Where
one module of proofs is about two specifications, the names of the second say so
(`BackupsTypeOK`, `PackagesSpec`, `RollbacksInit`).

**Symmetry** is over requests, logins or sockets, and only where no property is a
liveness property.

**Qualifiers.** Several properties hold "unless another request overlaps":
`NginxHost` (`rushed`, and `crossed` for a certificate request beside an update),
`RollbackManager` and `FileManager` (`mixed`), `DatabaseBackup` (`Clash`), `Firewall`
(`AppliedIsEnforced`). The code serialises nothing, and without the qualifier they are
false (section 6). What is shown is that overlap is the only way they fail: not any
failure, death or other order of steps. Three properties except more than that, each for
a branch of the code, and the exception is disclosed in section 6: `NeverWithoutACopy` a
run that found no vhosts, `PasswordsRemoved` a directory that could not be written or
removed, `AnswersLeadBack` paths that are links (an upload may write through one).

## 4. Fairness

- `CommandRunner`, `FairSpec`: the event loop runs a callback that is due and a
  timer that is armed fires. Node guarantees both while the process lives.
  `ObedientSpec` adds that a child that is sent SIGTERM ends. The code does not
  ensure this (it never sends SIGKILL); it is an assumption on `ufw`, `nginx`,
  `certbot`, `mysqldump` and `systemctl`, which install no handler that ignores it.
- `AutoBackup`: `MaxDuration` bounds the time a run may take, below the
  retention (an hour of dumping against days). `FairSpec`: each call of a run under way
  returns or fails. The dumps are bounded by the runner's timeout, the rest are calls of
  the local file system. No fairness is assumed of the timer, restarts or writers.
- `PackageManager`, `FairPackagesSpec`: a command a request waits for begins or is
  refused, and ends. `apt-get` never waits for a lock, every command has a time limit
  (`package-manager.service.ts:121`), and `apt-get`, `dpkg` and `systemctl` end when
  they are sent SIGTERM. Nothing is assumed of the operator who repairs dpkg.

Everything else is safety and assumes no fairness.

## 5. Proofs

Each theorem holds for every value of the constants that satisfies the `ASSUME` of its
module. The assumptions are evaluated by the runs on their instances; they say that
model values are told apart (`None`, `NoState` and `Absent` are no request, text or
file), that the bounds are numbers, and otherwise only what the code ensures:
`MaxDuration` below the retention, lists of databases and components are sequences, a
component has packages of its own, the server's first objects are among those modelled,
the integers a shift computes with are a multiple of 4096. Finitely many logins are
assumed where failures are counted.

Eight modules hold theorems. Three of them extend two specifications, for operations
that are close in the code; neither half uses a fact of the other.

Every safety and action property of a passing run is proved; what is left to TLC is
liveness. The proofs about behaviours share one shape: a step changes the record of the
request that takes it and a small part of the host (`StepOf`, `StepEffects`); what
the others know stays true because of who may touch what (`OthersKeep`); and the
request itself learns what its next step needs (`OwnKeeps`, one case per action).

- **`AuthServiceProofs`** (`SecondFactor`, over `AuthService` and `TwoFactor`).
  `TypeCorrect`; `LockCorrect` (`LockIsRight`); `LockoutCorrect` (`LockoutHolds`);
  `AdmissionCorrect` (`NoStaleAdmission`). `LockInv` adds what makes the lock rule
  inductive: the failures recorded since the last success are of logins that have
  decided (`FailedArePast`), a login being verified is of an enabled user
  (`CheckedAreEnabled`), a disabled account is as it was seeded (`DisabledUntouched`).
  For `LockoutHolds`: a user whose login is admitted has no failure since its last
  success that saw the threshold reached. `GuardInv` is about the copies guards decide
  on: a copy shows the end of the session and every revocation that had been answered
  when it was taken (`CopiesAgree`), a logout that answered has revoked
  (`LogoutsRevoke`), and a request goes on only with a copy that was usable when the
  request began (`PassedUsable`). `SecondFactorCorrect` (`SecondFactorWorks`) is about
  computations and not about steps. After each byte the letters out are those of the
  standard (`Encoded`), after each letter the bytes out are those of the secret
  (`Decoded`), and the low 12 bits of the accumulator are the last 12 bits read
  (`Reads`): no conversion looks at more, which is why losing the high ones, and never
  clearing any, does no harm. For recovery codes, removal of a character goes character
  by character (`Keeps`), so what is kept of a text in parts (`Together`) is what is
  kept of each; a code is three groups and two dashes (`IsCode`), and two codes with the
  same characters have the same groups (`SharesEqual`, `PartsEqual`), short ones too.
- **`CommandProofs`** (`CommandRunner`; `PackageManager`).
  `RunnerImplementsContract`: the runner's safety specification implements
  `CommandContract`; `RunnerTypeCorrect` types it. `PhaseInv` ties the phase of a run to
  its child and its answer: an answered run is the settled one, so no second event
  settles it again. `AuditCorrect` (`AuditAgrees`): the events the hook took are at each
  moment a prefix of the story the answer tells (`Story`), and a collector that dropped
  bytes is full (`CollectorInv`). `StackCorrect` (`StackIsPrefix`) and `StatusCorrect`
  (`StatusKnows`): what is behind a request is installed or was ousted by a rival
  (`Behind`, `Touched`), what a command is about to do is for the component the request
  is at (`Doing`), and a status call has asked of each package before it concludes
  (`Looking`).
- **`FirewallProofs`** (`Firewall`, over `UfwFirewall` and `UfwRenderer`).
  `TypeCorrect`; `RollbackCorrect` (`RejectedLeavesOneRule`): `Residue` says what a
  request may have added in each phase, a prefix of its commands while it applies, the
  prefix still to be deleted and the failing command while it rolls back.
  `RenderingCorrect` (`RenderCoversRule`): for a rule with any number of targets and
  ports the commands are exactly those it covers, once each; it rests on ranks in
  finite sets of numbers (`KthFacts`), which is why `UfwRenderer` states filters in
  closed form and not as folds. `ApplicationCorrect` (`AppliedIsEnforced`): a command
  that succeeded holds unless another request has a contrary one for the same traffic
  or has begun to take its own back (`Contested`, `Enforced`).
- **`DatabaseProofs`** (`DatabaseProvisioning`; `DatabaseBackup`).
  `RollbackCorrect`, `ProvisioningCorrect` (with `TypeOK`), `RejectionCorrect`: a
  provision owns what it has created until it is rolled back; since `CREATE` fails on
  what exists, an object has one owner, and this ownership (`Held`, `Left`, `Granted`)
  is inductive. `GrantCorrect`: a grant answered stands, or a provision of the account
  has undone it (`Standing`, `GrantInv`). `BackupCorrect` (`AnsweredBackupStays`),
  `RestoreCorrect` (`OnlyCheckedTextImported`) and `PasswordCorrect`
  (`PasswordsRemoved`): `BackupInv` says whose password file may be on disk (`Hidden`),
  that a file whose name does not clash is written by one backup only, and reads as it
  was written (`Named`, `Writes`, `Readable`), that the state a dump was taken of is
  among those its request has seen (`Sees`), and what a restore holds the checksum of
  (`Checked`). Decoding twice is decoding once: this is why the checksum of a backup is
  that of the text a restore of it imports, though of another file it need not be, and
  why a backup that lost nothing on its way brings its state back (`CollectedRestores`).
- **`OperationsProofs`** (`AutoBackup`; `RollbackManager`). `RunsCorrect`
  (`RunsAreWhole`), `CopyCorrect` (`NeverWithoutACopy`), `PruneCorrect`
  (`OnlyExpiredPruned`): there is one active run and the flag tells it, across restarts
  (`Alone`); a run has dumped what is behind it and copied, if it makes a copy
  (`Progress`); and since a run is shorter than the retention, what it has copied is
  younger than anything it prunes (`Timing`). `SavedCorrect` (`OverwrittenIsSaved`) and
  `AnswerCorrect` (`AnsweredIsEnabled`): requests of one file that are under way
  together are in `mixed` (`Apart`), a rollback that is not in it finds the live files
  as it put them aside (`Knows`), and it overwrites nothing before, and nothing in
  `sites-enabled` before the end (`Fresh`).
- **`FileManagerProofs`** (`FileManagerPaths`). `ReplaceCorrect` (`NoReplaceUnasked`),
  `RefusalCorrect` (`RefusedChangesNothing`), `AnswerCorrect` (`AnsweredIsDone`). A file
  is the text of a request only if the request changed it (`Marked`), so a refused one
  has nothing to leave; two requests of a file of which one changes it are never both
  unaware of it (`Apart`); and a request that is not disturbed still finds what it
  looked at, in each phase of each operation (`Clear`). `PathsCorrect`
  (`AnswersLeadBack`), for any roots, links, names and requests, is again about
  computations. `realpath` and node's `normalize` take a path name by name
  (`RealPathSteps`, `NormalizeSteps`), so the real path of an entry is that of its
  directory with its name, or where the link leads that is there (`RealPathOfEntry`);
  and what `path.relative` tells, a `..` for each name beyond the common prefix and then
  the rest (`CommonPrefix`, `Dots`), is resolved against the same root to the path it
  was told of (`RelativeLeadsBack`). Nothing is assumed of the roots: `/` and roots that
  are links are among them, and the paths that are told but refused when they are sent
  again are exactly told (`LeadsBack`).
- **`NginxHostProofs`** (`NginxHost`, over `NginxConfig`; `NginxRuntime` refined).
  `HostImplementsRuntime`: whatever updates and certificate requests do to the files,
  the commands run in the nginx of `NginxRuntime`. `FilesInv` types the files and says
  that a request about to write holds one (`Holding`); a write over an enabled file
  leaves one, with a certificate or without (`OverlayTexts`, by the lengths of both), so
  a change of the files is one `ConfigChanges` allows. From the refinement
  `DownCorrect` (`DownOnlyByRestartOfChanged`) and `ServedCorrect`, the half of
  `AnsweredIsServing` that is about the commands: a request nothing has changed since
  its test knows the files to be good (`KnownGood`), nginx is down between a stop and
  its start (`Stopped`), what was answered is served or about to be (`Coming`).
  `WholeCorrect` and `BackupsCorrect`: `UpdatesInv` says that sites share no inode and
  a published one is not written any more (`Owned`), that while a site is not rushed
  one update of it is at work (`Alone`, `Progress`), and that each replaced text is in
  a backup of its own name (`Kept`). `EnabledCorrect`, `AnswersServed` and
  `CertificatesKept`: `HostInv` adds that certbot's copy is of what is enabled as long
  as no update crossed it (`CertbotInv`, `Enabled`), and that the lines of a certificate
  stay in the file and in the copy (`Certified`).
- **`DashboardProofs`** (`Dashboard`). `StreamsCorrect` (`StreamsFollowTheView`):
  `StreamInv` adds that a login is under way only on the login screen (`LoginIsAlone`),
  without which its answer could take the monitoring view away and leave its socket
  open. Closing the current socket leaves none of the page's asking
  (`NoneAskingOnceClosed`). `OperationsCorrect` (`OneOperationPerInstance`),
  `ShownCorrect` (`ShownAgrees`), `SavesCorrect` (`OwnSavesKept`): `FilesInv` says that
  an operation has what its next requests need (`Equipped`), that the view stays as it
  was when the operation began, but for what is typed (`Follows`), and that what an
  operation will write, or has read for the editor, holds what its instance saved
  (`KeepsSaved`, `ViewInv`). A save that fails half way has truncated the file; the
  operation then ends with its text still in the editor (`Follows`, `SaveKeeps`). The
  one-request views are in `PanelInv`.

Each inductive invariant was checked by TLC on the instance of its run before it was
proved; where it was not inductive, it was strengthened until it was.

Only model-checked:

- liveness, `StartedIsAnswered`, `RunsEnd`, `RequestsEnd`: fairness and `ENABLED` are out
  of the prover's reach;
- that a lock never ends (`LockoutExpires`), for which TLC shows a behaviour;
- `Authorization`, through what `MCAuthService` computes from it: its definition is
  three alternatives, and a theorem could only repeat them.

A step of the prover cannot take a predicate as a parameter, so induction is not cited
from the library. Where a fact about a recursion is needed, it is had from the
pigeonhole principle (`FS_PigeonHole`), stated for sets: a set of numbers that has 0
and the successor of each member has every number (`Induction`). What a recursion over
a text computes then follows from its equations having a solution (`Recursion`), where
needed only one (`SameSteps`). These are lemmas of the module that uses them.

## 6. Where code and documentation part

Checked as a run that must be violated:

- `AuthLockoutExpires` (`auth.service.ts:26`, `:128`): nothing sets the status of a
  locked user back, so the fifteen minutes never end.

Found while modelling; the passing properties are stated so as to say exactly
how far the code goes:

- `auth.service.ts:39`: the status is tested before the hash, so a user locked
  while its password is verified still opens a session;
  `tasks/AUTH-002_login_session_api.md:32` "Disabled/locked user không login
  được" (a disabled or locked user cannot log in).
- `database-backup.service.ts:77`: the dump is cut at `DATABASE_BACKUP_MAX_BYTES`,
  `stdoutTruncated` is not looked at, and the command runner decodes it as UTF-8
  (`command-runner.ts:308`), which replaces the bytes of a `BLOB`, say; either is
  answered as a backup. `tasks/DB-003_backup_restore_database.md:37` "Backup writes
  dump output".
- `rollback-manager.ts:112`: the file in `sites-enabled` is overwritten and not put
  aside, only the one in `sites-available` is, whose text may be another;
  `tasks/OPS-002_rollback_manager.md:30` asks for a backup before the current
  configuration is overwritten.
- `file-manager.service.ts:198`: the target of an upload is compared with the roots as
  text (`:187`), and a write that may overwrite follows a link at it, out of the roots;
  `tasks/FILE-002_file_upload_download.md:27`, `docs/security.md:46`. The entries of an
  archive that is extracted are written the same way (`:422`), and so is a new text
  file or archive whose target is a link to nothing (`:450`);
  `tasks/FILE-004_zip_unzip.md:27`.
- `docs/security.md:75` asks for a lockout by IP as well as by account, `:80` for
  a timer that rolls a firewall rule back; neither exists.
- `command-runner.ts:118`: SIGTERM is sent once; a child that ignores it keeps its
  command unanswered. `tasks/SEC-001_command_runner_policy.md:30` "Timeout kill
  process".
- `ufw-firewall.adapter.ts:92`: rollback deletes by content, so a rule that stood
  before the request (UFW skips it with success) is deleted with it, and a rule
  whose action was replaced is not put back; `tasks/FW-002_ufw_iptables_adapter.md:38`
  "previously applied commands are removed".
- `ufw-firewall.adapter.ts:62`: a command that fails after it took effect is not
  rolled back (`tasks/FW-002_ufw_iptables_adapter.md:30`).
- `database-provisioning.service.ts:126`, `:129`: a statement whose answer is lost
  leaves a database or account behind; `tasks/DB-002_create_database_user.md:36`
  "rollback compensation for partially created database/user".
- `database-backup.service.ts:114`: a restore checks the bytes of the file (`:178`) and
  imports its decoding as UTF-8: the same text for files the backend wrote, not for a
  dump that was brought from elsewhere.
- `database-backup.service.ts:188`: when the directory of the password cannot be removed,
  a restore that is done is answered as a failure, and the password stays;
  `tasks/DB-003_backup_restore_database.md:39` "removed after execution".
- `database-backup.service.ts:60`: two backups in one millisecond share a file;
  `:94`, `:114`: the text hashed and the text imported are read apart
  (`tasks/DB-003_backup_restore_database.md:31`).
- `nginx-config.service.ts:95`: the temporary name is shared by the requests of a
  process, so overlapping updates of a site can publish a torn file;
  `tasks/NGINX-002_create_website_vhost.md:33` "ghi vhost atomically". `:42`: nor is
  every replaced text backed up then (`:27` of the same file).
- `nginx-config.service.ts:44`: a vhost is copied to `sites-enabled` whatever
  `enabled` says; `sslMode` is not used when it is rendered. certbot's lines are in the
  enabled copy only, so the next update of the site drops its certificate, and a
  certbot that restores or writes what it read minutes ago puts back the vhost from
  before an update made meanwhile.
- `database-backup.service.ts:94`, `rollback-manager.ts:68`: without a checksum in the
  request, the event of a rollback has the checksum of what was read first, which may
  not be the text that was imported.
- `package-manager.service.ts:53`: `dpkg -s` succeeds for a package that was removed or
  is half configured, so a status reports as installed what is not; `:63`: it fails for
  other reasons too, and then reports as missing what is there. `:106`: the answer of a
  stack that fails says nothing of the components installed before.
- `auto-backup-scheduler.ts:55`: a rejected run is not caught and ends the
  backend. `:116`: pruning covers the scheduler's own directory, which
  holds the rollback audit log (`tasks/OPS-002_rollback_manager.md:23`) but not
  the database dumps (`tasks/OPS-001_auto_backup_scheduler.md:13`). `:99`: a run that does
  not find the directory of the vhosts copies nothing and prunes all the same, so in
  time it removes the last whole copy.
- `rollback-manager.ts:106`: a backup is restored under its own dated name, beside
  the vhost it was made from (`tasks/OPS-002_rollback_manager.md:21`); `:139`: a
  directory is not copied to `sites-enabled`. `:109`: under overlap the text
  put aside is not the one overwritten (`:30` of the same file).

- `file-manager.service.ts:124`: the size told and checked is of a look before the read,
  so under overlap a text beyond the limit may be read. `:127`: a file that is not UTF-8
  is told with replaced characters beside the size of its bytes, and the editor of the
  page would save these. `:61`: an entry that vanishes while it is looked at fails the
  whole listing.
- `file-manager.service.ts:485`, `path-sandbox.ts:84`: when an allowed root is itself
  reached through a link, paths told are relative to its name and start with `..`, and
  sending them back is refused (`resolve` compares the text with the roots as
  configured). `AnswersLeadBack` says that such a path is refused or leads to its file.
- `path-sandbox.ts:140`: an allowed root `/` is compared as `//` and so admits only
  itself: what a listing of it tells is refused when it is sent back.
  `docker/compose.yml:40` allows `/var/www`.
- `recovery-code.service.ts:9`: dashes and underscores are removed from fourteen random
  characters, which may leave fewer than twelve; `tests/totp.test.ts:41` expects three
  groups of four.
- `scripts/install-vps.sh:224`: with `INSTALL_NGINX_PROXY=false` the function returns the
  status of its test, 1, and `set -e` ends the script before `print_summary`;
  `docker/README.md:35` "prints the generated password once installation completes".
- `App.tsx:2165`: `toWebSocketUrl` assigns `.../stream?intervalMs=3000` to the path
  of a URL, which escapes the `?`; the server finds no such route and the stream
  never opens. `tasks/FE-004_monitoring_ui.md:22` has it connect to
  `/monitoring/system/stream?intervalMs=3000`. The model takes the address as built
  (`Url`, `Found`), so in it only other clients' sockets open.
- `App.tsx:1263`: the close event of a stopped stream, coming after the next start,
  shows "Start stream" while one is starting.
- `file-manager.service.ts:236`: a write truncates its file before it may fail. The page
  shows the failure of a save and keeps the text in the editor, but an operator who
  leaves the view then has lost both what was saved and what was to be.
- `App.tsx:1091`: what is typed while a save is under way is lost. `:868`: when the
  listing after an upload fails, the editor keeps the text from before, and a save
  writes it over the upload.
- `App.tsx:254`, `:1874`: a logout is taken as done whatever its answer's status, and
  a late answer of a first logout ends a session opened since. `:1489`: checking one
  component forgets the status of the others.

## 7. Not modelled, and why

- Text layout: the vhost renderer and the patterns of its validators, the OpenAPI
  document, error wording, the provisioning URI of a secret.
- The HTTP shell: wiring without state; what its shutdown does to commands is a death
  of the process in the models of these.
- Hashing, tokens and encryption: their outcome is a choice of the environment.
- The page's readiness indicator, form fields, and what results display. In a
  development build React's `StrictMode` (`frontend/src/main.tsx`) runs the effect of a
  mount twice; the model is of a production build, where it runs once.
- Schema and migrations: no code uses them yet, users live in memory.
- Deployment: the container's restart policy is the environment of `AutoBackup`.
- Health, documentation routes: constant answers.

## 8. Plan

1. The rollback manager with the full steps of `NginxConfig`, as `NginxHost` has the
   commands: today its updates are three steps.
2. The streams of `MetricsStream` with the sessions of `AuthService`: what a stream may
   go on showing once its session has ended (`monitoring.routes.ts:26`).
3. The editor of `FileManagerView` with what is typed while a save is under way
   (`App.tsx:1091`), once a document says what should happen to it.
4. Proofs: that a restore of the rollback manager leaves what the updates of
   `NginxConfig` promise, once item 1 composes the two.
