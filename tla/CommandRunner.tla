---------------------------- MODULE CommandRunner ----------------------------
(***************************************************************************)
(* CommandRunner.run, backend/src/infrastructure/command/command-runner.ts.*)
(*                                                                         *)
(* Every OS command of the backend goes through run: it checks the request *)
(* against the policy, audits, spawns the binary, and settles one promise  *)
(* from whichever of the child's events comes first.  Several commands run *)
(* at once, one per request in flight.                                     *)
(*                                                                         *)
(* An action is one callback of the event loop, or one step of the         *)
(* operating system: the child ends by itself or because it honours        *)
(* SIGTERM, and its end and the expiry of the timer race.  Children run    *)
(* under the backend's own user, so kill never fails.  The backend has no  *)
(* uncaughtException or unhandledRejection handler, so an "error" event    *)
(* without a listener and a rejection without a catch end the process.     *)
(***************************************************************************)
EXTENDS Integers, Sequences

CONSTANTS
  Cmd,             \* commands run by one life of the backend process
  Policy,          \* the registered policies
  HasSubcommands,  \* those of them with allowedSubcommands
  Arg,             \* classes of arguments, see WellFormed and Subcommand
  Request,         \* the requests callers make
  MaxArgs,         \* policy.maxArgs
  MaxOutput,       \* policy.maxOutputBytes, in chunks
  MaxChunk,        \* bound on the size of one chunk
  HookFails        \* whether the audit hook may reject

ASSUME CommandAssumption ==
  /\ HasSubcommands \subseteq Policy
  /\ Request \subseteq [policy : STRING, args : Seq(Arg), stdin : BOOLEAN]
  /\ MaxArgs \in Nat /\ MaxOutput \in Nat \ {0} /\ MaxChunk \in Nat
  /\ HookFails \in BOOLEAN

VARIABLES
  request,    \* what each run was called with
  pc,         \* where each run is: new, started, running or settled
  child,      \* none, alive, zero, nonzero (also: killed) or unspawned
  timer,      \* off, armed or fired; fired is the timedOut flag
  closed,     \* the close event of the child was handled
  collected,  \* bytes kept by the output collector
  lost,       \* history: the collector dropped bytes
  answer,     \* what the promise of each run was settled with
  audit,      \* the events the audit hook took, per run
  up          \* the backend process is alive

vars == <<request, pc, child, timer, closed, collected, lost, answer, audit, up>>

\* An argument is an allowed subcommand, some other argument that matches
\* the pattern, or one that is refused: empty, with control characters, with
\* shell metacharacters, or not matching the pattern.
Subcommand(a) == a = "sub"
WellFormed(a) == a \in {"sub", "plain"}

\* validateCommandArgs returns null; a policy with subcommands also takes
\* no argument at all.
ValidArgs(p, args) ==
  /\ Len(args) <= MaxArgs
  /\ p \in HasSubcommands /\ args # <<>> => Subcommand(args[1])
  /\ \A i \in DOMAIN args : WellFormed(args[i])

Accepted(r) == r.policy \in Policy /\ ValidArgs(r.policy, r.args)

Init ==
  /\ request \in [Cmd -> Request]
  /\ pc = [c \in Cmd |-> "new"]
  /\ child = [c \in Cmd |-> "none"]
  /\ timer = [c \in Cmd |-> "off"]
  /\ closed = [c \in Cmd |-> FALSE]
  /\ collected = [c \in Cmd |-> 0]
  /\ lost = [c \in Cmd |-> FALSE]
  /\ answer = [c \in Cmd |-> "none"]
  /\ audit = [c \in Cmd |-> <<>>]
  /\ up = TRUE

Record(c, event) == audit' = [audit EXCEPT ![c] = Append(@, event)]

Settle(c, result) ==
  /\ answer' = [answer EXCEPT ![c] = result]
  /\ pc' = [pc EXCEPT ![c] = "settled"]

\* `void this.audit(...)`: nobody catches what the hook throws.
RecordAside(c, event) ==
  \/ Record(c, event) /\ UNCHANGED up
  \/ HookFails /\ up' = FALSE /\ UNCHANGED audit

-----------------------------------------------------------------------------
(* The call *)

\* An unknown policy or a bad argument: audited, then refused.
Block(c) ==
  /\ up /\ pc[c] = "new" /\ ~Accepted(request[c])
  /\ \/ Record(c, "blocked") /\ Settle(c, "blocked")
     \/ HookFails /\ Settle(c, "auditError") /\ UNCHANGED audit
  /\ UNCHANGED <<request, child, timer, closed, collected, lost, up>>

\* The audited start is awaited before anything is spawned.
Start(c) ==
  /\ up /\ pc[c] = "new" /\ Accepted(request[c])
  /\ \/ Record(c, "started") /\ pc' = [pc EXCEPT ![c] = "started"]
        /\ UNCHANGED answer
     \/ HookFails /\ Settle(c, "auditError") /\ UNCHANGED audit
  /\ UNCHANGED <<request, child, timer, closed, collected, lost, up>>

\* The child runs, or the binary cannot be executed, which it reports later.
Spawn(c) ==
  /\ up /\ pc[c] = "started"
  /\ \E x \in {"alive", "unspawned"} : child' = [child EXCEPT ![c] = x]
  /\ timer' = [timer EXCEPT ![c] = "armed"]
  /\ pc' = [pc EXCEPT ![c] = "running"]
  /\ UNCHANGED <<request, closed, collected, lost, answer, audit, up>>

\* Out of file descriptors: spawn gives a child without pipes, the listeners
\* throw before the "error" one is attached, and the event ends the process.
SpawnNoDescriptors(c) ==
  /\ up /\ pc[c] = "started"
  /\ up' = FALSE
  /\ UNCHANGED <<request, pc, child, timer, closed, collected, lost, answer, audit>>

-----------------------------------------------------------------------------
(* The child and its events *)

Live(c) == child[c] = "alive"

\* The child ends by itself, whether or not it was sent SIGTERM.
ChildEnds(c) ==
  /\ Live(c)
  /\ \E x \in {"zero", "nonzero"} : child' = [child EXCEPT ![c] = x]
  /\ UNCHANGED <<request, pc, timer, closed, collected, lost, answer, audit, up>>

\* The collector's append: what does not fit is dropped.
Keep(n, m) == IF n + m > MaxOutput THEN MaxOutput ELSE n + m

\* Mutant: a full buffer is not yet a truncated one.
TruncatedBeyond(c) == collected[c] > MaxOutput

\* stdout.truncated
Truncated(c) == collected[c] >= MaxOutput

Output(c, n) ==
  /\ up /\ Live(c) /\ pc[c] = "running" /\ ~lost[c]
  /\ collected' = [collected EXCEPT ![c] = Keep(@, n)]
  /\ lost' = [lost EXCEPT ![c] = collected[c] + n > MaxOutput]
  /\ UNCHANGED <<request, pc, child, timer, closed, answer, audit, up>>

\* Mutant: the timeout is answered at once, without waiting for the close.
TimerAnswers(c) ==
  /\ up /\ timer[c] = "armed"
  /\ timer' = [timer EXCEPT ![c] = "fired"]
  /\ Settle(c, "timeout")
  /\ RecordAside(c, "timeout")
  /\ UNCHANGED <<request, child, closed, collected, lost>>

\* The timer expires before the close event is handled; the child, if it
\* still runs, is sent SIGTERM and nothing stronger, ever.
TimerFires(c) ==
  /\ up /\ timer[c] = "armed"
  /\ timer' = [timer EXCEPT ![c] = "fired"]
  /\ UNCHANGED <<request, pc, child, closed, collected, lost, answer, audit, up>>

ClearTimer(c) ==
  timer' = [timer EXCEPT ![c] = IF @ = "armed" THEN "off" ELSE @]

\* "error": the binary was not started.
ErrorEvent(c) ==
  /\ up /\ pc[c] = "running" /\ child[c] = "unspawned"
  /\ ClearTimer(c)
  /\ Settle(c, "notStarted")
  /\ RecordAside(c, "failed")
  /\ UNCHANGED <<request, child, closed, collected, lost>>

\* "close" of a child that ran; the timer's verdict goes before the exit
\* code.
CloseAnswer(c) ==
  IF timer[c] = "fired" THEN "timeout"
  ELSE IF child[c] = "zero" THEN "succeeded" ELSE "failed"

\* Mutant: only a close in time settles the run.
CloseEventInTime(c) ==
  /\ up /\ pc[c] = "running" /\ child[c] \in {"zero", "nonzero"}
  /\ timer[c] = "armed"
  /\ ClearTimer(c)
  /\ closed' = [closed EXCEPT ![c] = TRUE]
  /\ Settle(c, CloseAnswer(c))
  /\ RecordAside(c, CloseAnswer(c))
  /\ UNCHANGED <<request, child, collected, lost>>

CloseEvent(c) ==
  /\ up /\ pc[c] = "running" /\ child[c] \in {"zero", "nonzero"}
  /\ ClearTimer(c)
  /\ closed' = [closed EXCEPT ![c] = TRUE]
  /\ Settle(c, CloseAnswer(c))
  /\ RecordAside(c, CloseAnswer(c))
  /\ UNCHANGED <<request, child, collected, lost>>

\* Mutant: without the settled flag the second event answers once more.
LateCloseEventAgain(c) ==
  /\ up /\ pc[c] = "settled" /\ child[c] = "unspawned" /\ ~closed[c]
  /\ closed' = [closed EXCEPT ![c] = TRUE]
  /\ Settle(c, "failed")
  /\ RecordAside(c, "failed")
  /\ UNCHANGED <<request, child, timer, collected, lost>>

\* "close" also follows "error", and finds the run settled.
LateCloseEvent(c) ==
  /\ up /\ pc[c] = "settled" /\ child[c] = "unspawned" /\ ~closed[c]
  /\ closed' = [closed EXCEPT ![c] = TRUE]
  /\ UNCHANGED <<request, pc, child, timer, collected, lost, answer, audit, up>>

\* The child ends or was never started before it has read what was sent to
\* its stdin: EPIPE on a stream without an "error" listener.
StdinBreaks(c) ==
  /\ up /\ pc[c] = "running" /\ request[c].stdin /\ ~Live(c)
  /\ up' = FALSE
  /\ UNCHANGED <<request, pc, child, timer, closed, collected, lost, answer, audit>>

-----------------------------------------------------------------------------
ServerStep(c) ==
  \/ Block(c) \/ Start(c) \/ Spawn(c)
  \/ ErrorEvent(c) \/ CloseEvent(c) \/ LateCloseEvent(c)

CmdStep(c) ==
  \/ ServerStep(c) \/ SpawnNoDescriptors(c) \/ StdinBreaks(c)
  \/ TimerFires(c) \/ ChildEnds(c)
  \/ \E n \in 1..MaxChunk : Output(c, n)

Next == \E c \in Cmd : CmdStep(c)

Spec == Init /\ [][Next]_vars

\* The event loop serves its callbacks and its timers.
FairSpec == Spec /\ \A c \in Cmd : /\ WF_vars(ServerStep(c))
                                   /\ WF_vars(TimerFires(c))

\* Moreover every child that is sent SIGTERM ends.
ObedientSpec ==
  FairSpec /\ \A c \in Cmd : WF_vars(timer[c] = "fired" /\ ChildEnds(c))

-----------------------------------------------------------------------------
(* Properties *)

Answers == {"none", "blocked", "auditError", "notStarted", "succeeded",
            "failed", "timeout"}
Children == {"none", "alive", "zero", "nonzero", "unspawned"}

\* The shape of the state; the collector never keeps more than its limit.
TypeOK ==
  /\ request \in [Cmd -> Request]
  /\ pc \in [Cmd -> {"new", "started", "running", "settled"}]
  /\ child \in [Cmd -> Children]
  /\ timer \in [Cmd -> {"off", "armed", "fired"}]
  /\ closed \in [Cmd -> BOOLEAN]
  /\ collected \in [Cmd -> 0..MaxOutput]
  /\ lost \in [Cmd -> BOOLEAN]
  /\ answer \in [Cmd -> Answers]
  /\ audit \in [Cmd -> Seq({"blocked", "started"} \cup Answers)]
  /\ up \in BOOLEAN

\* What a caller makes of the answer.
Outcome(c) ==
  CASE answer[c] = "none" -> "none"
    [] answer[c] = "succeeded" -> "ok"
    [] answer[c] \in {"blocked", "auditError"} -> "refused"
    [] OTHER -> "failed"

Contract == INSTANCE CommandContract
              WITH outcome <- [c \in Cmd |-> Outcome(c)]

\* Every run behaves as CommandContract says, whatever the order of exit,
\* timer, error and close events and whatever other commands do.
ImplementsContract == Contract!Spec

\* A success with dropped output says so.  (It may also say so when the
\* output filled the buffer exactly and nothing was dropped.)  What is kept
\* never exceeds the limit, however the chunks fall.
DropsAreReported ==
  \A c \in Cmd :
    /\ collected[c] <= MaxOutput
    /\ answer[c] = "succeeded" /\ lost[c] => Truncated(c)

\* The audit trail of a run is the story its caller was told: nothing but
\* "blocked" for a refusal, and for a started run exactly one more event,
\* the one its promise was settled with, once it was settled; and the story
\* is true of the output.
AuditAgrees ==
  /\ DropsAreReported
  /\ \A c \in Cmd : up =>
    CASE answer[c] = "blocked" -> audit[c] = <<"blocked">>
      [] answer[c] = "auditError" -> audit[c] = <<>>
      [] answer[c] = "notStarted" -> audit[c] = <<"started", "failed">>
      [] answer[c] \in {"succeeded", "failed", "timeout"} ->
           audit[c] = <<"started", answer[c]>>
      [] answer[c] = "none" ->
           audit[c] = IF pc[c] = "new" THEN <<>> ELSE <<"started">>

\* If every child ends on SIGTERM, every command that was started is
\* answered, unless the backend dies first.
StartedIsAnswered ==
  \A c \in Cmd : pc[c] = "started" ~> (answer[c] # "none" \/ ~up)
=============================================================================
