------------------------------ MODULE CommandProofs ------------------------------
(***************************************************************************)
(* CommandRunner implements CommandContract, and its audit trail tells     *)
(* what became of each command, for any number of concurrent commands, any *)
(* requests and any policy.  The second half is about the packages its     *)
(* commands install.                                                       *)
(***************************************************************************)
EXTENDS CommandRunner, PackageManager, TLAPS

\* Where a run is and what is known of its child and its answer go together:
\* this is what makes the settled flag enough.
Phase(c) ==
  /\ pc[c] \in {"new", "started"} => child[c] = "none" /\ answer[c] = "none"
  /\ pc[c] = "running" => answer[c] = "none" /\ child[c] # "none"
  /\ answer[c] = "none" => pc[c] # "settled"

PhaseInv ==
  /\ pc \in [Cmd -> {"new", "started", "running", "settled"}]
  /\ child \in [Cmd -> Children]
  /\ answer \in [Cmd -> Answers]
  /\ \A c \in Cmd : Phase(c)

\* No command has been started.
LEMMA PhaseInvInit == Init => PhaseInv
BY DEF Init, PhaseInv, Phase, Children, Answers

\* The answer to a close event is an answer.
LEMMA CloseAnswerType ==
  ASSUME NEW c \in Cmd
  PROVE  /\ CloseAnswer(c) \in {"timeout", "succeeded", "failed"}
         /\ CloseAnswer(c) = "succeeded" => child[c] = "zero"
BY DEF CloseAnswer

\* Every step keeps the phase invariant.
LEMMA PhaseInvStep ==
  ASSUME PhaseInv, NEW c \in Cmd, CmdStep(c)
  PROVE  PhaseInv'
<1> USE DEF PhaseInv, Phase, Children, Answers
<1>1. CASE Block(c)
  BY <1>1 DEF Block, Settle
<1>2. CASE Start(c)
  BY <1>2 DEF Start, Settle
<1>3. CASE Spawn(c)
  BY <1>3 DEF Spawn
<1>4. CASE ErrorEvent(c)
  BY <1>4 DEF ErrorEvent, Settle
<1>5. CASE CloseEvent(c)
  BY <1>5, CloseAnswerType DEF CloseEvent, Settle
<1>6. CASE ChildEnds(c)
  BY <1>6 DEF ChildEnds, Live
<1>7. CASE UNCHANGED <<pc, child, answer>>
  BY <1>7
<1> QED
  BY <1>1, <1>2, <1>3, <1>4, <1>5, <1>6, <1>7
  DEF CmdStep, ServerStep, LateCloseEvent, SpawnNoDescriptors, StdinBreaks,
      TimerFires, Output

\* A step of a command is a step of its contract, or changes nothing the
\* contract speaks of.
LEMMA StepRefines ==
  ASSUME PhaseInv, NEW c \in Cmd, CmdStep(c)
  PROVE  [Contract!Next]_(Contract!vars)
<1> DEFINE outcome == [d \in Cmd |-> Outcome(d)]
<1> USE DEF PhaseInv, Phase
<1>1. ASSUME UNCHANGED answer PROVE outcome' = outcome
  BY <1>1 DEF Outcome
<1>2. ASSUME NEW a \in Answers, answer' = [answer EXCEPT ![c] = a],
             NEW o, o = CASE a = "none" -> "none"
                          [] a = "succeeded" -> "ok"
                          [] a \in {"blocked", "auditError"} -> "refused"
                          [] OTHER -> "failed"
      PROVE  outcome' = [outcome EXCEPT ![c] = o]
  BY <1>2 DEF Outcome
<1>3. pc[c] \in {"new", "started", "running"} => outcome[c] = "none"
  BY DEF Outcome
<1>4. CASE Block(c)
  <2>1. PICK a \in {"blocked", "auditError"} : answer' = [answer EXCEPT ![c] = a]
    BY <1>4 DEF Block, Settle
  <2>2. outcome' = [outcome EXCEPT ![c] = "refused"]
    BY <2>1, <1>2 DEF Answers
  <2>3. Contract!Refuse(c)
    BY <1>4, <1>3, <2>2 DEF Block, Contract!Refuse
  <2> QED
    BY <2>3 DEF Contract!Next
<1>5. CASE Start(c)
  <2>1. CASE UNCHANGED answer
    BY <1>5, <2>1, <1>1 DEF Start, Contract!vars
  <2>2. CASE answer' = [answer EXCEPT ![c] = "auditError"]
    <3>1. outcome' = [outcome EXCEPT ![c] = "refused"]
      BY <2>2, <1>2 DEF Answers
    <3>2. Contract!Refuse(c)
      BY <1>5, <1>3, <3>1 DEF Start, Contract!Refuse
    <3> QED
      BY <3>2 DEF Contract!Next
  <2> QED
    BY <1>5, <2>1, <2>2 DEF Start, Settle
<1>6. CASE Spawn(c)
  <2>1. Contract!Launch(c)
    BY <1>6, <1>1, <1>3 DEF Spawn, Contract!Launch
  <2> QED
    BY <2>1 DEF Contract!Next
<1>7. CASE ErrorEvent(c)
  <2>1. outcome' = [outcome EXCEPT ![c] = "failed"]
    BY <1>7, <1>2 DEF ErrorEvent, Settle, Answers
  <2>2. Contract!Fail(c)
    BY <1>7, <1>3, <2>1 DEF ErrorEvent, Contract!Fail
  <2> QED
    BY <2>2 DEF Contract!Next
<1>8. CASE CloseEvent(c)
  <2>1. CASE CloseAnswer(c) = "succeeded"
    <3>1. outcome' = [outcome EXCEPT ![c] = "ok"]
      BY <1>8, <2>1, <1>2 DEF CloseEvent, Settle, Answers
    <3>2. Contract!Succeed(c)
      BY <1>8, <2>1, <1>3, <3>1, CloseAnswerType
      DEF CloseEvent, Contract!Succeed
    <3> QED
      BY <3>2 DEF Contract!Next
  <2>2. CASE CloseAnswer(c) \in {"timeout", "failed"}
    <3>1. outcome' = [outcome EXCEPT ![c] = "failed"]
      BY <1>8, <2>2, <1>2 DEF CloseEvent, Settle, Answers
    <3>2. Contract!Fail(c)
      BY <1>8, <1>3, <3>1 DEF CloseEvent, Contract!Fail
    <3> QED
      BY <3>2 DEF Contract!Next
  <2> QED
    BY <2>1, <2>2, CloseAnswerType
<1>9. CASE ChildEnds(c)
  <2>1. Contract!End(c)
    BY <1>9, <1>1 DEF ChildEnds, Live, Contract!End
  <2> QED
    BY <2>1 DEF Contract!Next
<1>10. CASE UNCHANGED <<child, answer>>
  BY <1>10, <1>1 DEF Contract!vars
<1> QED
  BY <1>4, <1>5, <1>6, <1>7, <1>8, <1>9, <1>10
  DEF CmdStep, ServerStep, LateCloseEvent, SpawnNoDescriptors, StdinBreaks,
      TimerFires, Output

\* Every step keeps the shape of the state.
LEMMA TypeStep ==
  ASSUME TypeOK, NEW c \in Cmd, CmdStep(c)
  PROVE  TypeOK'
<1> DEFINE Event == {"blocked", "started"} \cup Answers
<1>1. \A e \in Event : Record(c, e) => audit' \in [Cmd -> Seq(Event)]
  BY DEF Record, TypeOK
<1>2. \A e \in Event :
        RecordAside(c, e) => audit' \in [Cmd -> Seq(Event)] /\ up' \in BOOLEAN
  BY <1>1 DEF RecordAside, TypeOK
<1>3. \A a \in Answers :
        Settle(c, a) => /\ answer' \in [Cmd -> Answers]
                        /\ pc' \in [Cmd -> {"new", "started", "running", "settled"}]
  BY DEF Settle, TypeOK
<1>4. ClearTimer(c) => timer' \in [Cmd -> {"off", "armed", "fired"}]
  BY DEF ClearTimer, TypeOK
<1>5. CASE Block(c)
  BY <1>5, <1>1, <1>3 DEF Block, TypeOK, Answers
<1>6. CASE Start(c)
  BY <1>6, <1>1, <1>3 DEF Start, TypeOK, Answers
<1>7. CASE Spawn(c)
  BY <1>7 DEF Spawn, TypeOK, Children
<1>8. CASE ErrorEvent(c)
  BY <1>8, <1>2, <1>3, <1>4 DEF ErrorEvent, TypeOK, Answers
<1>9. CASE CloseEvent(c)
  <2>1. CloseAnswer(c) \in Answers
    BY CloseAnswerType DEF Answers
  <2> QED
    BY <1>9, <2>1, <1>2, <1>3, <1>4 DEF CloseEvent, TypeOK
<1>10. CASE ChildEnds(c)
  BY <1>10 DEF ChildEnds, TypeOK, Children
<1>11. ASSUME NEW n \in 1..MaxChunk, Output(c, n) PROVE TypeOK'
  <2>1. Keep(collected[c], n) \in 0..MaxOutput
    BY CommandAssumption DEF Keep, TypeOK
  <2> QED
    BY <1>11, <2>1 DEF Output, TypeOK
<1>12. CASE SpawnNoDescriptors(c) \/ StdinBreaks(c) \/ LateCloseEvent(c) \/ TimerFires(c)
  BY <1>12
  DEF SpawnNoDescriptors, StdinBreaks, LateCloseEvent, TimerFires, TypeOK
<1> QED
  BY <1>5, <1>6, <1>7, <1>8, <1>9, <1>10, <1>11, <1>12 DEF CmdStep, ServerStep

\* The state has its shape; the collector never keeps more than its limit.
THEOREM RunnerTypeCorrect == Spec => []TypeOK
<1>1. Init => TypeOK
  BY CommandAssumption DEF Init, TypeOK, Children, Answers
<1>2. TypeOK /\ [Next]_vars => TypeOK'
  <2>1. ASSUME TypeOK, UNCHANGED vars PROVE TypeOK'
    BY <2>1 DEF TypeOK, vars
  <2> QED
    BY <2>1, TypeStep DEF Next
<1> QED
  BY <1>1, <1>2, PTL DEF Spec

\* Whatever races its child, its timer and its audit hook run, a command is
\* answered at most once, after its end, and "ok" only on exit code 0.
THEOREM RunnerImplementsContract == Spec => ImplementsContract
<1>1. Init => Contract!Init
  BY DEF Init, Contract!Init, Outcome
<1>2. PhaseInv /\ [Next]_vars => PhaseInv'
  <2>1. ASSUME PhaseInv, UNCHANGED vars PROVE PhaseInv'
    BY <2>1 DEF PhaseInv, Phase, vars
  <2> QED
    BY <2>1, PhaseInvStep DEF Next
<1>3. PhaseInv /\ [Next]_vars => [Contract!Next]_(Contract!vars)
  <2>1. ASSUME UNCHANGED vars PROVE UNCHANGED Contract!vars
    BY <2>1 DEF vars, Contract!vars, Outcome
  <2> QED
    BY <2>1, StepRefines DEF Next
<1> QED
  BY <1>1, <1>2, <1>3, PhaseInvInit, PTL
  DEF Spec, ImplementsContract, Contract!Spec

-----------------------------------------------------------------------------
(* The audit trail and the output *)

\* The events of a run at each point of it, while the process lives.
Story(c) ==
  CASE pc[c] = "new" -> <<>>
    [] pc[c] \in {"started", "running"} -> <<"started">>
    [] answer[c] = "blocked" -> <<"blocked">>
    [] answer[c] = "auditError" -> <<>>
    [] answer[c] = "notStarted" -> <<"started", "failed">>
    [] OTHER -> <<"started", answer[c]>>

\* A collector that has dropped bytes is full, and takes no more.
CollectorInv ==
  /\ collected \in [Cmd -> 0..MaxOutput]
  /\ lost \in [Cmd -> BOOLEAN]
  /\ \A c \in Cmd : lost[c] => collected[c] = MaxOutput

AuditInv ==
  /\ audit \in [Cmd -> Seq({"blocked", "started"} \cup Answers)]
  /\ up => \A c \in Cmd : audit[c] = Story(c)

\* Nothing is in the audit trail, and no output is collected.
LEMMA AuditInvInit == Init => AuditInv /\ CollectorInv
BY CommandAssumption DEF Init, AuditInv, CollectorInv, Story, Answers

\* Only an output touches the collector.
LEMMA CollectorInvStep ==
  ASSUME CollectorInv, NEW c \in Cmd, CmdStep(c)
  PROVE  CollectorInv'
<1>1. ASSUME NEW n \in 1..MaxChunk, Output(c, n) PROVE CollectorInv'
  <2>1. Keep(collected[c], n) \in 0..MaxOutput
        /\ (collected[c] + n > MaxOutput => Keep(collected[c], n) = MaxOutput)
    BY CommandAssumption DEF CollectorInv, Keep
  <2> QED
    BY <1>1, <2>1 DEF Output, CollectorInv
<1>2. CASE UNCHANGED <<collected, lost>>
  BY <1>2 DEF CollectorInv
<1> QED
  BY <1>1, <1>2
  DEF CmdStep, ServerStep, Block, Start, Spawn, ErrorEvent, CloseEvent,
      LateCloseEvent, SpawnNoDescriptors, StdinBreaks, TimerFires, ChildEnds

\* What happens to one run is no part of the story of another.
LEMMA StoryOfOthers ==
  ASSUME PhaseInv, NEW c \in Cmd, CmdStep(c), NEW d \in Cmd, d # c
  PROVE  Story(d)' = Story(d)
<1>1. pc'[d] = pc[d] /\ answer'[d] = answer[d]
  BY DEF PhaseInv, CmdStep, ServerStep, Block, Start, Spawn, ErrorEvent,
         CloseEvent, LateCloseEvent, SpawnNoDescriptors, StdinBreaks,
         TimerFires, ChildEnds, Output, Settle
<1> QED
  BY <1>1 DEF Story

\* What a step records is what the story of its run gains.
LEMMA StoryGrows ==
  ASSUME PhaseInv, AuditInv, NEW c \in Cmd, CmdStep(c), up'
  PROVE  \/ audit' = audit /\ Story(c)' = Story(c)
         \/ \E e \in {"blocked", "started"} \cup Answers :
              Record(c, e) /\ Story(c)' = Append(Story(c), e)
<1> USE DEF PhaseInv, Phase, Story
<1>1. CASE Block(c)
  BY <1>1 DEF Block, Settle
<1>2. CASE Start(c)
  BY <1>2 DEF Start, Settle
<1>3. CASE Spawn(c)
  BY <1>3 DEF Spawn
<1>4. CASE ErrorEvent(c)
  <2>1. Record(c, "failed") /\ pc'[c] = "settled" /\ answer'[c] = "notStarted"
    BY <1>4 DEF ErrorEvent, Settle, RecordAside
  <2>2. Story(c)' = Append(Story(c), "failed")
    BY <1>4, <2>1 DEF ErrorEvent
  <2> QED
    BY <2>1, <2>2 DEF Answers
<1>5. CASE CloseEvent(c)
  <2> DEFINE e == CloseAnswer(c)
  <2>1. e \in {"timeout", "succeeded", "failed"}
    BY CloseAnswerType
  <2>2. Record(c, e) /\ pc'[c] = "settled" /\ answer'[c] = e
    BY <1>5 DEF CloseEvent, Settle, RecordAside
  <2> HIDE DEF e
  <2>3. Story(c)' = <<"started", e>>
    BY <2>1, <2>2
  <2>4. Story(c) = <<"started">>
    BY <1>5 DEF CloseEvent
  <2> HIDE DEF Story
  <2>5. Story(c)' = Append(Story(c), e)
    BY <2>1, <2>3, <2>4
  <2> QED
    BY <2>1, <2>2, <2>5 DEF Answers
<1>6. CASE UNCHANGED <<pc, answer, audit>>
  BY <1>6
<1> QED
  BY <1>1, <1>2, <1>3, <1>4, <1>5, <1>6
  DEF CmdStep, ServerStep, LateCloseEvent, SpawnNoDescriptors, StdinBreaks,
      TimerFires, ChildEnds, Output

\* Every step keeps the audit trail in agreement with the answers.
LEMMA AuditInvStep ==
  ASSUME PhaseInv, AuditInv, NEW c \in Cmd, CmdStep(c)
  PROVE  AuditInv'
<1>1. audit' \in [Cmd -> Seq({"blocked", "started"} \cup Answers)]
  <2>1. audit' = audit \/ \E e \in {"blocked", "started"} \cup Answers : Record(c, e)
    BY CloseAnswerType
    DEF CmdStep, ServerStep, Block, Start, Spawn, ErrorEvent, CloseEvent,
        LateCloseEvent, SpawnNoDescriptors, StdinBreaks, TimerFires, ChildEnds,
        Output, RecordAside, Answers
  <2> QED
    BY <2>1 DEF AuditInv, Record
<1>2. ASSUME up' PROVE \A d \in Cmd : audit'[d] = Story(d)'
  <2>1. up
    BY <1>2
    DEF CmdStep, ServerStep, Block, Start, Spawn, ErrorEvent, CloseEvent,
        LateCloseEvent, SpawnNoDescriptors, StdinBreaks, TimerFires, ChildEnds,
        Output
  <2>2. \A d \in Cmd : d # c => audit'[d] = audit[d]
    BY <1>2, StoryGrows DEF AuditInv, Record
  <2>3. audit'[c] = Story(c)'
    BY <1>2, <2>1, StoryGrows DEF AuditInv, Record
  <2> QED
    BY <2>1, <2>2, <2>3, StoryOfOthers DEF AuditInv
<1> QED
  BY <1>1, <1>2 DEF AuditInv

\* Whichever of its events settles a run, its audit trail is the story its
\* caller was told, and a success with dropped output says so, for any
\* commands, requests and limits.
THEOREM AuditCorrect == Spec => []AuditAgrees
<1>1. PhaseInv /\ AuditInv /\ CollectorInv /\ [Next]_vars
        => PhaseInv' /\ AuditInv' /\ CollectorInv'
  <2>1. ASSUME PhaseInv, AuditInv, CollectorInv, UNCHANGED vars
        PROVE  PhaseInv' /\ AuditInv' /\ CollectorInv'
    BY <2>1 DEF PhaseInv, Phase, AuditInv, Story, CollectorInv, vars
  <2> QED
    BY <2>1, PhaseInvStep, AuditInvStep, CollectorInvStep DEF Next
<1>2. ASSUME PhaseInv, AuditInv, CollectorInv PROVE AuditAgrees
  <2>1. DropsAreReported
    <3> SUFFICES ASSUME NEW c \in Cmd
                 PROVE  /\ collected[c] <= MaxOutput
                        /\ lost[c] => collected[c] >= MaxOutput
      BY DEF DropsAreReported, Truncated
    <3>1. MaxOutput \in Nat /\ collected[c] \in 0..MaxOutput
      BY <1>2, CommandAssumption DEF CollectorInv
    <3> QED
      BY <1>2, <3>1 DEF CollectorInv
  <2>2. ASSUME up, NEW c \in Cmd
        PROVE  CASE answer[c] = "blocked" -> audit[c] = <<"blocked">>
                 [] answer[c] = "auditError" -> audit[c] = <<>>
                 [] answer[c] = "notStarted" -> audit[c] = <<"started", "failed">>
                 [] answer[c] \in {"succeeded", "failed", "timeout"} ->
                      audit[c] = <<"started", answer[c]>>
                 [] answer[c] = "none" ->
                      audit[c] = IF pc[c] = "new" THEN <<>> ELSE <<"started">>
    BY <1>2, <2>2 DEF PhaseInv, Phase, AuditInv, Story, Answers
  <2> QED
    BY <2>1, <2>2 DEF AuditAgrees
<1> QED
  BY <1>1, <1>2, PhaseInvInit, AuditInvInit, PTL DEF Spec

-----------------------------------------------------------------------------
(* The packages that the apt and systemctl commands of the runner install.  No  *)
(* fact of CommandRunner is used.                                               *)

\* A component a request has installed is there, or a rival is.
There(r, c) ==
  \/ <<r, c>> \in ousted
  \/ Packages[c] \subseteq installed

Placed(r, c) ==
  \/ <<r, c>> \in ousted
  \/ /\ Packages[c] \subseteq installed
     /\ ask[r].start /\ c \in Service => c \in running

\* The components behind a request.
Behind(r) == \A i \in 1..(at[r] - 1) : Placed(r, List(r)[i])

\* What a request waits for, and what its command does.
Doing(r) ==
  /\ stage[r] = "done" => at[r] = Len(List(r)) + 1
  /\ stage[r] # "done" => at[r] <= Len(List(r))
  /\ command[r] # "none" => stage[r] \in {command[r], "lost"}
  /\ command[r] = "install" => Packages[Current(r)] \subseteq known
  /\ "service" \in {stage[r], command[r]} => NeedsService(r)
  /\ stage[r] = "service" => There(r, Current(r))

\* Nothing was touched but what the requests have reached.
Touched == known \subseteq UNION {Packages[c] : c \in UNION {Reached(r) : r \in Req}}

\* What a status call has found so far.
Looking(q) ==
  /\ query[q].pc = "new" => query[q].missed = {}
  /\ query[q].found \cup query[q].missed \subseteq Packages[query[q].of]
  /\ query[q].pc = "done" =>
       query[q].found \cup query[q].missed = Packages[query[q].of]
  /\ query[q].found \subseteq known /\ before[q] \subseteq known
  /\ query[q].missed \cap before[q] \subseteq query[q].broke

\* The inductive invariant of the packages.
PackageInv ==
        /\ PackagesTypeOK /\ Touched
        /\ \A r \in Req : Behind(r) /\ Doing(r)
        /\ \A q \in Query : Looking(q)

-----------------------------------------------------------------------------
(* Requests and components *)

\* A request is about a list of components.
LEMMA Lists ==
  ASSUME PackagesTypeOK, NEW r \in Req
  PROVE  /\ List(r) \in Seq(Component) /\ Len(List(r)) \in Nat /\ List(r) # <<>>
         /\ ask[r].start \in BOOLEAN /\ at[r] \in 1..(Len(List(r)) + 1)
         /\ \A i \in 1..Len(List(r)) : List(r)[i] \in Component
         /\ at[r] <= Len(List(r)) => Current(r) \in Component
<1>1. ask[r] \in [list : Seq(Component) \ {<<>>}, start : BOOLEAN]
  BY PackageAssumption DEF PackageAssumption, PackagesTypeOK
<1>2. List(r) \in Seq(Component) /\ List(r) # <<>>
  BY <1>1 DEF List
<1>3. at[r] \in 1..(Len(List(r)) + 1)
  BY DEF PackagesTypeOK
<1> QED
  BY <1>1, <1>2, <1>3 DEF Current

\* The packages of a component are packages, and of no other component.
LEMMA PackagesOf ==
  ASSUME NEW c \in Component
  PROVE  /\ Packages[c] \subseteq Package
         /\ \A d \in Component : c # d => Packages[c] \cap Packages[d] = {}
         /\ Rivals(c) \subseteq Component /\ c \notin Rivals(c)
BY PackageAssumption DEF PackageAssumption, Package, Rivals

\* The request a command runs for has not got beyond its component.
LEMMA Commanded ==
  ASSUME PackageInv, NEW r \in Req, command[r] # "none" \/ stage[r] \in Waiting
  PROVE  /\ at[r] <= Len(List(r)) /\ Current(r) \in Component
         /\ command[r] # "none" => stage[r] \in {command[r], "lost"}
         /\ command[r] = "install" => Packages[Current(r)] \subseteq known
         /\ command[r] = "service" => Current(r) \in Service /\ ask[r].start
<1>1. PackagesTypeOK /\ Doing(r)
  BY DEF PackageInv
<1>2. command[r] \in Waiting \cup {"none"}
  BY <1>1 DEF PackagesTypeOK
<1>3. stage[r] # "done"
  BY <1>1, <1>2 DEF Doing, Waiting
<1> QED
  BY <1>1, <1>3, Lists DEF Doing, NeedsService

\* Requests only move on, so what they have reached stays reached.
LEMMA TouchedKept ==
  ASSUME PackagesTypeOK, Touched, ask' = ask, at' \in [Req -> Nat],
         \A r \in Req : at'[r] >= at[r], known' = known
  PROVE  Touched'
<1>1. ASSUME NEW r \in Req, NEW c \in Reached(r) PROVE c \in Reached(r)'
  <2>1. PICK i \in 1..(IF at[r] > Len(List(r)) THEN Len(List(r)) ELSE at[r]) :
          c = List(r)[i]
    BY <1>1 DEF Reached
  <2>2. /\ Len(List(r)) \in Nat /\ at[r] \in Nat /\ at'[r] \in Nat /\ at'[r] >= at[r]
        /\ List(r)' = List(r)
    BY Lists DEF PackagesTypeOK, List
  <2>3. i \in 1..(IF at'[r] > Len(List(r)) THEN Len(List(r)) ELSE at'[r])
    BY <2>2
  <2> QED
    BY <2>1, <2>2, <2>3 DEF Reached
<1>2. ASSUME NEW p \in known PROVE \E r \in Req : \E c \in Reached(r) : p \in Packages[c]
  BY <1>2 DEF Touched
<1>3. ASSUME NEW p \in known PROVE \E r \in Req : \E c \in Reached(r)' : p \in Packages[c]
  BY <1>1, <1>2
<1> QED
  BY <1>3 DEF Touched

\* A request nothing was done for, while nothing was removed.
LEMMA OthersKeep ==
  ASSUME PackageInv, NEW q \in Req, ask' = ask, at'[q] = at[q], stage'[q] = stage[q],
         command'[q] = command[q], installed \subseteq installed',
         known \subseteq known', running \subseteq running', ousted \subseteq ousted'
  PROVE  Behind(q)' /\ Doing(q)'
<1>1. Behind(q) /\ Doing(q)
  BY DEF PackageInv
<1>2. List(q)' = List(q) /\ Current(q)' = Current(q) /\ NeedsService(q)' = NeedsService(q)
  BY DEF List, Current, NeedsService
<1>3. Behind(q)'
  BY <1>1, <1>2 DEF Behind, Placed
<1>4. Doing(q)'
  BY <1>1, <1>2 DEF Doing, There
<1> QED
  BY <1>3, <1>4

\* Status calls while the host learns of packages.
LEMMA LookingKept ==
  ASSUME PackageInv, query' = query, before' = before, known \subseteq known'
  PROVE  \A q \in Query : Looking(q)'
BY DEF PackageInv, Looking

-----------------------------------------------------------------------------
(* The steps of a request *)

\* A request begins.
LEMMA StartKeeps ==
  ASSUME PackageInv, NEW r \in Req, StartInstall(r)
  PROVE  PackageInv'
<1>1. /\ UNCHANGED <<installed, known, running, interrupted, ousted, ask, at,
                     command, deaths, queries>>
      /\ PackagesTypeOK /\ Touched /\ stage[r] = "new" /\ stage' = [stage EXCEPT ![r] = "update"]
  BY DEF StartInstall, Goto, host, queries, PackageInv
<1>2. List(r)' = List(r) /\ Current(r)' = Current(r) /\ NeedsService(r)' = NeedsService(r)
  BY <1>1 DEF List, Current, NeedsService
<1>3. stage'[r] = "update" /\ stage' \in [Req -> Waiting \cup {"new", "done", "failed", "lost"}]
      /\ \A q \in Req \ {r} : stage'[q] = stage[q]
  BY <1>1 DEF PackagesTypeOK, Waiting
<1>4. PackagesTypeOK'
  BY <1>1, <1>3 DEF PackagesTypeOK, queries, List
<1>5. Touched'
  BY <1>1, TouchedKept DEF PackagesTypeOK
<1>6. ASSUME NEW q \in Req PROVE Behind(q)' /\ Doing(q)'
  <2>1. CASE q = r
    <3>1. Behind(r) /\ Doing(r)
      BY DEF PackageInv
    <3>2. command[r] = "none"
      <4>1. command[r] \in Waiting \cup {"none"}
        BY <1>1 DEF PackagesTypeOK
      <4> QED
        BY <1>1, <3>1, <4>1 DEF Doing, Waiting
    <3>3. Behind(r)'
      BY <1>1, <1>2, <3>1 DEF Behind, Placed
    <3>4. Doing(r)'
      BY <1>1, <1>2, <1>3, <3>1, <3>2 DEF Doing
    <3> QED
      BY <2>1, <3>3, <3>4
  <2>2. CASE q # r
    BY <1>1, <1>3, <2>2, OthersKeep
  <2> QED
    BY <2>1, <2>2
<1>7. \A q \in Query : Looking(q)'
  BY <1>1, LookingKept DEF queries
<1> QED
  BY <1>4, <1>5, <1>6, <1>7 DEF PackageInv

\* What the end of a command means to its request: it stays where it is, or
\* moves on when its component is placed.
MovesOn(r, c) ==
  \/ stage[r] \notin Waiting /\ UNCHANGED <<at, stage>>
  \/ stage[r] \in Waiting /\ Reject(r)
  \/ stage[r] = "update" /\ Goto(r, "install") /\ UNCHANGED at
  \/ stage[r] = "install" /\ NeedsService(r) /\ There(r, c)' /\ Goto(r, "service") /\ UNCHANGED at
  \/ stage[r] \in Waiting /\ Placed(r, c)' /\ Onward(r)

\* A command has ended, and its request is told.
LEMMA EndKeeps ==
  ASSUME PackageInv, NEW r \in Req, NEW c \in Component, c = Current(r),
         command[r] # "none" \/ stage[r] \in Waiting,
         command' = [command EXCEPT ![r] = "none"],
         UNCHANGED <<ask, known, ousted, deaths, queries>>,
         installed \subseteq installed', installed' \subseteq known,
         running \subseteq running', running' \subseteq Service, interrupted' \in BOOLEAN,
         MovesOn(r, c)
  PROVE  PackageInv'
<1> DEFINE Pcs == Waiting \cup {"new", "done", "failed", "lost"}
<1>1. /\ PackagesTypeOK /\ Touched /\ Behind(r) /\ Doing(r) /\ at \in [Req -> Nat]
      /\ stage \in [Req -> Pcs] /\ command \in [Req -> Waiting \cup {"none"}]
  BY DEF PackageInv, PackagesTypeOK
<1>2. /\ Len(List(r)) \in Nat /\ at[r] \in 1..Len(List(r)) /\ at[r] \in Nat
      /\ List(r)' = List(r) /\ c = List(r)[at[r]]
  BY <1>1, Lists, Commanded DEF List, Current
<1>3. /\ at' \in [Req -> Nat] /\ at'[r] \in {at[r], at[r] + 1}
      /\ \A q \in Req \ {r} : at'[q] = at[q]
  BY <1>1, <1>2 DEF MovesOn, Reject, Onward
<1>4. stage' \in [Req -> Pcs] /\ \A q \in Req \ {r} : stage'[q] = stage[q]
  BY <1>1 DEF MovesOn, Reject, Onward, Goto, Waiting
<1>5. /\ command' \in [Req -> Waiting \cup {"none"}] /\ command'[r] = "none"
      /\ \A q \in Req \ {r} : command'[q] = command[q]
  BY <1>1
<1>6. PackagesTypeOK'
  <2>1. ASSUME NEW q \in Req
        PROVE  at'[q] \in 1..(Len(List(q)) + 1) /\ List(q)' = List(q)
    <3>1. CASE q = r
      BY <1>2, <1>3, <3>1
    <3>2. CASE q # r
      BY <1>1, <1>3, <3>2 DEF PackagesTypeOK, List
    <3> QED
      BY <3>1, <3>2
  <2> QED
    BY <1>1, <1>3, <1>4, <1>5, <2>1 DEF PackagesTypeOK, queries
<1>7. Touched'
  <2>1. ASSUME NEW q \in Req PROVE at'[q] >= at[q]
    <3>1. CASE q = r
      BY <1>2, <1>3, <3>1
    <3>2. CASE q # r
      BY <1>1, <1>3, <3>2
    <3> QED
      BY <3>1, <3>2
  <2> QED
    BY <1>1, <1>3, <2>1, TouchedKept

<1>8. \A i \in 1..(at[r] - 1) : Placed(r, List(r)[i])'
  <2>1. \A i \in 1..(at[r] - 1) : List(r)[i] \in Component
    BY <1>1, <1>2, Lists
  <2> QED
    BY <1>1, <1>2, <2>1 DEF Behind, Placed
<1>9. Behind(r)' /\ Doing(r)'
  <2>1. CASE /\ at' = at
             /\ \/ stage'[r] = stage[r] /\ stage[r] \notin Waiting
                \/ stage'[r] \in {"failed", "install"}
                \/ stage'[r] = "service" /\ NeedsService(r) /\ There(r, c)'
    <3>1. Behind(r)'
      BY <1>2, <1>8, <2>1 DEF Behind
    <3>2. Current(r)' = c /\ NeedsService(r)' = NeedsService(r)
      BY <1>2, <2>1 DEF Current, NeedsService
    <3>3. Doing(r)'
      BY <1>1, <1>2, <1>5, <2>1, <3>2 DEF Doing, Waiting
    <3> QED
      BY <3>1, <3>3
  <2>2. CASE Placed(r, c)' /\ Onward(r)
    <3>1. /\ at'[r] = at[r] + 1
          /\ stage'[r] = IF at[r] = Len(List(r)) THEN "done" ELSE "update"
      BY <1>1, <2>2 DEF Onward, Goto
    <3>2. \A i \in 1..(at[r] + 1 - 1) : i = at[r] \/ i \in 1..(at[r] - 1)
      BY <1>2
    <3>3. Behind(r)'
      BY <1>2, <1>8, <2>2, <3>1, <3>2 DEF Behind
    <3>4. Doing(r)'
      BY <1>2, <1>5, <3>1 DEF Doing
    <3> QED
      BY <3>3, <3>4
  <2>3. \/ /\ at' = at
           /\ \/ stage'[r] = stage[r] /\ stage[r] \notin Waiting
              \/ stage'[r] \in {"failed", "install"}
              \/ stage'[r] = "service" /\ NeedsService(r) /\ There(r, c)'
        \/ Placed(r, c)' /\ Onward(r)
    BY <1>1 DEF MovesOn, Reject, Goto
  <2> QED
    BY <2>1, <2>2, <2>3
<1>10. ASSUME NEW q \in Req PROVE Behind(q)' /\ Doing(q)'
  BY <1>3, <1>4, <1>5, <1>9, OthersKeep
<1>11. \A q \in Query : Looking(q)'
  BY LookingKept DEF queries
<1> QED
  BY <1>6, <1>7, <1>10, <1>11 DEF PackageInv

\* A command that cannot begin, succeeds, or fails.
LEMMA AnswersKeep ==
  ASSUME PackageInv, NEW r \in Req, NotBegun(r) \/ Succeeds(r) \/ Fails(r)
  PROVE  PackageInv'
<1>1. command[r] # "none" \/ stage[r] \in Waiting
  BY DEF NotBegun, Succeeds, Fails
<1>2. /\ Current(r) \in Component /\ PackagesTypeOK /\ Doing(r)
      /\ command[r] # "none" => stage[r] \in {command[r], "lost"}
      /\ command[r] = "install" => Packages[Current(r)] \subseteq known
      /\ command[r] = "service" => Current(r) \in Service /\ ask[r].start
      /\ command[r] \in Waiting \cup {"none"}
  BY <1>1, Commanded DEF PackageInv, PackagesTypeOK
<1>3. PICK c \in Component : c = Current(r)
  BY <1>2
<1>4. CASE NotBegun(r)
  <2>1. /\ UNCHANGED <<installed, known, running, interrupted, ousted, ask, deaths, queries>>
        /\ command' = command /\ command[r] = "none" /\ stage[r] \in Waiting /\ Reject(r)
    BY <1>4 DEF NotBegun, host
  <2>2. command' = [command EXCEPT ![r] = "none"]
    BY <1>2, <2>1 DEF PackagesTypeOK
  <2>3. MovesOn(r, c)
    BY <2>1 DEF MovesOn
  <2> QED
    BY <1>1, <1>2, <1>3, <2>1, <2>2, <2>3, EndKeeps DEF PackagesTypeOK
<1>5. CASE Succeeds(r)
  <2>1. /\ UNCHANGED <<known, interrupted, ousted, ask, deaths, queries>>
        /\ command' = [command EXCEPT ![r] = "none"] /\ command[r] \in Waiting
        /\ IF stage[r] \notin Waiting THEN UNCHANGED <<at, stage>> ELSE Proceed(r)
    BY <1>2, <1>5 DEF Succeeds, Ends, Tell
  <2>2. CASE command[r] = "update"
    <3>1. installed' = installed /\ running' = running
      BY <1>5, <2>2 DEF Succeeds
    <3>2. MovesOn(r, c)
      BY <1>2, <2>1, <2>2 DEF MovesOn, Proceed, Waiting
    <3> QED
      BY <1>1, <1>2, <1>3, <2>1, <3>1, <3>2, EndKeeps DEF PackagesTypeOK
  <2>3. CASE command[r] = "install"
    <3>1. Installs(c)
      BY <1>3, <1>5, <2>3 DEF Succeeds
    <3>2. /\ installed \subseteq installed' /\ installed' \subseteq known
          /\ running \subseteq running' /\ running' \subseteq Service
          /\ Packages[c] \subseteq installed'
      BY <1>2, <1>3, <2>3, <3>1 DEF Installs, PackagesTypeOK
    <3>3. There(r, c)' /\ (~NeedsService(r) => Placed(r, c)')
      BY <1>3, <2>1, <3>2 DEF There, Placed, NeedsService
    <3>4. MovesOn(r, c)
      BY <1>2, <2>1, <2>3, <3>3 DEF MovesOn, Proceed, Waiting
    <3> QED
      BY <1>1, <1>2, <1>3, <2>1, <3>2, <3>4, EndKeeps DEF PackagesTypeOK
  <2>4. CASE command[r] = "service"
    <3>1. Starts(c)
      BY <1>3, <1>5, <2>4 DEF Succeeds
    <3>2. /\ installed' = installed /\ Packages[c] \subseteq installed
          /\ running' = running \cup {c} /\ running' \subseteq Service
      BY <1>2, <1>3, <2>4, <3>1 DEF Starts, PackagesTypeOK
    <3>3. Placed(r, c)'
      BY <3>2 DEF Placed
    <3>4. MovesOn(r, c)
      BY <1>2, <2>1, <2>4, <3>3 DEF MovesOn, Proceed, Waiting
    <3> QED
      BY <1>1, <1>2, <1>3, <2>1, <3>2, <3>4, EndKeeps DEF PackagesTypeOK
  <2> QED
    BY <2>1, <2>2, <2>3, <2>4 DEF Waiting
<1>6. CASE Fails(r)
  <2>1. /\ UNCHANGED <<known, ousted, ask, deaths, queries>>
        /\ command' = [command EXCEPT ![r] = "none"]
        /\ IF stage[r] \notin Waiting THEN UNCHANGED <<at, stage>> ELSE Reject(r)
    BY <1>6 DEF Fails, Ends, Tell
  <2>2. /\ installed \subseteq installed' /\ installed' \subseteq known
        /\ running \subseteq running' /\ running' \subseteq Service
        /\ interrupted' \in BOOLEAN
    BY <1>2, <1>6 DEF Fails, Installs, Starts, PackagesTypeOK
  <2>3. MovesOn(r, c)
    BY <2>1 DEF MovesOn
  <2> QED
    BY <1>1, <1>2, <1>3, <2>1, <2>2, <2>3, EndKeeps
<1> QED
  BY <1>4, <1>5, <1>6

\* What stands in the way of a component is removed, and noted for whoever
\* had installed it.
LEMMA OustedNoted ==
  ASSUME PackageInv, NEW r \in Req, NEW c \in Component, NEW out \in SUBSET Component,
         installed' = installed \ UNION {Packages[d] : d \in out},
         running' = running \ out, ask' = ask,
         ousted' = ousted \cup {x \in Req \X out : x[2] \in Has(x[1])},
         c \in Has(r)
  PROVE  (There(r, c) => There(r, c)') /\ (Placed(r, c) => Placed(r, c)')
<1>1. CASE c \in out
  <2>1. <<r, c>> \in {x \in Req \X out : x[2] \in Has(x[1])}
    BY <1>1
  <2>2. <<r, c>> \in ousted'
    BY <2>1
  <2> QED
    BY <2>2 DEF There, Placed
<1>2. CASE c \notin out
  <2>1. Packages[c] \cap UNION {Packages[d] : d \in out} = {}
    BY <1>2, PackagesOf
  <2>2. Packages[c] \subseteq installed => Packages[c] \subseteq installed'
    BY <2>1
  <2>3. c \in running => c \in running'
    BY <1>2
  <2>4. ousted \subseteq ousted'
    OBVIOUS
  <2> QED
    BY <2>2, <2>3, <2>4 DEF There, Placed
<1> QED
  BY <1>1, <1>2

\* A command begins.
LEMMA BeginKeeps ==
  ASSUME PackageInv, NEW r \in Req, Begin(r)
  PROVE  PackageInv'
<1>1. /\ UNCHANGED <<ask, at, stage, deaths, query, before>>
      /\ stage[r] \in Waiting /\ command' = [command EXCEPT ![r] = stage[r]] /\ PackagesTypeOK
      /\ Current(r) \in Component /\ at[r] \in 1..Len(List(r))
  <2>1. /\ UNCHANGED <<ask, at, stage, deaths, query, before>>
        /\ stage[r] \in Waiting /\ command' = [command EXCEPT ![r] = stage[r]] /\ PackagesTypeOK
    BY DEF Begin, requestState, queries, PackageInv
  <2> QED
    BY <2>1, Commanded, Lists
<1>2. command' \in [Req -> Waiting \cup {"none"}] /\ command'[r] = stage[r]
      /\ \A q \in Req \ {r} : command'[q] = command[q]
  BY <1>1 DEF PackagesTypeOK
<1>3. \A q \in Req : /\ List(q)' = List(q) /\ Current(q)' = Current(q)
                     /\ NeedsService(q)' = NeedsService(q)
  BY <1>1 DEF List, Current, NeedsService
<1>4. CASE stage[r] # "install"
  <2>1. UNCHANGED <<installed, known, running, interrupted, ousted>>
    BY <1>4 DEF Begin, host
  <2>2. PackagesTypeOK'
    BY <1>1, <1>2, <2>1 DEF PackagesTypeOK, List
  <2>3. Touched'
    BY <1>1, <2>1, TouchedKept DEF PackageInv, PackagesTypeOK
  <2>4. Behind(r)' /\ Doing(r)'
    <3>1. Behind(r) /\ Doing(r)
      BY DEF PackageInv
    <3>2. Behind(r)'
      BY <1>1, <1>3, <2>1, <3>1 DEF Behind, Placed
    <3>3. Doing(r)'
      BY <1>1, <1>2, <1>3, <1>4, <2>1, <3>1 DEF Doing, There
    <3> QED
      BY <3>2, <3>3
  <2>5. ASSUME NEW q \in Req PROVE Behind(q)' /\ Doing(q)'
    BY <1>1, <1>2, <2>1, <2>4, OthersKeep
  <2>6. \A q \in Query : Looking(q)'
    BY <1>1, <2>1, LookingKept
  <2> QED
    BY <2>2, <2>3, <2>5, <2>6 DEF PackageInv
<1>5. CASE stage[r] = "install"
  <2> DEFINE c == Current(r)
             out == {d \in Rivals(c) : Packages[d] \cap installed # {}}
  <2>1. /\ known' = known \cup Packages[c] /\ interrupted' = interrupted
        /\ installed' = installed \ UNION {Packages[d] : d \in out}
        /\ running' = running \ out
        /\ ousted' = ousted \cup {x \in Req \X out : x[2] \in Has(x[1])}
    BY <1>5 DEF Begin
  <2>2. out \in SUBSET Component
    BY <1>1, PackagesOf
  <2>3. PackagesTypeOK'
    <3>1. known' \subseteq Package /\ installed' \subseteq known'
      BY <1>1, <2>1, PackagesOf DEF PackagesTypeOK
    <3>2. ousted' \subseteq Req \X Component
      BY <1>1, <2>1, <2>2 DEF PackagesTypeOK
    <3>3. running' \subseteq Service
      BY <1>1, <2>1 DEF PackagesTypeOK
    <3> QED
      BY <1>1, <1>2, <2>1, <3>1, <3>2, <3>3 DEF PackagesTypeOK, List
  <2>4. Touched'
    <3>1. \A q \in Req : Reached(q)' = Reached(q)
      BY <1>1, <1>3 DEF Reached
    <3>2. c \in Reached(r)
      <4>1. at[r] \in 1..(IF at[r] > Len(List(r)) THEN Len(List(r)) ELSE at[r])
        BY <1>1, Lists
      <4> QED
        BY <4>1 DEF Reached, Current
    <3>3. known \subseteq UNION {Packages[d] : d \in UNION {Reached(q) : q \in Req}}
      BY DEF PackageInv, Touched
    <3>4. known' \subseteq UNION {Packages[d] : d \in UNION {Reached(q) : q \in Req}}
      BY <2>1, <3>2, <3>3
    <3> QED
      BY <3>1, <3>4 DEF Touched
  <2> HIDE DEF out
  <2>5. ASSUME NEW q \in Req PROVE Behind(q)' /\ Doing(q)'
    <3>1. Behind(q) /\ Doing(q) /\ at[q] \in Nat
      BY <1>1 DEF PackageInv, PackagesTypeOK
    <3>2. ASSUME NEW i \in 1..(at[q] - 1) PROVE Placed(q, List(q)[i])'
      <4>1. List(q)[i] \in Component /\ Placed(q, List(q)[i]) /\ List(q)[i] \in Has(q)
        BY <1>1, <3>1, <3>2, Lists DEF Behind, Has
      <4>2. PICK d \in Component : d = List(q)[i]
        BY <4>1
      <4>3. Placed(q, d)'
        BY <1>1, <2>1, <2>2, <4>1, <4>2, OustedNoted
      <4> QED
        BY <1>3, <4>2, <4>3 DEF Placed
    <3>3. Behind(q)'
      BY <1>1, <1>3, <3>2 DEF Behind
    <3>4. stage[q] = "service" => There(q, Current(q))'
      <4> SUFFICES ASSUME stage[q] = "service" PROVE There(q, Current(q))'
        OBVIOUS
      <4>1. Current(q) \in Component /\ There(q, Current(q)) /\ Current(q) \in Has(q)
        BY <3>1, Commanded DEF Doing, Has, Waiting
      <4>2. PICK d \in Component : d = Current(q)
        BY <4>1
      <4>3. There(q, d)'
        BY <1>1, <2>1, <2>2, <4>1, <4>2, OustedNoted
      <4> QED
        BY <1>3, <4>2, <4>3 DEF There
    <3>5. CASE q = r
      <4>1. Packages[Current(q)] \subseteq known'
        BY <2>1, <3>5
      <4> QED
        BY <1>1, <1>2, <1>3, <1>5, <3>1, <3>3, <3>5, <4>1 DEF Doing
    <3>6. CASE q # r
      BY <1>1, <1>2, <1>3, <2>1, <3>1, <3>3, <3>4, <3>6 DEF Doing
    <3> QED
      BY <3>5, <3>6
  <2>6. \A q \in Query : Looking(q)'
    BY <1>1, <2>1, LookingKept
  <2> QED
    BY <2>3, <2>4, <2>5, <2>6 DEF PackageInv
<1> QED
  BY <1>4, <1>5

-----------------------------------------------------------------------------
(* The backend and its status calls *)

\* The backend dies, or the host is repaired.
LEMMA DiesKeeps ==
  ASSUME PackageInv, Dies \/ Repair
  PROVE  PackageInv'
<1>1. /\ UNCHANGED <<installed, known, running, ousted, ask, at, command, before>>
      /\ interrupted' \in BOOLEAN /\ PackagesTypeOK
  BY DEF Dies, Repair, host, requestState, queries, PackageInv,
         PackagesTypeOK
<1>2. deaths' \in 0..MaxDeaths
  BY <1>1, PackageAssumption DEF Dies, Repair, PackagesTypeOK,
                                    PackageAssumption
<1>3. /\ stage' \in [Req -> Waiting \cup {"new", "done", "failed", "lost"}]
      /\ \A q \in Req : \/ stage'[q] = stage[q]
                        \/ stage[q] \in Waiting /\ stage'[q] = "lost"
  <2>1. CASE Dies
    BY <1>1, <2>1 DEF Dies, PackagesTypeOK
  <2>2. CASE Repair
    BY <1>1, <2>2 DEF Repair, requestState, PackagesTypeOK
  <2> QED
    BY <2>1, <2>2
<1>4. ASSUME NEW q \in Query
      PROVE  /\ query'[q] \in [of : Component, pc : {"new", "open", "done", "lost"},
                               found : SUBSET Package, missed : SUBSET Package,
                               broke : SUBSET Package]
             /\ Looking(q)'
  <2>1. Looking(q) /\ query[q] \in [of : Component, pc : {"new", "open", "done", "lost"},
                               found : SUBSET Package, missed : SUBSET Package,
                               broke : SUBSET Package]
    BY <1>1 DEF PackageInv, PackagesTypeOK
  <2>2. \/ query'[q] = query[q]
        \/ query[q].pc = "open" /\ query'[q] = [query[q] EXCEPT !.pc = "lost"]
    BY DEF Dies, Repair, queries
  <2> QED
    BY <1>1, <2>1, <2>2 DEF Looking
<1>5. query' = [q \in Query |-> query'[q]]
  BY <1>1 DEF Dies, Repair, queries, PackagesTypeOK
<1>6. PackagesTypeOK'
  BY <1>1, <1>2, <1>3, <1>4, <1>5 DEF PackagesTypeOK, List
<1>7. Touched'
  BY <1>1, TouchedKept DEF PackageInv, PackagesTypeOK
<1>8. ASSUME NEW q \in Req PROVE Behind(q)' /\ Doing(q)'
  <2>1. Behind(q) /\ Doing(q)
    BY DEF PackageInv
  <2>2. /\ List(q)' = List(q) /\ Current(q)' = Current(q)
        /\ NeedsService(q)' = NeedsService(q)
    BY <1>1 DEF List, Current, NeedsService
  <2>3. Behind(q)'
    BY <1>1, <2>1, <2>2 DEF Behind, Placed
  <2>4. Doing(q)'
    BY <1>1, <1>3, <2>1, <2>2 DEF Doing, There, Waiting
  <2> QED
    BY <2>3, <2>4
<1> QED
  BY <1>4, <1>6, <1>7, <1>8 DEF PackageInv

\* A status call looks at packages.
LEMMA QueryKeeps ==
  ASSUME PackageInv, NEW q \in Query, QueryBegins(q) \/ Look(q) \/ QueryEnds(q)
  PROVE  PackageInv'
<1> DEFINE QueryRecord == [of : Component, pc : {"new", "open", "done", "lost"},
                           found : SUBSET Package, missed : SUBSET Package,
                           broke : SUBSET Package]
<1>1. /\ UNCHANGED <<installed, known, running, interrupted, ousted, ask, at, stage,
                     command, deaths>>
      /\ PackagesTypeOK /\ Looking(q) /\ query[q] \in QueryRecord
      /\ Packages[query[q].of] \subseteq Package
  BY PackagesOf DEF QueryBegins, Look, QueryEnds, host, requestState,
                    PackageInv, PackagesTypeOK
<1>2. /\ query' \in [Query -> QueryRecord] /\ before' \in [Query -> SUBSET Package]
      /\ \A p \in Query \ {q} : query'[p] = query[p] /\ before'[p] = before[p]
      /\ Looking(q)'
  <2>1. CASE QueryBegins(q)
    <3>1. PICK x : x = [query[q] EXCEPT !.pc = "open"]
      OBVIOUS
    <3>2. /\ query' = [query EXCEPT ![q] = x] /\ query[q].pc = "new"
          /\ before' = [before EXCEPT ![q] = known \cap Packages[query[q].of]]
      BY <2>1, <3>1 DEF QueryBegins
    <3>3. query'[q] = x /\ before'[q] = known \cap Packages[query[q].of]
      BY <1>1, <3>2 DEF PackagesTypeOK
    <3>4. /\ x \in QueryRecord /\ x.pc = "open" /\ x.of = query[q].of
          /\ x.found = query[q].found /\ x.missed = {}
      BY <1>1, <3>1, <3>2 DEF Looking
    <3>5. Looking(q)'
      BY <1>1, <3>3, <3>4 DEF Looking
    <3> QED
      BY <1>1, <3>2, <3>4, <3>5 DEF PackagesTypeOK
  <2>2. CASE Look(q)
    <3>1. PICK p \in Left(q) :
            query' \in {[query EXCEPT ![q] = IF p \in known THEN Found(q, p)
                                             ELSE Missed(q, p)],
                        [query EXCEPT ![q] = FailedLook(q, p)]}
      BY <2>2 DEF Look
    <3>2. PICK x : /\ query' = [query EXCEPT ![q] = x]
                   /\ \/ p \in known /\ x = Found(q, p)
                      \/ p \notin known /\ x = Missed(q, p)
                      \/ x = FailedLook(q, p)
      BY <3>1
    <3>3. query'[q] = x /\ before' = before /\ query[q].pc = "open"
      BY <1>1, <2>2, <3>2 DEF PackagesTypeOK, Look
    <3>4. p \in Packages[query[q].of]
      BY <3>1 DEF Left
    <3>5. /\ x \in QueryRecord /\ x.pc = "open" /\ x.of = query[q].of
          /\ \/ /\ p \in known /\ x.found = query[q].found \cup {p}
                /\ x.missed = query[q].missed /\ x.broke = query[q].broke
             \/ /\ x.found = query[q].found /\ x.missed = query[q].missed \cup {p}
                /\ p \notin known /\ x.broke = query[q].broke
             \/ /\ x.found = query[q].found /\ x.missed = query[q].missed \cup {p}
                /\ x.broke = query[q].broke \cup {p}
      <4>1. CASE p \in known /\ x = Found(q, p)
        BY <1>1, <3>3, <3>4, <4>1 DEF Found
      <4>2. CASE p \notin known /\ x = Missed(q, p)
        BY <1>1, <3>3, <3>4, <4>2 DEF Missed
      <4>3. CASE x = FailedLook(q, p)
        <5>1. x = [query[q] EXCEPT !.missed = query[q].missed \cup {p},
                                   !.broke = query[q].broke \cup {p}]
          BY <4>3 DEF FailedLook
        <5>2. /\ query[q].missed \cup {p} \in SUBSET Package
              /\ query[q].broke \cup {p} \in SUBSET Package
          BY <1>1, <3>4
        <5>3. /\ x \in QueryRecord /\ x.pc = "open" /\ x.of = query[q].of
              /\ x.found = query[q].found /\ x.missed = query[q].missed \cup {p}
              /\ x.broke = query[q].broke \cup {p}
          BY <1>1, <3>3, <5>1, <5>2
        <5> QED
          BY <5>3
      <4> QED
        BY <3>2, <4>1, <4>2, <4>3
    <3>6. Looking(q)'
      BY <1>1, <3>3, <3>4, <3>5 DEF Looking
    <3> QED
      BY <1>1, <3>2, <3>3, <3>5, <3>6 DEF PackagesTypeOK
  <2>3. CASE QueryEnds(q)
    <3>1. PICK x : x = [query[q] EXCEPT !.pc = "done"]
      OBVIOUS
    <3>2. /\ query' = [query EXCEPT ![q] = x] /\ Left(q) = {} /\ before' = before
      BY <2>3, <3>1 DEF QueryEnds
    <3>3. query'[q] = x
      BY <1>1, <3>2 DEF PackagesTypeOK
    <3>4. /\ x \in QueryRecord /\ x.pc = "done" /\ x.of = query[q].of
          /\ x.found = query[q].found /\ x.missed = query[q].missed
          /\ x.broke = query[q].broke
      BY <1>1, <3>1
    <3>5. Looking(q)'
      BY <1>1, <3>2, <3>3, <3>4 DEF Looking, Left
    <3> QED
      BY <1>1, <3>2, <3>4, <3>5 DEF PackagesTypeOK
  <2> QED
    BY <2>1, <2>2, <2>3
<1>3. PackagesTypeOK'
  BY <1>1, <1>2 DEF PackagesTypeOK, List
<1>4. Touched'
  BY <1>1, TouchedKept DEF PackageInv, PackagesTypeOK
<1>5. ASSUME NEW r \in Req PROVE Behind(r)' /\ Doing(r)'
  BY <1>1, OthersKeep
<1>6. ASSUME NEW p \in Query PROVE Looking(p)'
  <2>1. Looking(p)
    BY DEF PackageInv
  <2> QED
    BY <1>1, <1>2, <2>1 DEF Looking
<1> QED
  BY <1>3, <1>4, <1>5, <1>6 DEF PackageInv

-----------------------------------------------------------------------------
(* The theorems *)

\* Nothing has been asked or looked at.
LEMMA PackageInvInit == PackagesInit => PackageInv
<1> SUFFICES ASSUME PackagesInit PROVE PackageInv
  OBVIOUS
<1>1. \A r \in Req : ask[r] \in Ask /\ at[r] = 1 /\ stage[r] = "new" /\ command[r] = "none"
  BY DEF PackagesInit
<1>2. \A r \in Req : Len(List(r)) \in Nat \ {0}
  <2>1. \A r \in Req : List(r) \in Seq(Component) \ {<<>>}
    BY <1>1, PackageAssumption DEF PackageAssumption, List
  <2> QED
    BY <2>1
<1>3. PackagesTypeOK
  <2>1. deaths \in 0..MaxDeaths
    BY PackageAssumption DEF PackageAssumption, PackagesInit
  <2>2. query \in [Query -> [of : Component, pc : {"new", "open", "done", "lost"},
                             found : SUBSET Package, missed : SUBSET Package,
                             broke : SUBSET Package]]
    BY DEF PackagesInit
  <2>3. /\ ask \in [Req -> Ask] /\ at \in [Req -> Nat]
        /\ stage \in [Req -> Waiting \cup {"new", "done", "failed", "lost"}]
        /\ command \in [Req -> Waiting \cup {"none"}]
    BY DEF PackagesInit, Waiting
  <2>4. \A r \in Req : at[r] \in 1..(Len(List(r)) + 1)
    BY <1>1, <1>2
  <2>5. /\ installed \subseteq known /\ known \subseteq Package
        /\ running \subseteq Service /\ interrupted \in BOOLEAN
        /\ ousted \subseteq Req \X Component /\ before \in [Query -> SUBSET Package]
    BY DEF PackagesInit
  <2> QED
    BY <2>1, <2>2, <2>3, <2>4, <2>5 DEF PackagesTypeOK
<1>4. Touched
  BY DEF PackagesInit, Touched
<1>5. ASSUME NEW r \in Req PROVE Behind(r) /\ Doing(r)
  BY <1>1, <1>2 DEF Behind, Doing
<1>6. \A q \in Query : Looking(q)
  BY DEF PackagesInit, Looking
<1> QED
  BY <1>3, <1>4, <1>5, <1>6 DEF PackageInv

\* Every step keeps the invariant.
LEMMA PackageInvNext == PackageInv /\ [PackagesNext]_packageVars => PackageInv'
<1> SUFFICES ASSUME PackageInv, [PackagesNext]_packageVars PROVE PackageInv'
  OBVIOUS
<1>1. CASE Dies \/ Repair
  BY <1>1, DiesKeeps
<1>2. ASSUME NEW r \in Req, StartInstall(r) \/ RequestStep(r) PROVE PackageInv'
  BY <1>2, StartKeeps, BeginKeeps, AnswersKeep DEF RequestStep
<1>3. ASSUME NEW q \in Query, QueryBegins(q) \/ Look(q) \/ QueryEnds(q) PROVE PackageInv'
  BY <1>3, QueryKeeps
<1>4. CASE UNCHANGED packageVars
  <2>1. /\ UNCHANGED <<installed, known, running, interrupted, ousted, ask, at, stage,
                       command, deaths, query, before>>
        /\ PackagesTypeOK
    BY <1>4 DEF packageVars, host, requestState, queries, PackageInv
  <2>2. PackagesTypeOK'
    BY <2>1 DEF PackagesTypeOK, List
  <2>3. Touched'
    BY <2>1, TouchedKept DEF PackageInv, PackagesTypeOK
  <2>4. ASSUME NEW r \in Req PROVE Behind(r)' /\ Doing(r)'
    BY <2>1, OthersKeep
  <2>5. \A q \in Query : Looking(q)'
    BY <2>1, LookingKept
  <2> QED
    BY <2>2, <2>3, <2>4, <2>5 DEF PackageInv
<1> QED
  BY <1>1, <1>2, <1>3, <1>4 DEF PackagesNext

\* The components before the point a request has reached are installed, or a
\* rival was installed over them, and nothing beyond was touched.
THEOREM StackCorrect == PackagesSpec => []StackIsPrefix
<1>1. PackageInv => StackIsPrefix
  BY DEF PackageInv, StackIsPrefix, Behind, Placed, Doing, Touched
<1> QED
  BY <1>1, PackageInvInit, PackageInvNext, PTL DEF PackagesSpec

\* A status answer says what dpkg knew.
THEOREM StatusCorrect == PackagesSpec => []StatusKnows
<1>1. PackageInv => StatusKnows
  BY DEF PackageInv, StatusKnows, Looking
<1> QED
  BY <1>1, PackageInvInit, PackageInvNext, PTL DEF PackagesSpec
=============================================================================
