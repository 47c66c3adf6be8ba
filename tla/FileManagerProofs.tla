--------------------------- MODULE FileManagerProofs ---------------------------
(***************************************************************************)
(* What a request to the file manager leaves, for any number of requests,  *)
(* any paths and limits.                                                   *)
(*                                                                         *)
(* What a request has looked at is stale once another one of the same file *)
(* is under way.  The proof follows mixed, the requests another one may    *)
(* have disturbed: Apart says that no two that touch are missing from it,  *)
(* so what the others in Clear know of their files stays true.             *)
(***************************************************************************)
EXTENDS FileManagerPaths, FiniteSetTheorems, SequenceTheorems, TLAPS

Paths(r) == job[r].in.paths

\* What a request is at, by its kind.
Placed(r) ==
  /\ job[r].pc = "new" => job[r] = NewJob
  /\ job[r].pc # "new" => job[r].in \in Input[r]
  /\ job[r].pc \in {"open", "data"} => job[r].in.kind \in {"upload", "write", "unzip"}
  /\ job[r].pc \in {"zip", "stat", "remove"} => Is(r, "zip")
  /\ job[r].pc = "chown" => Is(r, "chown")
  /\ job[r].pc = "list" => Is(r, "list")
  /\ job[r].pc = "tell" => job[r].in.kind \in Readers
  /\ job[r].todo \subseteq Paths(r)
  /\ job[r].pc = "data" => job[r].at \in wrote[r] /\ job[r].at \notin job[r].todo
  /\ job[r].pc = "look" => job[r].told = {}

\* What a request has changed; a file is its text only if it has changed it.
Marked(r) ==
  /\ wrote[r] \subseteq Paths(r)
  /\ job[r].pc \in {"new", "look", "zip", "chown", "list", "tell"} => wrote[r] = {}
  /\ \A p \in Path : file[p] # None => (file[p].by = r => p \in wrote[r])

\* Of two requests for one file, the one another may disturb is known to be.
Apart ==
  \A q, r \in Req :
    q # r /\ Active(q) /\ Active(r) /\ Paths(q) \cap Paths(r) # {} /\ Changing(job[q].in)
      => r \in mixed

\* The text a request has sent is the whole text of p.
Whole(r, p) == file[p] # None /\ file[p].by = r /\ file[p].size = job[r].in.size

\* What a request nobody disturbs knows of its files.
Clear(r) ==
  r \notin mixed =>
    /\ ~job[r].in.overwrite /\ job[r].pc = "look" /\ job[r].in.kind \in Writers =>
         \A p \in Paths(r) \ job[r].todo : file[p] = None
    /\ ~job[r].in.overwrite /\ job[r].pc \in {"open", "data", "zip"} =>
         \A p \in job[r].todo : file[p] = None
    /\ job[r].pc = "zip" => job[r].todo = Paths(r)
    /\ job[r].pc = "open" => \A p \in Paths(r) \ job[r].todo : Whole(r, p)
    /\ job[r].pc = "data" =>
         /\ \A p \in Paths(r) \ (job[r].todo \cup {job[r].at}) : Whole(r, p)
         /\ file[job[r].at] # None /\ file[job[r].at].born = job[r].holds
         /\ file[job[r].at].size = 0
    /\ job[r].pc = "stat" => Whole(r, Target(r))
    /\ job[r].pc = "chown" /\ file[Target(r)] # None =>
         job[r].saw = <<file[Target(r)].uid, file[Target(r)].gid>>
    /\ job[r].pc = "list" =>
         job[r].told = {Entry(p) : p \in {p \in Path \ job[r].todo : file[p] # None}}
    /\ job[r].pc = "list" => \A p \in job[r].todo : file[p] # None
    /\ job[r].pc = "tell" /\ Is(r, "list") =>
         job[r].told = {Entry(p) : p \in {p \in Path : file[p] # None}}
    /\ job[r].pc = "tell" /\ ~Is(r, "list") =>
         /\ job[r].told = {Entry(Target(r))}
         /\ Is(r, "read") => file[Target(r)].size <= Limit["read"]

\* The inductive invariant.
IInv ==
  /\ RefusedChangesNothing
  /\ NoReplaceUnasked
  /\ \A x \in replaced : x[2] \in wrote[x[1]]
  /\ \A r \in Req : Placed(r) /\ Marked(r) /\ Clear(r)
  /\ Apart

\* What is asked, and the record of a request.
Asked == (UNION {Input[r] : r \in Req}) \cup {NoInput}

JobRecord == [pc : Pcs, in : Asked, todo : SUBSET Path, at : Path \cup {None},
              holds : Req \cup {None}, saw : Ids \X Ids,
              told : SUBSET (Path \X (0..MaxSize)), text : Texts \cup {None}]

-----------------------------------------------------------------------------
(* Inputs and files *)

\* What a request may ask; most are of one path.
LEMMA InputFacts ==
  ASSUME NEW r \in Req, Placed(r), job[r].pc # "new"
  PROVE  /\ job[r].in.kind \in Kind /\ job[r].in.size \in 1..MaxSize
         /\ Paths(r) \subseteq Path /\ Paths(r) # {}
         /\ job[r].in.ids \subseteq {"uid", "gid"} /\ job[r].in.overwrite \in BOOLEAN
         /\ job[r].in.kind \notin {"unzip", "list"} =>
              Target(r) \in Path /\ Paths(r) = {Target(r)}
         /\ Is(r, "list") => Paths(r) = Path
         /\ job[r].in \in Asked
<1>1. job[r].in \in Input[r] /\ r \in Req
  BY DEF Placed
<1>2. job[r].in \in [kind : Kind, paths : (SUBSET Path) \ {{}}, overwrite : BOOLEAN,
                     size : 1..MaxSize, ids : SUBSET {"uid", "gid"}]
  BY <1>1, FileManagerAssumption DEF FileManagerAssumption
<1>3. job[r].in.kind \notin {"unzip", "list"} => \E p \in Path : Paths(r) = {p}
  BY <1>1, FileManagerAssumption DEF FileManagerAssumption, Paths
<1>4. job[r].in.kind \notin {"unzip", "list"} => Target(r) \in Path /\ Paths(r) = {Target(r)}
  BY <1>3 DEF Target, Paths
<1>5. Is(r, "list") => Paths(r) = Path
  BY <1>1, FileManagerAssumption DEF FileManagerAssumption, Is, Paths
<1> QED
  BY <1>1, <1>2, <1>4, <1>5 DEF Asked, Paths

\* A record of a file is not the sign that there is none.
LEMMA FileFacts ==
  /\ None \notin Files /\ None \notin Req /\ MaxSize \in Nat
  /\ \A f \in Files : /\ f.size \in 0..MaxSize /\ f.born \in Req \cup {None}
                     /\ f.uid \in Ids /\ f.gid \in Ids /\ f.by \in Texts
  /\ "original" \notin Req /\ "mixed" \notin Req
BY FileManagerAssumption DEF FileManagerAssumption, Files

\* A file with a new text.
LEMMA PutFacts ==
  ASSUME TypeOK, NEW q \in Req, NEW p \in Path, NEW n \in 0..MaxSize,
         NEW by \in {q, "mixed"}
  PROVE  /\ Put(q, p, by, n) \in Files
         /\ Put(q, p, by, n).by = by /\ Put(q, p, by, n).size = n
         /\ Put(q, p, by, n).born = IF file[p] = None THEN q ELSE file[p].born
<1>1. CASE file[p] = None
  <2>1. PICK f : f = [born |-> q, by |-> by, size |-> n, uid |-> Root, gid |-> Root,
                      mode |-> Root]
    OBVIOUS
  <2>2. f \in Files /\ f.by = by /\ f.size = n /\ f.born = q
    BY <2>1 DEF Files, Ids, Texts
  <2> QED
    BY <1>1, <2>1, <2>2 DEF Put
<1>2. CASE file[p] # None
  <2>1. file[p] \in Files
    BY <1>2 DEF TypeOK
  <2>2. PICK f : f = [file[p] EXCEPT !.by = by, !.size = n]
    OBVIOUS
  <2>3. f \in Files /\ f.by = by /\ f.size = n /\ f.born = file[p].born
    BY <2>1, <2>2 DEF Files, Texts
  <2> QED
    BY <1>2, <2>2, <2>3 DEF Put
<1> QED
  BY <1>1, <1>2

\* A write to a descriptor changes the text of its file, if it is still there.
LEMMA WrittenFacts ==
  ASSUME TypeOK, NEW q \in Req, job[q].at \in Path, NEW n \in 0..MaxSize,
         NEW by \in Req \cup {"mixed"}
  PROVE  \/ Written(q, n, by) = file
         \/ \E f \in Files :
              /\ Written(q, n, by) = [file EXCEPT ![job[q].at] = f]
              /\ f.by \in {by, "mixed"}
<1>1. PICK a \in Path : a = job[q].at
  OBVIOUS
<1>2. CASE file[a] = None \/ file[a].born # job[q].holds
  BY <1>1, <1>2 DEF Written
<1>3. CASE file[a] # None /\ file[a].born = job[q].holds
  <2>1. file[a] \in Files
    BY <1>3 DEF TypeOK
  <2>2. PICK f : f = IF file[a].size <= n THEN [file[a] EXCEPT !.by = by, !.size = n]
                                          ELSE [file[a] EXCEPT !.by = "mixed"]
    OBVIOUS
  <2>3. f \in Files /\ f.by \in {by, "mixed"}
    BY <2>1, <2>2 DEF Files, Texts
  <2>4. Written(q, n, by) = [file EXCEPT ![a] = f]
    BY <1>1, <1>3, <2>2 DEF Written
  <2> QED
    BY <1>1, <2>3, <2>4
<1> QED
  BY <1>2, <1>3

\* A request that has not come yet.
LEMMA NewJobFacts ==
  /\ NewJob \in JobRecord /\ NewJob.pc = "new" /\ NewJob.todo = {} /\ NewJob.in = NoInput
  /\ NewJob.at = None /\ NewJob.told = {}
<1>1. "new" \in Pcs
  BY DEF Pcs
<1>2. NoInput \in Asked
  BY DEF Asked
<1>3. <<Root, Root>> \in Ids \X Ids
  BY DEF Ids
<1> QED
  BY <1>1, <1>2, <1>3 DEF NewJob, JobRecord

\* Before any request.
LEMMA Initial == Init => IInv
<1> SUFFICES ASSUME Init PROVE IInv
  OBVIOUS
<1>1. NewJob \in JobRecord /\ NewJob.pc = "new" /\ NewJob.todo = {} /\ NewJob.in = NoInput
  BY NewJobFacts
<1>2. \A r \in Req : job[r] = NewJob /\ wrote[r] = {}
  BY DEF Init
<1>3. \A n \in 1..MaxSize : Original(n) \in Files /\ Original(n).by = "original"
  BY FileManagerAssumption DEF Original, Files, Ids, Texts, FileManagerAssumption
<1>4. \A p \in Path : file[p] = None \/ (file[p] \in Files /\ file[p].by = "original")
  BY <1>3 DEF Init
<1>5. TypeOK
  BY <1>1, <1>2, <1>3 DEF Init, TypeOK, JobRecord, Asked
<1>6. \A r \in Req : Placed(r) /\ Marked(r) /\ Clear(r)
  BY <1>1, <1>2, <1>4, FileFacts DEF Placed, Marked, Clear, Paths
<1>7. Apart /\ RefusedChangesNothing
  BY <1>1, <1>2, <1>5 DEF Apart, Active, RefusedChangesNothing
<1> QED
  BY <1>6, <1>7 DEF IInv, Init, NoReplaceUnasked

-----------------------------------------------------------------------------
(* What a step changes *)

\* A step changes the record of its own request, and of the files at most one
\* of those the request is about; no file becomes the text of another one.
StepOf(q) ==
  /\ \E j \in JobRecord :
       /\ job' = [job EXCEPT ![q] = j]
       /\ j.pc # "new" /\ j.in \in Input[q]
       /\ job[q].pc # "new" => j.in = job[q].in
       /\ j.pc = "data" => j.at \in j.in.paths
  /\ file' \in [Path -> Files \cup {None}]
  /\ \A p \in Path : file'[p] # file[p] =>
       Active(q) /\ Changing(job[q].in) /\ p \in Paths(q)
  /\ \A p \in Path, r \in Req \ {q} : file'[p] # None /\ file'[p].by = r =>
       file[p] # None /\ file[p].by = r /\ file'[p].size = file[p].size
  /\ wrote' \in [Req -> SUBSET Path]
  /\ \A r \in Req \ {q} : wrote'[r] = wrote[r]
  /\ wrote[q] \subseteq wrote'[q]
  /\ replaced' \subseteq Req \X Path
  /\ \A x \in replaced' : x \in replaced \/ (x[1] = q /\ x[2] \in wrote'[q])
  /\ mixed \subseteq mixed' /\ mixed' \subseteq Req
  /\ job[q].pc # "new" => mixed' = mixed
  /\ job[q].pc = "new" => mixed' = mixed \/ mixed' = mixed \cup Disturbed(q, job'[q].in)
  /\ job[q].pc = "new" /\ Active(q)' => mixed' = mixed \cup Disturbed(q, job'[q].in)

\* Every step is of this form.
LEMMA StepEffects ==
  ASSUME IInv, NEW q \in Req, Step(q)
  PROVE  StepOf(q)
<1> DEFINE P(j) == /\ j \in JobRecord
                   /\ job' = [job EXCEPT ![q] = j]
                   /\ j.pc # "new" /\ j.in \in Input[q]
                   /\ job[q].pc # "new" => j.in = job[q].in
                   /\ j.pc = "data" => j.at \in j.in.paths
<1>1. TypeOK /\ Placed(q) /\ Marked(q)
  BY DEF IInv, RefusedChangesNothing
<1>2. job \in [Req -> JobRecord] /\ job[q] \in JobRecord
  BY <1>1 DEF TypeOK, JobRecord, Asked
<1>3. /\ file \in [Path -> Files \cup {None}] /\ mixed \subseteq Req
      /\ wrote \in [Req -> SUBSET Path] /\ replaced \subseteq Req \X Path
      /\ \A p \in Path : file[p] # None => file[p] \in Files
  BY <1>1 DEF TypeOK
<1>4. job[q].pc # "new" =>
        /\ job[q].in.size \in 1..MaxSize /\ Paths(q) \subseteq Path
        /\ job[q].in.kind \notin {"unzip", "list"} => Target(q) \in Path /\ Paths(q) = {Target(q)}
        /\ job[q].in \in Input[q]
  BY <1>1, InputFacts DEF Placed
<1>g. ASSUME NEW p \in Pcs \ {"new"}, p = "data" => job[q].at \in Paths(q),
             Goto(q, p), job[q].pc # "new"
      PROVE  \E j : P(j)
  <2>1. PICK j : j = [job[q] EXCEPT !.pc = p]
    OBVIOUS
  <2>2. j \in JobRecord /\ j.pc = p /\ j.in = job[q].in /\ j.at = job[q].at
    BY <1>2, <2>1 DEF JobRecord
  <2>3. job' = [job EXCEPT ![q] = j]
    BY <1>2, <1>g, <2>1 DEF Goto
  <2> QED
    BY <1>4, <1>g, <2>2, <2>3 DEF Paths
<1>n. NewJob \in JobRecord
  BY NewJobFacts
<1>a. ASSUME NEW how \in Answers, Answer(q, how), job[q].pc # "new" PROVE \E j : P(j)
  <2>1. PICK j : j = [NewJob EXCEPT !.pc = how, !.in = job[q].in]
    OBVIOUS
  <2>2. j \in JobRecord /\ j.pc = how /\ j.in = job[q].in
    BY <1>2, <1>a, <1>n, <2>1 DEF JobRecord, Pcs
  <2>3. job' = [job EXCEPT ![q] = j]
    BY <1>a, <2>1 DEF Answer
  <2> QED
    BY <1>4, <1>a, <2>2, <2>3 DEF Answers
<1>f. ASSUME \E j : P(j), job[q].pc # "new", UNCHANGED <<file, mixed, history>>
      PROVE  StepOf(q)
  BY <1>f, <1>3 DEF StepOf, history
<1>w. ASSUME NEW j, P(j), NEW p \in Paths(q), NEW f \in Files \cup {None}, Active(q),
             Changing(job[q].in), UNCHANGED mixed,
             file' = [file EXCEPT ![p] = f],
             \A r \in Req \ {q} : f # None /\ f.by = r => file[p] # None /\ file[p].by = r
                                                          /\ f.size = file[p].size,
             Changes(q, p) \/ UNCHANGED wrote,
             (Changes(q, p) /\ Replaces(q, p)) \/ UNCHANGED replaced
      PROVE  StepOf(q)
  <2>1. p \in Path /\ job[q].pc # "new"
    BY <1>4, <1>w DEF Active
  <2>2. wrote' \in [Req -> SUBSET Path] /\ wrote[q] \subseteq wrote'[q]
        /\ \A r \in Req \ {q} : wrote'[r] = wrote[r]
    BY <2>1, <1>3, <1>w DEF Changes
  <2>3. replaced' \subseteq Req \X Path
        /\ \A x \in replaced' : x \in replaced \/ (x[1] = q /\ x[2] \in wrote'[q])
    <3>1. CASE UNCHANGED replaced
      BY <3>1, <1>3
    <3>2. CASE Changes(q, p) /\ Replaces(q, p)
      BY <3>2, <2>1, <1>3 DEF Changes, Replaces
    <3> QED
      BY <1>w, <3>1, <3>2
  <2>4. /\ file' \in [Path -> Files \cup {None}]
        /\ \A x \in Path : file'[x] # file[x] => x = p
        /\ file'[p] = f
    BY <2>1, <1>3, <1>w
  <2>5. \A x \in Path, r \in Req \ {q} : file'[x] # None /\ file'[x].by = r =>
          file[x] # None /\ file[x].by = r /\ file'[x].size = file[x].size
    BY <2>4, <1>w
  <2> QED
    BY <1>w, <1>3, <2>1, <2>2, <2>3, <2>4, <2>5 DEF StepOf
<1> HIDE DEF P
<1>5. CASE Receive(q) \/ RefuseTooLarge(q)
  <2>a. PICK x \in Input[q] :
          \/ /\ job' = [job EXCEPT ![q] = [NewJob EXCEPT !.pc = "look", !.in = x,
                                                          !.todo = x.paths]]
             /\ mixed' = mixed \cup Disturbed(q, x)
          \/ /\ job' = [job EXCEPT ![q] = [NewJob EXCEPT !.pc = "refused", !.in = x]]
             /\ mixed' = mixed
    BY <1>5 DEF Receive, RefuseTooLarge
  <2>b. PICK l : l = [NewJob EXCEPT !.pc = "look", !.in = x, !.todo = x.paths]
    OBVIOUS
  <2>c. PICK d : d = [NewJob EXCEPT !.pc = "refused", !.in = x]
    OBVIOUS
  <2>d. l.pc = "look" /\ d.pc = "refused"
    BY <1>n, <2>b, <2>c DEF JobRecord
  <2>1. PICK j : /\ j = l \/ j = d
                 /\ job' = [job EXCEPT ![q] = j]
                 /\ j.pc = "look" => mixed' = mixed \cup Disturbed(q, x)
                 /\ j.pc = "refused" => mixed' = mixed
    BY <2>a, <2>b, <2>c, <2>d
  <2>2. x \in Asked /\ x.paths \in SUBSET Path
    BY FileManagerAssumption DEF FileManagerAssumption, Asked
  <2>3. j \in JobRecord /\ j.in = x /\ j.pc \in {"look", "refused"}
    BY <2>b, <2>c, <2>1, <2>2, <1>n DEF JobRecord, Pcs, Answers
  <2>4. UNCHANGED <<file, history>> /\ job[q].pc = "new"
    BY <1>5 DEF Receive, RefuseTooLarge
  <2>5. job'[q] = j
    BY <1>2, <2>1
  <2>6. Disturbed(q, x) \subseteq Req
    BY DEF Disturbed, Overlaps
  <2>7. Active(q)' <=> j.pc = "look"
    BY <2>3, <2>5 DEF Active, Answers
  <2> QED
    BY <2>1, <2>3, <2>4, <2>5, <2>6, <2>7, <1>3 DEF StepOf, history
<1>6. CASE LookAtTarget(q)
  <2>1. job[q].pc = "look" /\ UNCHANGED <<file, mixed, history>>
    BY <1>6 DEF LookAtTarget
  <2>2. CASE Answer(q, "refused")
    BY <2>1, <2>2, <1>a, <1>f DEF Answers
  <2>3. CASE \E p \in job[q].todo : job' = [job EXCEPT ![q].todo = @ \ {p}]
    <3>1. PICK p \in job[q].todo : job' = [job EXCEPT ![q].todo = job[q].todo \ {p}]
      BY <2>3
    <3>2. PICK j : j = [job[q] EXCEPT !.todo = job[q].todo \ {p}]
      OBVIOUS
    <3>3. j \in JobRecord /\ j.pc = "look" /\ j.in = job[q].in
      BY <1>2, <2>1, <3>2 DEF JobRecord
    <3>4. job' = [job EXCEPT ![q] = j]
      BY <1>2, <3>1, <3>2
    <3> QED
      BY <1>4, <1>f, <2>1, <3>3, <3>4 DEF P
  <2> QED
    BY <1>6, <2>2, <2>3 DEF LookAtTarget
<1>7. CASE LookedAtAll(q)
  <2>1. PICK pc \in {"zip", "open"} :
          job' = [job EXCEPT ![q].pc = pc, ![q].todo = Paths(q)]
    BY <1>7 DEF LookedAtAll, Paths
  <2>2. job[q].pc = "look" /\ UNCHANGED <<file, mixed, history>>
    BY <1>7 DEF LookedAtAll
  <2>3. PICK j : j = [job[q] EXCEPT !.pc = pc, !.todo = Paths(q)]
    OBVIOUS
  <2>4. j \in JobRecord /\ j.pc = pc /\ j.in = job[q].in
    BY <1>2, <1>4, <2>2, <2>3 DEF JobRecord, Pcs
  <2>5. job' = [job EXCEPT ![q] = j]
    BY <1>2, <2>1, <2>3
  <2> QED
    BY <1>4, <1>f, <2>2, <2>4, <2>5 DEF P
<1>8. CASE OpenTarget(q)
  <2>1. PICK p \in job[q].todo :
          /\ file' = [file EXCEPT ![p] = Put(q, p, q, 0)]
          /\ job' = [job EXCEPT ![q].pc = "data", ![q].at = p,
                                ![q].todo = job[q].todo \ {p}, ![q].holds = file'[p].born]
          /\ Changes(q, p) /\ Replaces(q, p)
    BY <1>8 DEF OpenTarget
  <2>2. /\ p \in Paths(q) /\ p \in Path /\ job[q].pc = "open" /\ Active(q)
        /\ Changing(job[q].in) /\ UNCHANGED mixed
    BY <1>1, <1>4, <1>8, <2>1 DEF OpenTarget, Placed, Active, Changing,
                                  Readers, Answers
  <2>3. PICK f : f = Put(q, p, q, 0)
    OBVIOUS
  <2>4. f \in Files /\ f.by = q /\ f.born \in Req \cup {None}
    BY <1>1, <2>2, <2>3, FileFacts, PutFacts
  <2>5. file' = [file EXCEPT ![p] = f] /\ file'[p] = f
    BY <1>3, <2>1, <2>2, <2>3
  <2>6. PICK j : j = [job[q] EXCEPT !.pc = "data", !.at = p, !.todo = job[q].todo \ {p},
                                    !.holds = f.born]
    OBVIOUS
  <2>7. j \in JobRecord /\ j.pc = "data" /\ j.in = job[q].in /\ j.at = p
    BY <1>2, <2>2, <2>4, <2>6 DEF JobRecord, Pcs
  <2>8. job' = [job EXCEPT ![q] = j]
    BY <1>2, <2>1, <2>5, <2>6
  <2>9. P(j)
    BY <1>4, <2>2, <2>7, <2>8 DEF P, Paths
  <2> QED
    BY <2>1, <2>2, <2>4, <2>5, <2>9, <1>w
<1>9. CASE OpenExists(q)
  BY <1>9, <1>a, <1>f DEF OpenExists, Answers
<1>10. ASSUME job[q].pc = "data", UNCHANGED <<mixed, history>>, \E j : P(j),
              NEW n \in 0..MaxSize, NEW by \in {q, "mixed"}, file' = Written(q, n, by)
       PROVE  StepOf(q)
  <2>1. job[q].at \in Paths(q) /\ Paths(q) \subseteq Path /\ job[q].at \in Path
    BY <1>1, <1>4, <1>10 DEF Placed, Marked
  <2>2. Active(q) /\ Changing(job[q].in)
    BY <1>1, <1>10 DEF Placed, Active, Changing, Readers, Answers
  <2>3. CASE file' = file
    BY <1>10, <1>f, <2>3
  <2>4. CASE \E f \in Files : file' = [file EXCEPT ![job[q].at] = f] /\ f.by \in {by, "mixed"}
    <3>1. PICK f \in Files : file' = [file EXCEPT ![job[q].at] = f] /\ f.by \in {by, "mixed"}
      BY <2>4
    <3>2. \A r \in Req \ {q} : f.by # r
      BY <3>1, <1>10, FileFacts
    <3>3. PICK j : P(j)
      BY <1>10
    <3>4. UNCHANGED <<mixed, wrote, replaced>>
      BY <1>10 DEF history
    <3>5. PICK a \in Paths(q) : a = job[q].at
      BY <2>1
    <3>6. file' = [file EXCEPT ![a] = f]
      BY <3>1, <3>5
    <3>7. \A r \in Req \ {q} : f # None /\ f.by = r => file[a] # None /\ file[a].by = r
                                                       /\ f.size = file[a].size
      BY <3>2
    <3>8. (Changes(q, a) \/ UNCHANGED wrote)
            /\ ((Changes(q, a) /\ Replaces(q, a)) \/ UNCHANGED replaced)
      BY <3>4
    <3>9. f \in Files \cup {None} /\ UNCHANGED mixed
      BY <3>4
    <3> QED
      BY <2>2, <3>3, <3>5, <3>6, <3>7, <3>8, <3>9, <1>w
  <2> QED
    BY <1>1, <1>10, <2>1, <2>3, <2>4, WrittenFacts
<1>11. CASE WriteTarget(q)
  <2>1. /\ job[q].pc = "data" /\ UNCHANGED <<mixed, history>>
        /\ file' = Written(q, job[q].in.size, q)
    BY <1>11 DEF WriteTarget
  <2>2. \E j : P(j)
    BY <1>11, <2>1, <1>a, <1>g DEF WriteTarget, Answers, Pcs
  <2>3. job[q].in.size \in 0..MaxSize
    BY <2>1, <1>4
  <2> QED
    BY <2>1, <2>2, <2>3, <1>10
<1>12. CASE WriteZip(q)
  <2>1. PICK p : p = Target(q)
    OBVIOUS
  <2>2. /\ p \in Paths(q) /\ p \in Path /\ job[q].pc = "zip" /\ Active(q)
        /\ Changing(job[q].in) /\ UNCHANGED mixed /\ job[q].in.size \in 0..MaxSize
    BY <1>1, <1>4, <1>12, <2>1 DEF WriteZip, Placed, Active, Changing, Readers,
                                   Is, Answers
  <2>3. PICK f : f = Put(q, p, q, job[q].in.size)
    OBVIOUS
  <2>4. f \in Files /\ f.by = q
    BY <1>1, <2>2, <2>3, PutFacts
  <2>5. file' = [file EXCEPT ![p] = f] /\ Changes(q, p) /\ Replaces(q, p)
    BY <1>12, <2>1, <2>3 DEF WriteZip
  <2>6. PICK j : P(j)
    BY <1>12, <2>2, <1>g DEF WriteZip, Pcs
  <2> QED
    BY <2>2, <2>4, <2>5, <2>6, <1>w
<1>13. CASE MeasureZip(q)
  <2>1. \E j : P(j)
    BY <1>13, <1>a, <1>g DEF MeasureZip, Answers, Pcs
  <2> QED
    BY <1>13, <2>1, <1>f DEF MeasureZip
<1>14. CASE RemoveZip(q)
  <2>1. PICK p : p = Target(q)
    OBVIOUS
  <2>2. /\ p \in Paths(q) /\ p \in Path /\ job[q].pc = "remove" /\ Active(q)
        /\ Changing(job[q].in) /\ UNCHANGED <<mixed, replaced>>
    BY <1>1, <1>4, <1>14, <2>1 DEF RemoveZip, Placed, Active, Changing,
                                   Readers, Is, Answers
  <2>3. file' = [file EXCEPT ![p] = None] /\ Changes(q, p)
    BY <1>14, <2>1 DEF RemoveZip
  <2>4. PICK j : P(j)
    BY <1>14, <2>2, <1>a DEF RemoveZip, Answers
  <2> QED
    BY <2>2, <2>3, <2>4, <1>w
<1>15. CASE LookAtOwner(q)
  <2>1. /\ job[q].pc = "look" /\ Is(q, "chown") /\ file[Target(q)] # None
        /\ UNCHANGED <<file, mixed, history>>
        /\ job' = [job EXCEPT ![q].pc = "chown",
                              ![q].saw = <<file[Target(q)].uid, file[Target(q)].gid>>]
    BY <1>15 DEF LookAtOwner
  <2>2. PICK saw : saw = <<file[Target(q)].uid, file[Target(q)].gid>>
    OBVIOUS
  <2>3. saw \in Ids \X Ids
    BY <1>3, <1>4, <2>1, <2>2, FileFacts DEF Is
  <2>4. PICK j : j = [job[q] EXCEPT !.pc = "chown", !.saw = saw]
    OBVIOUS
  <2>5. j \in JobRecord /\ j.pc = "chown" /\ j.in = job[q].in
    BY <1>2, <2>3, <2>4 DEF JobRecord, Pcs
  <2>6. job' = [job EXCEPT ![q] = j]
    BY <1>2, <2>1, <2>2, <2>4
  <2> QED
    BY <1>4, <1>f, <2>1, <2>5, <2>6 DEF P
<1>16. CASE Chown(q) \/ Chmod(q)
  <2>1. PICK p : p = Target(q)
    OBVIOUS
  <2>2. /\ p \in Paths(q) /\ p \in Path /\ job[q].pc # "new" /\ Active(q)
        /\ Changing(job[q].in) /\ UNCHANGED <<mixed, replaced>> /\ file[p] # None
        /\ Changes(q, p)
    BY <1>1, <1>4, <1>16, <2>1
    DEF Chown, Chmod, Placed, Active, Changing, Readers, Is, Answers
  <2>3. PICK j : P(j)
    BY <1>16, <2>2, <1>a DEF Chown, Chmod, Answers
  <2>4. file[p] \in Files
    BY <1>3, <2>2
  <2>5. PICK f \in Files : file' = [file EXCEPT ![p] = f] /\ f.by = file[p].by
                           /\ f.size = file[p].size
    <3>1. CASE Chown(q)
      <4>1. PICK u, g : u = Given(q, "uid", job[q].saw[1]) /\ g = Given(q, "gid", job[q].saw[2])
        OBVIOUS
      <4>2. u \in Ids /\ g \in Ids
        BY <1>2, <4>1 DEF Given, JobRecord, Ids
      <4>3. PICK f : f = [file[p] EXCEPT !.uid = u, !.gid = g]
        OBVIOUS
      <4>4. f \in Files /\ f.by = file[p].by /\ f.size = file[p].size
        BY <2>4, <4>2, <4>3 DEF Files
      <4>5. file' = [file EXCEPT ![p].uid = u, ![p].gid = g]
        BY <3>1, <2>1, <4>1 DEF Chown
      <4>6. file' = [file EXCEPT ![p] = f]
        BY <1>3, <2>2, <4>3, <4>5
      <4> QED
        BY <4>4, <4>6
    <3>2. CASE Chmod(q)
      <4>1. PICK f : f = [file[p] EXCEPT !.mode = q]
        OBVIOUS
      <4>2. f \in Files /\ f.by = file[p].by /\ f.size = file[p].size
        BY <2>4, <4>1 DEF Files, Ids
      <4>3. file' = [file EXCEPT ![p] = f]
        BY <1>3, <2>1, <2>2, <3>2, <4>1 DEF Chmod
      <4> QED
        BY <4>2, <4>3
    <3> QED
      BY <1>16, <3>1, <3>2
  <2> QED
    BY <2>2, <2>3, <2>5, <1>w
<1>17. ASSUME NEW told \in SUBSET (Path \X (0..MaxSize)), Tells(q, told),
              UNCHANGED <<file, mixed, history>>, job[q].pc # "new"
       PROVE  StepOf(q)
  <2>1. PICK j : j = [job[q] EXCEPT !.pc = "tell", !.todo = {}, !.told = told]
    OBVIOUS
  <2>2. j \in JobRecord /\ j.pc = "tell" /\ j.in = job[q].in
    BY <1>2, <2>1 DEF JobRecord, Pcs
  <2>3. job' = [job EXCEPT ![q] = j]
    BY <1>2, <1>17, <2>1 DEF Tells
  <2> QED
    BY <1>4, <1>f, <1>17, <2>2, <2>3 DEF P
<1>18. CASE LookAtSize(q)
  <2>1. /\ job[q].pc = "look" /\ UNCHANGED <<file, mixed, history>>
        /\ file[Target(q)] # None /\ Target(q) \in Path
    BY <1>18, <1>4 DEF LookAtSize, Is
  <2>2. CASE Answer(q, "refused")
    BY <2>1, <2>2, <1>a, <1>f DEF Answers
  <2>3. CASE Tells(q, {Entry(Target(q))})
    <3>1. Entry(Target(q)) \in Path \X (0..MaxSize)
      BY <2>1, <1>3, FileFacts DEF Entry
    <3> QED
      BY <2>1, <2>3, <3>1, <1>17
  <2> QED
    BY <1>18, <2>2, <2>3 DEF LookAtSize
<1>19. CASE ReadNames(q)
  <2>1. /\ job[q].pc = "look" /\ UNCHANGED <<file, mixed, history>>
        /\ job' = [job EXCEPT ![q].pc = "list", ![q].todo = {p \in Path : file[p] # None}]
    BY <1>19 DEF ReadNames
  <2>2. PICK j : j = [job[q] EXCEPT !.pc = "list", !.todo = {p \in Path : file[p] # None}]
    OBVIOUS
  <2>3. j \in JobRecord /\ j.pc = "list" /\ j.in = job[q].in
    BY <1>2, <2>2 DEF JobRecord, Pcs
  <2>4. job' = [job EXCEPT ![q] = j]
    BY <1>2, <2>1, <2>2
  <2> QED
    BY <1>4, <1>f, <2>1, <2>3, <2>4 DEF P
<1>20. CASE LookAtEntry(q)
  <2>1. job[q].pc = "list" /\ UNCHANGED <<file, mixed, history>>
    BY <1>20 DEF LookAtEntry
  <2>2. CASE Answer(q, "failed")
    BY <2>1, <2>2, <1>a, <1>f DEF Answers
  <2>3. ASSUME NEW p \in job[q].todo, file[p] # None,
               job' = [job EXCEPT ![q].todo = @ \ {p}, ![q].told = @ \cup {Entry(p)}]
        PROVE  StepOf(q)
    <3>1. Entry(p) \in Path \X (0..MaxSize)
      BY <1>2, <1>3, <2>3, FileFacts DEF Entry, JobRecord
    <3>2. PICK j : j = [job[q] EXCEPT !.todo = job[q].todo \ {p},
                                      !.told = job[q].told \cup {Entry(p)}]
      OBVIOUS
    <3>3. j \in JobRecord /\ j.pc = "list" /\ j.in = job[q].in
      BY <1>2, <2>1, <3>1, <3>2 DEF JobRecord
    <3>4. job' = [job EXCEPT ![q] = j]
      BY <1>2, <2>3, <3>2
    <3> QED
      BY <1>4, <1>f, <2>1, <3>3, <3>4 DEF P
  <2> QED
    BY <1>20, <2>2, <2>3 DEF LookAtEntry
<1>21. CASE LookedAtEntries(q)
  <2>1. job[q].told \in SUBSET (Path \X (0..MaxSize))
    BY <1>2 DEF JobRecord
  <2> QED
    BY <1>21, <2>1, <1>17 DEF LookedAtEntries
<1>22. CASE Tell(q)
  <2>1. /\ job[q].pc = "tell" /\ UNCHANGED <<file, mixed, history>>
        /\ ~Is(q, "list") => file[Target(q)] # None
        /\ job[q].in.kind \in Readers
    BY <1>1, <1>22 DEF Tell, Placed
  <2>2. PICK text : text = CASE Is(q, "list") -> None
                             [] Is(q, "read") -> Decoded(file[Target(q)].by)
                             [] OTHER -> file[Target(q)].by
    OBVIOUS
  <2>3. text \in Texts \cup {None}
    <3>1. CASE Is(q, "list")
      BY <2>2, <3>1 DEF Is
    <3>2. CASE ~Is(q, "list")
      <4>1. file[Target(q)].by \in Texts
        BY <2>1, <3>2, <1>3, <1>4, FileFacts DEF Is, Readers
      <4>2. Decoded(file[Target(q)].by) \in Texts
        BY <4>1 DEF Decoded, Texts
      <4> QED
        BY <2>2, <3>2, <4>1, <4>2
    <3> QED
      BY <3>1, <3>2
  <2>4. PICK j : j = [NewJob EXCEPT !.pc = "done", !.in = job[q].in, !.text = text]
    OBVIOUS
  <2>5. j \in JobRecord /\ j.pc = "done" /\ j.in = job[q].in
    BY <1>2, <1>n, <2>3, <2>4 DEF JobRecord, Pcs, Answers
  <2>6. job' = [job EXCEPT ![q] = j]
    BY <1>22, <2>2, <2>4 DEF Tell
  <2> QED
    BY <1>4, <1>f, <2>1, <2>5, <2>6 DEF P
<1>23. CASE Fail(q)
  <2>1. \E j : P(j)
    BY <1>23, <1>a DEF Fail, Answers, Active
  <2>2. UNCHANGED mixed /\ job[q].pc # "new"
    BY <1>23 DEF Fail, Active
  <2>3. CASE UNCHANGED <<file, history>>
    BY <2>1, <2>2, <2>3, <1>f
  <2>4. CASE /\ job[q].pc = "data" /\ UNCHANGED history
             /\ \E n \in 1..job[q].in.size : file' = Written(q, n, "mixed")
    <3>1. PICK n \in 1..job[q].in.size : file' = Written(q, n, "mixed")
      BY <2>4
    <3>2. n \in 0..MaxSize
      BY <2>2, <3>1, <1>4, FileFacts
    <3> QED
      BY <2>1, <2>2, <2>4, <3>1, <3>2, <1>10
  <2>5. ASSUME job[q].pc = "zip", NEW n \in 0..job[q].in.size,
               file' = [file EXCEPT ![Target(q)] = Put(q, Target(q), "mixed", n)],
               Changes(q, Target(q)), Replaces(q, Target(q))
        PROVE  StepOf(q)
    <3>1. PICK p : p = Target(q)
      OBVIOUS
    <3>2. /\ p \in Paths(q) /\ p \in Path /\ Active(q) /\ Changing(job[q].in)
          /\ n \in 0..MaxSize
      BY <1>1, <1>4, <2>2, <2>5, <3>1, FileFacts
      DEF Placed, Active, Changing, Readers, Is, Answers
    <3>3. PICK f : f = Put(q, p, "mixed", n)
      OBVIOUS
    <3>4. f \in Files /\ f.by = "mixed"
      BY <1>1, <3>2, <3>3, PutFacts
    <3>5. file' = [file EXCEPT ![p] = f] /\ Changes(q, p) /\ Replaces(q, p)
      BY <2>5, <3>1, <3>3
    <3>6. PICK j : P(j)
      BY <2>1
    <3>7. \A r \in Req \ {q} : f.by # r
      BY <3>4, FileFacts
    <3> QED
      BY <2>2, <3>2, <3>4, <3>5, <3>6, <3>7, <1>w
  <2> QED
    BY <1>23, <2>3, <2>4, <2>5 DEF Fail
<1> QED
  BY <1>5, <1>6, <1>7, <1>8, <1>9, <1>11, <1>12, <1>13, <1>14, <1>15, <1>16,
     <1>18, <1>19,
     <1>20, <1>21, <1>22, <1>23 DEF Step

\* What a refused request, and a request for an archive, leaves.
Leaves(r) ==
  /\ job[r].pc = "refused" =>
       wrote[r] = {} \/ (Is(r, "zip") /\ \A p \in Path : file[p] # None => file[p].by # r)
  /\ Is(r, "zip") /\ job[r].pc \in {"done", "refused"} =>
       \A p \in Path : file[p] # None /\ file[p].by = r => file[p].size <= Limit["zip"]

\* The others keep what holds of them.
LEMMA OthersKeep ==
  ASSUME IInv, NEW q \in Req, StepOf(q), NEW r \in Req \ {q}
  PROVE  (Placed(r) /\ Marked(r) /\ Clear(r) /\ Leaves(r))'
<1>1. TypeOK /\ Placed(r) /\ Marked(r) /\ Clear(r) /\ Leaves(r) /\ Apart
  BY DEF IInv, RefusedChangesNothing, Leaves
<1>2. /\ job'[r] = job[r] /\ Paths(r)' = Paths(r) /\ Target(r)' = Target(r)
      /\ wrote'[r] = wrote[r] /\ (r \in mixed => r \in mixed')
      /\ \A k : Is(r, k)' = Is(r, k)
  BY <1>1 DEF StepOf, TypeOK, Paths, Target, Is
<1>3. Placed(r)'
  BY <1>1, <1>2 DEF Placed
<1>4. \A p \in Path : file'[p] # None /\ file'[p].by = r =>
        file[p] # None /\ file[p].by = r /\ file'[p].size = file[p].size
  BY DEF StepOf
<1>5. Marked(r)' /\ Leaves(r)'
  BY <1>1, <1>2, <1>4 DEF Marked, Leaves
<1>6. Clear(r)'
  <2>1. CASE job[r].pc \in Answers \cup {"new"} \/ r \in mixed'
    BY <1>2, <2>1 DEF Clear, Answers
  <2>2. CASE job[r].pc \notin Answers \cup {"new"} /\ r \notin mixed'
    <3>1. Active(r) /\ r \notin mixed /\ Paths(r) \subseteq Path
      BY <1>1, <1>2, <2>2, InputFacts DEF Active
    <3>2. \A p \in Paths(r) : file'[p] = file[p]
      BY <1>1, <3>1 DEF StepOf, Apart
    <3>3. job[r].in.kind \notin {"unzip", "list"} => Target(r) \in Paths(r)
      BY <1>1, <3>1, InputFacts DEF Active
    <3>4. Is(r, "list") => Paths(r) = Path
      BY <1>1, <3>1, InputFacts DEF Active
    <3>5. /\ job[r].pc \in {"open", "data"} =>
               job[r].at \in Paths(r) \/ job[r].pc = "open"
          /\ job[r].todo \subseteq Paths(r)
      BY <1>1, <2>2 DEF Placed, Marked
    <3>6. /\ ~job[r].in.overwrite /\ job[r].pc = "look" /\ job[r].in.kind \in Writers =>
               \A p \in Paths(r) \ job[r].todo : file'[p] = None
          /\ ~job[r].in.overwrite /\ job[r].pc \in {"open", "data", "zip"} =>
               \A p \in job[r].todo : file'[p] = None
          /\ job[r].pc = "zip" => job[r].todo = Paths(r)
      BY <1>1, <3>1, <3>2, <3>5 DEF Clear
    <3>7. /\ job[r].pc = "open" => \A p \in Paths(r) \ job[r].todo : Whole(r, p)'
          /\ job[r].pc = "data" =>
               /\ \A p \in Paths(r) \ (job[r].todo \cup {job[r].at}) : Whole(r, p)'
               /\ file'[job[r].at] # None /\ file'[job[r].at].born = job[r].holds
               /\ file'[job[r].at].size = 0
      BY <1>1, <1>2, <3>1, <3>2, <3>5 DEF Clear, Whole
    <3>8. /\ job[r].pc = "stat" => Whole(r, Target(r))'
          /\ job[r].pc = "chown" /\ file'[Target(r)] # None =>
               job[r].saw = <<file'[Target(r)].uid, file'[Target(r)].gid>>
      BY <1>1, <1>2, <3>1, <3>2, <3>3 DEF Clear, Whole, Placed, Is
    <3>9. ASSUME Is(r, "list")
          PROVE  /\ \A T \in SUBSET Path :
                      {Entry(p)' : p \in {p \in Path \ T : file'[p] # None}}
                        = {Entry(p) : p \in {p \in Path \ T : file[p] # None}}
                 /\ {Entry(p)' : p \in {p \in Path : file'[p] # None}}
                        = {Entry(p) : p \in {p \in Path : file[p] # None}}
      BY <3>2, <3>4, <3>9 DEF Entry
    <3>10. /\ job[r].pc = "list" =>
                job[r].told = {Entry(p)' : p \in {p \in Path \ job[r].todo : file'[p] # None}}
           /\ job[r].pc = "list" => \A p \in job[r].todo : file'[p] # None
           /\ job[r].pc = "tell" /\ Is(r, "list") =>
                job[r].told = {Entry(p)' : p \in {p \in Path : file'[p] # None}}
      BY <1>1, <3>1, <3>2, <3>5, <3>9 DEF Clear, Placed
    <3>11. job[r].pc = "tell" /\ ~Is(r, "list") =>
             /\ job[r].told = {Entry(Target(r))'}
             /\ Is(r, "read") => file'[Target(r)].size <= Limit["read"]
      <4>1. job[r].pc = "tell" /\ ~Is(r, "list") => job[r].in.kind \in {"read", "download"}
        BY <1>1 DEF Placed, Is, Readers
      <4> QED
        BY <1>1, <1>2, <3>1, <3>2, <3>3, <4>1 DEF Clear, Entry
    <3> QED
      BY <1>2, <3>6, <3>7, <3>8, <3>10, <3>11 DEF Clear
  <2> QED
    BY <2>1, <2>2
<1> QED
  BY <1>3, <1>5, <1>6

\* What a request nobody disturbs has opened, it writes whole.
LEMMA WrittenWhole ==
  ASSUME IInv, NEW q \in Req, q \notin mixed, job[q].pc = "data",
         file' = Written(q, job[q].in.size, q)
  PROVE  /\ job[q].at \in Paths(q) /\ file'[job[q].at] # None
         /\ file'[job[q].at].by = q /\ file'[job[q].at].size = job[q].in.size
         /\ \A x \in Path \ {job[q].at} : file'[x] = file[x]
<1>1. TypeOK /\ Placed(q) /\ Marked(q) /\ Clear(q)
  BY DEF IInv, RefusedChangesNothing
<1>2. /\ job[q].in.size \in 0..MaxSize /\ MaxSize \in Nat
      /\ job[q].at \in Paths(q) /\ Paths(q) \subseteq Path
  BY <1>1, FileFacts, InputFacts DEF Placed, Marked
<1>3. PICK a \in Path : a = job[q].at
  BY <1>2
<1>4. /\ file[a] # None /\ file[a].born = job[q].holds /\ file[a].size = 0
      /\ file[a] \in Files
  BY <1>1, <1>3 DEF Clear, TypeOK
<1>5. PICK n \in 0..MaxSize : n = job[q].in.size
  BY <1>2
<1>6. PICK f : f = [file[a] EXCEPT !.by = q, !.size = n]
  OBVIOUS
<1>7. f \in Files /\ f.by = q /\ f.size = n /\ f # None
  BY <1>4, <1>6, FileFacts DEF Files, Texts
<1>8. Written(q, n, q) = [file EXCEPT ![job[q].at] =
                            IF file[job[q].at].size <= n
                            THEN [file[job[q].at] EXCEPT !.by = q, !.size = n]
                            ELSE [file[job[q].at] EXCEPT !.by = "mixed"]]
  BY <1>3, <1>4 DEF Written
<1>9. 0 <= n
  BY <1>2, <1>5
<1>10. file' = [file EXCEPT ![a] = f]
  BY <1>3, <1>4, <1>5, <1>6, <1>8, <1>9
<1>11. file'[a] = f /\ \A x \in Path \ {a} : file'[x] = file[x]
  BY <1>1, <1>10 DEF TypeOK
<1> QED
  BY <1>2, <1>3, <1>5, <1>7, <1>11

\* The request that takes a step keeps what holds of it, and truncates only
\* what it was asked to, or what another one has put there.
LEMMA OwnKeeps ==
  ASSUME IInv, NEW q \in Req, Step(q), StepOf(q)
  PROVE  /\ (Placed(q) /\ Marked(q) /\ Clear(q) /\ Leaves(q))'
         /\ \A x \in replaced' \ replaced :
              x[1] = q /\ (~job[q].in.overwrite => q \in mixed /\ ~Is(q, "upload"))
<1> DEFINE Truncates == \A x \in replaced' \ replaced :
              x[1] = q /\ (~job[q].in.overwrite => q \in mixed /\ ~Is(q, "upload"))
           Holds == (Placed(q) /\ Marked(q) /\ Clear(q) /\ Leaves(q))'
           Author == \A x \in Path : file'[x] # None => (file'[x].by = q => x \in wrote'[q])
<1>1. TypeOK /\ Placed(q) /\ Marked(q) /\ Clear(q) /\ Leaves(q)
  BY DEF IInv, RefusedChangesNothing, Leaves
<1>2. job \in [Req -> JobRecord] /\ job[q] \in JobRecord
  BY <1>1 DEF TypeOK, JobRecord, Asked
<1>3. /\ file \in [Path -> Files \cup {None}] /\ wrote \in [Req -> SUBSET Path]
      /\ replaced \subseteq Req \X Path
      /\ \A p \in Path : file[p] # None => file[p] \in Files
  BY <1>1 DEF TypeOK
<1>4. job[q].pc # "new" =>
        /\ job[q].in.size \in 1..MaxSize /\ Paths(q) \subseteq Path
        /\ job[q].in.kind \notin {"unzip", "list"} => Target(q) \in Path /\ Paths(q) = {Target(q)}
        /\ Is(q, "list") => Paths(q) = Path
  BY <1>1, InputFacts
<1>5. job'[q].in \in Input[q] /\ (job[q].pc # "new" => job'[q].in = job[q].in /\ mixed' = mixed)
  BY <1>1 DEF StepOf, TypeOK
<1>6. ASSUME job[q].pc # "new"
      PROVE  /\ Paths(q)' = Paths(q) /\ Target(q)' = Target(q)
             /\ \A k : Is(q, k)' = Is(q, k)
  BY <1>5, <1>6 DEF Paths, Target, Is
<1>u. ASSUME UNCHANGED <<file, history>>, job[q].pc # "new"
      PROVE  /\ Truncates /\ Author /\ wrote'[q] = wrote[q]
             /\ wrote'[q] \subseteq Paths(q)'
  BY <1>u, <1>1, <1>6 DEF Marked, history
<1>a. ASSUME NEW how \in Answers, Answer(q, how)
      PROVE  job'[q].pc = how /\ job'[q].todo = {}
  <2>1. PICK j : j = [NewJob EXCEPT !.pc = how, !.in = job[q].in]
    OBVIOUS
  <2>2. job'[q] = j
    BY <1>2, <1>a, <2>1 DEF Answer
  <2> QED
    BY <2>1, <2>2, NewJobFacts DEF JobRecord
<1>g. ASSUME NEW p, Goto(q, p)
      PROVE  /\ job'[q].pc = p /\ job'[q].todo = job[q].todo /\ job'[q].at = job[q].at
             /\ job'[q].holds = job[q].holds /\ job'[q].saw = job[q].saw
             /\ job'[q].told = job[q].told
  BY <1>2, <1>g DEF Goto, JobRecord
<1>h. ASSUME job'[q].pc \in Answers, job'[q].todo = {}, Author, wrote'[q] \subseteq Paths(q)',
             Leaves(q)'
      PROVE  Holds
  BY <1>h, <1>5 DEF Placed, Marked, Clear, Answers
<1>f. ASSUME job[q].pc # "new", UNCHANGED <<file, history>>,
             NEW how \in Answers, Answer(q, how), how = "refused" => wrote[q] = {},
             how = "done" => ~Is(q, "zip")
      PROVE  Holds /\ Truncates
  <2>1. /\ Truncates /\ Author /\ wrote'[q] = wrote[q] /\ wrote'[q] \subseteq Paths(q)'
        /\ job'[q].pc = how /\ job'[q].todo = {}
    BY <1>f, <1>u, <1>a
  <2>2. Leaves(q)'
    BY <2>1, <1>f, <1>6 DEF Leaves, Answers
  <2> QED
    BY <2>1, <2>2, <1>h
<1>7. CASE Receive(q) \/ RefuseTooLarge(q)
  <2>1. job[q].pc = "new" /\ UNCHANGED <<file, history>> /\ wrote[q] = {}
    BY <1>7, <1>1 DEF Receive, RefuseTooLarge, Marked
  <2>2. Author /\ wrote'[q] = {} /\ Truncates
    BY <2>1, <1>1 DEF Marked, history
  <2>3. PICK x \in Input[q] :
          \/ job' = [job EXCEPT ![q] = [NewJob EXCEPT !.pc = "look", !.in = x, !.todo = x.paths]]
          \/ job' = [job EXCEPT ![q] = [NewJob EXCEPT !.pc = "refused", !.in = x]]
    BY <1>7 DEF Receive, RefuseTooLarge
  <2>b. PICK l : l = [NewJob EXCEPT !.pc = "look", !.in = x, !.todo = x.paths]
    OBVIOUS
  <2>c. PICK d : d = [NewJob EXCEPT !.pc = "refused", !.in = x]
    OBVIOUS
  <2>4. job'[q] = l \/ job'[q] = d
    BY <1>2, <2>3, <2>b, <2>c
  <2>5. /\ l.pc = "look" /\ l.todo = x.paths /\ l.in = x /\ l.told = {}
        /\ d.pc = "refused" /\ d.todo = {} /\ d.in = x
    BY <2>b, <2>c, NewJobFacts DEF JobRecord
  <2>6. CASE job'[q] = l
    BY <2>2, <2>5, <2>6, <1>5 DEF Placed, Marked, Clear, Leaves, Paths, Answers
  <2>7. CASE job'[q] = d
    BY <2>2, <2>5, <2>7, <1>5, <1>h DEF Leaves, Answers
  <2> QED
    BY <2>2, <2>4, <2>6, <2>7
<1>8. CASE LookAtTarget(q)
  <2>1. /\ job[q].pc = "look" /\ UNCHANGED <<file, mixed, history>>
        /\ job[q].in.kind \in Writers /\ wrote[q] = {}
    BY <1>8, <1>1 DEF LookAtTarget, Marked
  <2>2. CASE Answer(q, "refused")
    BY <2>1, <2>2, <1>f DEF Answers
  <2>3. ASSUME NEW p \in job[q].todo, MayWrite(q, p),
               job' = [job EXCEPT ![q].todo = @ \ {p}]
        PROVE  Holds /\ Truncates
    <3>1. /\ job'[q].pc = "look" /\ job'[q].todo = job[q].todo \ {p}
          /\ job'[q].told = job[q].told
      BY <1>2, <2>1, <2>3 DEF JobRecord
    <3>2. Truncates /\ Author /\ wrote'[q] = wrote[q] /\ wrote'[q] \subseteq Paths(q)'
      BY <2>1, <1>u
    <3>3. ~job[q].in.overwrite => file[p] = None
      BY <2>3 DEF MayWrite
    <3> QED
      BY <2>1, <3>1, <3>2, <3>3, <1>1, <1>5, <1>6 DEF Placed, Marked, Clear,
         Leaves
  <2> QED
    BY <1>8, <2>2, <2>3 DEF LookAtTarget
<1>9. CASE LookedAtAll(q)
  <2>1. /\ job[q].pc = "look" /\ UNCHANGED <<file, mixed, history>> /\ job[q].todo = {}
        /\ job[q].in.kind \in Writers /\ wrote[q] = {}
        /\ job' = [job EXCEPT ![q].pc = IF Is(q, "zip") THEN "zip" ELSE "open",
                              ![q].todo = Paths(q)]
    BY <1>9, <1>1 DEF LookedAtAll, Marked, Paths
  <2>2. /\ job'[q].pc = (IF Is(q, "zip") THEN "zip" ELSE "open")
        /\ job'[q].todo = Paths(q)
    BY <1>2, <2>1 DEF JobRecord
  <2>3. Truncates /\ Author /\ wrote'[q] = wrote[q] /\ wrote'[q] \subseteq Paths(q)'
    BY <2>1, <1>u
  <2>4. /\ Paths(q)' = Paths(q) /\ Is(q, "zip")' = Is(q, "zip")
        /\ job[q].in.kind \in {"upload", "write", "unzip", "zip"}
    BY <2>1, <1>6 DEF Writers
  <2>5. ~job[q].in.overwrite /\ q \notin mixed => \A p \in Paths(q) : file[p] = None
    BY <2>1, <1>1 DEF Clear
  <2>6. CASE Is(q, "zip")
    <3>1. Placed(q)'
      BY <2>2, <2>4, <2>6, <1>5 DEF Placed, Is
    <3>2. job'[q].pc = "zip"
      BY <2>2, <2>6
    <3>3. Marked(q)' /\ Leaves(q)'
      BY <2>1, <2>3, <3>2 DEF Marked, Leaves
    <3>4. Clear(q)'
      BY <2>1, <2>2, <2>4, <2>5, <3>2, <1>4, <1>5 DEF Clear
    <3> QED
      BY <2>3, <3>1, <3>3, <3>4
  <2>7. CASE ~Is(q, "zip")
    <3>1. job'[q].pc = "open" /\ job[q].in.kind \in {"upload", "write", "unzip"}
      BY <2>2, <2>4, <2>7 DEF Is
    <3>2. Placed(q)'
      BY <2>1, <2>2, <2>4, <3>1, <1>5 DEF Placed
    <3>3. Marked(q)' /\ Leaves(q)'
      BY <2>1, <2>3, <3>1 DEF Marked, Leaves
    <3>4. Clear(q)'
      BY <2>1, <2>2, <2>4, <2>5, <3>1, <1>4, <1>5 DEF Clear
    <3> QED
      BY <2>3, <3>2, <3>3, <3>4
  <2> QED
    BY <2>6, <2>7
<1>10. CASE OpenExists(q)
  BY <1>10, <1>f DEF OpenExists, Answers
<1>11. CASE MeasureZip(q)
  <2>1. /\ job[q].pc = "stat" /\ UNCHANGED <<file, mixed, history>> /\ Is(q, "zip")
        /\ Paths(q) = {Target(q)} /\ Target(q) \in Path
    BY <1>11, <1>1, <1>4 DEF MeasureZip, Placed, Is
  <2>2. Truncates /\ Author /\ wrote'[q] = wrote[q] /\ wrote'[q] \subseteq Paths(q)'
    BY <2>1, <1>u
  <2>3. CASE Answer(q, "done") /\ ~(file[Target(q)].size > Limit["zip"])
    <3>1. \A p \in Path : file[p] # None /\ file[p].by = q => p = Target(q)
      BY <2>1, <1>1 DEF Marked
    <3>2. file[Target(q)] \in Files
      BY <1>11, <1>3, <2>1 DEF MeasureZip
    <3>3. file[Target(q)].size <= Limit["zip"]
      BY <2>3, <3>2, FileFacts,
         FileManagerAssumption DEF FileManagerAssumption, Kind, Writers
    <3>4. Leaves(q)'
      BY <2>1, <2>3, <3>1, <3>3, <1>a DEF Leaves, Answers
    <3> QED
      BY <2>2, <2>3, <3>4, <1>a, <1>h DEF Answers
  <2>4. CASE Goto(q, "remove")
    BY <2>1, <2>2, <2>4, <1>1, <1>5, <1>6, <1>g DEF Placed, Marked, Clear,
       Leaves
  <2> QED
    BY <1>11, <2>3, <2>4 DEF MeasureZip
<1>12. CASE OpenTarget(q)
  <2>1. PICK p \in job[q].todo :
          /\ ~(Exclusive(q) /\ file[p] # None)
          /\ file' = [file EXCEPT ![p] = Put(q, p, q, 0)]
          /\ job' = [job EXCEPT ![q].pc = "data", ![q].at = p,
                                ![q].todo = job[q].todo \ {p}, ![q].holds = file'[p].born]
          /\ Changes(q, p) /\ Replaces(q, p)
    BY <1>12 DEF OpenTarget
  <2>2. /\ p \in Paths(q) /\ p \in Path /\ job[q].pc = "open" /\ UNCHANGED mixed
        /\ job[q].in.kind \in {"upload", "write", "unzip"}
    BY <1>1, <1>4, <1>12, <2>1 DEF OpenTarget, Placed
  <2>3. PICK f : f = Put(q, p, q, 0)
    OBVIOUS
  <2>4. f \in Files /\ f.by = q /\ f.size = 0 /\ f # None
    BY <1>1, <2>2, <2>3, FileFacts, PutFacts
  <2>5. file'[p] = f /\ \A x \in Path \ {p} : file'[x] = file[x]
    BY <1>3, <2>1, <2>2, <2>3
  <2>6. /\ job'[q].pc = "data" /\ job'[q].at = p /\ job'[q].todo = job[q].todo \ {p}
        /\ job'[q].holds = f.born
    BY <1>2, <2>1, <2>5 DEF JobRecord
  <2>7. wrote'[q] = wrote[q] \cup {p}
    BY <1>3, <2>1 DEF Changes
  <2>8. ~job[q].in.overwrite /\ q \notin mixed => \A x \in job[q].todo : file[x] = None
    BY <1>1, <2>2 DEF Clear
  <2>9. Truncates
    BY <2>1, <2>2, <2>8 DEF Replaces, Exclusive
  <2>10. Paths(q)' = Paths(q) /\ job'[q].in = job[q].in /\ UNCHANGED mixed
    BY <1>5, <1>6, <2>2
  <2>11. Placed(q)'
    BY <1>1, <1>5, <2>2, <2>6, <2>7, <2>10 DEF Placed
  <2>12. Marked(q)'
    BY <1>1, <2>2, <2>5, <2>6, <2>7, <2>10 DEF Marked
  <2>13. q \notin mixed => \A x \in Paths(q) \ job[q].todo : Whole(q, x)'
    BY <1>1, <1>4, <2>1, <2>2, <2>5, <2>10 DEF Clear, Whole
  <2>14. Clear(q)'
    <3>1. job[q].todo \subseteq Paths(q) /\ Paths(q) \subseteq Path
      BY <1>1, <1>4, <2>2 DEF Placed
    <3>2. ~job[q].in.overwrite /\ q \notin mixed =>
            \A x \in job[q].todo \ {p} : file'[x] = None
      BY <2>5, <2>8, <3>1
    <3>3. q \notin mixed =>
            \A x \in Paths(q) \ ((job[q].todo \ {p}) \cup {p}) : Whole(q, x)'
      BY <2>13
    <3>4. file'[p] # None /\ file'[p].born = f.born /\ file'[p].size = 0
      BY <2>4, <2>5
    <3> QED
      BY <2>6, <2>10, <3>2, <3>3, <3>4 DEF Clear
  <2>15. Leaves(q)'
    BY <2>6 DEF Leaves
  <2> QED
    BY <2>9, <2>11, <2>12, <2>14, <2>15
<1>w. ASSUME job[q].pc = "data", UNCHANGED history, NEW n \in 0..MaxSize,
             NEW by \in {q, "mixed"}, file' = Written(q, n, by)
      PROVE  /\ Truncates /\ Author /\ wrote'[q] = wrote[q] /\ wrote'[q] \subseteq Paths(q)'
             /\ job[q].at \in Paths(q) /\ job[q].at \in Path
             /\ \A x \in Path \ {job[q].at} : file'[x] = file[x]
  <2>1. job[q].at \in Paths(q) /\ job[q].at \in wrote[q] /\ job[q].at \in Path
    BY <1>1, <1>4, <1>w DEF Placed, Marked
  <2>2. wrote' = wrote /\ replaced' = replaced /\ wrote[q] \subseteq Paths(q)'
    BY <1>1, <1>6, <1>w DEF history, Marked
  <2>3. \A x \in Path \ {job[q].at} : file'[x] = file[x]
    BY <1>1, <1>3, <1>w, <2>1, WrittenFacts
  <2> QED
    BY <1>1, <2>1, <2>2, <2>3 DEF Marked
<1>13. CASE WriteTarget(q)
  <2>1. /\ job[q].pc = "data" /\ UNCHANGED <<mixed, history>>
        /\ file' = Written(q, job[q].in.size, q)
        /\ job[q].in.kind \in {"upload", "write", "unzip"} /\ ~Is(q, "zip")
    BY <1>1, <1>13 DEF WriteTarget, Placed, Is
  <2>2. job[q].in.size \in 0..MaxSize /\ MaxSize \in Nat
    BY <1>4, <2>1, FileFacts
  <2>3. /\ Truncates /\ Author /\ wrote'[q] = wrote[q] /\ wrote'[q] \subseteq Paths(q)'
        /\ job[q].at \in Paths(q) /\ job[q].at \in Path
        /\ \A x \in Path \ {job[q].at} : file'[x] = file[x]
    BY <1>w, <2>1, <2>2
  <2>4. CASE Answer(q, "done")
    <3>1. Leaves(q)'
      BY <1>6, <2>1, <2>4, <1>a DEF Leaves, Answers
    <3> QED
      BY <1>a, <1>h, <2>3, <2>4, <3>1 DEF Answers
  <2>5. CASE Goto(q, "open")
    <3>1. /\ job'[q].pc = "open" /\ job'[q].todo = job[q].todo
          /\ job'[q].in = job[q].in /\ Paths(q)' = Paths(q)
      BY <1>5, <1>6, <1>g, <2>1, <2>5
    <3>2. Placed(q)' /\ Marked(q)' /\ Leaves(q)'
      BY <1>1, <1>5, <2>1, <2>3, <3>1 DEF Placed, Marked, Leaves
    <3>3. ASSUME q \notin mixed PROVE Whole(q, job[q].at)'
      <4>1. job[q].at' = job[q].at
        BY <1>g, <2>5
      <4> QED
        BY <2>1, <3>1, <3>3, <4>1, WrittenWhole DEF Whole
    <3>4. Clear(q)'
      <4>1. ASSUME q \notin mixed, NEW x \in Paths(q) \ job[q].todo PROVE Whole(q, x)'
        <5>1. CASE x = job[q].at
          BY <1>g, <2>5, <3>3, <4>1, <5>1 DEF Whole
        <5>2. CASE x # job[q].at
          BY <1>1, <1>4, <2>1, <2>3, <3>1, <4>1, <5>2 DEF Clear, Whole
        <5> QED
          BY <5>1, <5>2
      <4>2. ASSUME q \notin mixed, ~job[q].in.overwrite, NEW x \in job[q].todo
            PROVE  file'[x] = None
        BY <1>1, <1>4, <2>1, <2>3, <4>2 DEF Clear, Placed
      <4> QED
        BY <2>1, <3>1, <4>1, <4>2 DEF Clear
    <3> QED
      BY <2>3, <3>2, <3>4
  <2> QED
    BY <1>13, <2>4, <2>5 DEF WriteTarget
<1>14. CASE WriteZip(q)
  <2>1. PICK p \in Path : p = Target(q) /\ Paths(q) = {p}
    BY <1>14, <1>1, <1>4 DEF WriteZip, Placed, Is
  <2>2. /\ job[q].pc = "zip" /\ Is(q, "zip") /\ UNCHANGED mixed
        /\ file' = [file EXCEPT ![p] = Put(q, p, q, job[q].in.size)]
        /\ Goto(q, "stat") /\ Changes(q, p) /\ Replaces(q, p)
    BY <1>14, <1>1, <2>1 DEF WriteZip, Placed
  <2>3. PICK f : f = Put(q, p, q, job[q].in.size)
    OBVIOUS
  <2>4. f \in Files /\ f.by = q /\ f.size = job[q].in.size /\ f # None
    <3>1. job[q].in.size \in 0..MaxSize
      BY <1>4, <2>2, FileFacts
    <3> QED
      BY <1>1, <2>3, <3>1, FileFacts, PutFacts
  <2>5. file'[p] = f /\ \A x \in Path \ {p} : file'[x] = file[x]
    BY <1>3, <2>2, <2>3
  <2>6. job'[q].pc = "stat" /\ job'[q].todo = job[q].todo
    BY <2>2, <1>g
  <2>7. wrote'[q] = wrote[q] \cup {p}
    BY <1>3, <2>2 DEF Changes
  <2>8. /\ Paths(q)' = Paths(q) /\ job'[q].in = job[q].in /\ UNCHANGED mixed
        /\ Target(q)' = p /\ Is(q, "zip")'
    BY <1>5, <1>6, <2>1, <2>2
  <2>9. ~job[q].in.overwrite /\ q \notin mixed => file[p] = None
    BY <1>1, <2>1, <2>2 DEF Clear
  <2>10. Truncates
    BY <2>2, <2>9 DEF Replaces, Is
  <2>11. Placed(q)' /\ Marked(q)' /\ Leaves(q)'
    BY <1>1, <1>5, <2>1, <2>2, <2>5, <2>6, <2>7, <2>8 DEF Placed, Marked, Leaves
  <2>12. Whole(q, p)'
    BY <2>4, <2>5, <2>8 DEF Whole
  <2>13. Whole(q, Target(q))'
    BY <2>8, <2>12 DEF Whole
  <2>14. Clear(q)'
    BY <2>6, <2>13 DEF Clear
  <2> QED
    BY <2>10, <2>11, <2>14
<1>15. CASE RemoveZip(q)
  <2>1. PICK p \in Path : p = Target(q) /\ Paths(q) = {p}
    BY <1>15, <1>1, <1>4 DEF RemoveZip, Placed, Is
  <2>2. /\ job[q].pc = "remove" /\ Is(q, "zip") /\ UNCHANGED <<mixed, replaced>>
        /\ file' = [file EXCEPT ![p] = None]
        /\ Answer(q, "refused") /\ Changes(q, p)
    BY <1>15, <1>1, <2>1 DEF RemoveZip, Placed
  <2>3. file'[p] = None /\ \A x \in Path \ {p} : file'[x] = file[x]
    BY <1>3, <2>2
  <2>4. wrote'[q] = wrote[q] \cup {p}
    BY <1>3, <2>2 DEF Changes
  <2>5. Paths(q)' = Paths(q) /\ Is(q, "zip")' /\ job'[q].pc = "refused" /\ job'[q].todo = {}
    BY <1>6, <1>a, <2>2 DEF Answers
  <2>6. \A x \in Path : file'[x] # None => file'[x].by # q
    BY <1>1, <2>1, <2>3 DEF Marked
  <2>7. Leaves(q)' /\ Author /\ Truncates /\ wrote'[q] \subseteq Paths(q)'
    BY <1>1, <2>1, <2>2, <2>4, <2>5, <2>6 DEF Leaves, Marked
  <2> QED
    BY <2>5, <2>7, <1>h DEF Answers
<1>m. ASSUME job[q].pc # "new", ~Is(q, "zip"), Answer(q, "done"), UNCHANGED replaced,
             NEW p \in Paths(q), NEW f, file[p] # None, file' = [file EXCEPT ![p] = f],
             f.by = file[p].by, Changes(q, p)
      PROVE  Holds /\ Truncates
  <2>1. /\ p \in Path /\ wrote'[q] = wrote[q] \cup {p} /\ Paths(q)' = Paths(q)
        /\ ~Is(q, "zip")' /\ job'[q].pc = "done" /\ job'[q].todo = {}
    BY <1>3, <1>4, <1>6, <1>a, <1>m DEF Changes, Answers
  <2>2. file'[p] = f /\ \A x \in Path \ {p} : file'[x] = file[x]
    BY <1>3, <1>m, <2>1
  <2>3. Leaves(q)' /\ Author /\ Truncates /\ wrote'[q] \subseteq Paths(q)'
    BY <1>1, <1>m, <2>1, <2>2 DEF Leaves, Marked
  <2> QED
    BY <2>1, <2>3, <1>h DEF Answers
<1>16. CASE LookAtOwner(q)
  <2>1. /\ job[q].pc = "look" /\ Is(q, "chown") /\ UNCHANGED <<file, mixed, history>>
        /\ job' = [job EXCEPT ![q].pc = "chown",
                              ![q].saw = <<file[Target(q)].uid, file[Target(q)].gid>>]
    BY <1>16 DEF LookAtOwner
  <2>2. /\ job'[q].pc = "chown" /\ job'[q].todo = job[q].todo
        /\ job'[q].saw = <<file[Target(q)].uid, file[Target(q)].gid>>
    BY <1>2, <2>1 DEF JobRecord
  <2>3. Truncates /\ Author /\ wrote'[q] = wrote[q] /\ wrote'[q] \subseteq Paths(q)'
    BY <1>u, <2>1
  <2>4. /\ Paths(q)' = Paths(q) /\ Target(q)' = Target(q) /\ Is(q, "chown")'
        /\ UNCHANGED mixed
    BY <1>5, <1>6, <2>1
  <2>5. Placed(q)' /\ Marked(q)' /\ Leaves(q)'
    BY <1>1, <1>5, <2>1, <2>2, <2>3, <2>4 DEF Placed, Marked, Leaves
  <2>6. Clear(q)'
    BY <2>1, <2>2, <2>4 DEF Clear
  <2> QED
    BY <2>3, <2>5, <2>6
<1>17. CASE Chown(q)
  <2>1. PICK p \in Path : p = Target(q) /\ Paths(q) = {p}
    BY <1>17, <1>1, <1>4 DEF Chown, Placed, Is
  <2>2. /\ job[q].pc = "chown" /\ ~Is(q, "zip") /\ file[p] # None
        /\ file' = [file EXCEPT ![p].uid = Given(q, "uid", job[q].saw[1]),
                                ![p].gid = Given(q, "gid", job[q].saw[2])]
        /\ Answer(q, "done") /\ Changes(q, p) /\ UNCHANGED replaced
    BY <1>17, <1>1, <2>1 DEF Chown, Placed, Is
  <2>3. PICK f : f = [file[p] EXCEPT !.uid = Given(q, "uid", job[q].saw[1]),
                                     !.gid = Given(q, "gid", job[q].saw[2])]
    OBVIOUS
  <2>4. file[p] \in Files /\ f.by = file[p].by
    BY <1>3, <2>2, <2>3 DEF Files
  <2>5. file' = [file EXCEPT ![p] = f]
    BY <1>3, <2>2, <2>3
  <2> QED
    BY <1>m, <2>1, <2>2, <2>4, <2>5
<1>18. CASE Chmod(q)
  <2>1. PICK p \in Path : p = Target(q) /\ Paths(q) = {p}
    BY <1>18, <1>1, <1>4 DEF Chmod, Is
  <2>2. /\ job[q].pc = "look" /\ ~Is(q, "zip") /\ file[p] # None
        /\ file' = [file EXCEPT ![p].mode = q]
        /\ Answer(q, "done") /\ Changes(q, p) /\ UNCHANGED replaced
    BY <1>18, <2>1 DEF Chmod, Is
  <2>3. PICK f : f = [file[p] EXCEPT !.mode = q]
    OBVIOUS
  <2>4. file[p] \in Files /\ f.by = file[p].by
    BY <1>3, <2>2, <2>3 DEF Files
  <2>5. file' = [file EXCEPT ![p] = f]
    BY <1>3, <2>2, <2>3
  <2> QED
    BY <1>m, <2>1, <2>2, <2>4, <2>5
<1>t. ASSUME NEW told, Tells(q, told)
      PROVE  job'[q].pc = "tell" /\ job'[q].todo = {} /\ job'[q].told = told
  BY <1>2, <1>t DEF Tells, JobRecord
<1>19. CASE LookAtSize(q)
  <2>1. PICK p \in Path : p = Target(q) /\ Paths(q) = {p}
    BY <1>19, <1>1, <1>4 DEF LookAtSize
  <2>2. /\ job[q].pc = "look" /\ job[q].in.kind \in {"read", "download"} /\ file[p] # None
        /\ UNCHANGED <<file, mixed, history>>
    BY <1>19, <2>1 DEF LookAtSize
  <2>3. wrote[q] = {}
    BY <1>1, <2>2 DEF Marked
  <2>4. CASE Answer(q, "refused")
    BY <1>f, <2>2, <2>3, <2>4 DEF Answers
  <2>5. CASE Tells(q, {Entry(p)}) /\ ~(Is(q, "read") /\ file[p].size > Limit["read"])
    <3>1. job'[q].pc = "tell" /\ job'[q].todo = {} /\ job'[q].told = {Entry(p)}
      BY <1>t, <2>5
    <3>2. Truncates /\ Author /\ wrote'[q] = wrote[q] /\ wrote'[q] \subseteq Paths(q)'
      BY <1>u, <2>2
    <3>3. /\ Paths(q)' = Paths(q) /\ Target(q)' = p /\ UNCHANGED <<file, mixed>>
          /\ \A k : Is(q, k)' = Is(q, k)
      BY <1>5, <1>6, <2>1, <2>2
    <3>4. Is(q, "read") => file[p].size <= Limit["read"]
      <4>1. file[p].size \in 0..MaxSize /\ Limit["read"] \in 0..MaxSize /\ MaxSize \in Nat
        BY <1>3, <2>2, FileFacts, FileManagerAssumption
        DEF FileManagerAssumption, Kind, Readers
      <4> QED
        BY <2>5, <4>1
    <3>5. Entry(Target(q))' = Entry(p)
      BY <3>3 DEF Entry
    <3>6. ~Is(q, "list")'
      BY <2>2, <3>3 DEF Is
    <3>7. Clear(q)'
      BY <3>1, <3>3, <3>4, <3>5, <3>6 DEF Clear
    <3>8. Placed(q)' /\ Marked(q)' /\ Leaves(q)'
      BY <1>1, <1>5, <2>2, <2>3, <3>1, <3>2, <3>3 DEF Placed, Marked, Leaves,
         Readers
    <3> QED
      BY <3>2, <3>7, <3>8
  <2> QED
    BY <1>19, <2>1, <2>4, <2>5 DEF LookAtSize
<1>20. CASE ReadNames(q)
  <2>1. /\ job[q].pc = "look" /\ Is(q, "list") /\ UNCHANGED <<file, mixed, history>>
        /\ job' = [job EXCEPT ![q].pc = "list", ![q].todo = {p \in Path : file[p] # None}]
    BY <1>20 DEF ReadNames
  <2>2. /\ job'[q].pc = "list" /\ job'[q].todo = {p \in Path : file[p] # None}
        /\ job'[q].told = {}
    BY <1>1, <1>2, <2>1 DEF JobRecord, Placed
  <2>3. Truncates /\ Author /\ wrote'[q] = wrote[q] /\ wrote'[q] \subseteq Paths(q)'
    BY <1>u, <2>1
  <2>4. Paths(q)' = Path /\ Is(q, "list")' /\ UNCHANGED <<file, mixed>>
    BY <1>4, <1>5, <1>6, <2>1
  <2>5. Clear(q)'
    <3>1. {Entry(p)' : p \in {p \in Path \ job'[q].todo : file'[p] # None}} = {}
      BY <2>2, <2>4
    <3> QED
      BY <2>2, <2>4, <3>1 DEF Clear
  <2>6. Placed(q)' /\ Marked(q)' /\ Leaves(q)'
    BY <1>1, <1>5, <2>1, <2>2, <2>3, <2>4 DEF Placed, Marked, Leaves
  <2> QED
    BY <2>3, <2>5, <2>6
<1>21. CASE LookAtEntry(q)
  <2>1. /\ job[q].pc = "list" /\ UNCHANGED <<file, mixed, history>> /\ Is(q, "list")
        /\ ~Is(q, "zip") /\ Paths(q) = Path /\ wrote[q] = {}
    BY <1>21, <1>1, <1>4 DEF LookAtEntry, Placed, Marked, Is
  <2>2. CASE Answer(q, "failed")
    BY <1>f, <2>1, <2>2 DEF Answers
  <2>3. ASSUME NEW p \in job[q].todo, file[p] # None,
               job' = [job EXCEPT ![q].todo = @ \ {p}, ![q].told = @ \cup {Entry(p)}]
        PROVE  Holds /\ Truncates
    <3>1. /\ job'[q].pc = "list" /\ job'[q].todo = job[q].todo \ {p}
          /\ job'[q].told = job[q].told \cup {Entry(p)}
      BY <1>2, <2>1, <2>3 DEF JobRecord
    <3>2. Truncates /\ Author /\ wrote'[q] = wrote[q] /\ wrote'[q] \subseteq Paths(q)'
      BY <1>u, <2>1
    <3>3. Paths(q)' = Path /\ Is(q, "list")' /\ UNCHANGED <<file, mixed>>
      BY <1>5, <1>6, <2>1
    <3>4. p \in Path /\ job[q].todo \subseteq Path
      BY <1>1, <2>1, <2>3 DEF Placed
    <3>5. ASSUME q \notin mixed
          PROVE  job[q].told \cup {Entry(p)} =
                   {Entry(x)' : x \in {x \in Path \ (job[q].todo \ {p}) : file'[x] # None}}
      <4>1. job[q].told = {Entry(x) : x \in {x \in Path \ job[q].todo : file[x] # None}}
        BY <1>1, <2>1, <3>5 DEF Clear
      <4>2. \A x \in Path : Entry(x)' = Entry(x)
        BY <3>3 DEF Entry
      <4>3. {x \in Path \ (job[q].todo \ {p}) : file'[x] # None} =
              {x \in Path \ job[q].todo : file[x] # None} \cup {p}
        BY <2>3, <3>3, <3>4
      <4> QED
        BY <4>1, <4>2, <4>3, <3>4
    <3>6. q \notin mixed => \A x \in job[q].todo : file'[x] # None
      BY <1>1, <2>1, <3>3 DEF Clear
    <3>7. Clear(q)'
      BY <3>1, <3>3, <3>5, <3>6 DEF Clear
    <3>8. Placed(q)' /\ Marked(q)' /\ Leaves(q)'
      BY <1>1, <1>5, <2>1, <3>1, <3>2, <3>3, <3>4 DEF Placed, Marked, Leaves
    <3> QED
      BY <3>2, <3>7, <3>8
  <2> QED
    BY <1>21, <2>2, <2>3 DEF LookAtEntry
<1>22. CASE LookedAtEntries(q)
  <2>1. /\ job[q].pc = "list" /\ job[q].todo = {} /\ UNCHANGED <<file, mixed, history>>
        /\ Is(q, "list") /\ Tells(q, job[q].told) /\ wrote[q] = {}
    BY <1>22, <1>1 DEF LookedAtEntries, Placed, Marked
  <2>2. job'[q].pc = "tell" /\ job'[q].todo = {} /\ job'[q].told = job[q].told
    BY <1>t, <2>1
  <2>3. Truncates /\ Author /\ wrote'[q] = wrote[q] /\ wrote'[q] \subseteq Paths(q)'
    BY <1>u, <2>1
  <2>4. /\ Paths(q)' = Paths(q) /\ Is(q, "list")' /\ UNCHANGED <<file, mixed>>
        /\ job[q].in.kind \in Readers
    BY <1>5, <1>6, <2>1 DEF Is, Readers
  <2>5. q \notin mixed =>
          job[q].told = {Entry(x)' : x \in {x \in Path : file'[x] # None}}
    <3>1. \A x \in Path : Entry(x)' = Entry(x)
      BY <2>4 DEF Entry
    <3>2. q \notin mixed =>
            job[q].told = {Entry(x) : x \in {x \in Path \ job[q].todo : file[x] # None}}
      BY <1>1, <2>1 DEF Clear
    <3>3. {x \in Path \ job[q].todo : file[x] # None} = {x \in Path : file'[x] # None}
      BY <2>1, <2>4
    <3> QED
      BY <3>1, <3>2, <3>3
  <2>6. Clear(q)'
    BY <2>2, <2>4, <2>5 DEF Clear
  <2>7. Placed(q)' /\ Marked(q)' /\ Leaves(q)'
    BY <1>1, <1>5, <2>1, <2>2, <2>3, <2>4 DEF Placed, Marked, Leaves
  <2> QED
    BY <2>3, <2>6, <2>7
<1>23. CASE Tell(q)
  <2>1. job[q].pc = "tell" /\ UNCHANGED <<file, mixed, history>> /\ ~Is(q, "zip")
    BY <1>23, <1>1 DEF Tell, Placed, Is, Readers
  <2>2. PICK text : job' = [job EXCEPT ![q] = [NewJob EXCEPT
                              !.pc = "done", !.in = job[q].in, !.text = text]]
    BY <1>23 DEF Tell
  <2>3. PICK j : j = [NewJob EXCEPT !.pc = "done", !.in = job[q].in, !.text = text]
    OBVIOUS
  <2>4. job'[q] = j
    BY <1>2, <2>2, <2>3
  <2>5. job'[q].pc = "done" /\ job'[q].todo = {}
    BY <2>3, <2>4, NewJobFacts DEF JobRecord
  <2>6. /\ Truncates /\ Author /\ wrote'[q] = wrote[q]
        /\ wrote'[q] \subseteq Paths(q)'
    BY <1>u, <2>1
  <2>7. Leaves(q)'
    BY <1>6, <2>1, <2>5 DEF Leaves
  <2> QED
    BY <1>h, <2>5, <2>6, <2>7 DEF Answers
<1>24. CASE Fail(q)
  <2>1. job[q].pc # "new" /\ Answer(q, "failed") /\ UNCHANGED mixed
    BY <1>24 DEF Fail, Active
  <2>2. CASE UNCHANGED <<file, history>>
    BY <1>f, <2>1, <2>2 DEF Answers
  <2>3. CASE /\ job[q].pc = "data" /\ UNCHANGED history
             /\ \E n \in 1..job[q].in.size : file' = Written(q, n, "mixed")
    <3>1. PICK n \in 1..job[q].in.size : file' = Written(q, n, "mixed")
      BY <2>3
    <3>2. n \in 0..MaxSize
      BY <1>4, <2>1, <3>1, FileFacts
    <3>3. Author /\ Truncates /\ wrote'[q] \subseteq Paths(q)'
      BY <1>w, <2>1, <2>3, <3>1, <3>2
    <3>4. Leaves(q)' /\ job'[q].pc = "failed" /\ job'[q].todo = {}
      BY <1>a, <2>1 DEF Leaves, Answers
    <3> QED
      BY <1>h, <3>3, <3>4 DEF Answers
  <2>4. ASSUME job[q].pc = "zip", NEW n \in 0..job[q].in.size,
               file' = [file EXCEPT ![Target(q)] = Put(q, Target(q), "mixed", n)],
               Changes(q, Target(q)), Replaces(q, Target(q))
        PROVE  Holds /\ Truncates
    <3>1. PICK p \in Path : p = Target(q) /\ Paths(q) = {p}
      BY <1>1, <1>4, <2>1, <2>4 DEF Placed, Is
    <3>2. PICK f : f = Put(q, p, "mixed", n)
      OBVIOUS
    <3>3. n \in 0..MaxSize
      BY <1>4, <2>1, FileFacts
    <3>4. f.by # q
      BY <1>1, <3>2, <3>3, FileFacts, PutFacts
    <3>5. file'[p] = f /\ \A x \in Path \ {p} : file'[x] = file[x]
      BY <1>3, <2>4, <3>1, <3>2
    <3>6. wrote'[q] = wrote[q] \cup {p}
      BY <1>3, <2>4, <3>1 DEF Changes
    <3>7. /\ Paths(q)' = Paths(q) /\ job'[q].in = job[q].in
          /\ job'[q].pc = "failed" /\ job'[q].todo = {}
      BY <1>5, <1>6, <1>a, <2>1 DEF Answers
    <3>8. ~job[q].in.overwrite /\ q \notin mixed => file[p] = None
      BY <1>1, <2>4, <3>1 DEF Clear
    <3>9. Is(q, "zip")
      BY <1>1, <2>4 DEF Placed
    <3>10. Truncates
      BY <2>4, <3>1, <3>8, <3>9 DEF Replaces, Is
    <3>11. Author /\ wrote'[q] \subseteq Paths(q)'
      BY <1>1, <3>1, <3>4, <3>5, <3>6, <3>7 DEF Marked
    <3>12. Leaves(q)'
      BY <3>7 DEF Leaves
    <3> QED
      BY <1>h, <3>7, <3>10, <3>11, <3>12 DEF Answers
  <2> QED
    BY <1>24, <2>2, <2>3, <2>4 DEF Fail
<1> QED
  BY <1>7, <1>8, <1>9, <1>10, <1>11, <1>12, <1>13, <1>14, <1>15, <1>16, <1>17,
     <1>18, <1>19,
     <1>20, <1>21, <1>22, <1>23, <1>24 DEF Step

\* Every step but an arrival is of a request that is under way.
LEMMA StepperActive ==
  ASSUME NEW q \in Req, Step(q)
  PROVE  job[q].pc = "new" \/ Active(q)
BY DEF Step, Receive, RefuseTooLarge, LookAtTarget, LookedAtAll, OpenTarget,
       OpenExists,
   WriteTarget, WriteZip, MeasureZip, RemoveZip, LookAtOwner, Chown, Chmod,
   LookAtSize,
   ReadNames, LookAtEntry, LookedAtEntries, Tell, Fail, Active, Answers

\* A request that arrives marks those it may disturb, and itself.
LEMMA ApartKept ==
  ASSUME IInv, NEW q \in Req, Step(q), StepOf(q)
  PROVE  Apart'
<1>1. TypeOK /\ Apart
  BY DEF IInv, RefusedChangesNothing
<1> SUFFICES ASSUME NEW s \in Req, NEW r \in Req, s # r, Active(s)', Active(r)',
                    (Paths(s) \cap Paths(r) # {})', Changing(job[s].in)'
             PROVE  r \in mixed'
  BY DEF Apart
<1>2. /\ \A t \in Req \ {q} : job'[t] = job[t]
      /\ mixed \subseteq mixed'
  BY <1>1 DEF StepOf, TypeOK
<1>3. CASE s # q /\ r # q
  BY <1>1, <1>2, <1>3 DEF Apart, Active, Paths, Changing
<1>4. CASE q \in {s, r} /\ job[q].pc # "new"
  <2>1. Active(q) /\ job'[q].in = job[q].in
    BY <1>1, <1>4, StepperActive DEF StepOf, TypeOK
  <2> QED
    BY <1>1, <1>2, <1>4, <2>1 DEF Apart, Active, Paths, Changing
<1>5. CASE q \in {s, r} /\ job[q].pc = "new"
  <2>1. mixed' = mixed \cup Disturbed(q, job'[q].in)
    BY <1>5 DEF StepOf
  <2>2. CASE s = q
    <3>1. r \in Overlaps(job'[q].in)
      BY <1>2, <2>2 DEF Overlaps, Active, Paths
    <3> QED
      BY <2>1, <2>2, <3>1 DEF Disturbed, Changing
  <2>3. CASE r = q
    <3>1. s \in Overlaps(job'[q].in) /\ Changing(job[s].in)
      BY <1>2, <2>3 DEF Overlaps, Active, Paths, Changing
    <3> QED
      BY <2>1, <2>3, <3>1 DEF Disturbed
  <2> QED
    BY <1>5, <2>2, <2>3
<1> QED
  BY <1>3, <1>4, <1>5

\* A step keeps the invariant.
LEMMA StepKeeps ==
  ASSUME IInv, NEW q \in Req, Step(q)
  PROVE  IInv'
<1>1. StepOf(q)
  BY StepEffects
<1>2. TypeOK /\ Placed(q) /\ Marked(q) /\ \A r \in Req : Placed(r) /\ Marked(r)
  BY DEF IInv, RefusedChangesNothing
<1>3. \A r \in Req : (Placed(r) /\ Marked(r) /\ Clear(r) /\ Leaves(r))'
  BY <1>1, OwnKeeps, OthersKeep
<1>4. PICK j \in JobRecord : /\ job' = [job EXCEPT ![q] = j]
                             /\ j.pc = "data" => j.at \in j.in.paths
                             /\ job[q].pc # "new" => j.in = job[q].in
  BY <1>1 DEF StepOf
<1>5. job' \in [Req -> JobRecord] /\ job'[q] = j /\ \A r \in Req \ {q} : job'[r] = job[r]
  BY <1>2, <1>4 DEF TypeOK, JobRecord, Asked
<1>6. TypeOK'
  BY <1>1, <1>2, <1>4, <1>5 DEF StepOf, TypeOK, JobRecord, Asked
<1>7. RefusedChangesNothing'
  BY <1>3, <1>6 DEF RefusedChangesNothing, Leaves
<1>8. \A x \in replaced' : x[1] \in Req /\ x[2] \in wrote'[x[1]]
  BY <1>1, <1>2 DEF StepOf, IInv, TypeOK
<1>9. NoReplaceUnasked'
  <2> SUFFICES ASSUME NEW x \in replaced', ~job'[x[1]].in.overwrite
               PROVE  x[1] \in mixed' /\ ~Is(x[1], "upload")'
    BY DEF NoReplaceUnasked
  <2>1. PICK r \in Req : r = x[1]
    BY <1>8
  <2>2. CASE x \in replaced
    <3>1. wrote[r] # {} /\ job[r].pc # "new"
      BY <1>2, <2>1, <2>2 DEF IInv, Marked
    <3>2. job'[r].in = job[r].in
      BY <1>4, <1>5, <3>1
    <3> QED
      BY <1>1, <2>1, <2>2, <3>2 DEF IInv, NoReplaceUnasked, Is, StepOf
  <2>3. CASE x \notin replaced
    <3>1. /\ r = q
          /\ ~job[q].in.overwrite => q \in mixed /\ ~Is(q, "upload")
      BY <1>1, <2>1, <2>3, OwnKeeps
    <3>2. wrote'[q] # {}
      BY <1>8, <2>1, <3>1
    <3>3. job[q].pc # "new"
      BY <1>2, <3>2 DEF Step, Receive, RefuseTooLarge, LookAtTarget,
                        LookedAtAll, OpenTarget,
         OpenExists, WriteTarget, WriteZip, MeasureZip, RemoveZip, LookAtOwner,
         Chown, Chmod,
         LookAtSize, ReadNames, LookAtEntry, LookedAtEntries, Tell, Fail,
         Active, Marked,
         history
    <3>4. job'[q].in = job[q].in
      BY <1>4, <1>5, <3>3
    <3> QED
      BY <1>1, <2>1, <3>1, <3>4 DEF Is, StepOf
  <2> QED
    BY <2>2, <2>3
<1> QED
  BY <1>1, <1>3, <1>7, <1>8, <1>9, ApartKept DEF IInv

\* The invariant holds.
LEMMA Invariant == Spec => []IInv
<1>1. Init => IInv
  BY Initial
<1>2. IInv /\ [Next]_vars => IInv'
  <2> SUFFICES ASSUME IInv, [Next]_vars PROVE IInv'
    OBVIOUS
  <2>1. CASE Next
    BY <2>1, StepKeeps DEF Next
  <2>2. CASE UNCHANGED vars
    <3>1. UNCHANGED <<file, job, mixed, wrote, replaced>>
      BY <2>2 DEF vars, history
    <3>2. RefusedChangesNothing' /\ NoReplaceUnasked'
      BY <3>1 DEF IInv, RefusedChangesNothing, NoReplaceUnasked, TypeOK, Is
    <3>3. \A r \in Req : (Placed(r) /\ Marked(r))'
      BY <3>1 DEF IInv, Placed, Marked, Paths, Is
    <3>4. \A r \in Req : Clear(r)'
      BY <3>1 DEF IInv, Clear, Whole, Paths, Is, Target, Entry
    <3>5. Apart'
      BY <3>1 DEF IInv, Apart, Active, Paths
    <3> QED
      BY <3>1, <3>2, <3>3, <3>4, <3>5 DEF IInv
  <2> QED
    BY <2>1, <2>2
<1> QED
  BY <1>1, <1>2, PTL DEF Spec

\* A request that is answered with success has done what it was asked.
LEMMA AnswerIsDone ==
  ASSUME IInv, NEW q \in Req, Step(q), q \notin mixed,
         job'[q].pc = "done", job[q].pc # "done", NEW p \in Paths(q)
  PROVE  Done(q, p)
<1>1. TypeOK /\ Placed(q) /\ Marked(q) /\ Clear(q)
  BY DEF IInv, RefusedChangesNothing
<1>2. job \in [Req -> JobRecord] /\ job[q] \in JobRecord
  BY <1>1 DEF TypeOK, JobRecord, Asked
<1>3. file \in [Path -> Files \cup {None}] /\ \A x \in Path : file[x] # None => file[x] \in Files
  BY <1>1 DEF TypeOK
<1>4. job[q].pc # "new" =>
        /\ p \in Path
        /\ job[q].in.kind \notin {"unzip", "list"} => p = Target(q)
  BY <1>1, InputFacts
<1>g. ASSUME NEW next, Goto(q, next) PROVE job'[q].pc = next
  BY <1>2, <1>g DEF Goto, JobRecord
<1>5. CASE WriteTarget(q)
  <2>1. /\ job[q].pc = "data" /\ file' = Written(q, job[q].in.size, q)
        /\ job[q].in.kind \in {"upload", "write", "unzip"}
    BY <1>1, <1>5 DEF WriteTarget, Placed
  <2>2. job[q].todo = {}
    BY <1>5, <1>g DEF WriteTarget
  <2>3. file'[p] # None /\ file'[p].by = q /\ file'[p].size = job[q].in.size
    BY <1>1, <1>4, <2>1, <2>2, WrittenWhole DEF Clear, Whole
  <2> QED
    BY <2>1, <2>3 DEF Done, Is
<1>6. CASE MeasureZip(q)
  <2>1. job[q].pc = "stat" /\ Is(q, "zip") /\ UNCHANGED file /\ p = Target(q)
    BY <1>1, <1>4, <1>6 DEF MeasureZip, Placed, Is
  <2> QED
    BY <1>1, <2>1 DEF Clear, Whole, Done, Is
<1>7. CASE Chown(q)
  <2>1. PICK x \in Path : x = Target(q) /\ x = p
    BY <1>7, <1>1, <1>4 DEF Chown, Placed, Is
  <2>2. /\ Is(q, "chown") /\ file[x] # None
        /\ job[q].saw = <<file[x].uid, file[x].gid>>
        /\ file' = [file EXCEPT ![x].uid = Given(q, "uid", job[q].saw[1]),
                                ![x].gid = Given(q, "gid", job[q].saw[2])]
    BY <1>7, <1>1, <2>1 DEF Chown, Placed, Clear
  <2>3. file'[x] = [file[x] EXCEPT !.uid = Given(q, "uid", file[x].uid),
                                   !.gid = Given(q, "gid", file[x].gid)]
    BY <1>3, <2>2
  <2> QED
    BY <1>3, <2>1, <2>2, <2>3 DEF Done, Is, Given, Files
<1>8. CASE Chmod(q)
  <2>1. PICK x \in Path : x = Target(q) /\ x = p
    BY <1>8, <1>1, <1>4 DEF Chmod, Is
  <2>2. /\ Is(q, "chmod") /\ file[x] # None
        /\ file' = [file EXCEPT ![x].mode = q]
    BY <1>8, <2>1 DEF Chmod
  <2>3. file'[x] = [file[x] EXCEPT !.mode = q]
    BY <1>3, <2>2
  <2> QED
    BY <2>1, <2>2, <2>3 DEF Done, Is
<1>9. CASE Tell(q)
  <2>1. /\ job[q].pc = "tell" /\ job[q].in.kind \in {"read", "download", "list"}
        /\ UNCHANGED file
    BY <1>9, <1>1 DEF Tell, Placed, Readers
  <2>2. CASE Is(q, "list")
    BY <1>1, <2>1, <2>2 DEF Clear, Done, Is
  <2>3. CASE ~Is(q, "list")
    <3>1. PICK text : /\ text = IF Is(q, "read") THEN Decoded(file[p].by) ELSE file[p].by
                      /\ job' = [job EXCEPT ![q] = [NewJob EXCEPT
                                   !.pc = "done", !.in = job[q].in, !.text = text]]
      BY <1>4, <1>9, <2>1, <2>3 DEF Tell, Is
    <3>2. PICK j : j = [NewJob EXCEPT !.pc = "done", !.in = job[q].in, !.text = text]
      OBVIOUS
    <3>3. job'[q] = j
      BY <1>2, <3>1, <3>2
    <3>4. job'[q].text = text
      BY <3>2, <3>3, NewJobFacts DEF JobRecord
    <3>5. Is(q, "download") \/ Utf8(file[p].by) => job'[q].text = file[p].by
      BY <3>1, <3>4 DEF Decoded, Is
    <3>6. /\ job[q].told = {Entry(p)}
          /\ Is(q, "read") => file[p].size <= Limit["read"]
      BY <1>1, <1>4, <2>1, <2>3 DEF Clear, Is
    <3> QED
      BY <2>1, <2>3, <3>5, <3>6 DEF Done, Is
  <2> QED
    BY <2>2, <2>3
<1>10. CASE Receive(q) \/ RefuseTooLarge(q)
  <2>1. PICK x \in Input[q] :
          \/ job' = [job EXCEPT ![q] = [NewJob EXCEPT !.pc = "look", !.in = x, !.todo = x.paths]]
          \/ job' = [job EXCEPT ![q] = [NewJob EXCEPT !.pc = "refused", !.in = x]]
    BY <1>10 DEF Receive, RefuseTooLarge
  <2>2. PICK l : l = [NewJob EXCEPT !.pc = "look", !.in = x, !.todo = x.paths]
    OBVIOUS
  <2>3. PICK d : d = [NewJob EXCEPT !.pc = "refused", !.in = x]
    OBVIOUS
  <2>4. l.pc = "look" /\ d.pc = "refused"
    BY <2>2, <2>3, NewJobFacts DEF JobRecord
  <2>5. job'[q] = l \/ job'[q] = d
    BY <1>2, <2>1, <2>2, <2>3
  <2> QED
    BY <2>4, <2>5
<1>11. ASSUME NEW how \in {"refused", "failed"}, Answer(q, how) PROVE FALSE
  BY <1>2, <1>11, NewJobFacts DEF Answer, JobRecord
<1>12. CASE \/ LookAtTarget(q) \/ OpenExists(q) \/ RemoveZip(q) \/ LookAtSize(q)
           \/ LookAtEntry(q) \/ Fail(q)
  <2>1. CASE \E how \in {"refused", "failed"} : Answer(q, how)
    BY <1>11, <2>1
  <2>2. CASE LookAtTarget(q)
    BY <1>2, <2>1, <2>2 DEF LookAtTarget, JobRecord
  <2>3. CASE LookAtEntry(q)
    BY <1>2, <2>1, <2>3 DEF LookAtEntry, JobRecord
  <2>4. CASE LookAtSize(q)
    BY <1>2, <2>1, <2>4 DEF LookAtSize, JobRecord, Tells
  <2> QED
    BY <1>12, <2>1, <2>2, <2>3, <2>4 DEF OpenExists, RemoveZip, Fail
<1>13. CASE \/ LookedAtAll(q) \/ OpenTarget(q) \/ WriteZip(q) \/ LookAtOwner(q)
           \/ ReadNames(q) \/ LookedAtEntries(q)
  <2>1. CASE LookedAtAll(q)
    BY <1>2, <2>1 DEF LookedAtAll, JobRecord
  <2>2. CASE OpenTarget(q)
    BY <1>2, <2>2 DEF OpenTarget, JobRecord
  <2>3. CASE WriteZip(q)
    BY <1>g, <2>3 DEF WriteZip
  <2>4. CASE LookAtOwner(q)
    BY <1>2, <2>4 DEF LookAtOwner, JobRecord
  <2>5. CASE ReadNames(q)
    BY <1>2, <2>5 DEF ReadNames, JobRecord
  <2>6. CASE LookedAtEntries(q)
    BY <1>2, <2>6 DEF LookedAtEntries, Tells, JobRecord
  <2> QED
    BY <1>13, <2>1, <2>2, <2>3, <2>4, <2>5, <2>6
<1> QED
  BY <1>5, <1>6, <1>7, <1>8, <1>9, <1>10, <1>12, <1>13 DEF Step

\* A request that does not ask to overwrite replaces a file only if another
\* one for it overlapped, and an upload never does (uploadFile's flag "wx").
THEOREM ReplaceCorrect == Spec => []NoReplaceUnasked
<1>1. IInv => NoReplaceUnasked
  BY DEF IInv
<1> QED
  BY <1>1, Invariant, PTL

\* A refused request has changed no file, and no archive beyond the limit is
\* left by a request that was answered.
THEOREM RefusalCorrect == Spec => []RefusedChangesNothing
<1>1. IInv => RefusedChangesNothing
  BY DEF IInv
<1> QED
  BY <1>1, Invariant, PTL

\* A request nobody disturbs that is answered with success has done what it
\* was asked, and told what is there.
THEOREM AnswerCorrect == Spec => AnsweredIsDone
<1> DEFINE Answered(r) == (job'[r].pc = "done" /\ job[r].pc # "done") =>
                            \A p \in job[r].in.paths : Done(r, p)
<1>1. ASSUME IInv, [Next]_vars PROVE [\A r \in Req \ mixed : Answered(r)]_vars
  <2>1. CASE UNCHANGED vars
    BY <2>1
  <2>2. ASSUME NEW q \in Req, Step(q), NEW r \in Req \ mixed PROVE Answered(r)
    <3>1. CASE r = q
      BY <1>1, <2>2, <3>1, AnswerIsDone DEF Paths
    <3>2. CASE r # q
      <4>1. job'[r] = job[r]
        BY <1>1, <2>2, <3>2, StepEffects DEF StepOf, IInv,
           RefusedChangesNothing, TypeOK
      <4> QED
        BY <4>1
    <3> QED
      BY <3>1, <3>2
  <2> QED
    BY <1>1, <2>1, <2>2 DEF Next
<1> QED
  BY <1>1, Invariant, PTL DEF Spec, AnsweredIsDone

-----------------------------------------------------------------------------
(* The paths that are told: recursion *)

\* A set that holds 0 and the successor of each of its numbers holds them all.
LEMMA Induction ==
  ASSUME NEW T, 0 \in T, \A k \in Nat : k \in T => k + 1 \in T
  PROVE  \A n \in Nat : n \in T
<1> SUFFICES ASSUME NEW n \in Nat, n \notin T PROVE FALSE
  OBVIOUS
<1> DEFINE I == T \cap 0..n
           next == [k \in I |-> k + 1]
<1>1. IsFiniteSet(I) /\ Cardinality(I) \in Nat
  <2>1. IsFiniteSet(0..n)
    BY FS_Interval
  <2> QED
    BY <2>1, FS_Subset, FS_CardinalityType
<1>2. IsFiniteSet(I \ {0}) /\ Cardinality(I \ {0}) = Cardinality(I) - 1
  BY <1>1, FS_RemoveElement, 0 \in I
<1>3. next \in [I -> I \ {0}]
  BY n \notin I
<1>4. \A x, y \in I : x # y => next[x] # next[y]
  OBVIOUS
<1> HIDE DEF I, next
<1>5. Cardinality(I \ {0}) < Cardinality(I)
  BY <1>1, <1>2
<1> QED
  BY <1>1, <1>2, <1>3, <1>4, <1>5, FS_PigeonHole

\* The name of an entry is neither "." nor "..".
LEMMA PlainNames ==
  ASSUME NEW name \in PlainName
  PROVE  name \in Name /\ name # "." /\ name # ".."
BY PathSandboxAssumption DEF Name

\* f is what n steps within S make of b.
Steps(f, n, S, b, step) ==
  f \in [0..n -> S] /\ f[0] = b /\ \A k \in 1..n : f[k] = step[k][f[k - 1]]

\* A recursion of n steps within S has a solution.
LEMMA Recursion ==
  ASSUME NEW n \in Nat, NEW S, NEW b \in S, NEW step \in [1..n -> [S -> S]]
  PROVE  \E f : Steps(f, n, S, b, step)
<1> DEFINE Solves(f, m) ==
             f \in [0..m -> S] /\ f[0] = b /\ \A k \in 1..m : f[k] = step[k][f[k - 1]]
           T == {m \in Nat : m \in 0..n => \E f : Solves(f, m)}
<1>1. 0 \in T
  <2>1. Solves([k \in 0..0 |-> b], 0)
    OBVIOUS
  <2> QED
    BY <2>1
<1>2. ASSUME NEW m \in Nat, m \in T PROVE m + 1 \in T
  <2> SUFFICES ASSUME m + 1 \in 0..n PROVE \E f : Solves(f, m + 1)
    OBVIOUS
  <2>1. PICK f : Solves(f, m)
    BY <1>2
  <2> DEFINE g == [k \in 0..(m + 1) |-> IF k = m + 1 THEN step[k][f[m]] ELSE f[k]]
  <2>2. f[m] \in S /\ m + 1 \in 1..n
    BY <2>1
  <2>3. g \in [0..(m + 1) -> S]
    <3>1. step[m + 1][f[m]] \in S
      BY <2>2
    <3>2. \A k \in 0..(m + 1) : k # m + 1 => k \in 0..m
      OBVIOUS
    <3>3. \A k \in 0..m : f[k] \in S
      BY <2>1
    <3> QED
      BY <3>1, <3>2, <3>3
  <2>4. g[0] = b /\ g[m + 1] = step[m + 1][f[m]] /\ \A k \in 0..m : g[k] = f[k]
    BY <2>1
  <2>5. ASSUME NEW k \in 1..(m + 1) PROVE g[k] = step[k][g[k - 1]]
    <3>1. CASE k = m + 1
      <4>1. k - 1 = m /\ m \in 0..m
        BY <3>1
      <4> HIDE DEF g
      <4> QED
        BY <2>4, <3>1, <4>1
    <3>2. CASE k # m + 1
      <4>1. k \in 1..m /\ k - 1 \in 0..m /\ k \in 0..m
        BY <3>2
      <4> HIDE DEF g
      <4> QED
        BY <2>1, <2>4, <4>1
    <3> QED
      BY <3>1, <3>2
  <2>6. Solves(g, m + 1)
    <3> HIDE DEF g
    <3> QED
      BY <2>3, <2>4, <2>5
  <2> QED
    BY <2>6
<1>3. \A m \in Nat : m \in T
  <2> HIDE DEF T
  <2> QED
    BY <1>1, <1>2, Induction
<1>4. PICK f : Solves(f, n)
  BY <1>3
<1> QED
  BY <1>4 DEF Steps

\* Of what exists, or is a link, and of where a link leads, the path is plain.
LEMMA PlainPaths ==
  /\ Existing \cup DOMAIN Links \subseteq Seq(PlainName)
  /\ Seq(PlainName) \subseteq Seq(Name)
  /\ \A path \in DOMAIN Links : Followed(path) \in Seq(PlainName)
<1>1. Seq(PlainName) \subseteq Seq(Name)
  BY DEF Name
<1> QED
  BY <1>1, PathSandboxAssumption DEF Followed

LEMMA FollowedType ==
  ASSUME NEW path \in Seq(Name)
  PROVE  Followed(path) \in Seq(Name)
BY PlainPaths DEF Followed

\* realpath follows a path name by name.
LEMMA RealPathSteps ==
  ASSUME NEW path \in Seq(Name)
  PROVE  \E f \in [0..Len(path) -> Seq(Name)] :
           /\ f[0] = <<>> /\ RealPath(path) = f[Len(path)]
           /\ \A k \in 1..Len(path) : f[k] = Followed(Append(f[k - 1], path[k]))
<1> DEFINE F(g) == [k \in 0..Len(path) |->
                      IF k = 0 THEN <<>> ELSE Followed(Append(g[k - 1], path[k]))]
           real == CHOOSE g : g = F(g)
<1>1. Len(path) \in Nat /\ \A k \in 1..Len(path) : path[k] \in Name
  OBVIOUS
<1>2. \A k \in 1..Len(path), x \in Seq(Name) :
        Followed(Append(x, path[k])) \in Seq(Name)
  <2>1. \A k \in 1..Len(path), x \in Seq(Name) : Append(x, path[k]) \in Seq(Name)
    BY <1>1
  <2>2. \A x \in Seq(Name) : Followed(x) \in Seq(Name)
    BY FollowedType
  <2> QED
    BY <2>1, <2>2
<1>3. \E g : g = F(g)
  <2>1. PICK step : step = [k \in 1..Len(path) |->
                             [x \in Seq(Name) |-> Followed(Append(x, path[k]))]]
    OBVIOUS
  <2>2. \A k \in 1..Len(path), x \in Seq(Name) :
          step[k][x] \in Seq(Name) /\ step[k][x] = Followed(Append(x, path[k]))
    BY <1>2, <2>1
  <2>3. <<>> \in Seq(Name)
    OBVIOUS
  <2>4. \E g \in [0..Len(path) -> Seq(Name)] :
          g[0] = <<>> /\ \A k \in 1..Len(path) : g[k] = step[k][g[k - 1]]
    <3>1. PICK n, S, b : n = Len(path) /\ S = Seq(Name) /\ b = <<>>
      OBVIOUS
    <3>2. n \in Nat /\ b \in S /\ step \in [1..n -> [S -> S]]
      BY <1>1, <1>2, <2>1, <2>3, <3>1
    <3>3. PICK g : Steps(g, n, S, b, step)
      BY <3>2, Recursion
    <3> QED
      BY <3>1, <3>3 DEF Steps
  <2>5. PICK g \in [0..Len(path) -> Seq(Name)] :
          g[0] = <<>> /\ \A k \in 1..Len(path) : g[k] = step[k][g[k - 1]]
    BY <2>4
  <2>6. \A k \in 1..Len(path) : g[k] = Followed(Append(g[k - 1], path[k]))
    <3> SUFFICES ASSUME NEW k \in 1..Len(path)
                 PROVE  g[k] = Followed(Append(g[k - 1], path[k]))
      OBVIOUS
    <3>1. k - 1 \in 0..Len(path)
      BY <1>1
    <3>2. g[k - 1] \in Seq(Name)
      BY <3>1
    <3> QED
      BY <2>2, <2>5, <3>2
  <2>7. g = F(g)
    <3>1. \A k \in 0..Len(path) : k # 0 => k \in 1..Len(path)
      BY <1>1
    <3>2. \A k \in 0..Len(path) :
            g[k] = IF k = 0 THEN <<>> ELSE Followed(Append(g[k - 1], path[k]))
      BY <2>5, <2>6, <3>1
    <3>3. g = [k \in 0..Len(path) |-> g[k]]
      OBVIOUS
    <3> QED
      BY <3>2, <3>3
  <2> QED
    BY <2>7
<1>4. real = F(real)
  <2> HIDE DEF F
  <2> QED
    BY <1>3
<1>5. RealPath(path) = real[Len(path)]
  BY DEF RealPath
<1> HIDE DEF real
<1>6. real[0] = <<>> /\ \A k \in 1..Len(path) : real[k] = Followed(Append(real[k - 1], path[k]))
  BY <1>1, <1>4
<1>7. real = [k \in 0..Len(path) |-> real[k]]
  BY <1>4
<1>8. \A k \in 0..Len(path) : real[k] \in Seq(Name)
  <2> DEFINE T == {k \in Nat : k \in 0..Len(path) => real[k] \in Seq(Name)}
  <2>1. 0 \in T
    <3>1. <<>> \in Seq(Name)
      OBVIOUS
    <3> QED
      BY <1>6, <3>1
  <2>2. ASSUME NEW k \in Nat, k \in T PROVE k + 1 \in T
    <3> SUFFICES ASSUME k + 1 \in 0..Len(path) PROVE real[k + 1] \in Seq(Name)
      OBVIOUS
    <3>1. k + 1 \in 1..Len(path) /\ real[k] \in Seq(Name) /\ (k + 1) - 1 = k
      BY <2>2, <1>1
    <3> QED
      BY <1>2, <1>6, <3>1
  <2>3. \A k \in Nat : k \in T
    <3> HIDE DEF T
    <3> QED
      BY <2>1, <2>2, Induction
  <2> QED
    BY <1>1, <2>3
<1> QED
  BY <1>1, <1>5, <1>6, <1>7, <1>8
\* A plain path is what its names are entered one by one.
LEMMA NormalizeSteps ==
  ASSUME NEW names \in Seq(Name)
  PROVE  \E f \in [0..Len(names) -> Seq(PlainName)] :
           /\ f[0] = <<>> /\ Normalize(names) = f[Len(names)]
           /\ \A k \in 1..Len(names) : f[k] = Entered(f[k - 1], names[k])
<1> DEFINE F(g) == [k \in 0..Len(names) |->
                      IF k = 0 THEN <<>> ELSE Entered(g[k - 1], names[k])]
           path == CHOOSE g : g = F(g)
<1>1. Len(names) \in Nat /\ \A k \in 1..Len(names) : names[k] \in Name
  OBVIOUS
<1>2. \A k \in 1..Len(names), x \in Seq(PlainName) :
        Entered(x, names[k]) \in Seq(PlainName)
  <2> SUFFICES ASSUME NEW k \in 1..Len(names), NEW x \in Seq(PlainName)
               PROVE  Entered(x, names[k]) \in Seq(PlainName)
    OBVIOUS
  <2>1. names[k] \in Name
    BY <1>1
  <2>2. CASE names[k] \in PlainName
    BY <2>2, PlainNames DEF Entered
  <2>3. CASE names[k] = ".." /\ x # <<>>
    <3>1. Front(x) \in Seq(PlainName)
      BY <2>3 DEF Front
    <3> QED
      BY <2>3, <3>1 DEF Entered, Name
  <2> QED
    BY <2>1, <2>2, <2>3 DEF Entered, Name
<1>3. \E g : g = F(g)
  <2>1. PICK step : step = [k \in 1..Len(names) |->
                             [x \in Seq(PlainName) |-> Entered(x, names[k])]]
    OBVIOUS
  <2>2. \A k \in 1..Len(names), x \in Seq(PlainName) :
          step[k][x] \in Seq(PlainName) /\ step[k][x] = Entered(x, names[k])
    BY <1>2, <2>1
  <2>3. <<>> \in Seq(PlainName)
    OBVIOUS
  <2>4. \E g \in [0..Len(names) -> Seq(PlainName)] :
          g[0] = <<>> /\ \A k \in 1..Len(names) : g[k] = step[k][g[k - 1]]
    <3>1. PICK n, S, b : n = Len(names) /\ S = Seq(PlainName) /\ b = <<>>
      OBVIOUS
    <3>2. n \in Nat /\ b \in S /\ step \in [1..n -> [S -> S]]
      BY <1>1, <1>2, <2>1, <2>3, <3>1
    <3>3. PICK g : Steps(g, n, S, b, step)
      BY <3>2, Recursion
    <3> QED
      BY <3>1, <3>3 DEF Steps
  <2>5. PICK g \in [0..Len(names) -> Seq(PlainName)] :
          g[0] = <<>> /\ \A k \in 1..Len(names) : g[k] = step[k][g[k - 1]]
    BY <2>4
  <2>6. \A k \in 1..Len(names) : g[k] = Entered(g[k - 1], names[k])
    <3> SUFFICES ASSUME NEW k \in 1..Len(names)
                 PROVE  g[k] = Entered(g[k - 1], names[k])
      OBVIOUS
    <3>1. k - 1 \in 0..Len(names)
      BY <1>1
    <3>2. g[k - 1] \in Seq(PlainName)
      BY <3>1
    <3> QED
      BY <2>2, <2>5, <3>2
  <2>7. g = F(g)
    <3>1. \A k \in 0..Len(names) : k # 0 => k \in 1..Len(names)
      BY <1>1
    <3>2. \A k \in 0..Len(names) :
            g[k] = IF k = 0 THEN <<>> ELSE Entered(g[k - 1], names[k])
      BY <2>5, <2>6, <3>1
    <3>3. g = [k \in 0..Len(names) |-> g[k]]
      OBVIOUS
    <3> QED
      BY <3>2, <3>3
  <2> QED
    BY <2>7
<1>4. path = F(path)
  <2> HIDE DEF F
  <2> QED
    BY <1>3
<1>5. Normalize(names) = path[Len(names)]
  BY DEF Normalize
<1> HIDE DEF path
<1>6. path[0] = <<>> /\ \A k \in 1..Len(names) : path[k] = Entered(path[k - 1], names[k])
  BY <1>1, <1>4
<1>7. path = [k \in 0..Len(names) |-> path[k]]
  BY <1>4
<1>8. \A k \in 0..Len(names) : path[k] \in Seq(PlainName)
  <2> DEFINE T == {k \in Nat : k \in 0..Len(names) => path[k] \in Seq(PlainName)}
  <2>1. 0 \in T
    <3>1. <<>> \in Seq(PlainName)
      OBVIOUS
    <3> QED
      BY <1>6, <3>1
  <2>2. ASSUME NEW k \in Nat, k \in T PROVE k + 1 \in T
    <3> SUFFICES ASSUME k + 1 \in 0..Len(names) PROVE path[k + 1] \in Seq(PlainName)
      OBVIOUS
    <3>1. k + 1 \in 1..Len(names) /\ path[k] \in Seq(PlainName) /\ (k + 1) - 1 = k
      BY <2>2, <1>1
    <3> QED
      BY <1>2, <1>6, <3>1
  <2>3. \A k \in Nat : k \in T
    <3> HIDE DEF T
    <3> QED
      BY <2>1, <2>2, Induction
  <2> QED
    BY <1>1, <2>3
<1> QED
  BY <1>1, <1>5, <1>6, <1>7, <1>8

\* What the same steps make of the same beginning is the same.
Alike(f, g, n) ==
  f[0] = g[0] /\ \A k \in 1..n : f[k - 1] = g[k - 1] => f[k] = g[k]

LEMMA SameSteps ==
  ASSUME NEW n \in Nat, NEW f, NEW g, Alike(f, g, n)
  PROVE  \A k \in 0..n : f[k] = g[k]
<1> USE DEF Alike
<1> DEFINE T == {m \in Nat : m \in 0..n => f[m] = g[m]}
<1>1. ASSUME NEW m \in Nat, m \in T PROVE m + 1 \in T
  <2> SUFFICES ASSUME m + 1 \in 0..n PROVE f[m + 1] = g[m + 1]
    OBVIOUS
  <2>1. m + 1 \in 1..n /\ f[(m + 1) - 1] = g[(m + 1) - 1]
    BY <1>1
  <2>2. (m + 1) - 1 = m
    OBVIOUS
  <2> QED
    BY <2>1, <2>2
<1>2. 0 \in T
  OBVIOUS
<1>3. \A m \in Nat : m \in T
  <2> HIDE DEF T
  <2> QED
    BY <1>1, <1>2, Induction
<1> QED
  BY <1>3

\* The name of an entry is looked up in what its directory really is.
LEMMA RealPathOfEntry ==
  ASSUME NEW path \in Seq(Name), NEW name \in Name
  PROVE  /\ RealPath(path) \in Seq(Name)
         /\ RealPath(Append(path, name)) = Followed(Append(RealPath(path), name))
<1>1. PICK f \in [0..Len(path) -> Seq(Name)] :
        /\ f[0] = <<>> /\ RealPath(path) = f[Len(path)]
        /\ \A k \in 1..Len(path) : f[k] = Followed(Append(f[k - 1], path[k]))
  BY RealPathSteps
<1>2. PICK entry \in Seq(Name) : entry = Append(path, name)
  <2>1. Append(path, name) \in Seq(Name)
    OBVIOUS
  <2> QED
    BY <2>1, Zenon
<1>3. /\ Len(path) \in Nat /\ Len(entry) = Len(path) + 1 /\ entry[Len(path) + 1] = name
      /\ \A k \in 1..Len(path) : entry[k] = path[k]
  BY <1>2
<1>4. PICK g \in [0..Len(entry) -> Seq(Name)] :
        /\ g[0] = <<>> /\ RealPath(entry) = g[Len(entry)]
        /\ \A k \in 1..Len(entry) : g[k] = Followed(Append(g[k - 1], entry[k]))
  BY RealPathSteps
<1>5. \A k \in 0..Len(path) : f[k] = g[k]
  <2>1. \A k \in 1..Len(path) : k \in 1..Len(entry)
    BY <1>3
  <2>2. \A k \in 1..Len(path) : f[k - 1] = g[k - 1] => f[k] = g[k]
    BY <1>1, <1>3, <1>4, <2>1
  <2>3. f[0] = g[0]
    BY <1>1, <1>4
  <2>4. PICK n \in Nat : n = Len(path)
    BY <1>3
  <2>5. \A k \in 1..n : f[k - 1] = g[k - 1] => f[k] = g[k]
    BY <2>2, <2>4
  <2>6. Alike(f, g, n)
    BY <2>3, <2>5 DEF Alike
  <2>7. \A k \in 0..n : f[k] = g[k]
    BY <2>6, SameSteps
  <2> QED
    BY <2>4, <2>7
<1>6. g[Len(path) + 1] = Followed(Append(g[Len(path)], name))
  <2>1. Len(path) + 1 \in 1..Len(entry) /\ (Len(path) + 1) - 1 = Len(path)
    BY <1>3
  <2> QED
    BY <1>3, <1>4, <2>1
<1>7. RealPath(path) = g[Len(path)] /\ Len(path) \in 0..Len(path)
  BY <1>1, <1>3, <1>5
<1>8. RealPath(path) \in Seq(Name)
  BY <1>1, <1>7
<1> QED
  BY <1>2, <1>3, <1>4, <1>6, <1>7, <1>8

LEMMA Maximum ==
  ASSUME NEW n \in Nat, NEW S \in SUBSET (0..n), S # {}
  PROVE  \E m \in S : \A x \in S : x <= m
<1> DEFINE T == {k \in Nat : (\E x \in S : x <= k) =>
                              \E m \in S : m <= k /\ \A x \in S : x <= k => x <= m}
<1>1. 0 \in T
  OBVIOUS
<1>2. ASSUME NEW k \in Nat, k \in T PROVE k + 1 \in T
  <2>1. CASE k + 1 \in S
    BY <2>1
  <2>2. CASE k + 1 \notin S
    <3>1. \A x \in S : x <= k + 1 => x <= k
      BY <2>2
    <3> QED
      BY <1>2, <3>1
  <2> QED
    BY <2>1, <2>2
<1>3. \A k \in Nat : k \in T
  <2> HIDE DEF T
  <2> QED
    BY <1>1, <1>2, Induction
<1>4. n \in T
  BY <1>3
<1>5. \A x \in S : x \in 0..n
  OBVIOUS
<1>6. \E x \in S : x <= n
  <2>1. PICK x : x \in S
    OBVIOUS
  <2> QED
    BY <1>5, <2>1
<1> QED
  BY <1>4, <1>5, <1>6

LEMMA CommonPrefix ==
  ASSUME NEW A, NEW s \in Seq(A), NEW t \in Seq(A)
  PROVE  \E k \in Nat :
           /\ k <= Len(s) /\ k <= Len(t)
           /\ LongestCommonPrefix({s, t}) = SubSeq(s, 1, k)
           /\ SubSeq(s, 1, k) = SubSeq(t, 1, k)
<1> DEFINE C == CommonPrefixes({s, t})
           S == {Len(p) : p \in C}
<1>1. \A p \in C : Len(p) \in 0..Len(s) /\ p \in Seq(A)
  BY DEF CommonPrefixes, Prefixes, IsPrefix
<1>2. <<>> \in C
  <2>1. <<>> = SubSeq(s, 1, 0) /\ 0 \in 0..Len(s)
    OBVIOUS
  <2>2. IsPrefix(<<>>, s) /\ IsPrefix(<<>>, t)
    BY DEF IsPrefix
  <2> QED
    BY <2>1, <2>2 DEF CommonPrefixes, Prefixes
<1>3. PICK longest \in C : \A p \in C : Len(p) <= Len(longest)
  <2>0. Len(<<>>) \in S
    BY <1>2
  <2>1. S \in SUBSET (0..Len(s)) /\ S # {} /\ Len(s) \in Nat
    <3>1. \A p \in C : Len(p) \in 0..Len(s)
      BY <1>1
    <3>2. Len(s) \in Nat
      OBVIOUS
    <3> HIDE DEF C
    <3>3. S \subseteq 0..Len(s)
      BY <3>1
    <3> QED
      BY <2>0, <3>2, <3>3, Zenon
  <2> HIDE DEF C
  <2>2. \E m \in S : \A x \in S : x <= m
    <3> HIDE DEF S
    <3> QED
      BY <2>1, Maximum
  <2> QED
    BY <2>2
<1>4. LongestCommonPrefix({s, t}) \in C
  <2> HIDE DEF C
  <2>1. LongestCommonPrefix({s, t}) =
          CHOOSE m \in C : \A p \in C : Len(p) <= Len(m)
    BY DEF LongestCommonPrefix, C
  <2> QED
    BY <1>3, <2>1
<1>5. PICK c \in Seq(A) : c = LongestCommonPrefix({s, t})
  BY <1>1, <1>4
<1>6. IsPrefix(c, s) /\ IsPrefix(c, t)
  BY <1>4, <1>5 DEF CommonPrefixes
<1>7. c = SubSeq(s, 1, Len(c)) /\ c = SubSeq(t, 1, Len(c)) /\ Len(c) <= Len(s)
      /\ Len(c) <= Len(t) /\ Len(c) \in Nat
  BY <1>6 DEF IsPrefix
<1> QED
  BY <1>5, <1>7

LEMMA Dots ==
  ASSUME NEW u \in Nat
  PROVE  /\ [i \in 1..u |-> ".."] \in Seq(Name) /\ Len([i \in 1..u |-> ".."]) = u
         /\ \A i \in 1..u : [j \in 1..u |-> ".."][i] = ".."
<1>1. PICK x \in Name : x = ".."
  BY DEF Name
<1>2. [i \in 1..u |-> x] \in Seq(Name) /\ Len([i \in 1..u |-> x]) = u
  OBVIOUS
<1>3. \A i \in 1..u : [j \in 1..u |-> x][i] = x
  OBVIOUS
<1> QED
  BY <1>1, <1>2, <1>3, Zenon

\* A path told from a root, sent again with that root, is the path.
LEMMA RelativeLeadsBack ==
  ASSUME NEW root \in Seq(PlainName), NEW path \in Seq(PlainName)
  PROVE  /\ Relative(root, path) \in Seq(Name)
         /\ Normalize(root \o Relative(root, path)) = path
<1>1. PICK c \in Nat :
        /\ c <= Len(root) /\ c <= Len(path)
        /\ LongestCommonPrefix({root, path}) = SubSeq(root, 1, c)
        /\ SubSeq(root, 1, c) = SubSeq(path, 1, c)
  BY CommonPrefix
<1>2. PICK u \in Nat, d \in Nat : Len(root) = c + u /\ Len(path) = c + d
  <2>1. PICK m \in Nat, n \in Nat : m = Len(root) /\ n = Len(path)
    OBVIOUS
  <2>2. m - c \in Nat /\ n - c \in Nat /\ m = c + (m - c) /\ n = c + (n - c)
    BY <1>1, <2>1
  <2> QED
    BY <2>1, <2>2
<1> DEFINE up   == [i \in 1..u |-> ".."]
           down == SubSeq(path, c + 1, c + d)
<1>3. Relative(root, path) = up \o down
  <2>1. Len(SubSeq(root, 1, c)) = c
    BY <1>1
  <2>2. PICK common : common = LongestCommonPrefix({root, path})
    OBVIOUS
  <2>3. Len(common) = c
    BY <1>1, <2>1, <2>2
  <2>4. Relative(root, path) = [i \in 1..(Len(root) - Len(common)) |-> ".."]
                               \o SubSeq(path, Len(common) + 1, Len(path))
    BY <2>2, Zenon DEF Relative
  <2>5. Len(root) - Len(common) = u /\ Len(common) + 1 = c + 1 /\ Len(path) = c + d
    BY <1>2, <2>3
  <2> HIDE <1>2
  <2> QED
    BY <2>4, <2>5, Zenon
<1>4. /\ up \in Seq(Name) /\ Len(up) = u
      /\ \A i \in 1..u : up[i] = ".."
  BY Dots
<1>5. /\ down \in Seq(PlainName) /\ Len(down) = d
      /\ \A i \in 1..d : down[i] = path[c + i]
  <2>1. down \in Seq(PlainName) /\ Len(down) = d
    BY <1>2
  <2>2. ASSUME NEW i \in 1..d PROVE down[i] = path[c + i]
    BY <1>2
  <2> QED
    BY <2>1, <2>2
<1> HIDE DEF up, down
<1>6. root \in Seq(Name) /\ down \in Seq(Name)
  BY <1>5 DEF Name
<1>7. PICK names \in Seq(Name) : names = root \o Relative(root, path)
  <2>1. root \o (up \o down) \in Seq(Name)
    BY <1>4, <1>6
  <2> QED
    BY <1>3, <2>1, Zenon
<1>8. PICK len \in Nat : len = c + u + u + d
  OBVIOUS
<1>9. /\ Len(names) = len
      /\ \A k \in 1..(c + u) : names[k] = root[k]
      /\ \A i \in 1..u : names[c + u + i] = ".."
      /\ \A i \in 1..d : names[c + u + u + i] = path[c + i]
  <2>1. PICK tail \in Seq(Name) : tail = up \o down
    <3>1. up \o down \in Seq(Name)
      BY <1>4, <1>6
    <3> QED
      BY <3>1, Zenon
  <2>2. /\ Len(tail) = u + d
        /\ \A i \in 1..u : tail[i] = ".."
        /\ \A i \in 1..d : tail[u + i] = path[c + i]
    <3>1. /\ Len(tail) = u + d
          /\ \A i \in 1..(u + d) : tail[i] = IF i <= u THEN up[i] ELSE down[i - u]
      <4>1. /\ Len(tail) = Len(up) + Len(down)
            /\ \A i \in 1..(Len(up) + Len(down)) :
                 tail[i] = IF i <= Len(up) THEN up[i] ELSE down[i - Len(up)]
        BY <1>4, <1>6, <2>1, ConcatProperties
      <4> QED
        BY <1>4, <1>5, <4>1
    <3>2. ASSUME NEW i \in 1..d PROVE tail[u + i] = path[c + i]
      <4>1. u + i \in 1..(u + d) /\ ~(u + i <= u) /\ (u + i) - u = i
        OBVIOUS
      <4> QED
        BY <1>5, <3>1, <4>1
    <3>3. ASSUME NEW i \in 1..u PROVE tail[i] = ".."
      <4>1. i \in 1..(u + d) /\ i <= u
        OBVIOUS
      <4> QED
        BY <1>4, <3>1, <4>1
    <3> QED
      BY <3>1, <3>2, <3>3
  <2>3. /\ Len(names) = (c + u) + Len(tail)
        /\ \A k \in 1..(c + u) : names[k] = root[k]
        /\ \A i \in 1..Len(tail) : names[c + u + i] = tail[i]
    <3>1. /\ Len(names) = c + u + Len(tail)
          /\ \A k \in 1..(c + u + Len(tail)) :
               names[k] = IF k <= c + u THEN root[k] ELSE tail[k - (c + u)]
      <4>1. names = root \o tail
        BY <1>3, <1>7, <2>1
      <4>2. /\ Len(names) = Len(root) + Len(tail)
            /\ \A k \in 1..(Len(root) + Len(tail)) :
                 names[k] = IF k <= Len(root) THEN root[k] ELSE tail[k - Len(root)]
        BY <1>6, <4>1, ConcatProperties
      <4> QED
        BY <1>2, <4>2
    <3>2. PICK t \in Nat : t = Len(tail)
      OBVIOUS
    <3>3. ASSUME NEW k \in 1..(c + u) PROVE names[k] = root[k]
      <4>1. k \in 1..(c + u + t) /\ k <= c + u
        OBVIOUS
      <4> QED
        BY <3>1, <3>2, <4>1
    <3>4. ASSUME NEW i \in 1..t PROVE names[c + u + i] = tail[i]
      <4>1. c + u + i \in 1..(c + u + t) /\ ~(c + u + i <= c + u) /\ (c + u + i) - (c + u) = i
        OBVIOUS
      <4> QED
        BY <3>1, <3>2, <4>1
    <3> QED
      BY <3>1, <3>2, <3>3, <3>4
  <2>4. ASSUME NEW i \in 1..d PROVE names[c + u + u + i] = path[c + i]
    <3>1. u + i \in 1..(u + d) /\ c + u + (u + i) = c + u + u + i
      OBVIOUS
    <3> QED
      BY <2>2, <2>3, <3>1
  <2>5. ASSUME NEW i \in 1..u PROVE names[c + u + i] = ".."
    <3>1. i \in 1..(u + d)
      OBVIOUS
    <3> QED
      BY <2>2, <2>3, <3>1
  <2> QED
    BY <1>8, <2>2, <2>3, <2>4, <2>5
<1>10. PICK f \in [0..len -> Seq(PlainName)] :
         /\ f[0] = <<>> /\ Normalize(names) = f[len]
         /\ \A k \in 1..len : f[k] = Entered(f[k - 1], names[k])
  BY <1>9, NormalizeSteps
<1> DEFINE At(k) == IF k <= c + u THEN SubSeq(root, 1, k)
                    ELSE IF k <= c + u + u THEN SubSeq(root, 1, c + u + (c + u) - k)
                    ELSE SubSeq(path, 1, k - (u + u))
           g == [k \in 0..len |-> At(k)]
<1>11. ASSUME NEW k \in 1..len PROVE At(k) = Entered(At(k - 1), names[k])
  <2>1. CASE k <= c + u
    <3>1. names[k] = root[k] /\ root[k] \in PlainName
      BY <1>2, <1>9, <2>1
    <3>2. At(k) = SubSeq(root, 1, k) /\ At(k - 1) = SubSeq(root, 1, k - 1)
      BY <2>1
    <3>3. SubSeq(root, 1, k) = Append(SubSeq(root, 1, k - 1), root[k])
      BY <1>2, <2>1
    <3> HIDE DEF At
    <3> QED
      BY <3>1, <3>2, <3>3, PlainNames DEF Entered
  <2>2. CASE k > c + u /\ k <= c + u + u
    <3>1. PICK i \in 1..u, j \in Nat : k = c + u + i /\ i + j = u
      <4>1. k - (c + u) \in 1..u /\ u - (k - (c + u)) \in Nat
        BY <2>2
      <4>2. k = c + u + (k - (c + u)) /\ k - (c + u) + (u - (k - (c + u))) = u
        BY <2>2
      <4> QED
        BY <4>1, <4>2
    <3>2. names[k] = ".."
      BY <1>9, <3>1
    <3>3. At(k) = SubSeq(root, 1, c + j)
      <4>1. c + u + (c + u) - k = c + j
        BY ONLY c \in Nat, u \in Nat, <3>1
      <4> QED
        BY <2>2, <4>1
    <3>4. At(k - 1) = SubSeq(root, 1, c + j + 1)
      <4>1. CASE i = 1
        <5>1. k - 1 = c + u /\ c + j + 1 = c + u
          BY ONLY c \in Nat, u \in Nat, <3>1, <4>1
        <5> QED
          BY <5>1
      <4>2. CASE i # 1
        <5>1. /\ ~(k - 1 <= c + u) /\ k - 1 <= c + u + u
              /\ c + u + (c + u) - (k - 1) = c + j + 1
          BY ONLY c \in Nat, u \in Nat, <3>1, <4>2
        <5> QED
          BY <5>1
      <4> QED
        BY <4>1, <4>2
    <3>5. c + j \in Nat /\ c + j + 1 <= c + u
      BY <3>1
    <3>6. SubSeq(root, 1, c + j + 1) # <<>>
          /\ Front(SubSeq(root, 1, c + j + 1)) = SubSeq(root, 1, c + j)
      <4>1. PICK h \in Nat : h = c + j /\ h + 1 <= Len(root)
        BY <1>2, <3>5
      <4>2. SubSeq(root, 1, h + 1) # <<>> /\ Front(SubSeq(root, 1, h + 1)) = SubSeq(root, 1, h)
        <5>1. PICK long \in Seq(PlainName) : long = SubSeq(root, 1, h + 1) /\ Len(long) = h + 1
          <6>1. SubSeq(root, 1, h + 1) \in Seq(PlainName) /\ Len(SubSeq(root, 1, h + 1)) = h + 1
            BY <4>1
          <6> QED
            BY <6>1, Zenon
        <5>2. \A l \in 1..(h + 1) : long[l] = root[l]
          BY <4>1, <5>1
        <5>3. Front(long) = SubSeq(long, 1, h)
          BY <5>1 DEF Front
        <5>4. SubSeq(long, 1, h) = SubSeq(root, 1, h)
          BY <4>1, <5>1, <5>2
        <5>5. long # <<>>
          <6>1. Len(long) # 0
            BY <5>1
          <6> QED
            BY <6>1
        <5> QED
          BY <5>1, <5>3, <5>4, <5>5, Zenon
      <4> QED
        BY <4>1, <4>2
    <3> HIDE DEF At
    <3> QED
      BY <3>2, <3>3, <3>4, <3>6 DEF Entered, Name
  <2>3. CASE k > c + u + u
    <3>1. PICK i \in 1..d : k = c + u + u + i
      <4>1. k - (c + u + u) \in 1..d
        BY <1>8, <2>3
      <4>2. k = c + u + u + (k - (c + u + u))
        BY <2>3
      <4> QED
        BY <4>1, <4>2
    <3>2. names[k] = path[c + i] /\ path[c + i] \in PlainName
      <4>1. c + i \in 1..(c + d)
        OBVIOUS
      <4>2. path[c + i] \in PlainName
        BY <1>2, <4>1, ElementOfSeq
      <4> QED
        BY <1>9, <3>1, <4>2
    <3>3. At(k) = SubSeq(path, 1, c + i)
      <4>1. k - (u + u) = c + i /\ ~(k <= c + u) /\ ~(k <= c + u + u)
        BY ONLY c \in Nat, u \in Nat, d \in Nat, <3>1
      <4> QED
        BY <4>1
    <3>4. At(k - 1) = SubSeq(path, 1, c + i - 1)
      <4>1. CASE i = 1 /\ u = 0
        <5>1. k - 1 = c /\ c + u = c /\ c + i - 1 = c
          BY ONLY c \in Nat, u \in Nat, d \in Nat, <3>1, <4>1
        <5> QED
          BY <1>1, <5>1
      <4>2. CASE i = 1 /\ u # 0
        <5>1. /\ ~(k - 1 <= c + u) /\ k - 1 <= c + u + u
              /\ c + u + (c + u) - (k - 1) = c /\ c + i - 1 = c
          BY ONLY c \in Nat, u \in Nat, d \in Nat, <3>1, <4>2
        <5> QED
          BY <1>1, <5>1
      <4>3. CASE i # 1
        <5>1. /\ ~(k - 1 <= c + u) /\ ~(k - 1 <= c + u + u)
              /\ (k - 1) - (u + u) = c + i - 1
          BY ONLY c \in Nat, u \in Nat, d \in Nat, <3>1, <4>3
        <5> QED
          BY <5>1
      <4> QED
        BY <4>1, <4>2, <4>3
    <3>5. PICK j \in 1..Len(path) : j = c + i
      BY <1>2
    <3>6. SubSeq(path, 1, j) = Append(SubSeq(path, 1, j - 1), path[j])
      OBVIOUS
    <3> HIDE DEF At
    <3>7. At(k) = Append(At(k - 1), path[c + i])
      BY <3>3, <3>4, <3>5, <3>6
    <3> QED
      BY <3>2, <3>7, PlainNames DEF Entered
  <2> QED
    BY <2>1, <2>2, <2>3
<1>12. \A k \in 0..len : f[k] = g[k]
  <2>1. \A k \in 1..len : k - 1 \in 0..len /\ k \in 0..len
    OBVIOUS
  <2>2. g[0] = <<>> /\ \A k \in 0..len : g[k] = At(k)
    OBVIOUS
  <2> HIDE DEF g
  <2>3. \A k \in 1..len : g[k] = Entered(g[k - 1], names[k])
    <3> HIDE DEF At
    <3> QED
      BY <1>11, <2>1, <2>2
  <2>4. Alike(f, g, len)
    BY <1>10, <2>2, <2>3 DEF Alike
  <2> QED
    BY <2>4, SameSteps
<1>13. At(len) = path
  <2>1. SubSeq(path, 1, c + d) = path
    BY <1>2
  <2>2. CASE d = 0 /\ u = 0
    <3>1. len <= c + u /\ len = c /\ c + d = c
      BY ONLY c \in Nat, u \in Nat, <1>8, <2>2
    <3> QED
      BY <1>1, <2>1, <3>1
  <2>3. CASE d = 0 /\ u # 0
    <3>1. ~(len <= c + u) /\ len <= c + u + u /\ c + u + (c + u) - len = c /\ c + d = c
      BY ONLY c \in Nat, u \in Nat, <1>8, <2>3
    <3> QED
      BY <1>1, <2>1, <3>1
  <2>4. CASE d # 0
    <3>1. ~(len <= c + u) /\ ~(len <= c + u + u) /\ len - (u + u) = c + d
      BY ONLY c \in Nat, u \in Nat, d \in Nat, <1>8, <2>4
    <3> QED
      BY <2>1, <3>1
  <2> QED
    BY <2>2, <2>3, <2>4
<1>14. Normalize(names) = path
  <2>1. len \in 0..len
    OBVIOUS
  <2>2. g[len] = At(len)
    BY <2>1
  <2> HIDE DEF g, At
  <2> QED
    BY <1>10, <1>12, <1>13, <2>1, <2>2
<1>15. Relative(root, path) \in Seq(Name)
  BY <1>3, <1>4, <1>6
<1> QED
  BY <1>7, <1>14, <1>15

-----------------------------------------------------------------------------
(* The paths an answer tells *)

LEMMA Roots ==
  AllowedRoots \subseteq Seq(PlainName) /\ RealAllowedRoots \subseteq Seq(Name)
<1>1. AllowedRoots \subseteq Seq(PlainName)
  BY PathSandboxAssumption
<1>2. ASSUME NEW root \in AllowedRoots PROVE RealPath(root) \in Seq(Name)
  <2>1. PICK path \in Seq(Name) : path = root
    BY <1>1, PlainPaths
  <2>2. PICK f \in [0..Len(path) -> Seq(Name)] : RealPath(path) = f[Len(path)]
    BY RealPathSteps
  <2>3. Len(path) \in 0..Len(path)
    OBVIOUS
  <2> QED
    BY <2>1, <2>2, <2>3
<1> QED
  BY <1>1, <1>2 DEF RealAllowedRoots

\* What a directory under a root holds is under that root.
LEMMA EntryWithin ==
  ASSUME NEW path \in Seq(Name), NEW name \in Name, Within(path)
  PROVE  Within(Append(path, name))
<1>1. PICK root \in RealAllowedRoots : IsPrefix(root, path)
  BY DEF Within
<1>2. root \in Seq(Name)
  BY Roots
<1>3. Len(root) <= Len(path) /\ SubSeq(root, 1, Len(root)) = SubSeq(path, 1, Len(root))
  BY <1>1, <1>2 DEF IsPrefix
<1>4. PICK entry \in Seq(Name) : entry = Append(path, name) /\ Len(entry) = Len(path) + 1
  <2>1. Append(path, name) \in Seq(Name) /\ Len(Append(path, name)) = Len(path) + 1
    OBVIOUS
  <2> QED
    BY <2>1, Zenon
<1>5. SubSeq(entry, 1, Len(root)) = SubSeq(path, 1, Len(root))
  BY <1>2, <1>3, <1>4
<1>6. IsPrefix(root, entry)
  BY <1>2, <1>3, <1>4, <1>5 DEF IsPrefix
<1>7. Within(entry)
  BY <1>6 DEF Within
<1> QED
  BY <1>4, <1>7, Zenon

\* What is found to be contained in the real roots lies under one.
LEMMA ContainedWithin ==
  ASSUME NEW path \in Seq(Name), Contained(path, RealAllowedRoots)
  PROVE  Within(path)
<1>1. PICK root \in RealAllowedRoots : path = root \/ IsStrictPrefix(root, path)
  BY DEF Contained
<1>2. root \in Seq(Name)
  BY Roots
<1>3. IsPrefix(root, path)
  BY <1>1, <1>2 DEF IsStrictPrefix, IsPrefix
<1> QED
  BY <1>3 DEF Within

LEMMA ResolveType ==
  ASSUME NEW root \in AllowedRoots, NEW request \in Requests
  PROVE  Resolve(root, request) \in Seq(PlainName)
<1>1. PICK names \in Seq(Name) :
        names = IF request.absolute THEN request.names ELSE root \o request.names
  <2>1. request.names \in Seq(Name) /\ root \in Seq(Name)
    BY PathSandboxAssumption, Roots, PlainPaths
  <2>2. root \o request.names \in Seq(Name)
    BY <2>1
  <2> QED
    BY <2>1, <2>2, Zenon
<1>2. PICK f \in [0..Len(names) -> Seq(PlainName)] :
        /\ f[0] = <<>> /\ Normalize(names) = f[Len(names)]
        /\ \A k \in 1..Len(names) : f[k] = Entered(f[k - 1], names[k])
  BY NormalizeSteps
<1>3. f[Len(names)] \in Seq(PlainName)
  OBVIOUS
<1> QED
  BY <1>1, <1>2, <1>3 DEF Resolve

\* The path told from a root, resolved from it again.
LEMMA ToldAgain ==
  ASSUME NEW root \in AllowedRoots, NEW path \in Seq(PlainName)
  PROVE  Resolve(root, ToRelativePath(root, path)) = path
<1>1. Normalize(root \o Relative(root, path)) = path
  BY Roots, RelativeLeadsBack
<1> QED
  BY <1>1 DEF Resolve, ToRelativePath

LEMMA FromRoot ==
  ASSUME NEW root \in AllowedRoots, NEW path \in Seq(PlainName)
  PROVE  ResolveFromRoot(root, ToRelativePath(root, path)) = ResolveCandidate(path)
<1>1. Contained(root, AllowedRoots)
  BY DEF Contained
<1> QED
  BY <1>1, ToldAgain DEF ResolveFromRoot

LEMMA RefusedIsNoPath == \A path \in Seq(Name) : path # Refused
BY PathSandboxAssumption

LEMMA UnderRootLeadsBack ==
  ASSUME NEW root \in AllowedRoots, NEW path \in Seq(PlainName),
         Within(RealPath(path)) \/ AtLink(path)
  PROVE  LeadsBack(root, path)
<1>1. ASSUME NEW r \in AllowedRoots, r # <<>>, IsPrefix(r, path)
      PROVE  ResolveCandidate(path) # Refused
  <2>1. Contained(path, AllowedRoots)
    BY <1>1 DEF Contained, IsStrictPrefix
  <2> QED
    BY <2>1, PlainPaths, RefusedIsNoPath DEF ResolveCandidate
<1> QED
  BY <1>1, ToldAgain DEF LeadsBack

\* What realpath has found.
LEMMA ResolvedExists ==
  ASSUME NEW path, ResolveExisting(path) # Refused
  PROVE  /\ ResolveExisting(path) = RealPath(path)
         /\ RealPath(path) \in Existing /\ RealPath(path) \in Seq(PlainName)
         /\ RealPath(RealPath(path)) = RealPath(path)
         /\ Within(RealPath(path))
<1>1. /\ ResolveExisting(path) = RealPath(path) /\ RealPath(path) \in Existing
      /\ Contained(RealPath(path), RealAllowedRoots)
  BY DEF ResolveExisting
<1>2. RealPath(path) \in Seq(PlainName) /\ RealPath(path) \in Seq(Name)
  BY <1>1, PlainPaths
<1> QED
  BY <1>1, <1>2, ContainedWithin, PathSandboxAssumption

LEMMA ExistingLeadsBack ==
  ASSUME NEW root \in AllowedRoots, NEW path, ResolveExisting(path) # Refused
  PROVE  LeadsBack(root, ResolveExisting(path))
BY ResolvedExists, UnderRootLeadsBack

\* What a directory that was found holds, be it there already or not.
LEMMA EntryLeadsBack ==
  ASSUME NEW root \in AllowedRoots, NEW path \in Seq(PlainName),
         NEW name \in PlainName, Within(RealPath(path))
  PROVE  LeadsBack(root, Append(path, name))
<1>1. /\ path \in Seq(Name) /\ name \in Name
      /\ Append(path, name) \in Seq(PlainName)
  BY PlainPaths, PlainNames
<1>2. /\ RealPath(path) \in Seq(Name)
      /\ RealPath(Append(path, name)) = Followed(Append(RealPath(path), name))
  BY <1>1, RealPathOfEntry
<1>3. CASE Append(RealPath(path), name) \in DOMAIN Links
  <2>1. PICK entry \in Seq(PlainName) : entry = Append(path, name)
    BY <1>1, Zenon
  <2>2. entry # <<>> /\ Front(entry) = path /\ Last(entry) = name
    BY <2>1 DEF Front, Last
  <2>3. AtLink(entry)
    BY <1>3, <2>2 DEF AtLink
  <2> QED
    BY <2>1, <2>3, UnderRootLeadsBack, Zenon
<1>4. CASE Append(RealPath(path), name) \notin DOMAIN Links
  <2>1. RealPath(Append(path, name)) = Append(RealPath(path), name)
    BY <1>2, <1>4 DEF Followed
  <2>2. Within(RealPath(Append(path, name)))
    BY <1>1, <1>2, <2>1, EntryWithin
  <2> QED
    BY <1>1, <2>2, UnderRootLeadsBack
<1> QED
  BY <1>3, <1>4

\* A path is its directory and its name.
LEMMA DirectoryAndName ==
  ASSUME NEW path \in Seq(PlainName), path # <<>>
  PROVE  /\ Front(path) \in Seq(PlainName) /\ Last(path) \in PlainName
         /\ path = Append(Front(path), Last(path))
<1>1. Front(path) \in Seq(PlainName) /\ Last(path) \in PlainName
  BY DEF Front, Last
<1>2. path = Append(SubSeq(path, 1, Len(path) - 1), path[Len(path)])
  OBVIOUS
<1> QED
  BY <1>1, <1>2 DEF Front, Last

\* The text of a target that is to be created.
LEMMA SafeIsTarget ==
  ASSUME NEW root \in AllowedRoots, NEW target \in Seq(PlainName),
         SafeTarget(root, target) # Refused
  PROVE  SafeTarget(root, target) = target
BY FromRoot DEF SafeTarget, ResolveCandidate

LEMMA WritableLeadsBack ==
  ASSUME NEW root \in AllowedRoots, NEW request \in Requests,
         ResolveWritableFile(root, request) # Refused
  PROVE  LeadsBack(root, ResolveWritableFile(root, request))
<1>1. PICK target \in Seq(PlainName) : target = Resolve(root, request)
  BY ResolveType
<1>2. CASE RealPath(target) \in Existing
  BY <1>1, <1>2, ExistingLeadsBack DEF ResolveWritableFile
<1>3. CASE RealPath(target) \notin Existing
  <2>1. PICK safe : safe = SafeTarget(root, target)
    OBVIOUS
  <2>2. /\ safe # Refused /\ ResolveExisting(Front(safe)) \in Directories
        /\ ResolveWritableFile(root, request) = safe
    BY <1>1, <1>3, <2>1 DEF ResolveWritableFile
  <2>3. safe = target
    BY <2>1, <2>2, SafeIsTarget
  <2>4. ResolveExisting(Front(target)) # Refused
    BY <2>2, <2>3, PlainPaths, RefusedIsNoPath DEF Existing
  <2>5. Within(RealPath(Front(target)))
    BY <2>4, ResolvedExists
  <2>6. CASE target = <<>>
    <3>1. \A s \in Seq(PlainName) : s = <<>> => Front(s) = s
      BY DEF Front
    <3>2. Front(target) = target
      BY <2>6, <3>1
    <3>3. Within(RealPath(target))
      BY <2>5, <3>2
    <3> QED
      BY <2>2, <2>3, <3>3, UnderRootLeadsBack
  <2>7. CASE target # <<>>
    <3>1. PICK path \in Seq(PlainName), name \in PlainName :
            target = Append(path, name) /\ path = Front(target)
      BY <2>7, DirectoryAndName
    <3>2. LeadsBack(root, Append(path, name))
      BY <2>5, <3>1, EntryLeadsBack
    <3> QED
      BY <2>2, <2>3, <3>1, <3>2
  <2> QED
    BY <2>6, <2>7
<1> QED
  BY <1>2, <1>3

LEMMA UploadLeadsBack ==
  ASSUME NEW root \in AllowedRoots, NEW request \in Requests,
         NEW name \in FileNames, UploadTarget(root, request, name) # Refused
  PROVE  LeadsBack(root, UploadTarget(root, request, name))
<1>1. PICK directory : directory = ExistingTarget(root, request)
  OBVIOUS
<1>2. /\ directory \in Directories
      /\ UploadTarget(root, request, name) = SafeTarget(root, Append(directory, name))
  BY <1>1 DEF UploadTarget
<1>3. directory \in Seq(PlainName) /\ name \in PlainName /\ directory # Refused
  BY <1>2, PlainPaths, RefusedIsNoPath, PathSandboxAssumption DEF Existing
<1>4. Append(directory, name) \in Seq(PlainName)
  BY <1>3
<1>5. UploadTarget(root, request, name) = Append(directory, name)
  BY <1>2, <1>4, SafeIsTarget
<1>6. Within(RealPath(directory))
  BY <1>1, <1>3, ResolvedExists DEF ExistingTarget
<1> QED
  BY <1>3, <1>5, <1>6, EntryLeadsBack

LEMMA ListedLeadsBack ==
  ASSUME NEW root \in AllowedRoots, NEW request \in Requests,
         NEW path \in ListedEntries(root, request)
  PROVE  LeadsBack(root, path)
<1>1. /\ path \in Existing \cup DOMAIN Links /\ path # <<>>
      /\ Front(path) = ExistingTarget(root, request)
  BY DEF ListedEntries
<1>2. /\ path \in Seq(PlainName) /\ Front(path) \in Seq(PlainName)
      /\ Last(path) \in PlainName /\ path = Append(Front(path), Last(path))
  BY <1>1, PlainPaths, DirectoryAndName
<1>3. ExistingTarget(root, request) # Refused
  BY <1>1, <1>2, PlainPaths, RefusedIsNoPath
<1>4. Within(RealPath(Front(path)))
  BY <1>1, <1>3, ResolvedExists DEF ExistingTarget
<1> QED
  BY <1>2, <1>4, EntryLeadsBack

LEMMA EveryToldPathLeadsBack == ToldPathsLeadBack
<1> SUFFICES ASSUME NEW root \in AllowedRoots, NEW request \in Requests,
                    NEW path \in ToldPaths(root, request)
             PROVE  LeadsBack(root, path)
  BY DEF ToldPathsLeadBack
<1>1. CASE path = ExistingTarget(root, request)
  BY <1>1, ExistingLeadsBack DEF ToldPaths, ExistingTarget
<1>2. CASE path = ResolveWritableFile(root, request)
  BY <1>2, WritableLeadsBack DEF ToldPaths
<1>3. CASE \E name \in FileNames : path = UploadTarget(root, request, name)
  BY <1>3, UploadLeadsBack DEF ToldPaths
<1>4. CASE path \in ListedEntries(root, request)
  BY <1>4, ListedLeadsBack
<1> QED
  BY <1>1, <1>2, <1>3, <1>4 DEF ToldPaths

\* Every path an answer tells leads back to the file it is about, and to one
\* under a root unless it is a link, whatever the roots, the links, the names
\* in a request and the files there are.
THEOREM PathsCorrect == Spec => []AnswersLeadBack
<1>1. AnswersLeadBack
  BY EveryToldPathLeadsBack DEF AnswersLeadBack
<1> QED
  BY <1>1, PTL
=============================================================================
