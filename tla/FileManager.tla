------------------------------ MODULE FileManager ------------------------------
(***************************************************************************)
(* Reading and changing files, FileManagerService of                       *)
(* backend/src/modules/file-manager/application/file-manager.service.ts.   *)
(*                                                                         *)
(* Every operation looks first (does the file exist, who owns it) and acts *)
(* after another await, and nothing serialises requests.  An action is the *)
(* code between two awaits that touch a file.  writeFile opens, which      *)
(* creates or truncates, and then writes at offset 0; the zip library      *)
(* writes synchronously.  A descriptor follows its file when the path is   *)
(* removed.  Any call may fail, and the process may die.                   *)
(*                                                                         *)
(* All paths are files of one directory of an allowed root; how a request  *)
(* names them is in PathSandbox.                                           *)
(***************************************************************************)
EXTENDS Naturals

CONSTANTS
  Req,      \* requests
  Path,     \* paths of files
  Input,    \* what each request may ask
  Limit,    \* the largest size each kind of request accepts
  MaxSize,  \* bound on sizes
  Binary,   \* whose texts are not UTF-8; what is sent to be written is
  None,
  Root      \* the owner of files the backend creates

Writers == {"upload", "write", "unzip", "zip"}
Readers == {"read", "download", "list"}
Kind    == Writers \cup Readers \cup {"chown", "chmod"}

Ids == Req \cup {Root}

Texts == Req \cup {"original", "mixed"}

\* A file knows which request created it; its text is what one request sent,
\* "original", or "mixed"; its ids and its mode are known by who set them.
Files == [born : Req \cup {None}, by : Texts,
          size : 0..MaxSize, uid : Ids, gid : Ids, mode : Ids]

ASSUME FileManagerAssumption ==
  /\ None \notin Req \cup Files /\ Root \notin Req /\ {"original", "mixed"} \cap Req = {}
  /\ None \notin {"original", "mixed"}
  /\ MaxSize \in Nat \ {0} /\ Binary \subseteq Texts
  /\ Limit \in [Kind -> 0..MaxSize]
  /\ Input \in [Req -> SUBSET [kind : Kind, paths : (SUBSET Path) \ {{}},
                               overwrite : BOOLEAN, size : 1..MaxSize,
                               ids : SUBSET {"uid", "gid"}]]
  /\ \A r \in Req : \A x \in Input[r] :
       /\ x.kind = "list" => x.paths = Path
       /\ x.kind \notin {"unzip", "list"} => \E p \in Path : x.paths = {p}
       /\ x.kind = "chown" => x.ids # {}

VARIABLES
  file,      \* the file at each path, or None
  job,       \* one record per request
  mixed,     \* history: requests that overlapped another one of a same file
  wrote,     \* history: the paths each request has changed
  replaced   \* history: <<request, path>> where a request truncated a file

history == <<wrote, replaced>>
vars == <<file, job, mixed, history>>

Original(n) == [born |-> None, by |-> "original", size |-> n,
                uid |-> Root, gid |-> Root, mode |-> Root]

NoInput == [kind |-> "none", paths |-> {}, overwrite |-> FALSE, size |-> 0,
            ids |-> {}]

\* in: what was asked; todo: paths still to do; at, holds: the path of the
\* open descriptor, and who created its file; saw: the owner looked up;
\* told, text: the sizes and the text the answer gives.
NewJob == [pc |-> "new", in |-> NoInput, todo |-> {}, at |-> None,
           holds |-> None, saw |-> <<Root, Root>>, told |-> {}, text |-> None]

Init ==
  /\ file \in [Path -> {Original(n) : n \in 1..MaxSize} \cup {None}]
  /\ job = [r \in Req |-> NewJob]
  /\ mixed = {}
  /\ wrote = [r \in Req |-> {}]
  /\ replaced = {}

Answers == {"done", "refused", "failed"}
Active(r) == job[r].pc \notin Answers \cup {"new"}
Is(r, kind) == job[r].in.kind = kind
Target(r) == CHOOSE p \in Path : job[r].in.paths = {p}

Goto(r, next) == job' = [job EXCEPT ![r].pc = next]

\* An answered request is remembered by what it was asked and its answer.
Answer(r, how) ==
  job' = [job EXCEPT ![r] = [NewJob EXCEPT !.pc = how, !.in = job[r].in]]

Changes(r, p) == wrote' = [wrote EXCEPT ![r] = @ \cup {p}]

Replaces(r, p) ==
  replaced' = IF file[p] = None THEN replaced ELSE replaced \cup {<<r, p>>}

-----------------------------------------------------------------------------
(* Arrival *)

Overlaps(x)     == {q \in Req : Active(q) /\ x.paths \cap job[q].in.paths # {}}
Changing(x)     == x.kind \notin Readers
\* Those that another one's changes may reach when r asks x.
Disturbed(r, x) == (IF Changing(x) THEN Overlaps(x) ELSE {})
  \cup (IF \E q \in Overlaps(x) : Changing(job[q].in) THEN {r} ELSE {})

TooLarge(x) == x.kind \in {"upload", "write", "unzip"} /\ x.size > Limit[x.kind]

Receive(r) ==
  /\ job[r].pc = "new"
  /\ \E x \in Input[r] :
       /\ ~TooLarge(x)
       /\ job' = [job EXCEPT ![r] = [NewJob EXCEPT !.pc = "look", !.in = x,
                                                   !.todo = x.paths]]
       /\ mixed' = mixed \cup Disturbed(r, x)
  /\ UNCHANGED <<file, history>>

\* 413, before anything is looked at; for an archive to extract, its size.
RefuseTooLarge(r) ==
  /\ job[r].pc = "new"
  /\ \E x \in Input[r] :
       /\ TooLarge(x)
       /\ job' = [job EXCEPT ![r] = [NewJob EXCEPT !.pc = "refused", !.in = x]]
  /\ UNCHANGED <<file, mixed, history>>

-----------------------------------------------------------------------------
(* uploadFile, writeTextFile, extractZip, createZip: all targets are looked  *)
(* at before the first of them is written                                    *)

\* Without overwrite, a target that exists refuses the request.
MayWrite(r, p) == job[r].in.overwrite \/ file[p] = None

LookAtTarget(r) ==
  /\ job[r].pc = "look" /\ job[r].in.kind \in Writers
  /\ \E p \in job[r].todo :
       IF MayWrite(r, p) THEN job' = [job EXCEPT ![r].todo = @ \ {p}]
                         ELSE Answer(r, "refused")
  /\ UNCHANGED <<file, mixed, history>>

LookedAtAll(r) ==
  /\ job[r].pc = "look" /\ job[r].in.kind \in Writers /\ job[r].todo = {}
  /\ job' = [job EXCEPT ![r].pc = IF Is(r, "zip") THEN "zip" ELSE "open",
                        ![r].todo = job[r].in.paths]
  /\ UNCHANGED <<file, mixed, history>>

\* Mutant: the flag is "w", whatever was asked.
ExclusiveNever(r) == FALSE

\* uploadFile's flag "wx": the file must not exist even now.
Exclusive(r) == Is(r, "upload") /\ ~job[r].in.overwrite

\* The file at p, created if need be, with a new text.
Put(r, p, by, size) ==
  IF file[p] = None
  THEN [born |-> r, by |-> by, size |-> size, uid |-> Root, gid |-> Root,
        mode |-> Root]
  ELSE [file[p] EXCEPT !.by = by, !.size = size]

\* Mutant: a target is looked at once more, and refuses the request.
OpenTargetChecked(r) ==
  /\ job[r].pc = "open"
  /\ \E p \in job[r].todo :
       IF ~MayWrite(r, p)
       THEN Answer(r, "refused") /\ UNCHANGED <<file, history>>
       ELSE /\ file' = [file EXCEPT ![p] = Put(r, p, r, 0)]
            /\ job' = [job EXCEPT ![r].pc = "data", ![r].at = p,
                                  ![r].todo = @ \ {p},
                                  ![r].holds = file'[p].born]
            /\ Changes(r, p) /\ Replaces(r, p)
  /\ UNCHANGED mixed

OpenTarget(r) ==
  /\ job[r].pc = "open"
  /\ \E p \in job[r].todo :
       /\ ~(Exclusive(r) /\ file[p] # None)
       /\ file' = [file EXCEPT ![p] = Put(r, p, r, 0)]
       /\ job' = [job EXCEPT ![r].pc = "data", ![r].at = p,
                             ![r].todo = @ \ {p}, ![r].holds = file'[p].born]
       /\ Changes(r, p) /\ Replaces(r, p)
  /\ UNCHANGED mixed

\* EEXIST, answered as an internal error.
OpenExists(r) ==
  /\ job[r].pc = "open" /\ Exclusive(r)
  /\ \E p \in job[r].todo : file[p] # None
  /\ Answer(r, "failed")
  /\ UNCHANGED <<file, mixed, history>>

\* The file of the descriptor, if it is still the one at its path, after a
\* write of n at offset 0 that leaves a longer text its end.
Written(r, n, by) ==
  LET f == file[job[r].at]
      g == IF f.size <= n THEN [f EXCEPT !.by = by, !.size = n]
                          ELSE [f EXCEPT !.by = "mixed"]
  IN  IF f = None THEN file
      ELSE IF f.born # job[r].holds THEN file
      ELSE [file EXCEPT ![job[r].at] = g]

\* Mutant: the last entry of an archive is not written.
WriteTargetEarly(r) ==
  /\ job[r].pc = "data"
  /\ file' = Written(r, job[r].in.size, r)
  /\ IF \E p \in Path : job[r].todo \subseteq {p} THEN Answer(r, "done")
                                                  ELSE Goto(r, "open")
  /\ UNCHANGED <<mixed, history>>

WriteTarget(r) ==
  /\ job[r].pc = "data"
  /\ file' = Written(r, job[r].in.size, r)
  /\ IF job[r].todo = {} THEN Answer(r, "done") ELSE Goto(r, "open")
  /\ UNCHANGED <<mixed, history>>

-----------------------------------------------------------------------------
(* createZip: written whole, then measured *)

WriteZip(r) ==
  LET p == Target(r) IN
  /\ job[r].pc = "zip"
  /\ file' = [file EXCEPT ![p] = Put(r, p, r, job[r].in.size)]
  /\ Goto(r, "stat")
  /\ Changes(r, p) /\ Replaces(r, p)
  /\ UNCHANGED mixed

\* Mutant: the limit of another operation is applied.
MeasureZipAsText(r) ==
  /\ job[r].pc = "stat" /\ file[Target(r)] # None
  /\ IF file[Target(r)].size > Limit["write"] THEN Goto(r, "remove")
                                              ELSE Answer(r, "done")
  /\ UNCHANGED <<file, mixed, history>>

\* What is measured is the file there now, whoever wrote it.
MeasureZip(r) ==
  /\ job[r].pc = "stat" /\ file[Target(r)] # None
  /\ IF file[Target(r)].size > Limit["zip"] THEN Goto(r, "remove")
                                            ELSE Answer(r, "done")
  /\ UNCHANGED <<file, mixed, history>>

RemoveZip(r) ==
  /\ job[r].pc = "remove"
  /\ file' = [file EXCEPT ![Target(r)] = None]
  /\ Answer(r, "refused")
  /\ Changes(r, Target(r))
  /\ UNCHANGED <<mixed, replaced>>

-----------------------------------------------------------------------------
(* chown, an id that is not given is written back as it was read; chmod *)

LookAtOwner(r) ==
  LET f == file[Target(r)] IN
  /\ job[r].pc = "look" /\ Is(r, "chown") /\ f # None
  /\ job' = [job EXCEPT ![r].pc = "chown", ![r].saw = <<f.uid, f.gid>>]
  /\ UNCHANGED <<file, mixed, history>>

\* The ids r gives are named by r.
Given(r, id, old) == IF id \in job[r].in.ids THEN r ELSE old

Chown(r) ==
  LET p == Target(r) IN
  /\ job[r].pc = "chown" /\ file[p] # None
  /\ file' = [file EXCEPT ![p].uid = Given(r, "uid", job[r].saw[1]),
                          ![p].gid = Given(r, "gid", job[r].saw[2])]
  /\ Answer(r, "done")
  /\ Changes(r, p)
  /\ UNCHANGED <<mixed, replaced>>

Chmod(r) ==
  LET p == Target(r) IN
  /\ job[r].pc = "look" /\ Is(r, "chmod") /\ file[p] # None
  /\ file' = [file EXCEPT ![p].mode = r]
  /\ Answer(r, "done")
  /\ Changes(r, p)
  /\ UNCHANGED <<mixed, replaced>>

-----------------------------------------------------------------------------
(* readFile, getDownload: measured, then read; listDirectory: the names are  *)
(* read, then each entry is looked at                                        *)

Entry(p)       == <<p, file[p].size>>
Tells(r, told) == job' = [job EXCEPT ![r].pc = "tell", ![r].todo = {}, ![r].told = told]

LookAtSize(r) ==
  LET p == Target(r) IN
  /\ job[r].pc = "look" /\ job[r].in.kind \in {"read", "download"}
  /\ file[p] # None
  /\ IF Is(r, "read") /\ file[p].size > Limit["read"]
     THEN Answer(r, "refused") ELSE Tells(r, {Entry(p)})
  /\ UNCHANGED <<file, mixed, history>>

ReadNames(r) ==
  /\ job[r].pc = "look" /\ Is(r, "list")
  /\ job' = [job EXCEPT ![r].pc = "list", ![r].todo = {p \in Path : file[p] # None}]
  /\ UNCHANGED <<file, mixed, history>>

\* An entry that is gone by then rejects the whole listing.
LookAtEntry(r) ==
  /\ job[r].pc = "list"
  /\ \E p \in job[r].todo :
       IF file[p] = None THEN Answer(r, "failed")
       ELSE job' = [job EXCEPT ![r].todo = @ \ {p}, ![r].told = @ \cup {Entry(p)}]
  /\ UNCHANGED <<file, mixed, history>>

LookedAtEntries(r) ==
  /\ job[r].pc = "list" /\ job[r].todo = {}
  /\ Tells(r, job[r].told)
  /\ UNCHANGED <<file, mixed, history>>

\* readFile decodes: what is not UTF-8 becomes a text nobody sent.
Utf8(text)    == text \notin Binary \/ (text \in Req /\ Is(text, "write"))
Decoded(text) == IF Utf8(text) THEN text ELSE "mixed"

\* The answer, with the text the file has by now; a download is its bytes.
Tell(r) ==
  LET text == file[Target(r)].by IN
  /\ job[r].pc = "tell"
  /\ ~Is(r, "list") => file[Target(r)] # None
  /\ job' = [job EXCEPT ![r] = [NewJob EXCEPT
                !.pc = "done", !.in = job[r].in,
                !.text = CASE Is(r, "list") -> None
                           [] Is(r, "read") -> Decoded(text)
                           [] OTHER -> text]]
  /\ UNCHANGED <<file, mixed, history>>

-----------------------------------------------------------------------------
\* ENOENT where a file is needed is one of the failures; a write that fails
\* may have written a part, and writeZip has truncated its target by then.
Fail(r) ==
  /\ Active(r)
  /\ Answer(r, "failed")
  /\ \/ UNCHANGED <<file, history>>
     \/ /\ job[r].pc = "data"
        /\ \E n \in 1..job[r].in.size : file' = Written(r, n, "mixed")
        /\ UNCHANGED history
     \/ LET p == Target(r) IN
        /\ job[r].pc = "zip"
        /\ \E n \in 0..job[r].in.size : file' = [file EXCEPT ![p] = Put(r, p, "mixed", n)]
        /\ Changes(r, p) /\ Replaces(r, p)
  /\ UNCHANGED mixed

Step(r) ==
  \/ Receive(r) \/ RefuseTooLarge(r)
  \/ LookAtTarget(r) \/ LookedAtAll(r)
  \/ OpenTarget(r) \/ OpenExists(r) \/ WriteTarget(r)
  \/ WriteZip(r) \/ MeasureZip(r) \/ RemoveZip(r)
  \/ LookAtOwner(r) \/ Chown(r) \/ Chmod(r)
  \/ LookAtSize(r) \/ ReadNames(r) \/ LookAtEntry(r) \/ LookedAtEntries(r)
  \/ Tell(r)
  \/ Fail(r)

Next == \E r \in Req : Step(r)

Spec == Init /\ [][Next]_vars

-----------------------------------------------------------------------------
(* Properties *)

Pcs == {"new", "look", "open", "data", "zip", "stat", "remove", "chown",
        "list", "tell"}
         \cup Answers
TypeOK ==
  /\ file \in [Path -> Files \cup {None}]
  /\ job \in [Req -> [pc : Pcs, in : (UNION {Input[r] : r \in Req}) \cup {NoInput},
                      todo : SUBSET Path, at : Path \cup {None}, holds : Req \cup {None},
                      saw : Ids \X Ids, told : SUBSET (Path \X (0..MaxSize)),
                      text : Texts \cup {None}]]
  /\ mixed \subseteq Req
  /\ wrote \in [Req -> SUBSET Path]
  /\ replaced \subseteq Req \X Path
  /\ \A r \in Req : job[r].pc = "data" => job[r].at \in job[r].in.paths

\* A request that does not ask to overwrite truncates a file only if another
\* request for it overlapped, and an upload never does.
NoReplaceUnasked ==
  \A x \in replaced : ~job[x[1]].in.overwrite =>
    x[1] \in mixed /\ ~Is(x[1], "upload")

\* A request that is refused has changed no file, whatever came between its
\* looks and however many entries its archive has; but createZip, which has
\* removed what it wrote.  No archive beyond the limit is left by a request
\* that was answered.
RefusedChangesNothing ==
  /\ TypeOK
  /\ \A r \in Req : job[r].pc = "refused" =>
       wrote[r] = {} \/ (Is(r, "zip") /\ \A p \in Path :
                           file[p] # None => file[p].by # r)
  /\ \A r \in Req : Is(r, "zip") /\ job[r].pc \in {"done", "refused"} =>
       \A p \in Path : file[p] # None /\ file[p].by = r =>
         file[p].size <= Limit["zip"]

\* What a request that succeeds leaves, or tells, of a file of its own.
Done(r, p) ==
  CASE Is(r, "chown") ->
         file'[p] = [file[p] EXCEPT
                       !.uid = IF "uid" \in job[r].in.ids THEN r ELSE @,
                       !.gid = IF "gid" \in job[r].in.ids THEN r ELSE @]
    [] Is(r, "chmod") -> file'[p] = [file[p] EXCEPT !.mode = r]
    [] Is(r, "list") -> job[r].told = {Entry(q) : q \in {q \in Path : file[q] # None}}
    [] Is(r, "read") \/ Is(r, "download") ->
         /\ job[r].told = {Entry(p)} /\ (Is(r, "read") => file[p].size <= Limit["read"])
         /\ Is(r, "download") \/ Utf8(file[p].by) => job'[r].text = file[p].by
    [] OTHER -> /\ file'[p] # None /\ file'[p].by = r
                /\ file'[p].size = job[r].in.size

\* When a request is answered with success, and no other request that changes
\* one of its files overlapped, each of them has the whole of the text it
\* sent; after a chown or a chmod the file has what was given and is
\* otherwise what it was; a download, and a file of UTF-8 that is read, is the
\* text of the file, of the size that was told and for a read within the
\* limit, and a listing is what the directory holds.
AnsweredIsDone ==
  [][\A r \in Req \ mixed : (job'[r].pc = "done" /\ job[r].pc # "done") =>
       \A p \in job[r].in.paths : Done(r, p)]_vars
=============================================================================
