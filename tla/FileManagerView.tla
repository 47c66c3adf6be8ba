---------------------------- MODULE FileManagerView ----------------------------
(***************************************************************************)
(* The file manager's page, FileManagerView of frontend/src/App.tsx: what  *)
(* it shows, and the chains of requests its buttons start.  The buttons    *)
(* are disabled while isBusy; the editor is not.                           *)
(*                                                                         *)
(* A text is the set of edits it holds.  The server does each request at   *)
(* once, some time between its sending and its answer; the module          *)
(* FileManager has the details.                                            *)
(***************************************************************************)
EXTENDS MountedView, Sequences

CONSTANTS
  Roots, FirstRoot,  \* the allowed roots; the one listed first
  Dirs, Top,         \* directories, relative to a root; the root itself
  ParentOf,          \* the directory above each
  Paths, DirOf,      \* files, relative to a root, and where they are
  Edits,             \* what a user may type into a text
  MaxOperations,     \* bound on the operations ever started
  None

ASSUME FileManagerViewAssumption ==
  /\ FirstRoot \in Roots /\ Top \in Dirs
  /\ ParentOf \in [Dirs -> Dirs] /\ DirOf \in [Paths -> Dirs]
  /\ None \notin Roots \cup Dirs \cup Paths \cup (Roots \X Paths)
  /\ MaxOperations \in Nat

VARIABLES
  disk,        \* the text of each file
  savedBy,     \* history: the instance that saved a file last; 0 after any
               \* other change, and when the save failed or its connection
               \* was lost
  view,        \* the state of the mounted instance
  operations,  \* operations whose requests are not all answered
  started      \* how many operations were started

fileManagerView == <<disk, savedBy, view, operations, started>>

\* listing: the <<root, directory>> whose entries are shown; selectedFile: the
\* <<root, path>> the server named when it was read.  Requests about it send
\* its path and selectedRoot.
FreshView == [roots |-> FALSE, selectedRoot |-> None, currentPath |-> Top,
              listing |-> None, selectedFile |-> None, editorContent |-> {},
              isBusy |-> FALSE]

\* The requests of an operation, each sent when the one before is answered.
Requests ==
  [mount    |-> <<"roots", "list">>,
   load     |-> <<"list">>,
   open     |-> <<"read">>,
   save     |-> <<"write", "read", "list">>,
   replace  |-> <<"replace", "list">>,
   change   |-> <<"change", "list">>,
   download |-> <<"download">>]

NewOperation(i, kind, root, dir, path, text) ==
  [id |-> started, instance |-> i, todo |-> Requests[kind], root |-> root,
   dir |-> dir, path |-> path, text |-> text, state |-> "sent", got |-> {}]

Begin(kind, root, dir, path, text) ==
  /\ started < MaxOperations
  /\ started' = started + 1
  /\ operations' = operations \cup
       {NewOperation(instance, kind, root, dir, path, text)}
  /\ view' = [view EXCEPT !.isBusy = TRUE]
  /\ UNCHANGED <<shell, disk, savedBy>>

-----------------------------------------------------------------------------
\* What the buttons allow.  Every handler also returns when no root is
\* selected, or no file where it needs one.

CanBrowse ==
  /\ Shown("FileManagerView") /\ ~view.isBusy
  /\ view.selectedRoot # None

CanOpen(dir) == CanBrowse /\ view.listing # None /\ dir = view.listing[2]

CanSave == CanBrowse /\ view.selectedFile # None

CanOperate(needsFile) == CanBrowse /\ (needsFile => view.selectedFile # None)

-----------------------------------------------------------------------------
\* The user.

SelectRoot(r) ==
  /\ CanBrowse /\ view.roots /\ r # view.selectedRoot
  /\ Begin("load", r, Top, None, {})

Refresh ==
  /\ CanBrowse
  /\ Begin("load", view.selectedRoot, view.currentPath, None, {})

GoToParent ==
  /\ CanBrowse /\ view.currentPath # Top
  /\ Begin("load", view.selectedRoot, ParentOf[view.currentPath], None, {})

OpenDirectory(d) ==
  /\ d # Top /\ CanOpen(ParentOf[d])
  /\ Begin("load", view.selectedRoot, d, None, {})

OpenFile(p) ==
  /\ CanOpen(DirOf[p])
  /\ Begin("open", view.selectedRoot, None, p, {})

Save ==
  /\ CanSave
  /\ Begin("save", view.selectedRoot, view.currentPath, view.selectedFile[2],
           view.editorContent)

Download(p) ==
  /\ CanOpen(DirOf[p]) \/ (CanSave /\ p = view.selectedFile[2])
  /\ Begin("download", view.selectedRoot, None, p, {})

\* The file dialog is modal: the path is still the one it was opened for.
Upload(p) ==
  /\ CanBrowse /\ DirOf[p] = view.currentPath
  /\ Begin("replace", view.selectedRoot, view.currentPath, p, {})

\* chmod and chown leave the text alone.
ChangeAttributes ==
  /\ CanOperate(TRUE)
  /\ Begin("change", view.selectedRoot, view.currentPath, view.selectedFile[2],
           {})

\* The archive's name is typed and may be any file's.
CreateArchive(p) ==
  /\ CanOperate(FALSE)
  /\ Begin("replace", view.selectedRoot, view.currentPath, p, {})

\* Any file may be in the archive that is open.
ExtractArchive(p) ==
  /\ CanOperate(TRUE)
  /\ Begin("replace", view.selectedRoot, view.currentPath, p, {})

\* Typing only adds edits, so that what is lost was lost by the program.
Type(e) ==
  /\ Shown("FileManagerView") /\ view.selectedFile # None
  /\ e \notin view.editorContent
  /\ view' = [view EXCEPT !.editorContent = @ \cup {e}]
  /\ UNCHANGED <<shell, disk, savedBy, operations, started>>

-----------------------------------------------------------------------------
\* The server, and the connection to it.

Replace(op, to) == operations' = (operations \ {op}) \cup to

Serve(op) ==
  LET file == <<op.root, op.path>> IN
  /\ op.state = "sent"
  /\ IF Head(op.todo) \in {"write", "replace"}
       THEN /\ disk' = [disk EXCEPT ![file] = op.text]
            /\ savedBy' = [savedBy EXCEPT
                 ![file] = IF Head(op.todo) = "write" THEN op.instance ELSE 0]
       ELSE UNCHANGED <<disk, savedBy>>
  /\ IF op.instance = 0
       THEN Replace(op, {})
       ELSE Replace(op, {[op EXCEPT !.state = "served",
              !.got = IF Head(op.todo) = "read" THEN disk[file] ELSE {}]})
  /\ UNCHANGED <<shell, view, started>>

\* An operation that ends; what it left at the server stays there as of no
\* instance.
End(op, left) ==
  /\ Replace(op, left)
  /\ view' = [view EXCEPT !.isBusy =
                @ /\ ~Mounted("FileManagerView", op.instance)]
  /\ UNCHANGED <<shell, started>>

\* A write that failed half way: its file was truncated first, and holds what
\* was written by then.
Spoils(op, text) ==
  /\ Head(op.todo) \in {"write", "replace"}
  /\ disk' = [disk EXCEPT ![<<op.root, op.path>>] = text]
  /\ savedBy' = [savedBy EXCEPT ![<<op.root, op.path>>] = 0]

Refused(op) ==
  /\ op.state = "sent"
  /\ End(op, {})
  /\ \/ UNCHANGED <<disk, savedBy>>
     \/ \E text \in SUBSET op.text : Spoils(op, text)

ConnectionLost(op) ==
  /\ op.state = "sent" /\ op.instance # 0
  /\ End(op, IF Head(op.todo) \in {"write", "replace"}
               THEN {[op EXCEPT !.instance = 0]} ELSE {})
  /\ UNCHANGED <<disk, savedBy>>

AnswerLost(op) ==
  op.state = "served" /\ End(op, {}) /\ UNCHANGED <<disk, savedBy>>

-----------------------------------------------------------------------------
\* What the page does with an answer.

Answered(op, request) == op.state = "served" /\ Head(op.todo) = request

Send(op) == [op EXCEPT !.todo = Tail(@), !.state = "sent", !.got = {}]

\* The component's first effect stops here when it was unmounted.
RootsAnswered(op) ==
  /\ Answered(op, "roots")
  /\ IF Mounted("FileManagerView", op.instance)
       THEN /\ view' = [view EXCEPT !.roots = TRUE,
                                    !.selectedRoot = FirstRoot]
            /\ Replace(op, {[Send(op) EXCEPT !.root = FirstRoot, !.dir = Top]})
       ELSE UNCHANGED view /\ Replace(op, {})
  /\ UNCHANGED <<shell, disk, savedBy, started>>

\* Mutant: the editor keeps its file while the path stays the same, whatever
\* the root.
ListAnsweredKeepsFile(op) ==
  LET same == op.dir = view.currentPath IN
  /\ Answered(op, "list")
  /\ view' = IF Mounted("FileManagerView", op.instance)
               THEN [view EXCEPT !.selectedRoot = op.root,
                                 !.currentPath = op.dir,
                                 !.listing = <<op.root, op.dir>>,
                                 !.selectedFile = IF same THEN @ ELSE None,
                                 !.editorContent = IF same THEN @ ELSE {},
                                 !.isBusy = FALSE]
               ELSE view
  /\ Replace(op, {})
  /\ UNCHANGED <<shell, disk, savedBy, started>>

\* Mutant: reading the directory again keeps the file selected, and empties
\* the editor all the same.
ListAnsweredEmptiesEditor(op) ==
  /\ Answered(op, "list")
  /\ view' = IF Mounted("FileManagerView", op.instance)
               THEN [view EXCEPT !.selectedRoot = op.root,
                                 !.currentPath = op.dir,
                                 !.listing = <<op.root, op.dir>>,
                                 !.selectedFile =
                                   IF <<op.root, op.dir>> = view.listing
                                     THEN @ ELSE None,
                                 !.editorContent = {}, !.isBusy = FALSE]
               ELSE view
  /\ Replace(op, {})
  /\ UNCHANGED <<shell, disk, savedBy, started>>

\* loadDirectory, the end of every chain it is part of.
ListAnswered(op) ==
  /\ Answered(op, "list")
  /\ view' = IF Mounted("FileManagerView", op.instance)
               THEN [view EXCEPT !.selectedRoot = op.root,
                                 !.currentPath = op.dir,
                                 !.listing = <<op.root, op.dir>>,
                                 !.selectedFile = None, !.editorContent = {},
                                 !.isBusy = FALSE]
               ELSE view
  /\ Replace(op, {})
  /\ UNCHANGED <<shell, disk, savedBy, started>>

\* Mutant: a read within a save clears the flag, as loadDirectory does.
ReadAnsweredNotBusy(op) ==
  /\ Answered(op, "read")
  /\ view' = IF Mounted("FileManagerView", op.instance)
               THEN [view EXCEPT !.selectedFile = <<op.root, op.path>>,
                                 !.editorContent = op.got, !.isBusy = FALSE]
               ELSE view
  /\ Replace(op, IF Tail(op.todo) = <<>> THEN {} ELSE {Send(op)})
  /\ UNCHANGED <<shell, disk, savedBy, started>>

ReadAnswered(op) ==
  LET last == Tail(op.todo) = <<>> IN
  /\ Answered(op, "read")
  /\ view' = IF Mounted("FileManagerView", op.instance)
               THEN [view EXCEPT !.selectedFile = <<op.root, op.path>>,
                                 !.editorContent = op.got,
                                 !.isBusy = ~last]
               ELSE view
  /\ Replace(op, IF last THEN {} ELSE {Send(op)})
  /\ UNCHANGED <<shell, disk, savedBy, started>>

DownloadAnswered(op) ==
  Answered(op, "download") /\ End(op, {}) /\ UNCHANGED <<disk, savedBy>>

ChangeAnswered(op) ==
  /\ \E request \in {"write", "replace", "change"} : Answered(op, request)
  /\ Replace(op, {Send(op)})
  /\ UNCHANGED <<shell, disk, savedBy, view, started>>

-----------------------------------------------------------------------------
FileManagerViewInit ==
  /\ disk = [file \in Roots \X Paths |-> {}]
  /\ savedBy = [file \in Roots \X Paths |-> 0]
  /\ view = FreshView /\ operations = {} /\ started = 0

\* The effect that runs when instance i is mounted.
MountFiles(i) ==
  /\ started < MaxOperations
  /\ started' = started + 1
  /\ view' = [FreshView EXCEPT !.isBusy = TRUE]
  /\ operations' = operations \cup
       {NewOperation(i, "mount", None, None, None, {})}

FileManagerViewNext ==
  \/ Refresh \/ GoToParent \/ Save \/ ChangeAttributes
  \/ \E r \in Roots : SelectRoot(r)
  \/ \E d \in Dirs : OpenDirectory(d)
  \/ \E p \in Paths : \/ OpenFile(p) \/ Download(p) \/ Upload(p)
                      \/ CreateArchive(p) \/ ExtractArchive(p)
  \/ \E e \in Edits : Type(e)
  \/ \E op \in operations :
       \/ Serve(op) \/ Refused(op) \/ ConnectionLost(op) \/ AnswerLost(op)
       \/ RootsAnswered(op) \/ ListAnswered(op) \/ ReadAnswered(op)
       \/ DownloadAnswered(op) \/ ChangeAnswered(op)
================================================================================
