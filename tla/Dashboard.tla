------------------------------- MODULE Dashboard -------------------------------
(***************************************************************************)
(* The panel in a browser, frontend/src/App.tsx: the session App believes  *)
(* in, the view DashboardShell shows, and the views.  The monitoring,      *)
(* setup and operations views start one request at a time each, under a    *)
(* busy flag of their instance; the file manager's chains of requests are  *)
(* in FileManagerView and the streams in MonitoringView.                   *)
(***************************************************************************)
EXTENDS FileManagerView, MonitoringView, FiniteSets

CONSTANT MaxLogouts  \* bound on the logouts ever clicked

ASSUME DashboardAssumption == MaxLogouts \in Nat

VARIABLES
  isSubmitting,  \* whether the login form waits for an answer
  logouts,       \* <<clicked ever, not answered>>
  isBusy,        \* the busy flag of the mounted one-request view
  waiting        \* requests not answered, per instance of such a view

session == <<isSubmitting, logouts>>
panel == <<isBusy, waiting>>
vars == <<shell, fileManagerView, socket, monitoringView, session, panel>>

OneRequest == {"MonitoringView", "SystemSetupView", "OperationsView"}

-----------------------------------------------------------------------------
\* Views with one busy flag.

\* What mounting instance i does to them: monitoring loads a snapshot.
MountPanel(component, i) ==
  /\ isBusy' = (component = "MonitoringView")
  /\ waiting' = [waiting EXCEPT ![i] = IF isBusy' THEN 1 ELSE 0]

Ask(component) ==
  /\ Shown(component) /\ ~isBusy
  /\ isBusy' = TRUE
  /\ waiting' = [waiting EXCEPT ![instance] = @ + 1]
  /\ UNCHANGED <<shell, fileManagerView, socket, monitoringView, session>>

LoadSnapshot == Ask("MonitoringView")
RunSystemAction == Ask("SystemSetupView")
RunOperation == Ask("OperationsView")

\* Answered or failed: the flag is cleared in a finally.
AskEnds(i) ==
  /\ waiting[i] > 0
  /\ waiting' = [waiting EXCEPT ![i] = @ - 1]
  /\ isBusy' = (isBusy /\ ~ \E c \in OneRequest : Mounted(c, i))
  /\ UNCHANGED <<shell, fileManagerView, socket, monitoringView, session>>

-----------------------------------------------------------------------------
\* Mounting and unmounting.

NothingMounted ==
  view' = FreshView /\ UNCHANGED <<disk, savedBy, operations, started>>

\* A click in the navigation.  The component on screen stays when the new
\* view is drawn by the same one.
SwitchView(v) ==
  LET component == Component[v]
      next == instance + 1 IN
  /\ authStatus = "authenticated" /\ v # activeView
  /\ activeView' = v
  /\ IF component = Component[activeView]
       THEN UNCHANGED <<instance, fileManagerView, socket, monitoringView, panel>>
     ELSE IF component = "OverviewContent"
       THEN /\ NothingMounted /\ LeaveMonitoring
            /\ isBusy' = FALSE /\ UNCHANGED <<instance, waiting>>
       ELSE /\ next \in Instances /\ instance' = next
            /\ LeaveMonitoring
            /\ MountPanel(component, next)
            /\ IF component = "FileManagerView"
                 THEN MountFiles(next) /\ UNCHANGED <<disk, savedBy>>
                 ELSE NothingMounted
  /\ UNCHANGED <<authStatus, session>>

\* App draws another screen: whatever the shell had mounted is gone, and the
\* next shell starts with the overview.
LeaveShell(status) ==
  /\ authStatus' = status /\ activeView' = "Overview"
  /\ NothingMounted /\ LeaveMonitoring
  /\ isBusy' = FALSE /\ UNCHANGED <<instance, waiting>>

-----------------------------------------------------------------------------
\* The session.

SessionAnswered(status) ==
  /\ authStatus = "checking"
  /\ authStatus' = status
  /\ UNCHANGED <<activeView, instance, fileManagerView, socket, monitoringView,
                 session, panel>>

SubmitLogin ==
  /\ authStatus = "unauthenticated" /\ ~isSubmitting
  /\ isSubmitting' = TRUE
  /\ UNCHANGED <<shell, fileManagerView, socket, monitoringView, logouts, panel>>

LoginAnswered(status) ==
  /\ isSubmitting
  /\ isSubmitting' = FALSE
  /\ authStatus' = status
  /\ UNCHANGED <<activeView, instance, fileManagerView, socket, monitoringView,
                 logouts, panel>>

\* The button stays enabled while a logout is under way.
ClickLogout ==
  /\ authStatus = "authenticated"
  /\ logouts[1] < MaxLogouts
  /\ logouts' = <<logouts[1] + 1, logouts[2] + 1>>
  /\ UNCHANGED <<shell, fileManagerView, socket, monitoringView, isSubmitting,
                 panel>>

\* Any answer will do, even a failure's.
LogoutAnswered ==
  /\ logouts[2] > 0
  /\ logouts' = [logouts EXCEPT ![2] = @ - 1]
  /\ LeaveShell("unauthenticated")
  /\ UNCHANGED isSubmitting

\* No answer: nobody catches the rejection, and the shell stays.
LogoutLost ==
  /\ logouts[2] > 0
  /\ logouts' = [logouts EXCEPT ![2] = @ - 1]
  /\ UNCHANGED <<shell, fileManagerView, socket, monitoringView, isSubmitting,
                 panel>>

-----------------------------------------------------------------------------
Init ==
  /\ authStatus = "checking" /\ activeView = "Overview" /\ instance = 0
  /\ FileManagerViewInit /\ MetricsStreamInit /\ MonitoringViewInit
  /\ isSubmitting = FALSE /\ logouts = <<0, 0>>
  /\ isBusy = FALSE /\ waiting = [i \in Instances |-> 0]

Next ==
  \/ \E v \in ViewName : SwitchView(v)
  \/ \E status \in {"authenticated", "unauthenticated"} :
       SessionAnswered(status) \/ LoginAnswered(status)
  \/ SubmitLogin \/ ClickLogout \/ LogoutAnswered \/ LogoutLost
  \/ LoadSnapshot \/ RunSystemAction \/ RunOperation
  \/ \E i \in Instances : AskEnds(i)
  \/ /\ FileManagerViewNext
     /\ UNCHANGED <<socket, monitoringView, session, panel>>
  \/ /\ MonitoringViewNext
     /\ UNCHANGED <<fileManagerView, session, panel>>
  \/ /\ MetricsStreamNext
     /\ UNCHANGED <<shell, fileManagerView, monitoringView, session, panel>>

Spec == Init /\ [][Next]_vars

-----------------------------------------------------------------------------
TypeOK ==
  /\ authStatus \in {"checking", "authenticated", "unauthenticated"}
  /\ activeView \in ViewName /\ instance \in 0..MaxInstances
  /\ disk \in [Roots \X Paths -> SUBSET Edits]
  /\ savedBy \in [Roots \X Paths -> 0..MaxInstances]
  /\ started \in 0..MaxOperations
  /\ socketRef \in PageSockets \cup {NoRef} /\ isStreaming \in BOOLEAN
  /\ \A s \in Sockets : socket[s].snapshots \in 0..MaxSnapshots
  /\ isSubmitting \in BOOLEAN /\ logouts \in (0..MaxLogouts) \X (0..MaxLogouts)
  /\ isBusy \in BOOLEAN /\ waiting \in [Instances -> 0..1]

\* The operations under way for instance i, whatever its view.
UnderWay(i) == Cardinality({op \in operations : op.instance = i}) + waiting[i]

\* An instance never has two operations under way, and the busy flag of the
\* one on screen says whether it has one: chains that call loadDirectory,
\* which clears the flag itself, never leave the buttons enabled before their
\* end, and no failure leaves them disabled.
OneOperationPerInstance ==
  /\ TypeOK
  /\ \A i \in Instances :
       /\ UnderWay(i) <= 1
       /\ Mounted("FileManagerView", i) => (view.isBusy <=> UnderWay(i) = 1)
       /\ \A c \in OneRequest :
            Mounted(c, i) => (isBusy <=> UnderWay(i) = 1)

\* What the file manager shows is of one place: the entries are those of the
\* path above them, and the file in the editor, which Save and the other
\* buttons act on, is in that directory of that root.
ShownAgrees ==
  Shown("FileManagerView") =>
    /\ view.listing # None =>
         view.listing = <<view.selectedRoot, view.currentPath>>
    /\ view.selectedFile # None =>
         /\ view.selectedFile[1] = view.selectedRoot
         /\ DirOf[view.selectedFile[2]] = view.currentPath
    /\ view.selectedFile = None => view.editorContent = {}

\* A save over one of the same instance writes every edit that one wrote.  It
\* may fail half way and so undo that one, but then the page, if it is still
\* on screen, has the file open with those edits in the editor, to be saved
\* again.  Saves of an instance left meanwhile, saves whose connection was
\* lost, and uploads and archives are other writers, over which a save may go.
SaveKept(op) ==
  LET file == <<op.root, op.path>>
      inEditor == /\ view'.selectedFile = file
                  /\ disk[file] \subseteq view'.editorContent IN
  Head(op.todo) = "write" /\ op.instance # 0 /\ savedBy[file] = op.instance
    => \/ disk[file] \subseteq disk'[file]
       \/ /\ savedBy'[file] = 0
          /\ Mounted("FileManagerView", op.instance)' => inEditor

OwnSavesKept == [][\A op \in operations \ operations' : SaveKept(op)]_vars
================================================================================
