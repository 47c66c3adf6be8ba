---------------------------- MODULE DashboardProofs ----------------------------
(***************************************************************************)
(* Dashboard, for any number of sockets, mounted views, files and          *)
(* operations.  Streams: one never outlives the view, the session or the   *)
(* next stream, and the server keeps no timer for a socket that went away  *)
(* (StreamInv).  Operations: an instance has one at a time, the busy flag  *)
(* shows it, what the file manager shows is of one place, and no save      *)
(* loses what an earlier one of its instance wrote (FilesInv).             *)
(***************************************************************************)
EXTENDS Dashboard, FiniteSetTheorems, TLAPS

SocketRecord ==
  [client : {"unused", "connecting", "open", "closing", "closed"},
   server : {"none", "open", "closed"}, timer : BOOLEAN, snapshots : Nat,
   owner : Nat]

StreamType ==
  /\ instance \in Nat
  /\ socket \in [Sockets -> SocketRecord]
  /\ isStreaming \in BOOLEAN

\* A login is under way only on the login screen, so that its answer never
\* takes a view from the screen.
LoginIsAlone == isSubmitting => authStatus = "unauthenticated"

StreamInv == StreamType /\ LoginIsAlone /\ StreamsFollowTheView

Asking(s) == socket[s].client \in {"connecting", "open"}

-----------------------------------------------------------------------------
\* Closing the current socket leaves none of the page's sockets asking.
LEMMA NoneAskingOnceClosed ==
  ASSUME StreamInv, socket' = CloseCurrent
  PROVE  /\ socket' \in [Sockets -> SocketRecord]
         /\ \A s \in PageSockets : ~Asking(s)'
         /\ TimersFollowSockets'
<1> USE DEF StreamInv, StreamType, StreamsFollowTheView, Sockets, SocketRecord
<1>1. ASSUME NEW s \in Sockets
      PROVE  /\ socket'[s] \in SocketRecord
             /\ socket'[s].timer = socket[s].timer
             /\ socket'[s].server = socket[s].server
             /\ socket'[s].client = socket[s].client \/ s = socketRef
             /\ s = socketRef => socket'[s].client \notin {"connecting", "open"}
  BY <1>1 DEF CloseCurrent, Closing
<1>2. socket' \in [Sockets -> SocketRecord]
  BY <1>1 DEF CloseCurrent
<1>3. \A s \in PageSockets : ~Asking(s)'
  BY <1>1 DEF Asking
<1>4. TimersFollowSockets'
  BY <1>1 DEF TimersFollowSockets
<1> QED
  BY <1>2, <1>3, <1>4

\* The page's own steps on its streams.
LEMMA MonitoringViewStep ==
  ASSUME StreamInv, MonitoringViewNext, UNCHANGED <<fileManagerView, session, panel>>
  PROVE  StreamInv'
<1> USE DEF StreamInv, StreamType, StreamsFollowTheView, shell, session,
        monitoringView, LoginIsAlone
<1>1. ASSUME NEW s \in Sockets, StartStream(s) PROVE StreamInv'
  <2> DEFINE closed == CloseCurrent
  <2>1. \A t \in Sockets :
          /\ closed[t] \in SocketRecord
          /\ closed[t].timer = socket[t].timer
          /\ closed[t].server = socket[t].server
          /\ t \in PageSockets => closed[t].client \notin {"connecting", "open"}
    BY DEF CloseCurrent, Closing, Sockets, SocketRecord
  <2>2. /\ socket' \in [Sockets -> SocketRecord]
        /\ \A t \in Sockets : /\ socket'[t].timer = socket[t].timer
                              /\ socket'[t].server = socket[t].server
                              /\ t # s => socket'[t] = closed[t]
    <3>1. socket' = [closed EXCEPT ![s] = Connecting(closed[s], instance)]
      BY <1>1 DEF StartStream
    <3>2. closed \in [Sockets -> SocketRecord]
      BY <2>1 DEF CloseCurrent
    <3>3. /\ Connecting(closed[s], instance) \in SocketRecord
          /\ Connecting(closed[s], instance).timer = closed[s].timer
          /\ Connecting(closed[s], instance).server = closed[s].server
      BY <3>2 DEF Connecting, SocketRecord
    <3> HIDE DEF closed
    <3> QED
      BY <2>1, <3>1, <3>2, <3>3
  <2>3. s \in PageSockets /\ socketRef' = s /\ Shown("MonitoringView")'
    BY <1>1 DEF StartStream, Shown
  <2>4. \A t \in PageSockets : Asking(t)' => t = s
    BY <2>1, <2>2 DEF Asking, Sockets
  <2> QED
    BY <1>1, <2>2, <2>3, <2>4, MonitoringViewAssumption
    DEF Asking, TimersFollowSockets, StartStream
<1>2. CASE StopStream
  BY <1>2, NoneAskingOnceClosed DEF StopStream, Asking
<1>3. ASSUME NEW s \in Sockets, SocketClosed(s) PROVE StreamInv'
  <2>1. /\ socket' \in [Sockets -> SocketRecord]
        /\ ~Asking(s)'
        /\ \A t \in Sockets : /\ socket'[t].timer = socket[t].timer
                              /\ socket'[t].server = socket[t].server
                              /\ t # s => socket'[t] = socket[t]
    BY <1>3 DEF SocketClosed, SocketRecord, Asking
  <2>2. /\ isStreaming' \in BOOLEAN /\ (isStreaming' => socketRef' # NoRef)
        /\ socketRef' = socketRef \/ socketRef = s
    BY <1>3 DEF SocketClosed
  <2>3. Shown("MonitoringView")' = Shown("MonitoringView")
    BY <1>3 DEF SocketClosed, Shown
  <2> QED
    BY <1>3, <2>1, <2>2, <2>3
    DEF SocketClosed, Asking, TimersFollowSockets, Sockets
<1> QED
  BY <1>1, <1>2, <1>3 DEF MonitoringViewNext

\* The server's steps, and those of other clients.
LEMMA MetricsStreamStep ==
  ASSUME StreamInv, MetricsStreamNext,
         UNCHANGED <<shell, fileManagerView, monitoringView, session, panel>>
  PROVE  StreamInv'
<1> USE DEF StreamInv, StreamType, StreamsFollowTheView, shell, session,
        monitoringView, LoginIsAlone
<1>1. PICK s \in Sockets :
        \/ ApiConnects(s) \/ ApiCloses(s) \/ Accept(s) \/ Refuse(s)
        \/ Tick(s) \/ SnapshotSent(s) \/ ServerCloses(s)
  BY DEF MetricsStreamNext
<1> DEFINE Keeps(r) ==
      /\ socket' = [socket EXCEPT ![s] = r]
      /\ r \in SocketRecord
      /\ r.timer <=> r.server = "open"
      /\ r.client \in {"connecting", "open"} => s \notin PageSockets \/ Asking(s)
<1>2. \E r : Keeps(r)
  <2> socket[s] \in SocketRecord /\ (socket[s].timer <=> socket[s].server = "open")
    BY DEF TimersFollowSockets
  <2>1. CASE ApiConnects(s)
    <3>1. Keeps(Connecting(socket[s], 0))
      BY <2>1, MetricsStreamAssumption DEF ApiConnects, Connecting, SocketRecord
    <3> QED
      BY <3>1
  <2>2. CASE ApiCloses(s)
    <3> DEFINE r == [socket[s] EXCEPT
                       !.client = IF @ = "open" THEN "closing" ELSE "closed"]
    <3>1. Keeps(r)
      BY <2>2 DEF ApiCloses, SocketRecord
    <3> QED
      BY <3>1
  <2>3. CASE Accept(s)
    <3> DEFINE r == [socket[s] EXCEPT !.client = "open", !.server = "open",
                                      !.timer = TRUE, !.snapshots = 1]
    <3>1. Keeps(r)
      BY <2>3 DEF Accept, SocketRecord, Asking
    <3> QED
      BY <3>1
  <2>4. CASE Refuse(s)
    <3>1. Keeps([socket[s] EXCEPT !.client = "closed"])
      BY <2>4 DEF Refuse, SocketRecord
    <3> QED
      BY <3>1
  <2>5. CASE Tick(s)
    <3>1. Keeps([socket[s] EXCEPT !.snapshots = @ + 1])
      BY <2>5 DEF Tick, SocketRecord, Asking
    <3> QED
      BY <3>1
  <2>6. CASE SnapshotSent(s)
    <3>1. Keeps([socket[s] EXCEPT !.snapshots = @ - 1])
      BY <2>6 DEF SnapshotSent, SocketRecord, Asking
    <3> QED
      BY <3>1
  <2>7. CASE ServerCloses(s)
    <3> DEFINE r == [socket[s] EXCEPT !.server = "closed", !.timer = FALSE,
                                      !.client = "closed"]
    <3>1. Keeps(r)
      BY <2>7 DEF ServerCloses, SocketRecord
    <3> QED
      BY <3>1
  <2> QED
    BY <1>1, <2>1, <2>2, <2>3, <2>4, <2>5, <2>6, <2>7
<1>3. Shown("MonitoringView")' = Shown("MonitoringView")
  BY DEF Shown
<1> QED
  BY <1>2, <1>3 DEF Asking, TimersFollowSockets, Sockets

\* The file manager's steps touch neither the screen nor a socket.
LEMMA FileManagerStep ==
  ASSUME StreamInv, FileManagerViewNext,
         UNCHANGED <<socket, monitoringView, session, panel>>
  PROVE  StreamInv'
<1>1. UNCHANGED shell
  BY DEF FileManagerViewNext, Refresh, GoToParent, Save, ChangeAttributes,
         SelectRoot, OpenDirectory, OpenFile, Download, Upload, CreateArchive,
         ExtractArchive, Type, Begin, Serve, Refused, ConnectionLost,
         AnswerLost, End, RootsAnswered, ListAnswered, ReadAnswered,
         DownloadAnswered, ChangeAnswered
<1> QED
  BY <1>1
  DEF StreamInv, StreamType, LoginIsAlone, StreamsFollowTheView,
      TimersFollowSockets, Shown, shell, session, monitoringView

\* Leaving a view, and the steps of the session.
LEMMA ShellStep ==
  ASSUME StreamInv,
         \/ \E v \in ViewName : SwitchView(v)
         \/ \E status \in {"authenticated", "unauthenticated"} :
              SessionAnswered(status) \/ LoginAnswered(status)
         \/ SubmitLogin \/ ClickLogout \/ LogoutAnswered \/ LogoutLost
         \/ LoadSnapshot \/ RunSystemAction \/ RunOperation
         \/ \E i \in Instances : AskEnds(i)
         \/ UNCHANGED vars
  PROVE  StreamInv'
<1> USE DEF StreamInv, StreamType, LoginIsAlone, shell, session, monitoringView
<1>1. ASSUME LeaveMonitoring, instance' \in Nat, LoginIsAlone'
      PROVE  StreamInv'
  BY <1>1, NoneAskingOnceClosed
  DEF LeaveMonitoring, StreamsFollowTheView, Asking
<1>2. ASSUME UNCHANGED <<instance, socket, monitoringView>>, LoginIsAlone',
             Shown("MonitoringView") => Shown("MonitoringView")'
      PROVE  StreamInv'
  BY <1>2 DEF StreamsFollowTheView, TimersFollowSockets
<1>3. ASSUME NEW v \in ViewName, SwitchView(v) PROVE StreamInv'
  <2>1. CASE Component[v] = Component[activeView]
    BY <1>2, <1>3, <2>1 DEF SwitchView, Shown
  <2>2. CASE Component[v] # Component[activeView]
    BY <1>1, <1>3, <2>2, MountedViewAssumption DEF SwitchView, Instances
  <2> QED
    BY <2>1, <2>2
<1>4. ASSUME NEW status, SessionAnswered(status) \/ LoginAnswered(status)
      PROVE  StreamInv'
  BY <1>2, <1>4 DEF SessionAnswered, LoginAnswered, Shown
<1>5. CASE LogoutAnswered
  BY <1>1, <1>5 DEF LogoutAnswered, LeaveShell
<1>6. CASE SubmitLogin \/ ClickLogout \/ LogoutLost
  BY <1>2, <1>6 DEF SubmitLogin, ClickLogout, LogoutLost, Shown
<1>7. CASE LoadSnapshot \/ RunSystemAction \/ RunOperation
  BY <1>2, <1>7 DEF LoadSnapshot, RunSystemAction, RunOperation, Ask, Shown
<1>8. ASSUME NEW i \in Instances, AskEnds(i) PROVE StreamInv'
  BY <1>2, <1>8 DEF AskEnds, Shown
<1>9. CASE UNCHANGED vars
  BY <1>2, <1>9 DEF vars, Shown
<1> QED
  BY <1>3, <1>4, <1>5, <1>6, <1>7, <1>8, <1>9

\* No socket is in use at the start.
LEMMA StreamInvInit ==
  ASSUME Init
  PROVE  StreamInv
<1>1. NoSocket \in SocketRecord
  BY DEF NoSocket, SocketRecord
<1>2. NoSocket.client = "unused" /\ NoSocket.timer = FALSE
        /\ NoSocket.server = "none"
  BY DEF NoSocket
<1>3. \A s \in Sockets : socket[s] = NoSocket
  BY DEF Init, MetricsStreamInit
<1>4. StreamType /\ LoginIsAlone
  BY <1>1 DEF Init, MetricsStreamInit, MonitoringViewInit, StreamType,
              LoginIsAlone
<1>5. TimersFollowSockets
  BY <1>2, <1>3 DEF TimersFollowSockets
<1> QED
  BY <1>2, <1>3, <1>4, <1>5
  DEF Init, MonitoringViewInit, StreamInv, StreamsFollowTheView, Sockets

\* Every step of the panel.
LEMMA StreamInvStep ==
  ASSUME StreamInv, [Next]_vars
  PROVE  StreamInv'
BY MonitoringViewStep, MetricsStreamStep, FileManagerStep, ShellStep DEF Next

\* No stream outlives its view, for any constants.
THEOREM StreamsCorrect == Spec => []StreamsFollowTheView
<1>1. StreamInv => StreamsFollowTheView
  BY DEF StreamInv
<1> QED
  BY <1>1, StreamInvInit, StreamInvStep, PTL DEF Spec

-----------------------------------------------------------------------------
(* The file manager's chains of requests.  Nothing in the code numbers the  *)
(* operations of an instance: that there is one at a time, and that what an *)
(* answer sets is still what its request was for, rests on the busy flag,   *)
(* which each chain keeps set from its first request to its last answer.    *)

Todos == {<<"roots", "list">>, <<"list">>, <<"read">>, <<"download">>,
          <<"write", "read", "list">>, <<"read", "list">>,
          <<"replace", "list">>, <<"change", "list">>}

OperationRecord ==
  [id : Nat, instance : 0..MaxInstances, todo : Todos, root : Roots \cup {None},
   dir : Dirs \cup {None}, path : Paths \cup {None}, text : SUBSET Edits,
   state : {"sent", "served"}, got : SUBSET Edits]

ViewRecord ==
  [roots : BOOLEAN, selectedRoot : Roots \cup {None}, currentPath : Dirs,
   listing : (Roots \X Dirs) \cup {None}, selectedFile : (Roots \X Paths) \cup {None},
   editorContent : SUBSET Edits, isBusy : BOOLEAN]

FilesType ==
  /\ disk \in [Roots \X Paths -> SUBSET Edits]
  /\ savedBy \in [Roots \X Paths -> 0..MaxInstances]
  /\ view \in ViewRecord
  /\ operations \subseteq OperationRecord
  /\ started \in 0..MaxOperations

\* A view is only on screen in the shell, as the instance that was mounted
\* for it.
ShellInv ==
  /\ authStatus \in {"checking", "authenticated", "unauthenticated"}
  /\ activeView \in ViewName
  /\ instance \in 0..MaxInstances
  /\ Component[activeView] # "OverviewContent" => instance # 0
  /\ authStatus # "authenticated" => activeView = "Overview"
  /\ LoginIsAlone

File(op) == <<op.root, op.path>>

\* An operation has what its next requests need; one nobody waits for is a
\* write that may still arrive.
Equipped(op) ==
  /\ op.instance <= instance
  /\ op.instance = 0 => op.state = "sent" /\ Head(op.todo) \in {"write", "replace"}
  /\ Head(op.todo) # "roots" => op.root \in Roots
  /\ op.todo \notin {<<"roots", "list">>, <<"read">>, <<"download">>}
       => op.dir \in Dirs
  /\ Head(op.todo) \in {"read", "write", "replace"} => op.path \in Paths

\* While its operation runs, a view stays as it was when the operation began,
\* but for what is typed.
Follows(op) ==
  /\ view.isBusy
  /\ Head(op.todo) = "roots" => view.listing = None /\ view.selectedFile = None
  /\ Head(op.todo) \in {"read", "write"} =>
       op.root = view.selectedRoot /\ DirOf[op.path] = view.currentPath
  /\ Head(op.todo) = "write" =>
       view.selectedFile = File(op) /\ op.text \subseteq view.editorContent

\* What an operation will write, or has read, holds what its instance saved.
KeepsSaved(op) ==
  op.instance # 0 /\ Head(op.todo) \in {"read", "write"}
    /\ savedBy[File(op)] = op.instance =>
    /\ Head(op.todo) = "write" /\ op.state = "sent" => disk[File(op)] \subseteq op.text
    /\ Head(op.todo) = "read" /\ op.state = "served" => disk[File(op)] \subseteq op.got

OpInv(op) ==
  /\ Equipped(op) /\ KeepsSaved(op)
  /\ Mounted("FileManagerView", op.instance) => Follows(op)

OneEach ==
  \A o, p \in operations : o.instance = p.instance /\ o.instance # 0 => o = p

Idle(i) == \A op \in operations : op.instance # i

\* The editor holds what its instance saved.
ViewInv ==
  Shown("FileManagerView") =>
    /\ view.isBusy => ~Idle(instance)
    /\ view.selectedFile # None /\ savedBy[view.selectedFile] = instance =>
         disk[view.selectedFile] \subseteq view.editorContent

PanelInv ==
  /\ isBusy \in BOOLEAN /\ waiting \in [Instances -> 0..1]
  /\ \A i \in Instances : waiting[i] = 1 =>
       i <= instance /\ Idle(i) /\ ~Mounted("FileManagerView", i)
  /\ \A c \in OneRequest : Shown(c) =>
       (isBusy <=> waiting[instance] = 1) /\ Idle(instance)

FilesInv ==
  /\ FilesType /\ ShellInv /\ OneEach /\ ViewInv /\ PanelInv /\ ShownAgrees
  /\ \A op \in operations : OpInv(op)

-----------------------------------------------------------------------------
\* The chains, request by request.
LEMMA TodoFacts ==
  ASSUME NEW t \in Todos
  PROVE  /\ Head(t) = "write" => Tail(t) = <<"read", "list">>
         /\ Head(t) \in {"roots", "replace", "change"} => Tail(t) = <<"list">>
         /\ Head(t) = "roots" => t = <<"roots", "list">>
         /\ Head(t) = "read" => t = <<"read">> \/ t = <<"read", "list">>
         /\ t = <<"read">> => Tail(t) = <<>>
         /\ t = <<"read", "list">> => Tail(t) = <<"list">>
<1>1. CASE t = <<"roots", "list">>
  BY <1>1
<1>2. CASE t = <<"list">>
  BY <1>2
<1>3. CASE t = <<"read">>
  BY <1>3
<1>4. CASE t = <<"download">>
  BY <1>4
<1>5. CASE t = <<"write", "read", "list">>
  BY <1>5
<1>6. CASE t = <<"read", "list">>
  BY <1>6
<1>7. CASE t = <<"replace", "list">>
  BY <1>7
<1>8. CASE t = <<"change", "list">>
  BY <1>8
<1> QED
  BY <1>1, <1>2, <1>3, <1>4, <1>5, <1>6, <1>7, <1>8 DEF Todos

\* The first step of each kind of operation.
LEMMA TodoHeads ==
  /\ Head(<<"list">>) = "list" /\ Head(<<"read", "list">>) = "read"
  /\ Head(<<"roots", "list">>) = "roots" /\ Head(<<"read">>) = "read"
  /\ Head(<<"download">>) = "download" /\ Head(<<"change", "list">>) = "change"
  /\ Head(<<"replace", "list">>) = "replace"
  /\ Head(<<"write", "read", "list">>) = "write"
OBVIOUS

\* What is on screen depends on the shell alone.
LEMMA ScreenKept ==
  ASSUME UNCHANGED shell
  PROVE  /\ \A c : Shown(c)' = Shown(c)
         /\ \A c, i : Mounted(c, i)' = Mounted(c, i)
         /\ instance' = instance
BY DEF shell, Shown, Mounted

\* The file manager on screen is an instance, and no other page is.
LEMMA FilesOnScreen ==
  ASSUME FilesInv, Shown("FileManagerView")
  PROVE  /\ instance \in Instances
         /\ \A c \in OneRequest : ~Shown(c)
         /\ waiting[instance] # 1
<1>1. instance # 0 /\ \A c \in OneRequest : ~Shown(c)
  BY DEF FilesInv, ShellInv, Shown, OneRequest
<1>2. instance \in Instances
  BY <1>1, MountedViewAssumption DEF FilesInv, ShellInv, Instances
<1> QED
  BY <1>1, <1>2 DEF FilesInv, PanelInv, Mounted

\* A page with one request is on screen without operations of its own.
LEMMA PanelKept ==
  ASSUME FilesInv, UNCHANGED <<shell, session, panel>>,
         \A p \in operations' : \/ p.instance = 0 \/ ~Idle(p.instance)
                                \/ Mounted("FileManagerView", p.instance)
  PROVE  ShellInv' /\ PanelInv'
<1>1. ShellInv'
  BY DEF FilesInv, ShellInv, LoginIsAlone, shell, session
<1>2. \A i \in Instances :
        Idle(i) /\ ~Mounted("FileManagerView", i) => Idle(i)'
  BY MountedViewAssumption DEF Idle, Instances
<1>3. \A c \in OneRequest : Shown(c) =>
        instance \in Instances /\ ~Mounted("FileManagerView", instance)
  BY MountedViewAssumption
  DEF FilesInv, ShellInv, Shown, Mounted, OneRequest, Instances
<1>4. PanelInv'
  BY <1>2, <1>3, ScreenKept DEF FilesInv, PanelInv, panel
<1> QED
  BY <1>1, <1>4

\* An operation of the page on screen is the only one of its instance.
LEMMA OthersElsewhere ==
  ASSUME FilesInv, NEW op \in operations, Mounted("FileManagerView", op.instance),
         NEW p \in operations, p # op
  PROVE  ~Mounted("FileManagerView", p.instance)
BY FilesOnScreen, MountedViewAssumption
DEF FilesInv, OneEach, Mounted, Instances

\* What the fields of an operation and of the view are.
LEMMA Records ==
  ASSUME FilesInv
  PROVE  /\ view \in ViewRecord
         /\ \A op \in operations : op \in OperationRecord /\ OpInv(op)
BY DEF FilesInv, FilesType

\* An answer, or the failure of a request: the operation goes on or ends, and
\* only the page it belongs to shows it.  A file it spoils is nobody's.
LEMMA AnswerOrFailureKeeps ==
  ASSUME FilesInv, NEW op \in operations, NEW to \in SUBSET OperationRecord,
         Replace(op, to), UNCHANGED <<shell, started, session, panel>>,
         disk' \in [Roots \X Paths -> SUBSET Edits],
         savedBy' \in [Roots \X Paths -> 0..MaxInstances],
         \A file \in Roots \X Paths :
           \/ savedBy'[file] = 0
           \/ savedBy'[file] = savedBy[file] /\ disk'[file] = disk[file],
         view' \in ViewRecord,
         \A p, q \in to : p = q,
         \A p \in to : p.instance \in {0, op.instance} /\ OpInv(p)',
         ~Mounted("FileManagerView", op.instance) => view' = view,
         Mounted("FileManagerView", op.instance) =>
           /\ view'.isBusy => \E p \in to : p.instance = op.instance
           /\ view'.selectedFile # None /\ savedBy'[view'.selectedFile] = instance =>
                disk'[view'.selectedFile] \subseteq view'.editorContent
           /\ ShownAgrees'
  PROVE  FilesInv'
<1>1. operations' = (operations \ {op}) \cup to
  BY DEF Replace
<1>2. FilesType'
  BY <1>1 DEF FilesInv, FilesType
<1>3. OneEach'
  BY <1>1 DEF FilesInv, OneEach
<1>4. ShellInv' /\ PanelInv'
  <2>1. \A p \in operations' : p.instance = 0 \/ ~Idle(p.instance)
    BY <1>1 DEF Idle
  <2> QED
    BY <2>1, PanelKept
<1>5. ASSUME NEW p \in operations' PROVE OpInv(p)'
  <2>1. CASE p \in to
    BY <2>1
  <2>2. CASE p \in operations /\ p # op
    <3>1. OpInv(p)
      BY <2>2 DEF FilesInv
    <3>2. Mounted("FileManagerView", p.instance) => view' = view
      BY <2>2, OthersElsewhere
    <3>3. Head(p.todo) \in {"read", "write"} => File(p) \in Roots \X Paths
      BY <3>1, TodoHeads DEF OpInv, Equipped, File
    <3>4. KeepsSaved(p)'
      BY <3>1, <3>3 DEF OpInv, KeepsSaved, File
    <3>5. Equipped(p)'
      BY <3>1, ScreenKept DEF OpInv, Equipped
    <3>6. Mounted("FileManagerView", p.instance)' => Follows(p)'
      BY <3>1, <3>2, ScreenKept DEF OpInv, Follows, File
    <3> QED
      BY <3>4, <3>5, <3>6 DEF OpInv
  <2> QED
    BY <1>1, <2>1, <2>2
<1>6. ViewInv' /\ ShownAgrees'
  <2>1. CASE Mounted("FileManagerView", op.instance)
    <3>1. instance = op.instance /\ Shown("FileManagerView")
      BY <2>1 DEF Mounted
    <3>2. view'.isBusy => ~Idle(instance)'
      BY <1>1, <2>1, <3>1, ScreenKept DEF Idle
    <3> QED
      BY <2>1, <3>1, <3>2, ScreenKept DEF ViewInv
  <2>2. CASE ~Mounted("FileManagerView", op.instance)
    <3>1. Shown("FileManagerView") /\ ~Idle(instance) => ~Idle(instance)'
      BY <1>1, <2>2, ScreenKept DEF Idle, Mounted
    <3>2. ShownAgrees'
      BY <2>2, ScreenKept DEF FilesInv, ShownAgrees
    <3>3. Shown("FileManagerView") /\ view.selectedFile # None
            /\ savedBy'[view.selectedFile] = instance =>
              disk'[view.selectedFile] \subseteq view.editorContent
      <4> SUFFICES ASSUME Shown("FileManagerView"), view.selectedFile # None,
                          savedBy'[view.selectedFile] = instance
                   PROVE  disk'[view.selectedFile] \subseteq view.editorContent
        OBVIOUS
      <4>1. view.selectedFile \in Roots \X Paths
        BY Records DEF ViewRecord
      <4>2. instance # 0
        BY FilesOnScreen DEF Instances
      <4> QED
        BY <4>1, <4>2 DEF FilesInv, ViewInv
    <3> QED
      BY <2>2, <3>1, <3>2, <3>3, ScreenKept DEF FilesInv, ViewInv, Idle
  <2> QED
    BY <2>1, <2>2
<1> QED
  BY <1>2, <1>3, <1>4, <1>5, <1>6 DEF FilesInv

\* Most answers leave the files alone.
LEMMA AnswerKeeps ==
  ASSUME FilesInv, NEW op \in operations, NEW to \in SUBSET OperationRecord,
         Replace(op, to), UNCHANGED <<shell, disk, savedBy, started, session, panel>>,
         view' \in ViewRecord,
         \A p, q \in to : p = q,
         \A p \in to : p.instance \in {0, op.instance} /\ OpInv(p)',
         ~Mounted("FileManagerView", op.instance) => view' = view,
         Mounted("FileManagerView", op.instance) =>
           /\ view'.isBusy => \E p \in to : p.instance = op.instance
           /\ view'.selectedFile # None /\ savedBy[view'.selectedFile] = instance =>
                disk[view'.selectedFile] \subseteq view'.editorContent
           /\ ShownAgrees'
  PROVE  FilesInv'
<1>1. /\ disk' \in [Roots \X Paths -> SUBSET Edits]
      /\ savedBy' \in [Roots \X Paths -> 0..MaxInstances]
      /\ disk' = disk /\ savedBy' = savedBy
  BY DEF FilesInv, FilesType
<1> QED
  BY <1>1, AnswerOrFailureKeeps

\* The end of an operation keeps what is known of the others.
LEMMA EndKeeps ==
  ASSUME FilesInv, NEW op \in operations, NEW left,
         \/ left = {}
         \/ /\ left = {[op EXCEPT !.instance = 0]}
            /\ op.state = "sent" /\ Head(op.todo) \in {"write", "replace"},
         \/ UNCHANGED <<disk, savedBy>>
         \/ \E text \in SUBSET op.text : Spoils(op, text),
         End(op, left), UNCHANGED <<session, panel>>
  PROVE  FilesInv'
<1> DEFINE at == Mounted("FileManagerView", op.instance)
           Kept(file) == \/ savedBy'[file] = 0
                         \/ /\ savedBy'[file] = savedBy[file]
                            /\ disk'[file] = disk[file]
<1>1. view' = [view EXCEPT !.isBusy = @ /\ ~at]
  BY DEF End
<1>2. /\ view \in ViewRecord /\ op \in OperationRecord /\ OpInv(op)
  BY Records
<1>3. /\ view' \in ViewRecord
      /\ at => ~view'.isBusy
      /\ ~at => view' = view
      /\ view'.selectedFile = view.selectedFile
      /\ view'.selectedRoot = view.selectedRoot
      /\ view'.editorContent = view.editorContent
      /\ view'.listing = view.listing /\ view'.currentPath = view.currentPath
  <2>1. CASE at
    BY <1>1, <1>2, <2>1 DEF ViewRecord
  <2>2. CASE ~at
    <3>1. (view.isBusy /\ ~at) = view.isBusy
      BY <1>2, <2>2 DEF ViewRecord
    <3>2. view' = view
      BY <1>1, <1>2, <3>1 DEF ViewRecord
    <3> QED
      BY <1>2, <2>2, <3>2
  <2> QED
    BY <2>1, <2>2
<1>4. left \in SUBSET OperationRecord /\ \A p \in left : p.instance = 0
  BY <1>2, MountedViewAssumption DEF OperationRecord
<1>5. \A p \in left : OpInv(p)'
  <2> SUFFICES ASSUME NEW p \in left PROVE OpInv(p)'
    OBVIOUS
  <2>1. /\ p.instance = 0 /\ p.state = "sent" /\ p.todo = op.todo
        /\ p.root = op.root /\ p.dir = op.dir /\ p.path = op.path
        /\ Head(p.todo) \in {"write", "replace"}
    BY <1>2 DEF OperationRecord
  <2>2. ~Mounted("FileManagerView", 0)'
    BY FilesOnScreen, MountedViewAssumption, ScreenKept
    DEF End, Mounted, Instances
  <2>3. Equipped(p)'
    BY <1>2, <2>1, ScreenKept
    DEF OpInv, Equipped, End, OperationRecord, FilesInv, ShellInv
  <2> QED
    BY <2>1, <2>2, <2>3 DEF OpInv, KeepsSaved
<1>6. UNCHANGED <<shell, started>> /\ Replace(op, left)
  BY DEF End
<1>7. at => ShownAgrees'
  BY <1>3, <1>6, ScreenKept DEF FilesInv, ShownAgrees
<1>8. /\ disk' \in [Roots \X Paths -> SUBSET Edits]
      /\ savedBy' \in [Roots \X Paths -> 0..MaxInstances]
      /\ \A file \in Roots \X Paths : Kept(file)
  <2>1. /\ disk \in [Roots \X Paths -> SUBSET Edits]
        /\ savedBy \in [Roots \X Paths -> 0..MaxInstances]
    BY DEF FilesInv, FilesType
  <2>2. CASE UNCHANGED <<disk, savedBy>>
    BY <2>1, <2>2
  <2>3. ASSUME NEW text \in SUBSET op.text, Spoils(op, text)
        PROVE  /\ disk' \in [Roots \X Paths -> SUBSET Edits]
               /\ savedBy' \in [Roots \X Paths -> 0..MaxInstances]
               /\ \A file \in Roots \X Paths : Kept(file)
    <3>1. File(op) \in Roots \X Paths
      BY <1>2, <2>3, TodoHeads DEF Spoils, OpInv, Equipped, File
    <3>2. text \in SUBSET Edits /\ 0 \in 0..MaxInstances
      BY <1>2, MountedViewAssumption DEF OperationRecord
    <3>3. /\ disk' = [disk EXCEPT ![File(op)] = text]
          /\ savedBy' = [savedBy EXCEPT ![File(op)] = 0]
      BY <2>3 DEF Spoils, File
    <3> QED
      BY <2>1, <3>1, <3>2, <3>3
  <2> QED
    BY <2>2, <2>3
<1>9. at /\ view'.selectedFile # None /\ savedBy'[view'.selectedFile] = instance =>
        disk'[view'.selectedFile] \subseteq view'.editorContent
  <2> SUFFICES ASSUME at, view.selectedFile # None,
                      savedBy'[view.selectedFile] = instance
               PROVE  disk'[view.selectedFile] \subseteq view.editorContent
    BY <1>3
  <2>1. view.selectedFile \in Roots \X Paths
    BY <1>2 DEF ViewRecord
  <2>2. Shown("FileManagerView") /\ instance # 0
    BY FilesOnScreen DEF Mounted, Instances
  <2> QED
    BY <1>8, <2>1, <2>2 DEF FilesInv, ViewInv
<1>10. \A p, q \in left : p = q
  OBVIOUS
<1> HIDE DEF at
<1> QED
  BY <1>3, <1>4, <1>5, <1>6, <1>7, <1>8, <1>9, <1>10, AnswerOrFailureKeeps
  DEF at

\* The first answers of a mounted page select the first root and ask for its
\* entries.
LEMMA RootsAnsweredKeeps ==
  ASSUME FilesInv, NEW op \in operations, RootsAnswered(op),
         UNCHANGED <<session, panel>>
  PROVE  FilesInv'
<1> DEFINE at == Mounted("FileManagerView", op.instance)
           new == [Send(op) EXCEPT !.root = FirstRoot, !.dir = Top]
<1>1. /\ view \in ViewRecord /\ op \in OperationRecord /\ OpInv(op)
      /\ op.state = "served" /\ op.todo = <<"roots", "list">>
  BY Records, TodoFacts DEF RootsAnswered, Answered, OperationRecord
<1>2. /\ new \in OperationRecord /\ new.instance = op.instance
      /\ new.todo = <<"list">> /\ new.root = FirstRoot /\ new.dir = Top
  <2>1. Tail(op.todo) = <<"list">> /\ <<"list">> \in Todos
    BY <1>1 DEF Todos
  <2> QED
    BY <1>1, <2>1, FileManagerViewAssumption DEF Send, OperationRecord
<1>3. UNCHANGED <<shell, disk, savedBy, started>>
  BY DEF RootsAnswered
<1>4. CASE ~at
  <2>1. view' = view /\ Replace(op, {})
    BY <1>4 DEF RootsAnswered
  <2> HIDE DEF at, new
  <2> QED
    BY <1>1, <1>3, <1>4, <2>1, AnswerKeeps DEF at
<1>5. CASE at
  <2>1. /\ view' = [view EXCEPT !.roots = TRUE, !.selectedRoot = FirstRoot]
        /\ Replace(op, {new})
    BY <1>5 DEF RootsAnswered
  <2>2. /\ Follows(op) /\ view.listing = None /\ view.selectedFile = None
    BY <1>1, <1>5, TodoHeads DEF OpInv, Follows
  <2>3. view' \in ViewRecord /\ view'.isBusy /\ view'.selectedRoot \in Roots
        /\ view'.selectedFile = None /\ view'.listing = None
        /\ view'.editorContent = view.editorContent
    BY <1>1, <2>1, <2>2, FileManagerViewAssumption DEF ViewRecord, Follows
  <2>4. ShownAgrees'
    BY <1>3, <1>5, <2>2, <2>3, ScreenKept DEF FilesInv, ShownAgrees, Mounted
  <2>5. OpInv(new)'
    <3>1. Head(new.todo) = "list"
      BY <1>2, TodoHeads
    <3>2. Equipped(new)'
      BY <1>1, <1>2, <1>3, <3>1, ScreenKept, FileManagerViewAssumption
      DEF OpInv, Equipped
    <3> HIDE DEF new
    <3> QED
      BY <2>3, <3>1, <3>2 DEF OpInv, KeepsSaved, Follows
  <2> HIDE DEF at, new
  <2>6. {new} \in SUBSET OperationRecord /\ \A p, q \in {new} : p = q
    BY <1>2
  <2>7. \A p \in {new} : p.instance \in {0, op.instance} /\ OpInv(p)'
    BY <1>2, <2>5
  <2> QED
    BY <1>2, <1>3, <1>5, <2>1, <2>3, <2>4, <2>6, <2>7, AnswerKeeps DEF at
<1> QED
  BY <1>4, <1>5

\* A listing replaces all that is shown, by what is of one place.
LEMMA ListAnsweredKeeps ==
  ASSUME FilesInv, NEW op \in operations, ListAnswered(op),
         UNCHANGED <<session, panel>>
  PROVE  FilesInv'
<1> DEFINE at == Mounted("FileManagerView", op.instance)
<1>1. /\ view \in ViewRecord /\ op \in OperationRecord /\ OpInv(op)
      /\ Head(op.todo) = "list"
  BY Records DEF ListAnswered, Answered
<1>2. op.root \in Roots /\ op.dir \in Dirs
  BY <1>1, TodoHeads DEF OpInv, Equipped
<1>3. UNCHANGED <<shell, disk, savedBy, started>> /\ Replace(op, {})
  BY DEF ListAnswered
<1>4. CASE ~at
  <2>1. view' = view
    BY <1>4 DEF ListAnswered
  <2> HIDE DEF at
  <2> QED
    BY <1>1, <1>3, <1>4, <2>1, AnswerKeeps DEF at
<1>5. CASE at
  <2>1. /\ view' \in ViewRecord /\ ~view'.isBusy /\ view'.selectedFile = None
        /\ view'.listing = <<view'.selectedRoot, view'.currentPath>>
        /\ view'.editorContent = {}
    BY <1>1, <1>2, <1>5 DEF ListAnswered, ViewRecord
  <2>2. ShownAgrees'
    BY <2>1 DEF ShownAgrees
  <2> HIDE DEF at
  <2> QED
    BY <1>3, <1>5, <2>1, <2>2, AnswerKeeps DEF at
<1> QED
  BY <1>4, <1>5

\* A request that was sent after an answer is one of the same operation.
LEMMA SendFields ==
  ASSUME NEW op \in OperationRecord, Tail(op.todo) \in Todos
  PROVE  /\ Send(op) \in OperationRecord /\ Send(op).todo = Tail(op.todo)
         /\ Send(op).instance = op.instance /\ Send(op).state = "sent"
         /\ Send(op).root = op.root /\ Send(op).dir = op.dir
         /\ Send(op).path = op.path
BY DEF Send, OperationRecord

\* What was read is shown, and the chain of a save goes on to the listing.
LEMMA ReadAnsweredKeeps ==
  ASSUME FilesInv, NEW op \in operations, ReadAnswered(op),
         UNCHANGED <<session, panel>>
  PROVE  FilesInv'
<1> DEFINE at == Mounted("FileManagerView", op.instance)
           last == Tail(op.todo) = <<>>
           to == IF last THEN {} ELSE {Send(op)}
<1>1. /\ view \in ViewRecord /\ op \in OperationRecord /\ OpInv(op)
      /\ op.state = "served" /\ Head(op.todo) = "read" /\ op.instance # 0
  BY Records DEF ReadAnswered, Answered, OpInv, Equipped
<1>2. op.root \in Roots /\ op.path \in Paths /\ op.got \in SUBSET Edits
  BY <1>1 DEF OpInv, Equipped, OperationRecord
<1>3. ~last => /\ op.todo = <<"read", "list">> /\ Tail(op.todo) = <<"list">>
               /\ Tail(op.todo) \in Todos
  BY <1>1, TodoFacts DEF OperationRecord, Todos
<1>4. UNCHANGED <<shell, disk, savedBy, started>> /\ Replace(op, to)
  BY DEF ReadAnswered
<1>5. at => /\ view' \in ViewRecord /\ view'.selectedFile = File(op)
            /\ view'.editorContent = op.got /\ view'.isBusy = ~last
            /\ view'.selectedRoot = view.selectedRoot
            /\ view'.listing = view.listing
            /\ view'.currentPath = view.currentPath
  BY <1>1, <1>2 DEF ReadAnswered, ViewRecord, File
<1>6. ~at => view' = view
  BY DEF ReadAnswered
<1>7. at => Follows(op) /\ instance = op.instance
  BY <1>1 DEF OpInv, Mounted
<1>8. \A p \in to : /\ ~last /\ p \in OperationRecord /\ p.instance = op.instance
                    /\ p.todo = <<"list">> /\ p.root = op.root /\ p.dir = op.dir
                    /\ p.path = op.path
  BY <1>1, <1>3, SendFields
<1>9. \A p \in to : OpInv(p)'
  <2> SUFFICES ASSUME NEW p \in to PROVE OpInv(p)'
    OBVIOUS
  <2>1. Head(p.todo) = "list" /\ p.dir \in Dirs
    <3>1. /\ op.todo = <<"read", "list">> /\ op.todo # <<"roots", "list">>
          /\ op.todo # <<"read">> /\ op.todo # <<"download">>
      <4>1. op.todo = <<"read", "list">>
        BY <1>3, <1>8
      <4>2. Len(<<"read", "list">>) = 2 /\ Len(<<"read">>) = 1
              /\ Len(<<"download">>) = 1
        OBVIOUS
      <4>3. Head(<<"read", "list">>) # Head(<<"roots", "list">>)
        BY TodoHeads
      <4> QED
        BY <4>1, <4>2, <4>3
    <3> QED
      BY <3>1, <1>1, <1>8, TodoHeads DEF OpInv, Equipped
  <2>2. Equipped(p)'
    BY <1>1, <1>2, <1>4, <1>8, <2>1, ScreenKept DEF OpInv, Equipped
  <2>3. Mounted("FileManagerView", p.instance)' => view'.isBusy
    BY <1>4, <1>5, <1>8, ScreenKept
  <2> QED
    BY <2>1, <2>2, <2>3 DEF OpInv, KeepsSaved, Follows
<1>10. at => ShownAgrees'
  <2> SUFFICES ASSUME at PROVE ShownAgrees'
    OBVIOUS
  <2>1. /\ view'.selectedFile[1] = op.root /\ view'.selectedFile[2] = op.path
        /\ view'.selectedFile # None
    <3>1. view'.selectedFile = <<op.root, op.path>>
      BY <1>5 DEF File
    <3>2. <<op.root, op.path>> \in Roots \X Paths
      BY <1>2
    <3> QED
      BY <3>1, <3>2, FileManagerViewAssumption
  <2>2. op.root = view'.selectedRoot /\ DirOf[op.path] = view'.currentPath
    BY <1>1, <1>5, <1>7 DEF Follows
  <2>3. view'.listing # None =>
          view'.listing = <<view'.selectedRoot, view'.currentPath>>
    BY <1>5 DEF FilesInv, ShownAgrees, Mounted
  <2> QED
    BY <2>1, <2>2, <2>3 DEF ShownAgrees
<1>11. at => (savedBy[view'.selectedFile] = instance =>
                disk[view'.selectedFile] \subseteq view'.editorContent)
  BY <1>1, <1>2, <1>5, <1>7 DEF OpInv, KeepsSaved, Follows, File
<1>12. at => (view'.isBusy => \E p \in to : p.instance = op.instance)
  BY <1>3, <1>5, <1>1, SendFields
<1>13. view' \in ViewRecord
  BY <1>1, <1>5, <1>6
<1>14. to \in SUBSET OperationRecord /\ \A p, q \in to : p = q
  BY <1>8
<1> HIDE DEF at, to
<1> QED
  BY <1>4, <1>6, <1>8, <1>9, <1>10, <1>11, <1>12, <1>13, <1>14,
     AnswerKeeps DEF at

\* After a change the chain goes on, and the page stays as it is.
LEMMA ChangeAnsweredKeeps ==
  ASSUME FilesInv, NEW op \in operations, ChangeAnswered(op),
         UNCHANGED <<session, panel>>
  PROVE  FilesInv'
<1>1. /\ view \in ViewRecord /\ op \in OperationRecord /\ OpInv(op)
      /\ op.state = "served" /\ Head(op.todo) \in {"write", "replace", "change"}
  BY Records DEF ChangeAnswered, Answered
<1>2. /\ Tail(op.todo) \in Todos
      /\ Head(op.todo) = "write" => Tail(op.todo) = <<"read", "list">>
      /\ Head(op.todo) # "write" => Tail(op.todo) = <<"list">>
  BY <1>1, TodoFacts DEF OperationRecord, Todos
<1>3. UNCHANGED <<shell, disk, savedBy, started, view>> /\ Replace(op, {Send(op)})
  BY DEF ChangeAnswered
<1>4. /\ Send(op) \in OperationRecord /\ Send(op).todo = Tail(op.todo)
      /\ Send(op).instance = op.instance /\ Send(op).state = "sent"
      /\ Send(op).root = op.root /\ Send(op).dir = op.dir
      /\ Send(op).path = op.path
  BY <1>1, <1>2, SendFields
<1>5. op.root \in Roots /\ op.dir \in Dirs /\ (Head(op.todo) = "write" => op.path \in Paths)
  BY <1>1, TodoHeads DEF OpInv, Equipped
<1> DEFINE new == Send(op)
<1> HIDE DEF new
<1>6. /\ Head(new.todo) \in {"read", "list"}
      /\ Head(new.todo) = "read" => Head(op.todo) = "write"
  BY <1>1, <1>2, <1>4, TodoHeads DEF new
<1>7. OpInv(new)'
  <2>1. Equipped(new)'
    BY <1>1, <1>3, <1>4, <1>5, <1>6, ScreenKept DEF OpInv, Equipped, new
  <2>2. Mounted("FileManagerView", op.instance) => Follows(op)
    BY <1>1 DEF OpInv
  <2>3. Mounted("FileManagerView", new.instance)' => Follows(new)'
    BY <1>3, <1>4, <1>6, <2>2, ScreenKept DEF Follows, new, File
  <2>4. KeepsSaved(new)'
    BY <1>4, <1>6 DEF KeepsSaved, new
  <2> QED
    BY <2>1, <2>3, <2>4 DEF OpInv
<1>8. Mounted("FileManagerView", op.instance) => ShownAgrees'
  BY <1>3, ScreenKept DEF FilesInv, ShownAgrees
<1>9. Mounted("FileManagerView", op.instance) =>
        (view'.selectedFile # None /\ savedBy[view'.selectedFile] = instance =>
           disk[view'.selectedFile] \subseteq view'.editorContent)
  BY <1>3 DEF FilesInv, ViewInv, Mounted
<1>10. /\ {new} \in SUBSET OperationRecord /\ \A p, q \in {new} : p = q
       /\ \A p \in {new} : p.instance \in {0, op.instance} /\ OpInv(p)'
  BY <1>4, <1>7 DEF new
<1>11. Replace(op, {new}) /\ \E p \in {new} : p.instance = op.instance
  BY <1>3, <1>4 DEF new
<1> QED
  BY <1>1, <1>3, <1>8, <1>9, <1>10, <1>11, AnswerKeeps

\* The server does a request: what it writes, and what it reads, holds what
\* the instance that asked saved before.
LEMMA ServeKeeps ==
  ASSUME FilesInv, NEW op \in operations, Serve(op),
         UNCHANGED <<session, panel>>
  PROVE  FilesInv'
<1> DEFINE file == <<op.root, op.path>>
           kind == Head(op.todo)
           done == [op EXCEPT !.state = "served",
                              !.got = IF kind = "read" THEN disk[file] ELSE {}]
           to == IF op.instance = 0 THEN {} ELSE {done}
<1>1. /\ view \in ViewRecord /\ op \in OperationRecord /\ OpInv(op)
      /\ op.state = "sent"
      /\ disk \in [Roots \X Paths -> SUBSET Edits]
      /\ savedBy \in [Roots \X Paths -> 0..MaxInstances]
  BY Records DEF Serve, FilesInv, FilesType
<1>2. UNCHANGED <<shell, view, started>> /\ operations' = (operations \ {op}) \cup to
  BY DEF Serve, Replace
<1>3. kind \in {"read", "write", "replace"} => op.path \in Paths /\ op.root \in Roots
  BY <1>1, TodoHeads DEF OpInv, Equipped
<1>4. kind = "read" => disk[file] \in SUBSET Edits
  BY <1>1, <1>3
<1>5. /\ done \in OperationRecord /\ done.instance = op.instance
      /\ done.todo = op.todo /\ done.root = op.root /\ done.dir = op.dir
      /\ done.path = op.path /\ done.text = op.text /\ done.state = "served"
      /\ kind = "read" => done.got = disk[file]
  BY <1>1, <1>4 DEF OperationRecord
<1>6. /\ kind \in {"write", "replace"} =>
           /\ disk' = [disk EXCEPT ![file] = op.text]
           /\ savedBy' = [savedBy EXCEPT
                ![file] = IF kind = "write" THEN op.instance ELSE 0]
      /\ kind \notin {"write", "replace"} => UNCHANGED <<disk, savedBy>>
  BY DEF Serve
<1>7. /\ \A f \in Roots \X Paths : f # file =>
           disk'[f] = disk[f] /\ savedBy'[f] = savedBy[f]
      /\ disk' \in [Roots \X Paths -> SUBSET Edits]
      /\ savedBy' \in [Roots \X Paths -> 0..MaxInstances]
      /\ kind = "write" => disk'[file] = op.text /\ savedBy'[file] = op.instance
      /\ kind = "replace" => savedBy'[file] = 0
      /\ kind \notin {"write", "replace"} =>
           disk'[file] = disk[file] /\ savedBy'[file] = savedBy[file]
  <2>1. CASE kind \in {"write", "replace"}
    <3>1. file \in Roots \X Paths /\ op.text \in SUBSET Edits
            /\ op.instance \in 0..MaxInstances /\ 0 \in 0..MaxInstances
      BY <1>1, <1>3, <2>1, MountedViewAssumption DEF OperationRecord
    <3> HIDE DEF file, kind
    <3> QED
      BY <1>1, <1>6, <2>1, <3>1
  <2>2. CASE kind \notin {"write", "replace"}
    BY <1>1, <1>6, <2>2
  <2> QED
    BY <2>1, <2>2
<1> HIDE DEF done
<1>8. FilesType'
  BY <1>1, <1>2, <1>5, <1>7 DEF FilesInv, FilesType
<1>9. OneEach'
  BY <1>2, <1>5 DEF FilesInv, OneEach
<1>10. ShellInv' /\ PanelInv'
  <2>1. \A p \in operations' : p.instance = 0 \/ ~Idle(p.instance)
    BY <1>2, <1>5 DEF Idle
  <2> QED
    BY <1>2, <2>1, PanelKept
<1>11. ASSUME NEW p \in operations, p # op PROVE OpInv(p)'
  <2>1. OpInv(p) /\ p \in OperationRecord
    BY Records
  <2>2. p.instance # 0 => p.instance # op.instance
    BY <1>11 DEF FilesInv, OneEach
  <2>3. Equipped(p)' /\ (Mounted("FileManagerView", p.instance)' => Follows(p)')
    BY <1>2, <2>1, ScreenKept DEF OpInv, Equipped, Follows, File
  <2>4. Head(p.todo) \in {"read", "write"} => File(p) \in Roots \X Paths
    BY <2>1, TodoHeads DEF OpInv, Equipped, File
  <2>5. KeepsSaved(p)'
    <3>1. CASE File(p) = file
      <4>1. p.instance # 0 => savedBy'[file] # p.instance \/ kind \notin {"write", "replace"}
        BY <1>7, <2>2
      <4> QED
        BY <1>7, <2>1, <3>1, <4>1 DEF OpInv, KeepsSaved, File
    <3>2. CASE File(p) # file
      BY <1>7, <2>1, <2>4, <3>2 DEF OpInv, KeepsSaved, File
    <3> QED
      BY <3>1, <3>2
  <2> QED
    BY <2>3, <2>5 DEF OpInv
<1>12. ASSUME NEW p \in to PROVE OpInv(p)'
  <2>0. p = done /\ op.instance # 0
    BY <1>12
  <2>1. Equipped(p)'
    BY <1>1, <1>2, <1>5, <2>0, ScreenKept DEF OpInv, Equipped
  <2>2. KeepsSaved(p)'
    BY <1>5, <1>7, <2>0 DEF KeepsSaved, File
  <2>3. Mounted("FileManagerView", p.instance)' => Follows(p)'
    BY <1>1, <1>2, <1>5, <2>0, ScreenKept DEF OpInv, Follows, File
  <2> QED
    BY <2>1, <2>2, <2>3 DEF OpInv
<1>13. ShownAgrees'
  BY <1>2, ScreenKept DEF FilesInv, ShownAgrees
<1>14. ViewInv'
  <2> SUFFICES ASSUME Shown("FileManagerView") PROVE ViewInv'
    BY ScreenKept, <1>2 DEF ViewInv
  <2>1. view.isBusy => ~Idle(instance)'
    <3>1. instance # 0 /\ instance' = instance
      BY <1>2, FilesOnScreen, ScreenKept DEF Instances
    <3>2. view.isBusy => \E p \in operations : p.instance = instance
      BY DEF FilesInv, ViewInv, Idle
    <3>3. op.instance = instance => \E p \in to : p.instance = instance
      BY <1>5, <3>1
    <3> HIDE DEF to
    <3> QED
      BY <1>2, <3>1, <3>2, <3>3 DEF Idle
  <2> DEFINE here == view.selectedFile
  <2>2. ASSUME view.selectedFile # None, savedBy'[here] = instance
        PROVE  disk'[here] \subseteq view.editorContent
    <3>1. instance # 0 /\ here \in Roots \X Paths
      BY <1>1, <2>2, FilesOnScreen, MountedViewAssumption
      DEF FilesInv, ViewInv, Instances, ViewRecord
    <3>2. CASE here = file /\ kind = "write"
      <4>1. Mounted("FileManagerView", op.instance)
        BY <1>7, <2>2, <3>2 DEF Mounted
      <4> QED
        BY <1>1, <1>7, <3>2, <4>1 DEF OpInv, Follows
    <3>3. CASE here = file /\ kind = "replace"
      BY <1>7, <2>2, <3>1, <3>3
    <3>4. CASE here # file \/ kind \notin {"write", "replace"}
      <4>1. disk'[here] = disk[here] /\ savedBy'[here] = savedBy[here]
        BY <1>7, <3>1, <3>4
      <4> QED
        BY <2>2, <4>1 DEF FilesInv, ViewInv
    <3> QED
      BY <3>2, <3>3, <3>4
  <2> QED
    BY <1>2, <2>1, <2>2, ScreenKept DEF FilesInv, ViewInv, Idle
<1> QED
  BY <1>2, <1>8, <1>9, <1>10, <1>11, <1>12, <1>13, <1>14 DEF FilesInv

\* What the chain of each kind begins with.
LEMMA RequestFacts ==
  /\ Requests["load"] = <<"list">> /\ Requests["open"] = <<"read">>
  /\ Requests["save"] = <<"write", "read", "list">>
  /\ Requests["replace"] = <<"replace", "list">>
  /\ Requests["change"] = <<"change", "list">>
  /\ Requests["download"] = <<"download">>
  /\ Requests["mount"] = <<"roots", "list">>
BY DEF Requests

\* While the buttons are enabled nothing is under way for the page.
LEMMA EnabledIsIdle ==
  ASSUME FilesInv, Shown("FileManagerView"), ~view.isBusy
  PROVE  Idle(instance)
BY DEF FilesInv, OpInv, Follows, Idle, Mounted

\* A button starts a chain that has what it needs, and with it the flag.
LEMMA BeginKeeps ==
  ASSUME FilesInv, Shown("FileManagerView"), ~view.isBusy,
         NEW kind \in {"load", "open", "save", "replace", "change", "download"},
         NEW root \in Roots, NEW dir \in Dirs \cup {None},
         NEW path \in Paths \cup {None}, NEW text \in SUBSET Edits,
         kind \in {"load", "save", "replace", "change"} => dir \in Dirs,
         kind \in {"open", "save", "replace"} => path \in Paths,
         kind \in {"open", "save"} =>
           root = view.selectedRoot /\ DirOf[path] = view.currentPath,
         kind = "save" =>
           view.selectedFile = <<root, path>> /\ text = view.editorContent,
         Begin(kind, root, dir, path, text), UNCHANGED <<session, panel>>
  PROVE  FilesInv'
<1>1. /\ instance \in Instances /\ instance \in Nat /\ instance # 0
      /\ instance \in 0..MaxInstances
      /\ started \in Nat /\ started' \in 0..MaxOperations
  BY FilesOnScreen, MountedViewAssumption, FileManagerViewAssumption
  DEF FilesInv, FilesType, Instances, Begin
<1>2. PICK new : new = NewOperation(instance, kind, root, dir, path, text)
  OBVIOUS
<1>3. /\ Requests[kind] \in Todos
      /\ kind = "open" <=> Head(Requests[kind]) = "read"
      /\ kind = "save" <=> Head(Requests[kind]) = "write"
      /\ kind = "replace" <=> Head(Requests[kind]) = "replace"
      /\ Head(Requests[kind]) # "roots"
      /\ kind = "open" => Requests[kind] = <<"read">>
      /\ kind = "download" => Requests[kind] = <<"download">>
  BY RequestFacts, TodoHeads DEF Todos
<1>4. /\ new \in OperationRecord /\ new.instance = instance
      /\ new.todo = Requests[kind] /\ new.root = root /\ new.dir = dir
      /\ new.path = path /\ new.text = text /\ new.state = "sent"
  BY <1>1, <1>2, <1>3 DEF NewOperation, OperationRecord
<1>5. /\ operations' = operations \cup {new}
      /\ UNCHANGED <<shell, disk, savedBy>>
  BY <1>2 DEF Begin
<1>6. /\ view \in ViewRecord /\ view' \in ViewRecord /\ view'.isBusy
      /\ view'.selectedRoot = view.selectedRoot
      /\ view'.currentPath = view.currentPath
      /\ view'.selectedFile = view.selectedFile
      /\ view'.listing = view.listing
      /\ view'.editorContent = view.editorContent
  BY Records DEF Begin, ViewRecord
<1>7. Idle(instance)
  BY EnabledIsIdle
<1>8. FilesType'
  BY <1>1, <1>4, <1>5, <1>6 DEF FilesInv, FilesType
<1>9. OneEach'
  BY <1>4, <1>5, <1>7 DEF FilesInv, OneEach, Idle
<1>10. ShellInv' /\ PanelInv'
  <2>1. \A p \in operations' : \/ p.instance = 0 \/ ~Idle(p.instance)
                               \/ Mounted("FileManagerView", p.instance)
    BY <1>4, <1>5 DEF Idle, Mounted
  <2> QED
    BY <1>5, <2>1, PanelKept
<1>11. ASSUME NEW p \in operations PROVE OpInv(p)'
  <2>1. OpInv(p) /\ p.instance # instance
    BY <1>7, Records DEF Idle
  <2> QED
    BY <1>5, <2>1, ScreenKept DEF OpInv, Equipped, KeepsSaved, File, Mounted
<1>12. OpInv(new)'
  <2>1. Equipped(new)'
    <3>1. Head(new.todo) \in {"read", "write", "replace"} => new.path \in Paths
      BY <1>3, <1>4
    <3>2. new.todo # <<"read">> /\ new.todo # <<"download">> => new.dir \in Dirs
      BY <1>3, <1>4
    <3> QED
      BY <1>1, <1>3, <1>4, <1>5, <3>1, <3>2, ScreenKept DEF Equipped
  <2>2. KeepsSaved(new)'
    <3>1. kind = "save" => view.selectedFile # None
      BY FileManagerViewAssumption
    <3>2. kind = "save" /\ savedBy[File(new)] = instance =>
            disk[File(new)] \subseteq text
      BY <1>4, <3>1 DEF FilesInv, ViewInv, File
    <3> QED
      BY <1>3, <1>4, <1>5, <3>2 DEF KeepsSaved, File
  <2>3. Follows(new)'
    BY <1>3, <1>4, <1>6 DEF Follows, File
  <2> QED
    BY <2>1, <2>2, <2>3 DEF OpInv
<1>13. ShownAgrees'
  BY <1>5, <1>6, ScreenKept DEF FilesInv, ShownAgrees
<1>14. ViewInv'
  <2>1. ~Idle(instance)'
    BY <1>4, <1>5, ScreenKept DEF Idle
  <2> QED
    BY <1>5, <1>6, <2>1, ScreenKept DEF FilesInv, ViewInv
<1> QED
  BY <1>5, <1>8, <1>9, <1>10, <1>11, <1>12, <1>13, <1>14 DEF FilesInv

\* The user's buttons.
LEMMA ButtonKeeps ==
  ASSUME FilesInv, UNCHANGED <<session, panel>>,
         \/ Refresh \/ GoToParent \/ Save \/ ChangeAttributes
         \/ \E r \in Roots : SelectRoot(r)
         \/ \E d \in Dirs : OpenDirectory(d)
         \/ \E p \in Paths : \/ OpenFile(p) \/ Download(p) \/ Upload(p)
                             \/ CreateArchive(p) \/ ExtractArchive(p)
  PROVE  FilesInv'
<1>1. /\ CanBrowse /\ Shown("FileManagerView") /\ ~view.isBusy
      /\ view.selectedRoot # None
  BY DEF Refresh, GoToParent, Save, ChangeAttributes, SelectRoot,
         OpenDirectory, OpenFile, Download, Upload, CreateArchive,
         ExtractArchive, CanOpen, CanSave, CanOperate, CanBrowse
<1>2. /\ view.selectedRoot \in Roots /\ view.currentPath \in Dirs
      /\ view.selectedFile \in (Roots \X Paths) \cup {None}
      /\ view.editorContent \in SUBSET Edits /\ {} \in SUBSET Edits
      /\ view.listing # None => view.listing[2] = view.currentPath
      /\ view.selectedFile # None =>
           /\ view.selectedFile[2] \in Paths
           /\ view.selectedFile = <<view.selectedRoot, view.selectedFile[2]>>
           /\ DirOf[view.selectedFile[2]] = view.currentPath
  BY <1>1, Records DEF ViewRecord, FilesInv, ShownAgrees
<1>3. ParentOf[view.currentPath] \in Dirs /\ Top \in Dirs /\ None \notin Paths
  BY <1>2, FileManagerViewAssumption
<1>4. CASE Refresh \/ GoToParent
  BY <1>1, <1>2, <1>3, <1>4, BeginKeeps DEF Refresh, GoToParent
<1>5. CASE Save
  BY <1>1, <1>2, <1>3, <1>5, BeginKeeps DEF Save, CanSave
<1>6. CASE ChangeAttributes
  BY <1>1, <1>2, <1>3, <1>6, BeginKeeps DEF ChangeAttributes, CanOperate
<1>7. ASSUME NEW r \in Roots, SelectRoot(r) PROVE FilesInv'
  BY <1>1, <1>2, <1>3, <1>7, BeginKeeps DEF SelectRoot
<1>8. ASSUME NEW d \in Dirs, OpenDirectory(d) PROVE FilesInv'
  BY <1>1, <1>2, <1>3, <1>8, BeginKeeps DEF OpenDirectory
<1>9. ASSUME NEW p \in Paths, OpenFile(p) PROVE FilesInv'
  BY <1>1, <1>2, <1>3, <1>9, BeginKeeps DEF OpenFile, CanOpen
<1>10. ASSUME NEW p \in Paths, Download(p) PROVE FilesInv'
  BY <1>1, <1>2, <1>3, <1>10, BeginKeeps DEF Download
<1>11. ASSUME NEW p \in Paths, Upload(p) PROVE FilesInv'
  BY <1>1, <1>2, <1>3, <1>11, BeginKeeps DEF Upload
<1>12. ASSUME NEW p \in Paths, CreateArchive(p) \/ ExtractArchive(p)
       PROVE  FilesInv'
  BY <1>1, <1>2, <1>3, <1>12, BeginKeeps DEF CreateArchive, ExtractArchive
<1> QED
  BY <1>4, <1>5, <1>6, <1>7, <1>8, <1>9, <1>10, <1>11, <1>12

\* Typing adds to the editor only.
LEMMA TypeKeeps ==
  ASSUME FilesInv, NEW e \in Edits, Type(e), UNCHANGED <<session, panel>>
  PROVE  FilesInv'
<1>1. /\ view \in ViewRecord /\ view' \in ViewRecord
      /\ view'.isBusy = view.isBusy
      /\ view'.selectedRoot = view.selectedRoot
      /\ view'.currentPath = view.currentPath
      /\ view'.selectedFile = view.selectedFile
      /\ view'.listing = view.listing
      /\ view.editorContent \subseteq view'.editorContent
  BY Records DEF Type, ViewRecord
<1>2. UNCHANGED <<shell, disk, savedBy, operations, started>>
        /\ view.selectedFile # None
  BY DEF Type
<1>3. FilesType' /\ OneEach'
  BY <1>1, <1>2 DEF FilesInv, FilesType, OneEach
<1>4. ShellInv' /\ PanelInv'
  <2>1. \A p \in operations' : p.instance = 0 \/ ~Idle(p.instance)
    BY <1>2 DEF Idle
  <2> QED
    BY <1>2, <2>1, PanelKept
<1>5. ASSUME NEW p \in operations PROVE OpInv(p)'
  BY <1>1, <1>2, Records, ScreenKept
  DEF OpInv, Equipped, KeepsSaved, Follows, File
<1>6. ShownAgrees' /\ ViewInv'
  BY <1>1, <1>2, ScreenKept DEF FilesInv, ShownAgrees, ViewInv, Idle
<1> QED
  BY <1>2, <1>3, <1>4, <1>5, <1>6 DEF FilesInv

\* Every step of the file manager's page.
LEMMA FileManagerKeeps ==
  ASSUME FilesInv, FileManagerViewNext, UNCHANGED <<session, panel>>
  PROVE  FilesInv'
<1>1. ASSUME NEW op \in operations, op.state = "served" PROVE op.instance # 0
  BY <1>1, Records DEF OpInv, Equipped
<1>2. ASSUME NEW op \in operations,
             Refused(op) \/ ConnectionLost(op) \/ AnswerLost(op)
               \/ DownloadAnswered(op)
      PROVE  FilesInv'
  BY <1>1, <1>2, EndKeeps
  DEF Refused, ConnectionLost, AnswerLost, DownloadAnswered, Answered
<1> QED
  BY <1>2, ButtonKeeps, TypeKeeps, ServeKeeps, RootsAnsweredKeeps,
     ListAnsweredKeeps, ReadAnsweredKeeps, ChangeAnsweredKeeps
  DEF FileManagerViewNext

-----------------------------------------------------------------------------
\* The navigation and the session.

\* Steps that leave the file manager alone.
LEMMA QuietKeeps ==
  ASSUME FilesInv, UNCHANGED <<fileManagerView, instance>>,
         Shown("FileManagerView")' = Shown("FileManagerView"),
         ShellInv', PanelInv'
  PROVE  FilesInv'
<1> USE DEF fileManagerView
<1>1. \A i : Mounted("FileManagerView", i)' = Mounted("FileManagerView", i)
  BY DEF Mounted
<1>2. FilesType' /\ OneEach' /\ ViewInv' /\ ShownAgrees'
  BY <1>1 DEF FilesInv, FilesType, OneEach, ViewInv, ShownAgrees, Idle
<1>3. \A op \in operations : OpInv(op)'
  BY <1>1 DEF FilesInv, OpInv, Equipped, KeepsSaved, Follows, File
<1> QED
  BY <1>2, <1>3 DEF FilesInv

\* A page that left the screen leaves its operations running.
LEMMA LeavingKeeps ==
  ASSUME FilesInv, view' = FreshView, UNCHANGED <<disk, savedBy, operations, started>>,
         instance' \in Nat, instance <= instance', ~Shown("FileManagerView")',
         ShellInv', PanelInv'
  PROVE  FilesInv'
<1>1. FilesType' /\ OneEach' /\ ViewInv' /\ ShownAgrees'
  BY FileManagerViewAssumption
  DEF FilesInv, FilesType, OneEach, ViewInv, ShownAgrees, FreshView, ViewRecord
<1>2. ASSUME NEW op \in operations PROVE OpInv(op)'
  <2>1. OpInv(op) /\ op.instance \in Nat /\ instance \in Nat
    BY Records, MountedViewAssumption DEF OperationRecord, FilesInv, ShellInv
  <2> QED
    BY <2>1 DEF OpInv, Equipped, KeepsSaved, File, Mounted
<1> QED
  BY <1>1, <1>2 DEF FilesInv

\* No operation is one of an instance to come.
LEMMA NextIsIdle ==
  ASSUME FilesInv
  PROVE  /\ instance \in Nat
         /\ Idle(instance + 1)
         /\ instance + 1 \in Instances => waiting[instance + 1] = 0
         /\ \A i \in Instances : waiting[i] = 1 => i # instance + 1
<1>1. instance \in Nat
  BY MountedViewAssumption DEF FilesInv, ShellInv
<1>2. \A op \in operations : op.instance # instance + 1
  BY <1>1, Records, MountedViewAssumption DEF OpInv, Equipped, OperationRecord
<1>3. \A i \in Instances : waiting[i] = 1 => i # instance + 1
  BY <1>1, MountedViewAssumption DEF FilesInv, PanelInv, Instances
<1> QED
  BY <1>1, <1>2, <1>3 DEF Idle, FilesInv, PanelInv

\* The first operation of a page just mounted is its only one.
LEMMA MountKeeps ==
  ASSUME FilesInv, MountFiles(instance'), UNCHANGED <<disk, savedBy>>,
         instance' = instance + 1, instance' \in Instances,
         ShellInv', PanelInv'
  PROVE  FilesInv'
<1>1. PICK new : new = NewOperation(instance + 1, "mount", None, None, None, {})
  OBVIOUS
<1>2. /\ instance \in Nat /\ instance + 1 \in 0..MaxInstances
      /\ started \in Nat /\ started' \in 0..MaxOperations /\ Idle(instance + 1)
  BY NextIsIdle, MountedViewAssumption, FileManagerViewAssumption
  DEF FilesInv, FilesType, Instances, MountFiles
<1>3. <<"roots", "list">> \in Todos
  BY DEF Todos
<1>4. /\ new \in OperationRecord /\ new.instance = instance + 1
      /\ new.todo = <<"roots", "list">> /\ Head(new.todo) = "roots"
      /\ new.state = "sent"
  BY <1>1, <1>2, <1>3, RequestFacts, TodoHeads DEF NewOperation, OperationRecord
<1>5. operations' = operations \cup {new}
  BY <1>1 DEF MountFiles
<1>6. /\ view' \in ViewRecord /\ view'.isBusy /\ view'.listing = None
      /\ view'.selectedFile = None /\ view'.editorContent = {}
  BY FileManagerViewAssumption DEF MountFiles, FreshView, ViewRecord
<1>7. FilesType' /\ OneEach'
  BY <1>2, <1>4, <1>5, <1>6 DEF FilesInv, FilesType, OneEach, Idle
<1>8. ViewInv' /\ ShownAgrees'
  BY <1>4, <1>5, <1>6 DEF ViewInv, ShownAgrees, Idle
<1>9. OpInv(new)'
  BY <1>2, <1>4, <1>6, TodoHeads DEF OpInv, Equipped, KeepsSaved, Follows
<1>10. ASSUME NEW op \in operations PROVE OpInv(op)'
  <2>1. OpInv(op) /\ op.instance \in Nat /\ op.instance # instance'
    BY <1>2, Records, MountedViewAssumption DEF OperationRecord, Idle
  <2> QED
    BY <1>2, <2>1 DEF OpInv, Equipped, KeepsSaved, File, Mounted
<1> QED
  BY <1>5, <1>7, <1>8, <1>9, <1>10 DEF FilesInv

\* A click in the navigation.
LEMMA SwitchKeeps ==
  ASSUME FilesInv, NEW v \in ViewName, SwitchView(v)
  PROVE  FilesInv'
<1> DEFINE component == Component[v]
<1>1. /\ authStatus = "authenticated" /\ authStatus' = "authenticated"
      /\ activeView' = v /\ UNCHANGED session
      /\ \A c : Shown(c)' <=> c = component
  BY DEF SwitchView, Shown
<1>2. ASSUME instance' \in 0..MaxInstances,
             component # "OverviewContent" => instance' # 0
      PROVE  ShellInv'
  BY <1>1, <1>2 DEF FilesInv, ShellInv, LoginIsAlone, session
<1>3. CASE component = Component[activeView]
  <2>1. /\ UNCHANGED <<instance, fileManagerView, socket, monitoringView, panel>>
        /\ \A c : Shown(c)' = Shown(c)
    BY <1>1, <1>3 DEF SwitchView, Shown
  <2>2. ShellInv'
    BY <1>2, <1>3, <2>1 DEF FilesInv, ShellInv
  <2>3. PanelInv'
    BY <2>1 DEF FilesInv, PanelInv, panel, Mounted, fileManagerView, Idle
  <2> QED
    BY <2>1, <2>2, <2>3, QuietKeeps
<1>4. CASE component # Component[activeView] /\ component = "OverviewContent"
  <2>1. NothingMounted /\ isBusy' = FALSE /\ UNCHANGED <<instance, waiting>>
    BY <1>4 DEF SwitchView
  <2>2. ShellInv'
    BY <1>2, <1>4, <2>1 DEF FilesInv, ShellInv
  <2>3. PanelInv'
    BY <1>1, <1>4, <2>1
    DEF FilesInv, PanelInv, NothingMounted, Mounted, Idle, OneRequest
  <2> QED
    BY <1>1, <1>4, <2>1, <2>2, <2>3, NextIsIdle, LeavingKeeps DEF NothingMounted
<1>5. CASE component # Component[activeView] /\ component # "OverviewContent"
  <2>0. PICK next : next = instance + 1
    OBVIOUS
  <2>1. /\ next \in Instances /\ instance' = next
        /\ isBusy' = (component = "MonitoringView")
        /\ waiting' = [waiting EXCEPT ![next] = IF isBusy' THEN 1 ELSE 0]
        /\ component = "FileManagerView" =>
             MountFiles(instance') /\ UNCHANGED <<disk, savedBy>>
        /\ component # "FileManagerView" => NothingMounted
    BY <1>5, <2>0 DEF SwitchView, MountPanel
  <2>2. ShellInv'
    BY <1>2, <2>1, MountedViewAssumption DEF Instances
  <2>3. /\ \A i \in Instances : i # next /\ Idle(i) => Idle(i)'
        /\ component # "FileManagerView" => Idle(next)'
    <3>1. CASE component = "FileManagerView"
      <4>1. NewOperation(next, "mount", None, None, None, {}).instance
              = next
        BY DEF NewOperation
      <4> QED
        BY <2>1, <3>1, <4>1 DEF MountFiles, Idle
    <3>2. CASE component # "FileManagerView"
      BY <2>1, <2>0, <3>2, NextIsIdle DEF NothingMounted, Idle
    <3> QED
      BY <3>1, <3>2
  <2>4. /\ waiting' \in [Instances -> 0..1] /\ isBusy' \in BOOLEAN
        /\ waiting'[next] = IF isBusy' THEN 1 ELSE 0
        /\ \A i \in Instances : i # next => waiting'[i] = waiting[i]
    BY <2>1 DEF FilesInv, PanelInv
  <2>5. ASSUME NEW i \in Instances, waiting'[i] = 1
        PROVE  i <= instance' /\ Idle(i)' /\ ~Mounted("FileManagerView", i)'
    <3>1. CASE i = next
      <4>1. component = "MonitoringView"
        <5>1. isBusy'
          BY <2>4, <2>5, <3>1
        <5>2. isBusy' = (component = "MonitoringView")
          BY <2>1
        <5> QED
          BY <5>1, <5>2
      <4>2. Idle(next)' /\ ~Mounted("FileManagerView", i)'
        BY <1>1, <2>3, <4>1 DEF Mounted
      <4> QED
        BY <2>0, <2>1, <3>1, <4>2, NextIsIdle DEF Idle
    <3>2. CASE i # next
      <4>1. i <= instance /\ Idle(i)
        BY <2>4, <2>5, <3>2 DEF FilesInv, PanelInv
      <4> QED
        BY <2>1, <2>3, <2>0, <3>2, <4>1, NextIsIdle, MountedViewAssumption
        DEF Mounted, Instances
    <3> QED
      BY <3>1, <3>2
  <2>6. \A c \in OneRequest : Shown(c)' =>
          (isBusy' <=> waiting'[instance'] = 1) /\ Idle(instance)'
    BY <1>1, <2>1, <2>3, <2>4 DEF OneRequest, Idle
  <2>7. PanelInv'
    BY <2>4, <2>5, <2>6 DEF PanelInv
  <2>8. CASE component = "FileManagerView"
    BY <2>1, <2>2, <2>7, <2>8, <2>0, MountKeeps
  <2>9. CASE component # "FileManagerView"
    BY <1>1, <2>1, <2>2, <2>7, <2>9, <2>0, NextIsIdle,
       LeavingKeeps DEF NothingMounted
  <2> QED
    BY <2>8, <2>9
<1> QED
  BY <1>3, <1>4, <1>5

\* The requests of the pages with one busy flag.
LEMMA PanelStepKeeps ==
  ASSUME FilesInv,
         \/ LoadSnapshot \/ RunSystemAction \/ RunOperation
         \/ \E i \in Instances : AskEnds(i)
  PROVE  FilesInv'
<1>1. UNCHANGED <<shell, fileManagerView, session>>
  BY DEF LoadSnapshot, RunSystemAction, RunOperation, Ask, AskEnds
<1>2. ShellInv'
  BY <1>1 DEF FilesInv, ShellInv, LoginIsAlone, shell, session
<1>3. PanelInv'
  <2>1. ASSUME NEW c \in OneRequest, Ask(c) PROVE PanelInv'
    <3>1. /\ Shown(c) /\ instance \in Instances /\ instance \in Nat
          /\ ~Mounted("FileManagerView", instance)
      BY <2>1, MountedViewAssumption
      DEF FilesInv, ShellInv, Ask, Shown, Mounted, OneRequest, Instances
    <3>2. ~isBusy /\ Idle(instance) /\ waiting[instance] # 1
      BY <2>1, <3>1 DEF FilesInv, PanelInv, Ask
    <3>3. waiting' = [waiting EXCEPT ![instance] = 1] /\ isBusy' = TRUE
      <4>1. waiting[instance] \in 0..1
        BY <3>1 DEF FilesInv, PanelInv
      <4>2. waiting[instance] + 1 = 1
        BY <3>2, <4>1
      <4>3. waiting' = [waiting EXCEPT ![instance] = waiting[instance] + 1]
              /\ isBusy' = TRUE
        BY <2>1 DEF Ask
      <4> QED
        BY <4>2, <4>3
    <3> QED
      BY <1>1, <3>1, <3>2, <3>3, ScreenKept
      DEF FilesInv, PanelInv, Idle, fileManagerView
  <2>2. ASSUME NEW i \in Instances, AskEnds(i) PROVE PanelInv'
    <3>1. waiting[i] = 1 /\ waiting' = [waiting EXCEPT ![i] = 0]
      <4>1. waiting[i] \in 0..1 /\ waiting[i] > 0
        BY <2>2 DEF FilesInv, PanelInv, AskEnds
      <4>2. waiting' = [waiting EXCEPT ![i] = waiting[i] - 1]
        BY <2>2 DEF AskEnds
      <4>3. waiting[i] = 1 /\ waiting[i] - 1 = 0
        BY <4>1
      <4> QED
        BY <4>2, <4>3
    <3>2. isBusy' \in BOOLEAN /\ \A c \in OneRequest : Mounted(c, i) => ~isBusy'
      BY <2>2 DEF AskEnds
    <3>3. \A c \in OneRequest : Shown(c) /\ instance # i => isBusy' = isBusy
      BY <2>2 DEF AskEnds, FilesInv, PanelInv, Mounted
    <3> QED
      BY <1>1, <3>1, <3>2, <3>3, ScreenKept
      DEF FilesInv, PanelInv, Idle, Mounted, fileManagerView
  <2> QED
    BY <2>1, <2>2 DEF LoadSnapshot, RunSystemAction, RunOperation, OneRequest
<1> QED
  BY <1>1, <1>2, <1>3, ScreenKept, QuietKeeps DEF shell

\* The session's steps: the shell is entered from a screen without a view,
\* and a logout's answer takes whatever view was there.
LEMMA SessionKeeps ==
  ASSUME FilesInv,
         \/ \E status \in {"authenticated", "unauthenticated"} :
              SessionAnswered(status) \/ LoginAnswered(status)
         \/ SubmitLogin \/ ClickLogout \/ LogoutAnswered \/ LogoutLost
         \/ UNCHANGED <<shell, fileManagerView, session, panel>>
  PROVE  FilesInv'
<1>1. CASE \E status \in {"authenticated", "unauthenticated"} :
             SessionAnswered(status) \/ LoginAnswered(status)
  <2>1. /\ activeView = "Overview" /\ UNCHANGED <<activeView, instance>>
        /\ UNCHANGED <<fileManagerView, panel>>
    BY <1>1 DEF SessionAnswered, LoginAnswered, FilesInv, ShellInv, LoginIsAlone
  <2>2. ShellInv'
    BY <1>1, <2>1
    DEF SessionAnswered, LoginAnswered, FilesInv, ShellInv, LoginIsAlone,
        session
  <2>3. \A c \in OneRequest \cup {"FileManagerView"} : ~Shown(c) /\ ~Shown(c)'
    BY <2>1 DEF Shown, Component, OneRequest
  <2>4. PanelInv'
    BY <2>1, <2>3
    DEF FilesInv, PanelInv, Mounted, Idle, panel, fileManagerView
  <2>5. Shown("FileManagerView")' = Shown("FileManagerView")
    BY <2>3 DEF Shown
  <2> QED
    BY <2>1, <2>2, <2>4, <2>5, QuietKeeps
<1>2. CASE \/ SubmitLogin \/ ClickLogout \/ LogoutLost
           \/ UNCHANGED <<shell, fileManagerView, session, panel>>
  <2>1. /\ UNCHANGED <<shell, fileManagerView, panel>>
        /\ isSubmitting' => isSubmitting \/ authStatus = "unauthenticated"
    BY <1>2 DEF SubmitLogin, ClickLogout, LogoutLost, session
  <2>2. ShellInv'
    BY <2>1 DEF FilesInv, ShellInv, LoginIsAlone, shell
  <2>3. PanelInv'
    BY <2>1, ScreenKept DEF FilesInv, PanelInv, Idle, panel, fileManagerView
  <2> QED
    BY <2>1, <2>2, <2>3, ScreenKept, QuietKeeps DEF shell
<1>3. CASE LogoutAnswered
  <2>1. /\ authStatus' = "unauthenticated" /\ activeView' = "Overview"
        /\ NothingMounted /\ isBusy' = FALSE
        /\ UNCHANGED <<instance, waiting, isSubmitting>>
    BY <1>3 DEF LogoutAnswered, LeaveShell
  <2>2. \A c : ~Shown(c)'
    BY <2>1 DEF Shown
  <2>3. ShellInv'
    BY <2>1 DEF FilesInv, ShellInv, LoginIsAlone, Component, ViewName
  <2>4. PanelInv'
    BY <2>1, <2>2 DEF FilesInv, PanelInv, NothingMounted, Mounted, Idle
  <2> QED
    BY <2>1, <2>2, <2>3, <2>4, NextIsIdle, LeavingKeeps DEF NothingMounted
<1> QED
  BY <1>1, <1>2, <1>3

\* Every step of the panel.
LEMMA FilesInvStep ==
  ASSUME FilesInv, [Next]_vars
  PROVE  FilesInv'
<1>1. MonitoringViewNext => UNCHANGED shell
  BY DEF MonitoringViewNext, StartStream, StopStream, SocketClosed
<1> QED
  BY <1>1, SwitchKeeps, SessionKeeps, PanelStepKeeps, FileManagerKeeps
  DEF Next, vars

\* The page starts with nothing mounted.
LEMMA FilesInvInit ==
  ASSUME Init
  PROVE  FilesInv
<1>1. FilesType
  BY FileManagerViewAssumption, MountedViewAssumption
  DEF Init, FileManagerViewInit, FilesType, FreshView, ViewRecord
<1>2. ShellInv
  BY MountedViewAssumption DEF Init, ShellInv, LoginIsAlone, Component, ViewName
<1>3. PanelInv
  <2>1. \A c : ~Shown(c)
    BY DEF Init, Shown
  <2>2. waiting \in [Instances -> 0..1] /\ isBusy \in BOOLEAN
    <3>1. waiting = [i \in Instances |-> 0] /\ isBusy = FALSE /\ 0 \in 0..1
      BY DEF Init
    <3> QED
      BY <3>1
  <2>3. \A i \in Instances : waiting[i] # 1
    BY DEF Init
  <2> QED
    BY <2>1, <2>2, <2>3 DEF PanelInv
<1> QED
  BY <1>1, <1>2, <1>3
  DEF Init, FileManagerViewInit, FilesInv, OneEach, ViewInv, ShownAgrees, Shown

\* For any constants, in every state of the panel.
LEMMA FilesInvAlways == Spec => []FilesInv
BY FilesInvInit, FilesInvStep, PTL DEF Spec

\* What is on the file manager's page is of one place, for any constants.
THEOREM ShownCorrect == Spec => []ShownAgrees
<1>1. FilesInv => ShownAgrees
  BY DEF FilesInv
<1> QED
  BY <1>1, FilesInvAlways, PTL

\* The server does a save, or the save fails there: what the instance saved
\* before is in the file, or in the editor of the page that shows the failure.
LEMMA SaveKeeps ==
  ASSUME FilesInv, NEW op \in operations, Serve(op) \/ Refused(op),
         Head(op.todo) = "write", op.instance # 0,
         savedBy[File(op)] = op.instance
  PROVE  \/ disk[File(op)] \subseteq disk'[File(op)]
         \/ /\ savedBy'[File(op)] = 0
            /\ Mounted("FileManagerView", op.instance)' =>
                 /\ view'.selectedFile = File(op)
                 /\ disk[File(op)] \subseteq view'.editorContent
<1>1. /\ op \in OperationRecord /\ OpInv(op) /\ op.state = "sent"
      /\ view \in ViewRecord
      /\ disk \in [Roots \X Paths -> SUBSET Edits]
      /\ savedBy \in [Roots \X Paths -> 0..MaxInstances]
  BY Records DEF Serve, Refused, FilesInv, FilesType
<1>2. File(op) \in Roots \X Paths /\ disk[File(op)] \subseteq op.text
  BY <1>1 DEF OpInv, Equipped, KeepsSaved, File
<1>3. CASE Serve(op)
  <2>1. disk' = [disk EXCEPT ![File(op)] = op.text]
    BY <1>3 DEF Serve, File
  <2> QED
    BY <1>1, <1>2, <2>1
<1>4. CASE UNCHANGED disk
  BY <1>4
<1>5. ASSUME NEW text, End(op, {}), Spoils(op, text)
      PROVE  /\ savedBy'[File(op)] = 0
             /\ Mounted("FileManagerView", op.instance)' =>
                  /\ view'.selectedFile = File(op)
                  /\ disk[File(op)] \subseteq view'.editorContent
  <2>1. savedBy' = [savedBy EXCEPT ![File(op)] = 0] /\ UNCHANGED shell
    BY <1>5 DEF Spoils, End, File
  <2>2. Mounted("FileManagerView", op.instance)' => Follows(op)
    BY <1>1, <2>1, ScreenKept DEF OpInv
  <2>3. /\ view'.selectedFile = view.selectedFile
        /\ view'.editorContent = view.editorContent
    BY <1>1, <1>5 DEF End, ViewRecord
  <2> QED
    BY <1>1, <1>2, <2>1, <2>2, <2>3 DEF Follows
<1> QED
  BY <1>3, <1>4, <1>5 DEF Refused

\* What a save wrote is not lost to a later one of its instance, for any
\* constants.
THEOREM SavesCorrect == Spec => OwnSavesKept
<1>1. ASSUME FilesInv, [Next]_vars, NEW op \in operations \ operations'
      PROVE  SaveKept(op)
  <2>1. CASE UNCHANGED disk
    BY <2>1 DEF SaveKept
  <2>2. CASE Serve(op) \/ Refused(op)
    BY <1>1, <2>2, SaveKeeps DEF SaveKept, File
  <2>3. CASE FileManagerViewNext
    <3>1. \/ UNCHANGED disk
          \/ \E o \in operations : Serve(o) \/ Refused(o)
      BY <2>3
      DEF FileManagerViewNext, Refresh, GoToParent, Save, ChangeAttributes,
          SelectRoot, OpenDirectory, OpenFile, Download, Upload, CreateArchive,
          ExtractArchive, Type, Begin, ConnectionLost, AnswerLost,
          RootsAnswered, ListAnswered, ReadAnswered, DownloadAnswered,
          ChangeAnswered
    <3>2. ASSUME NEW o \in operations, Serve(o) \/ Refused(o) PROVE o = op
      BY <1>1, <3>2 DEF Serve, Refused, End, Replace
    <3> QED
      BY <2>1, <2>2, <3>1, <3>2
  <2>4. CASE ~FileManagerViewNext
    <3>1. UNCHANGED disk
      BY <1>1, <2>4
      DEF Next, vars, fileManagerView, SwitchView, NothingMounted,
          SessionAnswered, LoginAnswered, SubmitLogin, ClickLogout,
          LogoutAnswered, LeaveShell, LogoutLost, LoadSnapshot,
          RunSystemAction, RunOperation, Ask, AskEnds
    <3> QED
      BY <2>1, <3>1
  <2> QED
    BY <2>3, <2>4
<1>2. FilesInv /\ [Next]_vars
        => [\A op \in operations \ operations' : SaveKept(op)]_vars
  BY <1>1
<1> QED
  BY <1>2, FilesInvAlways, PTL DEF Spec, OwnSavesKept

-----------------------------------------------------------------------------
\* The bounds and the counters of TypeOK.
Counters ==
  /\ socketRef \in PageSockets \cup {NoRef} /\ isStreaming \in BOOLEAN
  /\ socket \in [Sockets -> SocketRecord]
  /\ \A s \in Sockets : socket[s].snapshots \in 0..MaxSnapshots
  /\ isSubmitting \in BOOLEAN
  /\ logouts \in (0..MaxLogouts) \X (0..MaxLogouts)
  /\ logouts[2] <= logouts[1]

\* Every step keeps them.
LEMMA CountersStep ==
  ASSUME StreamInv, Counters, [Next]_vars, StreamInv'
  PROVE  Counters'
<1>1. ASSUME NEW s \in Sockets PROVE socket'[s].snapshots \in 0..MaxSnapshots
  <2>1. socket[s].snapshots \in 0..MaxSnapshots
    BY DEF Counters
  <2>2. socket \in [Sockets -> SocketRecord] /\ socket[s] \in SocketRecord
    BY DEF Counters
  <2>3. CASE MetricsStreamNext
    <3>1. PICK t \in Sockets :
            \/ ApiConnects(t) \/ ApiCloses(t) \/ Accept(t) \/ Refuse(t)
            \/ Tick(t) \/ SnapshotSent(t) \/ ServerCloses(t)
      BY <2>3 DEF MetricsStreamNext
    <3>2. CASE s # t
      <4>1. socket'[s] = socket[s]
        BY <2>2, <3>1, <3>2
        DEF ApiConnects, ApiCloses, Accept, Refuse, Tick, SnapshotSent,
            ServerCloses
      <4> QED
        BY <2>1, <4>1
    <3>3. CASE s = t
      <4>1. CASE ApiConnects(s) \/ ApiCloses(s) \/ Refuse(s) \/ ServerCloses(s)
        <5>1. CASE ApiConnects(s)
          BY <2>1, <2>2, <5>1 DEF ApiConnects, Connecting, SocketRecord
        <5>2. CASE ApiCloses(s)
          BY <2>1, <2>2, <5>2 DEF ApiCloses, SocketRecord
        <5>3. CASE Refuse(s)
          BY <2>1, <2>2, <5>3 DEF Refuse, SocketRecord
        <5>4. CASE ServerCloses(s)
          BY <2>1, <2>2, <5>4 DEF ServerCloses, SocketRecord
        <5> QED
          BY <4>1, <5>1, <5>2, <5>3, <5>4
      <4>2. CASE Accept(s)
        <5>1. socket'[s].snapshots = 1
          BY <2>2, <4>2 DEF Accept, SocketRecord
        <5> QED
          BY <5>1, MetricsStreamAssumption
      <4>3. CASE Tick(s)
        <5>1. socket'[s].snapshots = socket[s].snapshots + 1
                /\ socket[s].snapshots < MaxSnapshots
          BY <2>2, <4>3 DEF Tick, SocketRecord
        <5> QED
          BY <2>1, <5>1, MetricsStreamAssumption
      <4>4. CASE SnapshotSent(s)
        <5>1. socket'[s].snapshots = socket[s].snapshots - 1
                /\ socket[s].snapshots > 0
          BY <2>2, <4>4 DEF SnapshotSent, SocketRecord
        <5> QED
          BY <2>1, <5>1, MetricsStreamAssumption
      <4> QED
        BY <3>1, <3>3, <4>1, <4>2, <4>3, <4>4
    <3> QED
      BY <3>2, <3>3
  <2>4. CASE socket' = CloseCurrent
    BY <2>1, <2>4 DEF CloseCurrent, Closing, StreamInv, StreamType, SocketRecord
  <2>5. CASE MonitoringViewNext
    <3>1. CASE StopStream
      BY <2>4, <3>1 DEF StopStream
    <3>2. ASSUME NEW t \in Sockets, StartStream(t)
          PROVE  socket'[s].snapshots \in 0..MaxSnapshots
      <4>1. CloseCurrent \in [Sockets -> SocketRecord]
              /\ CloseCurrent[s].snapshots = socket[s].snapshots
        BY <2>2 DEF CloseCurrent, Closing, Counters, SocketRecord
      <4>2. socket' = [CloseCurrent EXCEPT ![t] = Connecting(@, instance)]
        BY <3>2 DEF StartStream
      <4>3. socket'[s].snapshots = CloseCurrent[s].snapshots
        BY <4>1, <4>2 DEF Connecting, SocketRecord
      <4> QED
        BY <2>1, <4>1, <4>3
    <3>3. ASSUME NEW t \in Sockets, SocketClosed(t)
          PROVE  socket'[s].snapshots \in 0..MaxSnapshots
      <4>1. socket' = [socket EXCEPT ![t].client = "closed"]
        BY <3>3 DEF SocketClosed
      <4>2. socket'[s].snapshots = socket[s].snapshots
        BY <2>2, <4>1 DEF SocketRecord
      <4> QED
        BY <2>1, <4>2
    <3> QED
      BY <2>5, <3>1, <3>2, <3>3 DEF MonitoringViewNext
  <2>6. CASE UNCHANGED socket
    BY <2>1, <2>6
  <2> QED
    BY <2>3, <2>4, <2>5, <2>6
    DEF Next, vars, SwitchView, LeaveMonitoring, SessionAnswered, LoginAnswered,
        SubmitLogin, ClickLogout, LogoutAnswered, LeaveShell, LogoutLost,
        LoadSnapshot, RunSystemAction, RunOperation, Ask, AskEnds
<1>2. socketRef' \in PageSockets \cup {NoRef}
  BY DEF Counters, Next, vars, monitoringView, MonitoringViewNext, StartStream,
         StopStream, SocketClosed, SwitchView, LeaveMonitoring, SessionAnswered,
         LoginAnswered, SubmitLogin, ClickLogout, LogoutAnswered, LeaveShell,
         LogoutLost, LoadSnapshot, RunSystemAction, RunOperation, Ask, AskEnds
<1>3. /\ isSubmitting' \in BOOLEAN
      /\ logouts' \in (0..MaxLogouts) \X (0..MaxLogouts)
      /\ logouts'[2] <= logouts'[1]
  <2>1. PICK m, n \in 0..MaxLogouts : logouts = <<m, n>> /\ n <= m
    BY DEF Counters
  <2>2. ASSUME NEW i \in 0..MaxLogouts, NEW j \in 0..MaxLogouts,
               logouts' = <<i, j>>, j <= i
        PROVE  /\ logouts' \in (0..MaxLogouts) \X (0..MaxLogouts)
               /\ logouts'[2] <= logouts'[1]
    BY <2>2
  <2>3. CASE ClickLogout
    BY <2>1, <2>2, <2>3, DashboardAssumption DEF Counters, ClickLogout
  <2>4. CASE LogoutAnswered \/ LogoutLost
    <3>1. n > 0 /\ logouts' = <<m, n - 1>> /\ UNCHANGED isSubmitting
      BY <2>1, <2>4 DEF LogoutAnswered, LogoutLost
    <3> QED
      BY <2>1, <2>2, <3>1, DashboardAssumption DEF Counters
  <2>5. CASE isSubmitting' \in BOOLEAN /\ UNCHANGED logouts
    BY <2>5 DEF Counters
  <2>6. \/ isSubmitting' \in BOOLEAN /\ UNCHANGED logouts
        \/ ClickLogout \/ LogoutAnswered \/ LogoutLost
    BY DEF Counters, Next, vars, session, SwitchView, SessionAnswered,
           LoginAnswered, SubmitLogin, LoadSnapshot, RunSystemAction,
           RunOperation, Ask, AskEnds
  <2> QED
    BY <2>3, <2>4, <2>5, <2>6
<1> QED
  BY <1>1, <1>2, <1>3 DEF Counters, StreamInv, StreamType

\* What is under way for an instance, counted.
LEMMA UnderWayCounts ==
  ASSUME FilesInv, NEW i \in Instances
  PROVE  /\ Idle(i) => UnderWay(i) = waiting[i]
         /\ ~Idle(i) => UnderWay(i) = 1 /\ waiting[i] = 0
<1> DEFINE mine == {op \in operations : op.instance = i}
<1>1. waiting[i] \in {0, 1} /\ (waiting[i] = 1 => Idle(i))
  BY DEF FilesInv, PanelInv
<1>2. CASE Idle(i)
  <2>1. mine = {}
    BY <1>2 DEF Idle
  <2> QED
    BY <1>1, <1>2, <2>1, FS_EmptySet DEF UnderWay
<1>3. CASE ~Idle(i)
  <2>1. PICK op \in operations : op.instance = i
    BY <1>3 DEF Idle
  <2>2. i # 0
    BY DEF Instances
  <2>3. mine = {op}
    BY <2>1, <2>2 DEF FilesInv, OneEach
  <2> QED
    BY <1>1, <1>3, <2>3, FS_Singleton DEF UnderWay
<1> QED
  BY <1>2, <1>3

\* One operation at a time, shown by the busy flag, for any constants.
THEOREM OperationsCorrect == Spec => []OneOperationPerInstance
<1>1. ASSUME Init PROVE Counters
  <2>1. \A s \in Sockets : socket[s].snapshots = 0
    BY <1>1 DEF Init, MetricsStreamInit, NoSocket
  <2>2. socket \in [Sockets -> SocketRecord]
    BY <1>1, StreamInvInit DEF StreamInv, StreamType
  <2>3. \A s \in Sockets : socket[s].snapshots \in 0..MaxSnapshots
    BY <2>1, MetricsStreamAssumption
  <2>4. /\ logouts = <<0, 0>> /\ logouts[1] = 0 /\ logouts[2] = 0
        /\ 0 \in 0..MaxLogouts /\ isSubmitting = FALSE
    BY <1>1, DashboardAssumption DEF Init
  <2>5. socketRef = NoRef /\ isStreaming = FALSE
    BY <1>1 DEF Init, MonitoringViewInit
  <2>6. logouts \in (0..MaxLogouts) \X (0..MaxLogouts) /\ logouts[2] <= logouts[1]
    BY <2>4
  <2> QED
    BY <2>2, <2>3, <2>4, <2>5, <2>6 DEF Counters
<1>2. ASSUME FilesInv, Counters PROVE OneOperationPerInstance
  <2>1. TypeOK
    BY <1>2 DEF FilesInv, FilesType, ShellInv, PanelInv, Counters, TypeOK
  <2>2. ASSUME NEW i \in Instances
        PROVE  /\ UnderWay(i) <= 1
               /\ Mounted("FileManagerView", i) =>
                    (view.isBusy <=> UnderWay(i) = 1)
               /\ \A c \in OneRequest :
                    Mounted(c, i) => (isBusy <=> UnderWay(i) = 1)
    <3>1. /\ Idle(i) => UnderWay(i) = waiting[i]
          /\ ~Idle(i) => UnderWay(i) = 1 /\ waiting[i] = 0
          /\ waiting[i] \in {0, 1}
      BY <1>2, UnderWayCounts DEF FilesInv, PanelInv
    <3>2. ASSUME Mounted("FileManagerView", i)
          PROVE  waiting[i] = 0 /\ (view.isBusy <=> ~Idle(i))
      BY <1>2, <3>1, <3>2, FilesOnScreen, EnabledIsIdle
      DEF Mounted, FilesInv, ViewInv
    <3>3. ASSUME NEW c \in OneRequest, Mounted(c, i)
          PROVE  (isBusy <=> waiting[i] = 1) /\ Idle(i)
      BY <1>2, <3>3 DEF Mounted, FilesInv, PanelInv
    <3> QED
      BY <3>1, <3>2, <3>3
  <2> QED
    BY <2>1, <2>2 DEF OneOperationPerInstance
<1>3. Spec => [](StreamInv /\ Counters)
  BY <1>1, StreamInvInit, StreamInvStep, CountersStep, PTL DEF Spec
<1> QED
  BY <1>2, <1>3, FilesInvAlways, PTL
=============================================================================
