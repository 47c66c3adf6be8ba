----------------------------- MODULE MonitoringView ----------------------------
(***************************************************************************)
(* The stream controls of the monitoring page, MonitoringView of           *)
(* frontend/src/App.tsx.  What arrives on a socket is only displayed, and  *)
(* is left out: the route the page asks for is never found (Url).          *)
(***************************************************************************)
EXTENDS MountedView, MetricsStream

CONSTANT NoRef

ASSUME MonitoringViewAssumption == NoRef \notin PageSockets

VARIABLES
  socketRef,   \* the ref of the mounted instance: a socket, or NoRef
  isStreaming  \* whether its button says "Stop stream"

monitoringView == <<socketRef, isStreaming>>

\* socketRef.current?.close()
CloseCurrent ==
  [s \in Sockets |-> IF s = socketRef THEN Closing(socket[s]) ELSE socket[s]]

\* Mutant: the current socket is not closed.
StartStreamBeside(s) ==
  /\ Shown("MonitoringView") /\ ~isStreaming
  /\ s \in PageSockets /\ socket[s].client = "unused"
  /\ socket' = [socket EXCEPT ![s] = Connecting(@, instance)]
  /\ socketRef' = s /\ isStreaming' = TRUE
  /\ UNCHANGED shell

StartStream(s) ==
  /\ Shown("MonitoringView") /\ ~isStreaming
  /\ s \in PageSockets /\ socket[s].client = "unused"
  /\ socket' = [CloseCurrent EXCEPT ![s] = Connecting(@, instance)]
  /\ socketRef' = s /\ isStreaming' = TRUE
  /\ UNCHANGED shell

StopStream ==
  /\ Shown("MonitoringView") /\ isStreaming
  /\ socket' = CloseCurrent
  /\ socketRef' = NoRef /\ isStreaming' = FALSE
  /\ UNCHANGED shell

\* The error and close events of a socket: refused by the server, or closed
\* by the page.  The handlers of an instance that is gone set nothing.
SocketClosed(s) ==
  /\ s \in PageSockets /\ socket[s].client \in {"connecting", "closing"}
  /\ socket' = [socket EXCEPT ![s].client = "closed"]
  /\ IF Mounted("MonitoringView", socket[s].owner)
       THEN /\ isStreaming' = FALSE
            /\ socketRef' = IF socketRef = s THEN NoRef ELSE socketRef
       ELSE UNCHANGED monitoringView
  /\ UNCHANGED shell

-----------------------------------------------------------------------------
MonitoringViewInit == socketRef = NoRef /\ isStreaming = FALSE

\* The cleanup of the effect; a new instance starts with fresh state.
LeaveMonitoring ==
  socket' = CloseCurrent /\ socketRef' = NoRef /\ isStreaming' = FALSE

MonitoringViewNext ==
  StopStream \/ \E s \in Sockets : StartStream(s) \/ SocketClosed(s)

\* A socket of the page that is not closing belongs to the monitoring view on
\* screen and is the one its button stops: none streams on behind another
\* view, after a logout, or beside a newer one; and no timer of the server
\* outlives its socket.
StreamsFollowTheView ==
  /\ \A s \in PageSockets : socket[s].client \in {"connecting", "open"} =>
       Shown("MonitoringView") /\ socketRef = s
  /\ isStreaming => socketRef # NoRef
  /\ TimersFollowSockets
================================================================================
