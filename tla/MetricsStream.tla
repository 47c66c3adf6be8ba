----------------------------- MODULE MetricsStream -----------------------------
(***************************************************************************)
(* The stream of system metrics,                                           *)
(* backend/src/modules/monitoring/http/monitoring.routes.ts: sockets, the  *)
(* timer the server keeps for each, and the snapshots it takes for them.   *)
(* Sockets are opened by the panel's page and by other clients of the API. *)
(***************************************************************************)
EXTENDS Naturals

CONSTANTS
  PageSockets,  \* sockets the page may open, one after another
  ApiSockets,   \* sockets of other clients
  MaxSnapshots  \* bound on the snapshots taken for a socket at once

ASSUME MetricsStreamAssumption ==
  PageSockets \cap ApiSockets = {} /\ MaxSnapshots \in Nat \ {0}

VARIABLE socket  \* each socket, as its client and as the server see it

Sockets == PageSockets \cup ApiSockets

NoSocket == [client |-> "unused", server |-> "none", timer |-> FALSE,
             snapshots |-> 0, owner |-> 0]

\* toWebSocketUrl assigns the whole of "stream?intervalMs=3000" to the path
\* of a URL, which escapes the question mark: it is no query any more.
Url(s) == [path  |-> IF s \in PageSockets THEN "stream%3FintervalMs=3000"
                                          ELSE "stream",
           query |-> IF s \in PageSockets THEN "" ELSE "intervalMs=3000"]

Found(s) == Url(s).path = "stream"

-----------------------------------------------------------------------------
\* What a client does to the record of its socket.

Connecting(r, i) == [r EXCEPT !.client = "connecting", !.owner = i]

Closing(r) ==
  IF r.client \in {"connecting", "open"} THEN [r EXCEPT !.client = "closing"]
                                         ELSE r

ApiConnects(s) ==
  /\ s \in ApiSockets /\ socket[s].client = "unused"
  /\ socket' = [socket EXCEPT ![s] = Connecting(@, 0)]

ApiCloses(s) ==
  /\ s \in ApiSockets /\ socket[s].client \in {"connecting", "open"}
  /\ socket' = [socket EXCEPT
       ![s].client = IF @ = "open" THEN "closing" ELSE "closed"]

-----------------------------------------------------------------------------
\* The server.

\* The handler runs once the route is found and the guard admits the caller:
\* it starts the timer and the first snapshot.
Accept(s) ==
  /\ Found(s) /\ socket[s].client = "connecting"
  /\ socket' = [socket EXCEPT ![s].client = "open", ![s].server = "open",
                              ![s].timer = TRUE, ![s].snapshots = 1]

\* The timer does not wait for the snapshot it started last.
Tick(s) ==
  /\ socket[s].timer /\ socket[s].server = "open"
  /\ socket[s].snapshots < MaxSnapshots
  /\ socket' = [socket EXCEPT ![s].snapshots = @ + 1]

\* A snapshot, or the failure to take one, is sent; a socket that is not open
\* any more drops it.
SnapshotSent(s) ==
  /\ socket[s].snapshots > 0
  /\ socket' = [socket EXCEPT ![s].snapshots = @ - 1]

\* The server learns that the client closed, or that the connection is dead.
ServerCloses(s) ==
  /\ socket[s].server = "open"
  /\ socket' = [socket EXCEPT ![s].server = "closed", ![s].timer = FALSE,
                              ![s].client = "closed"]

\* The route is not found, or the guard refuses; the page's own handlers of
\* this are in MonitoringView.
Refuse(s) ==
  /\ s \in ApiSockets /\ socket[s].client = "connecting"
  /\ socket' = [socket EXCEPT ![s].client = "closed"]

-----------------------------------------------------------------------------
MetricsStreamInit == socket = [s \in Sockets |-> NoSocket]

MetricsStreamNext ==
  \E s \in Sockets :
    \/ ApiConnects(s) \/ ApiCloses(s) \/ Accept(s) \/ Refuse(s)
    \/ Tick(s) \/ SnapshotSent(s) \/ ServerCloses(s)

\* A timer runs for a socket exactly while the server holds it open: none is
\* left behind by a socket that went away.
TimersFollowSockets ==
  \A s \in Sockets : socket[s].timer <=> socket[s].server = "open"
================================================================================
