------------------------------ MODULE MountedView ------------------------------
(***************************************************************************)
(* Which view of the panel is on screen, App and DashboardShell of         *)
(* frontend/src/App.tsx.  React mounts a new instance of a view's          *)
(* component when the component at that place changes, and keeps the       *)
(* instance while it does not.  What an instance left behind still asks    *)
(* for goes on, but its setters do nothing any more.                       *)
(***************************************************************************)
EXTENDS Naturals

CONSTANT MaxInstances  \* bound on the instances ever mounted

ASSUME MountedViewAssumption == MaxInstances \in Nat \ {0}

VARIABLES
  authStatus,  \* what App believes of the session
  activeView,  \* the view DashboardShell shows
  instance     \* the number of the instance mounted last

shell == <<authStatus, activeView, instance>>

\* The component that draws each view; three views share one.  "Accounts" is
\* drawn as "Overview" is.
Component ==
  [Overview |-> "OverviewContent", Files |-> "FileManagerView",
   Monitoring |-> "MonitoringView", Settings |-> "SystemSetupView",
   Websites |-> "OperationsView", Databases |-> "OperationsView",
   Security |-> "OperationsView"]

ViewName == DOMAIN Component
Instances == 1..MaxInstances

Shown(component) ==
  authStatus = "authenticated" /\ Component[activeView] = component

\* Whether instance i of a component is still the one on screen.
Mounted(component, i) == Shown(component) /\ instance = i
================================================================================
