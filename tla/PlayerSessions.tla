--------------------------- MODULE PlayerSessions ---------------------------
(***************************************************************************)
(* Player views over the shared StreamSessionManager                       *)
(* (RingAppleTV/Sources/ViewModels/PlayerViewModel.swift and               *)
(* Views/Player/PlayerView.swift).  Every view has a view model of its     *)
(* own; ServiceContainer gives all of them the same manager.  A view       *)
(* requests a stream when it appears and when the user retries, and when   *)
(* it disappears it starts, without waiting for it, a task that calls      *)
(* stopStream.  This module composes those steps with the steps of the     *)
(* manager; the stopStream call of a view is named by the view.            *)
(***************************************************************************)
EXTENDS StreamSessionManager

VARIABLES
  view,     \* each view: "new", "shown" or "gone"
  vm,       \* state of each PlayerViewModel
  request   \* the startStream call each view model awaits

playerVars == <<view, vm, request>>
allVars == <<vars, view, vm, request>>

Views == Stops

PlayerTypeOK ==
  /\ TypeOK
  /\ view \in [Views -> {"new", "shown", "gone"}]
  /\ vm \in [Views -> {"idle", "loading", "loaded", "error"}]
  /\ request \in [Views -> Starts \cup {None}]

PlayerInit ==
  /\ Init
  /\ view = [v \in Views |-> "new"]
  /\ vm = [v \in Views |-> "idle"]
  /\ request = [v \in Views |-> None]

-----------------------------------------------------------------------------
\* Calls and views are interchangeable before they are used: take them in order.
NextOf(S) == CHOOSE x \in S : TRUE
NextStart == NextOf({s \in Starts : start[s] = "idle"})
NextView == NextOf({v \in Views : view[v] = "new"})

\* requestStream: state is .loading and startStream is entered.
requestStream(v) ==
  /\ \E s \in Starts : start[s] = "idle"
  /\ vm' = [vm EXCEPT ![v] = "loading"]
  /\ request' = [request EXCEPT ![v] = NextStart]
  /\ StartGuard(NextStart)

\* A view appears (one at a time) and requests the stream of its device.
Appear(v) ==
  /\ view[v] = "new" /\ v = NextView
  /\ \A w \in Views : view[w] # "shown"
  /\ view' = [view EXCEPT ![v] = "shown"]
  /\ requestStream(v)

\* The buttons of the error overlay, and of the failed and the ended stream.
Retry(v) ==
  /\ view[v] = "shown"
  /\ \/ vm[v] = "error"
     \/ vm[v] = "loaded" /\ state \in {"failed", "disconnected"}
  /\ requestStream(v)
  /\ UNCHANGED view

ResumeOnlyStarted(v) ==
  /\ vm[v] = "loading"
  /\ \/ /\ start[request[v]] = "started"
        /\ vm' = [vm EXCEPT ![v] = "loaded"]
     \/ /\ start[request[v]] = "error" /\ task[<<"catch", request[v]>>] = "idle"
        /\ vm' = [vm EXCEPT ![v] = "error"]
  /\ request' = [request EXCEPT ![v] = None]
  /\ UNCHANGED <<vars, view>>

\* startStream returns, also when it did nothing because the manager was busy,
\* or throws after its cleanup.
Resume(v) ==
  /\ vm[v] = "loading"
  /\ \/ /\ start[request[v]] \in {"started", "ignored"}
        /\ vm' = [vm EXCEPT ![v] = "loaded"]
     \/ /\ start[request[v]] = "error" /\ task[<<"catch", request[v]>>] = "idle"
        /\ vm' = [vm EXCEPT ![v] = "error"]
  /\ request' = [request EXCEPT ![v] = None]
  /\ UNCHANGED <<vars, view>>

\* onDisappear: a task is created for stopStream; requestStream goes on.
Disappear(v) ==
  /\ view[v] = "shown"
  /\ view' = [view EXCEPT ![v] = "gone"]
  /\ UNCHANGED <<vars, vm, request>>

\* The task runs, maybe only after another view has appeared.
StopTask(v) ==
  /\ view[v] = "gone"
  /\ UserStop(v)
  /\ UNCHANGED playerVars

ManagerStep == Inside /\ UNCHANGED playerVars

PlayerNext ==
  \/ \E v \in Views : Appear(v) \/ Retry(v) \/ Resume(v) \/ Disappear(v) \/ StopTask(v)
  \/ ManagerStep

PlayerSpec == PlayerInit /\ [][PlayerNext]_allVars

(***************************************************************************)
(* What StreamSessionManager assumes, and the main actor runs what is      *)
(* ready.  Nothing makes the user appear, retry or leave.                  *)
(***************************************************************************)
PlayerFairness ==
  /\ \A v \in Views : WF_allVars(Resume(v)) /\ WF_allVars(StopTask(v))
  /\ \A s \in Starts :
       /\ WF_allVars(Start(s) /\ UNCHANGED playerVars)
       /\ WF_allVars(TimerFires(s) /\ UNCHANGED playerVars)
       /\ WF_allVars(TimeoutFires(s) /\ UNCHANGED playerVars)
  /\ \A t \in Tasks : WF_allVars(Teardown(t) /\ UNCHANGED playerVars)
  /\ \A w \in Threads \X States : WF_allVars(Store(w) /\ UNCHANGED playerVars)

PlayerFairSpec == PlayerSpec /\ PlayerFairness

-----------------------------------------------------------------------------
AllGone == \A v \in Views : view[v] # "shown"

(***************************************************************************)
(* What the views have started is released some time after the last of     *)
(* them has gone, also when a stop ran before the start it was meant for   *)
(* had come far enough to be stopped, and when a retry or a start that     *)
(* was ignored came in between.                                            *)
(***************************************************************************)
LeavingReleases ==
  AllGone ~> \/ ~ AllGone
             \/ peer = None /\ url = None

(***************************************************************************)
(* No view shows its spinner for ever, whoever stops whose stream.         *)
(***************************************************************************)
SpinnerEnds == \A v \in Views : vm[v] = "loading" ~> vm[v] # "loading"

(***************************************************************************)
(* FR-5.2: "Disconnect and release all resources within 5 seconds when     *)
(* user navigates away": after the last view has gone the manager comes    *)
(* back to .disconnected, the only state in which it starts a stream.      *)
(***************************************************************************)
LeavingDisconnects == AllGone ~> (~ AllGone \/ state = "disconnected")
=============================================================================
