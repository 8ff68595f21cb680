------------------------------ MODULE Dashboard ------------------------------
(***************************************************************************)
(* The device dashboard of the tvOS app: DashboardViewModel over           *)
(* DefaultDeviceService and DefaultCacheService, and the device-list part  *)
(* of the system's background refresh                                      *)
(* (RingAppleTV/Sources/ViewModels/DashboardViewModel.swift,               *)
(* Views/Dashboard/DashboardView.swift, Services/Implementations/          *)
(* DefaultDeviceService.swift, App/BackgroundRefreshManager.swift).        *)
(*                                                                         *)
(* The one view model is confined to the main actor; its tasks interleave  *)
(* where they await.  A device list is named by the version of what Ring   *)
(* has; of the pictures only the time it takes to load them matters here.  *)
(***************************************************************************)
EXTENDS Integers, FiniteSets

CONSTANTS
  Loads,        \* loadDevices tasks
  Refreshes,    \* refresh tasks: the toolbar button and the error view's
  Background,   \* runs of the system's background refresh task
  MaxInFlight,  \* bound: a refresh comes with fewer tasks under way than that
  MaxVersion,   \* bound: changes of what Ring has
  Visible,      \* for each filter, the lists that have a device to show
  None

Versions == 0..MaxVersion
Filters == DOMAIN Visible
Loop(l) == <<"loop", l>>
Loops == {Loop(l) : l \in Loads}
Tasks == Loads \cup Refreshes \cup Loops \cup Background

ASSUME BoundAssumption ==
  {MaxInFlight, MaxVersion} \subseteq Nat /\ None \notin Versions /\ None \notin Loops
ASSUME TasksAssumption ==
  /\ Loads \cap Loops = {} /\ Refreshes \cap Loops = {} /\ Background \cap Loops = {}
  /\ Loads \cap Refreshes = {} /\ (Loads \cup Refreshes) \cap Background = {}
ASSUME FilterAssumption == Visible \in [Filters -> SUBSET Versions] /\ "all" \in Filters

VARIABLES
  shown,        \* is the view on the screen (the user can be on another tab)
  state,        \* DashboardViewModel.state
  filter,       \* currentFilter
  allDevices,   \* the list of the view model
  refreshTask,
  cancelled,    \* loops that have been cancelled
  pc,           \* where each task is
  got,          \* what each task was answered
  cache,        \* the file "ring_devices", None from its expiresAt on
  ring          \* external: what Ring has

screen == <<state, filter, allDevices>>
loop == <<refreshTask, cancelled>>
vars == <<shown, screen, loop, pc, got, cache, ring>>

Labels == {"none", "queued", "cache", "fetch", "save", "reply", "snapshots",
           "sleep", "done"}

TypeOK ==
  /\ shown \in BOOLEAN
  /\ state \in {"idle", "loading", "loaded", "empty", "error"}
  /\ filter \in Filters
  /\ allDevices \in Versions \cup {None}
  /\ refreshTask \in Loops \cup {None}
  /\ cancelled \subseteq Loops
  /\ pc \in [Tasks -> Labels]
  /\ got \in [Tasks -> Versions \cup {None}]
  /\ cache \in Versions \cup {None}
  /\ ring \in Versions

\* A freshly started app has a view model in its initial state and no task.
Init ==
  /\ shown = FALSE
  /\ state = "idle" /\ filter = "all" /\ allDevices = None
  /\ refreshTask = None /\ cancelled = {}
  /\ pc = [t \in Tasks |-> "none"]
  /\ got = [t \in Tasks |-> None]
  /\ cache = None /\ ring = 0

-----------------------------------------------------------------------------
Goto(t, l) == pc' = [pc EXCEPT ![t] = l]

Ended(t) == pc[t] \in {"none", "done"}

\* Room for one more of the tasks that the user and the system start at will.
Room == Cardinality({t \in Tasks : ~ Ended(t)}) < MaxInFlight

\* applyFilterAndSort; allDevices is empty before the first list.
Show(list, f) == IF list \in Visible[f] THEN "loaded" ELSE "empty"

(***************************************************************************)
(* The view                                                                *)
(***************************************************************************)
\* Loads are interchangeable before they are used: take them in order.
NextLoad == CHOOSE l \in Loads : pc[l] = "none"

\* The view appears; while the state is .idle that creates a loadDevices task,
\* again if the view comes back before the first one has run.
Appear ==
  /\ ~ shown
  /\ shown' = TRUE
  /\ IF state = "idle"
     THEN (\E l \in Loads : pc[l] = "none") /\ Goto(NextLoad, "queued")
     ELSE UNCHANGED pc
  /\ UNCHANGED <<screen, loop, got, cache, ring>>

StopForgets ==
  /\ refreshTask' = None
  /\ UNCHANGED cancelled

\* stopBackgroundRefresh
Stop ==
  /\ refreshTask' = None
  /\ cancelled' = cancelled \cup ({refreshTask} \ {None})

\* onDisappear
Disappear ==
  /\ shown
  /\ shown' = FALSE
  /\ Stop
  /\ UNCHANGED <<screen, pc, got, cache, ring>>

\* applyFilter and applySort (no view offers them).
ApplyFilter(f) ==
  /\ shown /\ state # "idle"
  /\ filter' = f
  /\ state' = Show(allDevices, f)
  /\ UNCHANGED <<shown, allDevices, loop, pc, got, cache, ring>>

\* The refresh button, also while another task is loading: refresh.
Refresh(r) ==
  /\ r \in Refreshes
  /\ shown
  /\ pc[r] = "none" /\ Room
  /\ state' = "loading"
  /\ Goto(r, "fetch")
  /\ UNCHANGED <<shown, filter, allDevices, loop, got, cache, ring>>

\* A queued loadDevices runs up to fetchDevices.
LoadDevices(l) ==
  /\ l \in Loads
  /\ pc[l] = "queued"
  /\ state' = "loading"
  /\ Goto(l, "cache")
  /\ UNCHANGED <<shown, filter, allDevices, loop, got, cache, ring>>

\* handleBackgroundRefresh, also when the app is in use.
HandleBackgroundRefresh(b) ==
  /\ b \in Background
  /\ pc[b] = "none" /\ Room
  /\ Goto(b, "cache")
  /\ UNCHANGED <<shown, screen, loop, got, cache, ring>>

-----------------------------------------------------------------------------
(***************************************************************************)
(* DefaultDeviceService                                                    *)
(***************************************************************************)
\* fetchDevices: the cached list ...
CacheHit(t) ==
  /\ pc[t] = "cache"
  /\ cache # None
  /\ got' = [got EXCEPT ![t] = cache]
  /\ Goto(t, "reply")
  /\ UNCHANGED <<shown, screen, loop, cache, ring>>

\* ... or, without one that can be read and has not expired, fetchFromAPI.
CacheMiss(t) ==
  /\ pc[t] = "cache"
  /\ Goto(t, "fetch")
  /\ UNCHANGED <<shown, screen, loop, got, cache, ring>>

\* External: Ring answers through the backend.
RingAnswers(t) ==
  /\ pc[t] = "fetch" /\ t \notin cancelled
  /\ got' = [got EXCEPT ![t] = ring]
  /\ Goto(t, "save")
  /\ UNCHANGED <<shown, screen, loop, cache, ring>>

\* The list is saved with a new expiry, unless that fails (try?).
Save(t) ==
  /\ pc[t] = "save"
  /\ cache' \in {got[t], cache}
  /\ Goto(t, "reply")
  /\ UNCHANGED <<shown, screen, loop, got, ring>>

\* The end of a pass of the loop: while !Task.isCancelled.
Again(b) == IF b \in cancelled THEN "done" ELSE "sleep"

\* Another refresh can follow one that is over.
Over(t) == IF t \in Refreshes \cup Background THEN "none" ELSE "done"

FailSilently(t) ==
  /\ pc[t] = "fetch"
  /\ UNCHANGED state
  /\ Goto(t, IF t \in Loops THEN Again(t) ELSE Over(t))
  /\ got' = [got EXCEPT ![t] = None]
  /\ UNCHANGED <<shown, filter, allDevices, loop, cache, ring>>

\* No token, no connection, a bad answer, or the task was cancelled: an error
\* for the user's own tasks, nothing for the loop and the background task.
Fail(t) ==
  /\ pc[t] = "fetch"
  /\ state' = IF t \in Loads \cup Refreshes THEN "error" ELSE state
  /\ Goto(t, IF t \in Loops THEN Again(t) ELSE Over(t))
  /\ got' = [got EXCEPT ![t] = None]
  /\ UNCHANGED <<shown, filter, allDevices, loop, cache, ring>>

-----------------------------------------------------------------------------
DeliverOnce(t) ==
  /\ pc[t] = "reply" /\ t \notin Background
  /\ allDevices' = IF t \in Loops /\ allDevices # None THEN allDevices ELSE got[t]
  /\ state' = Show(allDevices', filter)
  /\ Goto(t, IF t \in Refreshes THEN Over(t) ELSE "snapshots")
  /\ got' = [got EXCEPT ![t] = None]
  /\ UNCHANGED <<shown, filter, loop, cache, ring>>

\* The list reaches the view model; refresh ends here, the others go on to
\* loadSnapshots.
Deliver(t) ==
  /\ pc[t] = "reply" /\ t \notin Background
  /\ allDevices' = got[t]
  /\ state' = Show(got[t], filter)
  /\ Goto(t, IF t \in Refreshes THEN Over(t) ELSE "snapshots")
  /\ got' = [got EXCEPT ![t] = None]
  /\ UNCHANGED <<shown, filter, loop, cache, ring>>

\* The background task downloads the pictures too, keeps none of them, and
\* reports completion.
CompleteBackground(b) ==
  /\ b \in Background
  /\ pc[b] = "reply"
  /\ Goto(b, Over(b))
  /\ got' = [got EXCEPT ![b] = None]
  /\ UNCHANGED <<shown, screen, loop, cache, ring>>

\* loadSnapshots: every download ends, with a picture or without.
TakePictures(t) ==
  /\ pc[t] = "snapshots"
  /\ UNCHANGED <<shown, screen, got, cache, ring>>

StartBesidesTheOther(l) ==
  /\ l \in Loads
  /\ TakePictures(l)
  /\ refreshTask' = Loop(l)
  /\ pc' = [pc EXCEPT ![l] = "done", ![Loop(l)] = "sleep"]
  /\ UNCHANGED cancelled

\* loadDevices ends with startBackgroundRefresh, wherever the user is by now:
\* the loop of an earlier load is cancelled.
StartBackgroundRefresh(l) ==
  /\ l \in Loads
  /\ TakePictures(l)
  /\ cancelled' = cancelled \cup ({refreshTask} \ {None})
  /\ refreshTask' = Loop(l)
  /\ pc' = [pc EXCEPT ![l] = "done", ![Loop(l)] = "sleep"]

EndPass(b) ==
  /\ b \in Loops
  /\ TakePictures(b)
  /\ Goto(b, Again(b))
  /\ UNCHANGED loop

\* The sleep of the loop ends, after refreshInterval or because of a cancel.
Wake(b) ==
  /\ b \in Loops
  /\ pc[b] = "sleep"
  /\ Goto(b, IF b \in cancelled THEN "done" ELSE "fetch")
  /\ UNCHANGED <<shown, screen, loop, got, cache, ring>>

-----------------------------------------------------------------------------
\* The app is terminated and started again: only the cache file survives.
Relaunch ==
  /\ shown
  /\ shown' = FALSE
  /\ state' = "idle" /\ filter' = "all" /\ allDevices' = None
  /\ refreshTask' = None /\ cancelled' = {}
  /\ pc' = [t \in Tasks |-> "none"]
  /\ got' = [t \in Tasks |-> None]
  /\ UNCHANGED <<cache, ring>>

\* The cached list reaches its expiry.
Expire ==
  /\ cache # None
  /\ cache' = None
  /\ UNCHANGED <<shown, screen, loop, pc, got, ring>>

\* External: devices are added, renamed or removed.
Change ==
  /\ ring < MaxVersion
  /\ ring' = ring + 1
  /\ UNCHANGED <<shown, screen, loop, pc, got, cache>>

Step(t) ==
  \/ LoadDevices(t) \/ CacheHit(t) \/ CacheMiss(t) \/ RingAnswers(t) \/ Save(t)
  \/ Fail(t) \/ Deliver(t) \/ CompleteBackground(t)
  \/ StartBackgroundRefresh(t) \/ EndPass(t) \/ Wake(t)

Next ==
  \/ Appear \/ Disappear \/ Relaunch \/ Expire \/ Change
  \/ \E f \in Filters : ApplyFilter(f)
  \/ \E t \in Tasks : Refresh(t) \/ HandleBackgroundRefresh(t) \/ Step(t)

Spec == Init /\ [][Next]_vars

(***************************************************************************)
(* A task that can run does (awaits have timeouts, sleeps end), and Ring   *)
(* is not out of reach for ever.                                           *)
(***************************************************************************)
Fairness ==
  /\ \A t \in Tasks : WF_vars(Step(t))
  /\ \A b \in Loops : SF_vars(RingAnswers(b))

FairSpec == Spec /\ Fairness

-----------------------------------------------------------------------------
(***************************************************************************)
(* There is one background refresh at a time: a loop that is not the view  *)
(* model's refreshTask has been cancelled, also when two loadDevices tasks *)
(* were created.                                                           *)
(***************************************************************************)
OneRefreshLoop == \A b \in Loops : ~ Ended(b) => b = refreshTask \/ b \in cancelled

(***************************************************************************)
(* After the view has gone, and with no loadDevices under way that will    *)
(* start one, the background refresh comes to an end, wherever the         *)
(* cancellation met it.                                                    *)
(***************************************************************************)
LeftIsQuiet ==
  (~ shown /\ refreshTask = None /\ \A l \in Loads : Ended(l))
    ~> (shown \/ \A b \in Loops : Ended(b))

(***************************************************************************)
(* The dashboard does not load for ever, whichever of the tasks that set   *)
(* .loading ends first or fails.                                           *)
(***************************************************************************)
LoadingEnds == state = "loading" ~> state # "loading"

(***************************************************************************)
(* While the background refresh goes on the list becomes and stays what    *)
(* Ring has: an older list that is delivered late, or that came from the   *)
(* cache, is replaced.                                                     *)
(***************************************************************************)
ListCatchesUp == <>[](refreshTask # None) => <>[](allDevices = ring)
=============================================================================
