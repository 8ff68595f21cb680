--------------------------- MODULE DashboardProofs ---------------------------
(***************************************************************************)
(* Proofs about Dashboard, for any number of tasks of every kind: type     *)
(* correctness, that no background refresh escapes its cancellation or     *)
(* starts unseen, that a dashboard that loads has a task to end it, and    *)
(* that a list that is up to date is not replaced by an older one.         *)
(***************************************************************************)
EXTENDS Dashboard, TLAPS

USE DEF screen, loop

-----------------------------------------------------------------------------
LEMMA InitType == Init => TypeOK
<1> SUFFICES ASSUME Init PROVE TypeOK
  OBVIOUS
<1>1. ring \in Versions
  BY BoundAssumption DEF Init, Versions
<1> QED BY <1>1, FilterAssumption DEF Init, TypeOK, Labels

\* Where the tasks and the view model can go in one step.
LEMMA LoopIsTask == ASSUME NEW l \in Loads PROVE Loop(l) \in Loops /\ Loop(l) \in Tasks
  BY DEF Loops, Tasks

\* The load that the next appearance of the view creates.
LEMMA NextLoadIsNew ==
  ASSUME \E l \in Loads : pc[l] = "none" PROVE NextLoad \in Loads /\ pc[NextLoad] = "none"
  BY DEF NextLoad

LEMMA TypeStep == TypeOK /\ [Next]_vars => TypeOK'
<1> SUFFICES ASSUME TypeOK, [Next]_vars PROVE TypeOK'
  OBVIOUS
<1> USE DEF TypeOK, Labels, Goto
<1>1. CASE Appear
  BY <1>1, NextLoadIsNew DEF Appear
<1>2. CASE Disappear
  BY <1>2 DEF Disappear, Stop
<1>3. CASE Relaunch
  BY <1>3, FilterAssumption DEF Relaunch
<1>4. CASE Expire
  BY <1>4 DEF Expire
<1>5. CASE Change
  BY <1>5, BoundAssumption DEF Change, Versions
<1>6. ASSUME NEW f \in Filters, ApplyFilter(f) PROVE TypeOK'
  BY <1>6 DEF ApplyFilter, Show
<1>7. ASSUME NEW t \in Tasks, Refresh(t) \/ HandleBackgroundRefresh(t) \/ LoadDevices(t)
      PROVE  TypeOK'
  BY <1>7 DEF Refresh, HandleBackgroundRefresh, LoadDevices
<1>8. ASSUME NEW t \in Tasks, CacheHit(t) \/ CacheMiss(t) \/ RingAnswers(t) PROVE TypeOK'
  BY <1>8 DEF CacheHit, CacheMiss, RingAnswers
<1>9. ASSUME NEW t \in Tasks, Save(t) PROVE TypeOK'
  BY <1>9 DEF Save
<1>10. ASSUME NEW t \in Tasks, Fail(t) PROVE TypeOK'
  BY <1>10 DEF Fail, Again, Over
<1>11. ASSUME NEW t \in Tasks, Deliver(t) PROVE TypeOK'
  BY <1>11 DEF Deliver, Show, Over
<1>12. ASSUME NEW t \in Tasks, CompleteBackground(t) PROVE TypeOK'
  BY <1>12 DEF CompleteBackground, Over
<1>13. ASSUME NEW t \in Tasks, StartBackgroundRefresh(t) PROVE TypeOK'
  BY <1>13, LoopIsTask DEF StartBackgroundRefresh, TakePictures
<1>14. ASSUME NEW t \in Tasks, EndPass(t) PROVE TypeOK'
  BY <1>14 DEF EndPass, TakePictures, Again
<1>15. ASSUME NEW t \in Tasks, Wake(t) PROVE TypeOK'
  BY <1>15 DEF Wake
<1>16. CASE UNCHANGED vars
  BY <1>16 DEF vars
<1> QED
  BY <1>1, <1>2, <1>3, <1>4, <1>5, <1>6, <1>7, <1>8, <1>9, <1>10, <1>11, <1>12, <1>13,
     <1>14, <1>15, <1>16
  DEF Next, Step

\* View model, tasks and cache keep their types.
THEOREM TypeCorrect == Spec => []TypeOK
  BY InitType, TypeStep, PTL DEF Spec

-----------------------------------------------------------------------------
\* A step that starts no loop and leaves refreshTask and the cancellations
\* alone keeps the invariant.
LEMMA NoNewLoop ==
  ASSUME OneRefreshLoop, UNCHANGED loop,
         \A b \in Loops : Ended(b) => Ended(b)'
  PROVE  OneRefreshLoop'
  BY DEF OneRefreshLoop

\* A running background refresh is the view model's own or has been cancelled.
THEOREM NoLoopEscapes == Spec => []OneRefreshLoop
<1>1. Init => OneRefreshLoop
  BY DEF Init, OneRefreshLoop, Ended, Loops, Tasks
<1>2. TypeOK /\ OneRefreshLoop /\ [Next]_vars => OneRefreshLoop'
  <2> SUFFICES ASSUME TypeOK, OneRefreshLoop, [Next]_vars PROVE OneRefreshLoop'
    OBVIOUS
  <2>0. pc \in [Tasks -> Labels] /\ Loops \subseteq Tasks
    BY DEF TypeOK, Tasks
  <2>1. CASE Disappear
    BY <2>1 DEF Disappear, Stop, OneRefreshLoop, Ended
  <2>2. CASE Relaunch
    BY <2>0, <2>2 DEF Relaunch, OneRefreshLoop, Ended
  <2>3. ASSUME NEW l \in Tasks, StartBackgroundRefresh(l) PROVE OneRefreshLoop'
    <3>1. l \in Loads /\ Loop(l) \in Loops /\ l \notin Loops
      BY <2>3, LoopIsTask, TasksAssumption DEF StartBackgroundRefresh
    <3>2. \A b \in Loops : b # Loop(l) => pc'[b] = pc[b]
      BY <2>0, <2>3, <3>1 DEF StartBackgroundRefresh
    <3>3. /\ refreshTask' = Loop(l)
          /\ cancelled' = cancelled \cup ({refreshTask} \ {None})
      BY <2>3 DEF StartBackgroundRefresh
    <3>4. None \notin Loops
      BY BoundAssumption
    <3> QED BY <3>2, <3>3, <3>4 DEF OneRefreshLoop, Ended
  <2>4. ASSUME NEW t \in Tasks, NEW m \in Labels, Goto(t, m), UNCHANGED loop,
               t \notin Loops \/ ~ Ended(t)
        PROVE  OneRefreshLoop'
    BY <2>0, <2>4, NoNewLoop DEF Goto, Ended
  <2>5. CASE Appear
    <3>1. CASE UNCHANGED pc
      BY <2>5, <3>1, NoNewLoop DEF Appear, Ended
    <3>2. ASSUME NEW l \in Loads, pc[l] = "none", Goto(l, "queued") PROVE OneRefreshLoop'
      BY <2>4, <2>5, <3>2, TasksAssumption DEF Appear, Labels, Tasks
    <3> QED BY <2>5, <3>1, <3>2, NextLoadIsNew DEF Appear
  <2>6. ASSUME NEW t \in Tasks, Refresh(t) \/ HandleBackgroundRefresh(t) \/ LoadDevices(t)
        PROVE  OneRefreshLoop'
    BY <2>4, <2>6, TasksAssumption
    DEF Refresh, HandleBackgroundRefresh, LoadDevices, Labels
  <2>7. ASSUME NEW t \in Tasks,
               \/ CacheHit(t) \/ CacheMiss(t) \/ RingAnswers(t) \/ Save(t)
               \/ CompleteBackground(t)
        PROVE  OneRefreshLoop'
    BY <2>4, <2>7
    DEF CacheHit, CacheMiss, RingAnswers, Save, CompleteBackground, Over, Labels, Ended
  <2>8. ASSUME NEW t \in Tasks, Fail(t) \/ Deliver(t) \/ EndPass(t) \/ Wake(t)
        PROVE  OneRefreshLoop'
    BY <2>4, <2>8 DEF Fail, Deliver, EndPass, Wake, TakePictures, Again, Over, Labels, Ended
  <2>9. CASE UNCHANGED <<pc, loop>>
    BY <2>9, NoNewLoop DEF Ended
  <2> QED
    BY <2>1, <2>2, <2>3, <2>5, <2>6, <2>7, <2>8, <2>9
    DEF Next, Step, Expire, Change, ApplyFilter, vars
<1> QED BY <1>1, <1>2, TypeCorrect, PTL DEF Spec

-----------------------------------------------------------------------------
(***************************************************************************)
(* Loading: the safety content of LoadingEnds.                             *)
(***************************************************************************)
\* While the dashboard shows its progress, a loadDevices or refresh task is
\* between its first statement and the answer that takes the progress away.
LoadingHasATask ==
  state = "loading" =>
    \E t \in Loads \cup Refreshes : pc[t] \in {"cache", "fetch", "save", "reply"}

\* A task that is not one of the user's moves, or one of them moves on towards
\* its answer.
LEMMA TaskMoves ==
  ASSUME TypeOK, LoadingHasATask, NEW t \in Tasks, NEW m \in Labels, Goto(t, m),
         state' = "loading" => state = "loading",
         \/ t \notin Loads \cup Refreshes
         \/ pc[t] \notin {"cache", "fetch", "save", "reply"}
         \/ m \in {"cache", "fetch", "save", "reply"}
  PROVE  LoadingHasATask'
<1>1. \A u \in Loads \cup Refreshes :
        pc[u] \in {"cache", "fetch", "save", "reply"} => pc'[u] \in {"cache", "fetch", "save", "reply"}
  BY DEF TypeOK, Goto, Tasks
<1> QED BY <1>1 DEF LoadingHasATask

\* The progress view of the dashboard is never left without a task that ends it,
\* for any number of overlapping loads and refreshes.
THEOREM LoadingIsServed == Spec => []LoadingHasATask
<1>1. Init => LoadingHasATask
  BY DEF Init, LoadingHasATask
<1>2. TypeOK /\ LoadingHasATask /\ [Next]_vars => LoadingHasATask'
  <2> SUFFICES ASSUME TypeOK, LoadingHasATask, [Next]_vars PROVE LoadingHasATask'
    OBVIOUS
  <2>0. pc \in [Tasks -> Labels] /\ Loads \subseteq Tasks
    BY DEF TypeOK, Tasks
  <2>1. CASE Appear
    <3>1. ASSUME NEW l \in Loads, pc[l] = "none", Goto(l, "queued") PROVE LoadingHasATask'
      BY <2>0, <2>1, <3>1, TaskMoves DEF Appear, Labels
    <3>2. CASE UNCHANGED pc
      BY <2>1, <3>2 DEF Appear, LoadingHasATask
    <3> QED BY <2>1, <3>1, <3>2, NextLoadIsNew DEF Appear
  <2>2. ASSUME NEW t \in Tasks, Refresh(t) \/ LoadDevices(t) PROVE LoadingHasATask'
    <3>1. t \in Loads \cup Refreshes /\ pc'[t] \in {"fetch", "cache"}
      BY <2>0, <2>2 DEF Refresh, LoadDevices, Goto
    <3> QED BY <3>1 DEF LoadingHasATask
  <2>3. ASSUME NEW t \in Tasks, HandleBackgroundRefresh(t) \/ CompleteBackground(t)
        PROVE  LoadingHasATask'
    <3>1. t \notin Loads \cup Refreshes
      BY <2>3, TasksAssumption DEF HandleBackgroundRefresh, CompleteBackground
    <3> QED BY <2>3, <3>1, TaskMoves DEF HandleBackgroundRefresh, CompleteBackground, Over, Labels
  <2>4. ASSUME NEW t \in Tasks, CacheHit(t) \/ CacheMiss(t) \/ RingAnswers(t) \/ Save(t)
        PROVE  LoadingHasATask'
    BY <2>4, TaskMoves DEF CacheHit, CacheMiss, RingAnswers, Save, Labels
  <2>5. ASSUME NEW t \in Tasks, Fail(t) PROVE LoadingHasATask'
    <3>1. CASE t \in Loads \cup Refreshes
      BY <2>5, <3>1 DEF Fail, LoadingHasATask
    <3>2. CASE t \notin Loads \cup Refreshes
      <4>1. \E m \in Labels : Goto(t, m)
        BY <2>5 DEF Fail, Again, Over, Labels
      <4> QED BY <2>5, <3>2, <4>1, TaskMoves DEF Fail
    <3> QED BY <3>1, <3>2
  <2>6. ASSUME NEW t \in Tasks, Deliver(t) PROVE LoadingHasATask'
    BY <2>6 DEF Deliver, Show, LoadingHasATask
  <2>7. ASSUME NEW t \in Tasks, EndPass(t) \/ Wake(t) PROVE LoadingHasATask'
    <3>1. /\ \E m \in Labels : Goto(t, m)
          /\ t \notin Loads \cup Refreshes /\ UNCHANGED state
      BY <2>7, TasksAssumption DEF EndPass, Wake, TakePictures, Again, Labels
    <3> QED BY <3>1, TaskMoves
  <2>8. ASSUME NEW t \in Tasks, StartBackgroundRefresh(t) PROVE LoadingHasATask'
    <3>1. /\ pc[t] = "snapshots" /\ UNCHANGED state /\ Loop(t) \notin Loads \cup Refreshes
          /\ pc' = [pc EXCEPT ![t] = "done", ![Loop(t)] = "sleep"]
      BY <2>8, LoopIsTask, TasksAssumption DEF StartBackgroundRefresh, TakePictures
    <3>2. \A u \in Loads \cup Refreshes : pc[u] # "snapshots" => pc'[u] = pc[u]
      BY <2>0, <3>1 DEF Tasks
    <3> QED BY <3>1, <3>2 DEF LoadingHasATask
  <2>9. CASE \/ Relaunch \/ \E f \in Filters : ApplyFilter(f)
    BY <2>9 DEF Relaunch, ApplyFilter, Show, LoadingHasATask
  <2>10. CASE UNCHANGED <<state, pc>>
    BY <2>10 DEF LoadingHasATask
  <2> QED
    BY <2>1, <2>2, <2>3, <2>4, <2>5, <2>6, <2>7, <2>8, <2>9, <2>10
    DEF Next, Step, Disappear, Expire, Change, vars
<1> QED BY <1>1, <1>2, TypeCorrect, PTL DEF Spec

-----------------------------------------------------------------------------
(***************************************************************************)
(* Leaving: the safety content of LeftIsQuiet.                             *)
(***************************************************************************)
\* A loadDevices task starts its loop with its last statement, once; until then
\* the loop is not there, and a loop never uses the cache.
LoopAfterLoad ==
  /\ \A l \in Loads :
       pc[l] # "done" =>
         pc[Loop(l)] = "none" /\ refreshTask # Loop(l) /\ Loop(l) \notin cancelled
  /\ \A b \in Loops : pc[b] \notin {"queued", "cache"}

\* How many steps a cancelled loop has left at most.
StepsLeft(m) ==
  CASE m \in {"sleep", "fetch"} -> 1
    [] m = "snapshots" -> 2
    [] m = "reply" -> 3
    [] m = "save" -> 4
    [] OTHER -> 0

\* A cancelled loop stays cancelled and every step brings it closer to its end,
\* wherever the cancellation met it: it does not sleep or fetch again.  Only a
\* new start of the app forgets it.
CancelledWindsDown ==
  [][\A b \in cancelled :
       \/ cancelled' = {} /\ pc'[b] = "none"
       \/ /\ b \in cancelled'
          /\ pc'[b] = pc[b] \/ StepsLeft(pc'[b]) < StepsLeft(pc[b])]_vars

\* The view has gone, and no loadDevices is left to start a loop.
Left == ~ shown /\ refreshTask = None /\ \A l \in Loads : Ended(l)

\* That lasts until the view is shown again: no task that is still under way
\* starts a background refresh behind the user's back.
LeftStays == [][Left => Left' \/ shown']_vars

\* Different loads have different loops.
LEMMA LoopsDiffer == \A l, m \in Loads : Loop(l) = Loop(m) => l = m
  BY DEF Loop

\* One task moves: a load that was not over, a loop that was there, or another
\* kind of task.
LEMMA MoveKeepsLoops ==
  ASSUME TypeOK, LoopAfterLoad, NEW t \in Tasks, NEW m \in Labels, Goto(t, m), UNCHANGED loop,
         t \in Loads => pc[t] # "done",
         t \in Loops => pc[t] # "none" /\ m \notin {"queued", "cache"}
  PROVE  LoopAfterLoad'
<1>0. pc \in [Tasks -> Labels] /\ Loads \subseteq Tasks /\ Loops \subseteq Tasks
  BY DEF TypeOK, Tasks
<1>1. ASSUME NEW l \in Loads, pc'[l] # "done"
      PROVE  pc'[Loop(l)] = "none" /\ refreshTask' # Loop(l) /\ Loop(l) \notin cancelled'
  <2>1. Loop(l) \in Loops
    BY LoopIsTask
  <2>2. pc[l] # "done"
    BY <1>0, <1>1 DEF Goto
  <2>3. pc[Loop(l)] = "none" /\ refreshTask # Loop(l) /\ Loop(l) \notin cancelled
    BY <2>2 DEF LoopAfterLoad
  <2> QED BY <1>0, <2>1, <2>3 DEF Goto
<1>2. \A b \in Loops : pc'[b] \notin {"queued", "cache"}
  BY <1>0 DEF Goto, LoopAfterLoad
<1> QED BY <1>1, <1>2 DEF LoopAfterLoad

\* Which tasks move in a step, from where and to where, when the view model's
\* refreshTask and the cancellations stay as they are.
LEMMA OneTaskMoves ==
  ASSUME TypeOK, LoopAfterLoad, NEW t \in Tasks,
         \/ Refresh(t) \/ HandleBackgroundRefresh(t) \/ LoadDevices(t) \/ CacheHit(t)
         \/ CacheMiss(t) \/ RingAnswers(t) \/ Save(t) \/ Fail(t) \/ Deliver(t)
         \/ CompleteBackground(t) \/ EndPass(t) \/ Wake(t)
  PROVE  \E m \in Labels :
           /\ Goto(t, m) /\ UNCHANGED <<shown, loop>>
           /\ t \in Loads => pc[t] \notin {"none", "done"}
           /\ t \in Loops => pc[t] # "none" /\ m \notin {"queued", "cache"}
           /\ t \in cancelled => StepsLeft(m) < StepsLeft(pc[t])
<1>0. /\ t \in Loads => t \notin Refreshes \cup Background \cup Loops
      /\ t \in Loops => t \notin Refreshes \cup Background \cup Loads
      /\ cancelled \subseteq Loops
      /\ t \in Loops => pc[t] \notin {"queued", "cache"}
  BY TasksAssumption DEF TypeOK, LoopAfterLoad
<1> USE DEF Labels
<1>1. CASE Refresh(t) \/ HandleBackgroundRefresh(t)
  BY <1>0, <1>1 DEF Refresh, HandleBackgroundRefresh
<1>2. CASE LoadDevices(t) \/ CacheHit(t) \/ CacheMiss(t)
  BY <1>0, <1>2 DEF LoadDevices, CacheHit, CacheMiss
<1>3. CASE RingAnswers(t) \/ Save(t) \/ CompleteBackground(t)
  BY <1>0, <1>3 DEF RingAnswers, Save, CompleteBackground, Over, StepsLeft
<1>4. CASE Fail(t)
  BY <1>0, <1>4 DEF Fail, Again, Over, StepsLeft
<1>5. CASE Deliver(t)
  BY <1>0, <1>5 DEF Deliver, Over, StepsLeft
<1>6. CASE EndPass(t) \/ Wake(t)
  BY <1>0, <1>6 DEF EndPass, Wake, TakePictures, Again, StepsLeft
<1> QED BY <1>1, <1>2, <1>3, <1>4, <1>5, <1>6

\* A load that ends starts its loop and replaces the one before.
LEMMA LoopStarts ==
  ASSUME TypeOK, LoopAfterLoad, NEW l \in Tasks, StartBackgroundRefresh(l)
  PROVE  /\ l \in Loads /\ pc[l] = "snapshots" /\ Loop(l) \notin cancelled
         /\ refreshTask' = Loop(l) /\ cancelled' = cancelled \cup ({refreshTask} \ {None})
         /\ pc'[l] = "done" /\ pc'[Loop(l)] = "sleep"
         /\ \A t \in Tasks : t \notin {l, Loop(l)} => pc'[t] = pc[t]
<1>1. /\ l \in Loads /\ pc[l] = "snapshots"
      /\ refreshTask' = Loop(l) /\ cancelled' = cancelled \cup ({refreshTask} \ {None})
      /\ pc' = [pc EXCEPT ![l] = "done", ![Loop(l)] = "sleep"]
  BY DEF StartBackgroundRefresh, TakePictures
<1>2. l # Loop(l) /\ Loop(l) \in Tasks
  BY <1>1, LoopIsTask, TasksAssumption
<1>3. Loop(l) \notin cancelled
  BY <1>1 DEF LoopAfterLoad
<1> QED BY <1>1, <1>2, <1>3 DEF TypeOK

LEMMA LoopInv == Spec => []LoopAfterLoad
<1>1. Init => LoopAfterLoad
  <2> SUFFICES ASSUME Init PROVE LoopAfterLoad
    OBVIOUS
  <2>1. \A l \in Loads : Loop(l) \in Tasks /\ Loop(l) # None
    BY LoopIsTask, BoundAssumption
  <2>2. Loops \subseteq Tasks
    BY DEF Tasks
  <2> QED BY <2>1, <2>2 DEF Init, LoopAfterLoad
<1>2. TypeOK /\ LoopAfterLoad /\ [Next]_vars => LoopAfterLoad'
  <2> SUFFICES ASSUME TypeOK, LoopAfterLoad, [Next]_vars PROVE LoopAfterLoad'
    OBVIOUS
  <2>0. /\ pc \in [Tasks -> Labels] /\ Loops \subseteq Tasks /\ Loads \subseteq Tasks
        /\ \A l \in Loads : Loop(l) \in Loops /\ Loop(l) # None
    BY LoopIsTask, BoundAssumption DEF TypeOK, Tasks
  <2>1. CASE Appear
    <3>1. ASSUME NEW l \in Loads, pc[l] = "none", Goto(l, "queued") PROVE LoopAfterLoad'
      BY <2>0, <2>1, <3>1, MoveKeepsLoops, TasksAssumption DEF Appear, Labels
    <3>2. CASE UNCHANGED pc
      BY <2>1, <3>2 DEF Appear, LoopAfterLoad
    <3> QED BY <2>1, <3>1, <3>2, NextLoadIsNew DEF Appear
  <2>2. CASE Disappear
    <3>1. /\ UNCHANGED pc /\ refreshTask' = None
          /\ cancelled' = cancelled \cup ({refreshTask} \ {None})
      BY <2>2 DEF Disappear, Stop
    <3> QED BY <2>0, <3>1 DEF LoopAfterLoad
  <2>3. CASE Relaunch
    BY <2>0, <2>3 DEF Relaunch, LoopAfterLoad
  <2>4. ASSUME NEW l \in Tasks, StartBackgroundRefresh(l) PROVE LoopAfterLoad'
    <3>1. l \in Loads
      BY <2>4 DEF StartBackgroundRefresh
    <3>2. ASSUME NEW m \in Loads, pc'[m] # "done"
          PROVE  pc'[Loop(m)] = "none" /\ refreshTask' # Loop(m) /\ Loop(m) \notin cancelled'
      <4>1. m # l
        BY <2>4, <3>2, LoopStarts
      <4>2. Loop(m) # Loop(l) /\ m # Loop(l) /\ Loop(m) # l
        BY <2>0, <3>1, <4>1, LoopsDiffer, TasksAssumption
      <4>3. pc'[m] = pc[m] /\ pc'[Loop(m)] = pc[Loop(m)]
        BY <2>0, <2>4, <4>1, <4>2, LoopStarts
      <4>4. pc[Loop(m)] = "none" /\ refreshTask # Loop(m) /\ Loop(m) \notin cancelled
        BY <3>2, <4>3 DEF LoopAfterLoad
      <4> QED BY <2>4, <4>2, <4>3, <4>4, LoopStarts
    <3>3. ASSUME NEW b \in Loops PROVE pc'[b] \notin {"queued", "cache"}
      BY <2>0, <2>4, LoopStarts DEF LoopAfterLoad
    <3> QED BY <3>2, <3>3 DEF LoopAfterLoad
  <2>5. ASSUME NEW t \in Tasks, Refresh(t) \/ HandleBackgroundRefresh(t) \/ Step(t),
               ~ StartBackgroundRefresh(t)
        PROVE  LoopAfterLoad'
    BY <2>5, OneTaskMoves, MoveKeepsLoops DEF Step
  <2>6. CASE UNCHANGED <<pc, loop>>
    BY <2>6 DEF LoopAfterLoad
  <2> QED
    BY <2>1, <2>2, <2>3, <2>4, <2>5, <2>6
    DEF Next, Step, Expire, Change, ApplyFilter, vars
<1> QED BY <1>1, <1>2, TypeCorrect, PTL DEF Spec

\* A cancelled background refresh runs down: at most four steps are left to it,
\* and nothing brings it back to life.
THEOREM CancellationIsFinal == Spec => CancelledWindsDown
<1>1. TypeOK /\ LoopAfterLoad /\ [Next]_vars
      => [\A b \in cancelled :
            \/ cancelled' = {} /\ pc'[b] = "none"
            \/ /\ b \in cancelled'
               /\ pc'[b] = pc[b] \/ StepsLeft(pc'[b]) < StepsLeft(pc[b])]_vars
  <2> SUFFICES ASSUME TypeOK, LoopAfterLoad, [Next]_vars, NEW b \in cancelled
               PROVE  \/ cancelled' = {} /\ pc'[b] = "none"
                      \/ /\ b \in cancelled'
                         /\ pc'[b] = pc[b] \/ StepsLeft(pc'[b]) < StepsLeft(pc[b])
    OBVIOUS
  <2>0. pc \in [Tasks -> Labels] /\ b \in Tasks /\ b \in Loops /\ Loads \subseteq Tasks
    BY DEF TypeOK, Tasks
  <2>1. CASE Appear
    <3>1. UNCHANGED loop /\ \A t \in Tasks : t \notin Loads => pc'[t] = pc[t]
      BY <2>0, <2>1, NextLoadIsNew DEF Appear, Goto
    <3> QED BY <2>0, <3>1, TasksAssumption
  <2>2. CASE Disappear
    BY <2>2 DEF Disappear, Stop
  <2>3. CASE Relaunch
    BY <2>0, <2>3 DEF Relaunch
  <2>4. ASSUME NEW l \in Tasks, StartBackgroundRefresh(l)
        PROVE  b \in cancelled' /\ pc'[b] = pc[b]
    <3>1. l \in Loads /\ Loop(l) \notin cancelled /\ cancelled \subseteq cancelled'
      BY <2>4, LoopStarts
    <3>2. b \notin {l, Loop(l)}
      BY <2>0, <3>1, TasksAssumption
    <3> QED BY <2>0, <2>4, <3>1, <3>2, LoopStarts
  <2>5. ASSUME NEW t \in Tasks, Refresh(t) \/ HandleBackgroundRefresh(t) \/ Step(t),
               ~ StartBackgroundRefresh(t)
        PROVE  b \in cancelled' /\ (pc'[b] = pc[b] \/ StepsLeft(pc'[b]) < StepsLeft(pc[b]))
    <3>1. PICK m \in Labels :
            /\ Goto(t, m) /\ UNCHANGED <<shown, loop>>
            /\ t \in cancelled => StepsLeft(m) < StepsLeft(pc[t])
      BY <2>5, OneTaskMoves DEF Step
    <3>2. pc'[b] = IF b = t THEN m ELSE pc[b]
      BY <2>0, <3>1 DEF Goto
    <3> QED BY <3>1, <3>2
  <2>6. CASE UNCHANGED <<pc, loop>>
    BY <2>6
  <2> QED
    BY <2>1, <2>2, <2>3, <2>4, <2>5, <2>6
    DEF Next, Step, Expire, Change, ApplyFilter, vars
<1> QED BY <1>1, TypeCorrect, LoopInv, PTL DEF Spec, CancelledWindsDown

\* Once the view has gone and its loads are over, no background refresh starts
\* until the view is shown again.
THEOREM NothingStartsUnseen == Spec => LeftStays
<1>1. TypeOK /\ LoopAfterLoad /\ [Next]_vars => [Left => Left' \/ shown']_vars
  <2> SUFFICES ASSUME TypeOK, LoopAfterLoad, [Next]_vars, Left PROVE Left' \/ shown'
    OBVIOUS
  <2>0. pc \in [Tasks -> Labels] /\ Loads \subseteq Tasks
        /\ ~ shown /\ refreshTask = None /\ \A l \in Loads : pc[l] \in {"none", "done"}
    BY DEF TypeOK, Tasks, Left, Ended
  <2>1. CASE Appear
    BY <2>1 DEF Appear
  <2>2. CASE Disappear \/ Relaunch
    BY <2>0, <2>2 DEF Disappear, Relaunch
  <2>3. ASSUME NEW l \in Tasks, StartBackgroundRefresh(l) PROVE FALSE
    BY <2>0, <2>3, LoopStarts
  <2>4. ASSUME NEW t \in Tasks, Refresh(t) \/ HandleBackgroundRefresh(t) \/ Step(t),
               ~ StartBackgroundRefresh(t)
        PROVE  Left'
    <3>1. PICK m \in Labels :
            Goto(t, m) /\ UNCHANGED <<shown, loop>> /\ (t \in Loads => pc[t] \notin {"none", "done"})
      BY <2>4, OneTaskMoves DEF Step
    <3>2. t \notin Loads
      BY <2>0, <3>1
    <3>3. \A l \in Loads : pc'[l] = pc[l]
      BY <2>0, <3>1, <3>2 DEF Goto
    <3> QED BY <2>0, <3>1, <3>3 DEF Left, Ended
  <2>5. CASE UNCHANGED <<shown, pc, loop>>
    BY <2>5 DEF Left, Ended
  <2> QED
    BY <2>1, <2>2, <2>3, <2>4, <2>5
    DEF Next, Step, Expire, Change, ApplyFilter, vars
<1> QED BY <1>1, TypeCorrect, LoopInv, PTL DEF Spec, LeftStays

-----------------------------------------------------------------------------
(***************************************************************************)
(* Being up to date: the safety content of ListCatchesUp.                  *)
(***************************************************************************)
\* The list is what Ring has, and so is every list that can still replace it:
\* those on their way and the one in the cache.
UpToDate ==
  /\ allDevices = ring
  /\ cache \in {ring, None}
  /\ \A t \in Tasks : pc[t] \in {"save", "reply"} => got[t] = ring

\* A list that is up to date stays so until Ring has something else or the app
\* is started again, whichever tasks deliver late.
StaysUpToDate == [][UpToDate => UpToDate' \/ ring' # ring \/ allDevices' = None]_vars

\* A task moves to a place where it carries no list, or with what Ring has.
LEMMA CarriesRing ==
  ASSUME TypeOK, UpToDate, NEW t \in Tasks, NEW m \in Labels, Goto(t, m), UNCHANGED ring,
         NEW v \in Versions \cup {None}, got' = [got EXCEPT ![t] = v],
         m \in {"save", "reply"} => v = ring,
         allDevices' = ring, cache' \in {ring, None}
  PROVE  UpToDate'
<1>1. ASSUME NEW u \in Tasks, pc'[u] \in {"save", "reply"} PROVE got'[u] = ring
  BY <1>1 DEF UpToDate, TypeOK, Goto
<1> QED BY <1>1 DEF UpToDate

\* No late delivery, cache hit or failed save makes the list older again.
THEOREM ListNeverFallsBack == Spec => StaysUpToDate
<1>1. TypeOK /\ [Next]_vars => [UpToDate => UpToDate' \/ ring' # ring \/ allDevices' = None]_vars
  <2> SUFFICES ASSUME TypeOK, [Next]_vars, UpToDate
               PROVE  UpToDate' \/ ring' # ring \/ allDevices' = None
    OBVIOUS
  <2>0. /\ pc \in [Tasks -> Labels] /\ got \in [Tasks -> Versions \cup {None}]
        /\ ring \in Versions /\ allDevices = ring /\ cache \in {ring, None}
        /\ Loads \subseteq Tasks /\ Loops \subseteq Tasks
        /\ \A u \in Tasks : pc[u] \in {"save", "reply"} => got[u] = ring
    BY DEF TypeOK, UpToDate, Tasks
  <2>1. CASE Appear
    <3>1. \A u \in Tasks : pc'[u] \in {pc[u], "queued"}
      BY <2>0, <2>1 DEF Appear, Goto
    <3> QED BY <2>0, <2>1, <3>1 DEF Appear, UpToDate
  <2>2. CASE Relaunch
    BY <2>2 DEF Relaunch
  <2>3. CASE Change
    BY <2>0, <2>3, BoundAssumption DEF Change, Versions
  <2>4. ASSUME NEW t \in Tasks,
               \/ Refresh(t) \/ HandleBackgroundRefresh(t) \/ LoadDevices(t) \/ CacheMiss(t)
               \/ Wake(t)
        PROVE  UpToDate'
    <3>1. /\ UNCHANGED <<allDevices, got, cache, ring>>
          /\ \E m \in Labels \ {"save", "reply"} : Goto(t, m)
      BY <2>4 DEF Refresh, HandleBackgroundRefresh, LoadDevices, CacheMiss, Wake, Labels
    <3>2. got' = [got EXCEPT ![t] = got[t]] /\ got[t] \in Versions \cup {None}
      BY <2>0, <3>1
    <3> QED BY <2>0, <3>1, <3>2, CarriesRing
  <2>5. ASSUME NEW t \in Tasks, CacheHit(t) PROVE UpToDate'
    <3>1. /\ UNCHANGED <<allDevices, cache, ring>> /\ Goto(t, "reply")
          /\ got' = [got EXCEPT ![t] = ring]
      BY <2>0, <2>5 DEF CacheHit
    <3> QED BY <2>0, <3>1, CarriesRing DEF Labels
  <2>6. ASSUME NEW t \in Tasks, RingAnswers(t) PROVE UpToDate'
    BY <2>0, <2>6, CarriesRing DEF RingAnswers, Labels
  <2>7. ASSUME NEW t \in Tasks, Save(t) PROVE UpToDate'
    <3>1. got[t] = ring /\ got' = [got EXCEPT ![t] = ring]
      BY <2>0, <2>7 DEF Save
    <3>2. /\ UNCHANGED <<allDevices, ring>> /\ Goto(t, "reply")
          /\ cache' \in {ring, None}
      BY <2>0, <2>7, <3>1 DEF Save
    <3> QED BY <2>0, <3>1, <3>2, CarriesRing DEF Labels
  <2>8. ASSUME NEW t \in Tasks, Fail(t) \/ CompleteBackground(t) PROVE UpToDate'
    <3>1. /\ UNCHANGED <<allDevices, cache, ring>> /\ got' = [got EXCEPT ![t] = None]
          /\ \E m \in {"none", "done", "sleep"} : Goto(t, m)
      BY <2>8 DEF Fail, CompleteBackground, Again, Over
    <3> QED BY <2>0, <3>1, CarriesRing DEF Labels
  <2>9. ASSUME NEW t \in Tasks, Deliver(t) PROVE UpToDate'
    <3>1. /\ allDevices' = ring /\ UNCHANGED <<cache, ring>> /\ got' = [got EXCEPT ![t] = None]
          /\ \E m \in {"none", "done", "snapshots"} : Goto(t, m)
      BY <2>0, <2>9 DEF Deliver, Over
    <3> QED BY <2>0, <3>1, CarriesRing DEF Labels
  <2>10. ASSUME NEW t \in Tasks, EndPass(t) PROVE UpToDate'
    <3>1. /\ UNCHANGED <<allDevices, got, cache, ring>>
          /\ \E m \in Labels \ {"save", "reply"} : Goto(t, m)
      BY <2>10 DEF EndPass, TakePictures, Again, Labels
    <3>2. got' = [got EXCEPT ![t] = got[t]] /\ got[t] \in Versions \cup {None}
      BY <2>0, <3>1
    <3> QED BY <2>0, <3>1, <3>2, CarriesRing
  <2>11. ASSUME NEW t \in Tasks, StartBackgroundRefresh(t) PROVE UpToDate'
    <3>1. /\ UNCHANGED <<allDevices, cache, got, ring>>
          /\ pc' = [pc EXCEPT ![t] = "done", ![Loop(t)] = "sleep"]
      BY <2>11 DEF StartBackgroundRefresh, TakePictures
    <3>2. \A u \in Tasks : pc'[u] \in {"save", "reply"} => pc[u] = pc'[u]
      BY <2>0, <3>1
    <3> QED BY <2>0, <3>1, <3>2 DEF UpToDate
  <2>12. CASE Expire
    BY <2>0, <2>12 DEF Expire, UpToDate
  <2>13. CASE UNCHANGED <<allDevices, cache, pc, got, ring>>
    BY <2>13 DEF UpToDate
  <2> QED
    BY <2>1, <2>2, <2>3, <2>4, <2>5, <2>6, <2>7, <2>8, <2>9, <2>10, <2>11, <2>12, <2>13
    DEF Next, Step, Disappear, ApplyFilter, vars
<1> QED BY <1>1, TypeCorrect, PTL DEF Spec, StaysUpToDate
=============================================================================
