--------------------- MODULE StreamSessionManagerProofs ---------------------
(***************************************************************************)
(* Proofs about StreamSessionManager, for any number of starts and stops,  *)
(* and about the player views of PlayerSessions that use it.               *)
(***************************************************************************)
EXTENDS PlayerSessions, TLAPS

USE DEF alarms, media

\* The timer the manager refers to has not expired and is not cancelled.
TimerSleeps == timer # None => timerTask[timer] = "sleeping"

Inv == TypeOK /\ TimerSleeps /\ StreamHasAnEnd

\* Inv holds when the manager has just been created.
LEMMA InitInv == Init => Inv
BY DEF Init, Inv, TypeOK, TimerSleeps, StreamHasAnEnd, States

\* What transitionState does to the types.
LEMMA TransitionTypes ==
  ASSUME TypeOK, NEW t \in Threads, NEW to \in States, transitionState(t, to)
  PROVE  state' \in States /\ writing' \subseteq Threads \X States
BY DEF transitionState, TypeOK

\* The steps of a startStream call keep Inv: the call holds its peer
\* connection and URL until it hands them to the timer or to the catch clause.
LEMMA StartInv ==
  ASSUME Inv, NEW s \in Starts, StartGuard(s) \/ Start(s)
  PROVE  Inv'
<1> USE DEF Inv, TimerSleeps, StreamHasAnEnd, Ending
<1>1. CASE StartGuard(s)
  BY <1>1 DEF StartGuard, TypeOK
<1>2. CASE StartConnecting(s)
  <2>1. <<"start", s>> \in Threads
    BY DEF Threads
  <2>2. state' \in States /\ writing' \subseteq Threads \X States
    BY <1>2, <2>1, TransitionTypes DEF StartConnecting, States
  <2> QED
    BY <1>2, <2>2 DEF StartConnecting, TypeOK
<1>3. CASE StartToken(s)
  BY <1>3 DEF StartToken, TypeOK
<1>4. CASE StartOffer(s)
  BY <1>4 DEF StartOffer, TypeOK
<1>5. CASE StartWhep(s)
  BY <1>5 DEF StartWhep, TypeOK
<1>6. CASE StartRemote(s)
  BY <1>6 DEF StartRemote, TypeOK
<1>7. CASE StartTimers(s)
  BY <1>7, NoneAssumption DEF StartTimers, TypeOK
<1>8. CASE StartThrows(s)
  <2>1. <<"catch", s>> \in Tasks /\ <<"catch", s>> \in Threads
    BY DEF Tasks, CleanupTasks, Threads
  <2>2. state' \in States /\ writing' \subseteq Threads \X States
    BY <1>8, <2>1, TransitionTypes DEF StartThrows, States
  <2> QED
    BY <1>8, <2>1, <2>2 DEF StartThrows, TypeOK
<1> QED
  BY <1>1, <1>2, <1>3, <1>4, <1>5, <1>6, <1>7, <1>8 DEF Start

\* Stops, timers and timeouts keep Inv: whoever cancels the session timer
\* begins a teardown in the same step.
LEMMA AlarmInv ==
  ASSUME Inv, \/ \E u \in Stops : UserStop(u)
              \/ \E s \in Starts : TimerFires(s) \/ TimeoutFires(s)
  PROVE  Inv'
<1> USE DEF Inv, TimerSleeps, StreamHasAnEnd, Ending
<1>1. ASSUME NEW u \in Stops, UserStop(u)
      PROVE  Inv'
  <2>1. <<"stop", u>> \in Tasks
    BY DEF Tasks, StopTasks
  <2> QED
    BY <1>1, <2>1 DEF UserStop, CancelTimer, TypeOK
<1>2. ASSUME NEW s \in Starts, TimerFires(s)
      PROVE  Inv'
  <2>1. <<"timer", s>> \in Tasks
    BY DEF Tasks, StopTasks
  <2> QED
    BY <1>2, <2>1 DEF TimerFires, CancelTimer, TypeOK
<1>3. ASSUME NEW s \in Starts, TimeoutFires(s)
      PROVE  Inv'
  <2>1. <<"timeout", s>> \in Tasks /\ <<"timeout", s>> \in Threads
    BY DEF Tasks, CleanupTasks, Threads
  <2>2. state' \in States /\ writing' \subseteq Threads \X States
    BY <1>3, <2>1, TransitionTypes DEF TimeoutFires, States, TypeOK
  <2> QED
    BY <1>3, <2>1, <2>2 DEF TimeoutFires, TypeOK
<1> QED
  BY <1>1, <1>2, <1>3

\* The steps of a teardown keep Inv: releaseResources leaves nothing to end.
LEMMA TeardownInv ==
  ASSUME Inv, NEW t \in Tasks, Teardown(t)
  PROVE  Inv'
<1> USE DEF Inv, TimerSleeps, StreamHasAnEnd, Ending
<1>1. CASE TeardownDeletes(t)
  BY <1>1 DEF TeardownDeletes, TypeOK
<1>2. CASE TeardownSkips(t)
  BY <1>2 DEF TeardownSkips, TypeOK
<1>3. CASE Release(t)
  BY <1>3 DEF Release, TypeOK, States
<1>4. CASE Settle(t)
  <2>1. state' \in States /\ writing' \subseteq Threads \X States
    BY <1>4, TransitionTypes DEF Settle, States, Threads
  <2> QED
    BY <1>4, <2>1 DEF Settle, TypeOK
<1> QED
  BY <1>1, <1>2, <1>3, <1>4 DEF Teardown

\* The callbacks of WebRTC and the late stores keep Inv.
LEMMA CallbackInv ==
  ASSUME Inv, \/ \E s \in Starts : Ice(s) \/ TrackAssigned(s)
              \/ \E w \in writing : Store(w)
  PROVE  Inv'
<1> USE DEF Inv, TimerSleeps, StreamHasAnEnd, Ending
<1>1. ASSUME NEW s \in Starts, IceConnected(s) \/ IceFailed(s) \/ IceDisconnected(s)
      PROVE  Inv'
  <2>1. <<"ice", s>> \in Tasks /\ <<"ice", s>> \in Threads
    BY DEF Tasks, CleanupTasks, Threads
  <2>2. state' \in States /\ writing' \subseteq Threads \X States
    BY <1>1, <2>1, TransitionTypes DEF IceConnected, IceFailed, IceDisconnected, States
  <2> QED
    BY <1>1, <2>1, <2>2 DEF IceConnected, IceFailed, IceDisconnected, TypeOK
<1>2. ASSUME NEW s \in Starts, TrackArrives(s) \/ TrackAssigned(s)
      PROVE  Inv'
  BY <1>2 DEF TrackArrives, TrackAssigned, TypeOK
<1>3. ASSUME NEW w \in writing, Store(w)
      PROVE  Inv'
  <2>1. w[2] \in States /\ writing \ {w} \subseteq Threads \X States
    BY DEF TypeOK
  <2> QED
    BY <1>3, <2>1 DEF Store, TypeOK
<1> QED
  BY <1>1, <1>2, <1>3 DEF Ice

\* Inv is inductive.
LEMMA StepInv == Inv /\ [Next]_vars => Inv'
<1> SUFFICES ASSUME Inv, [Next]_vars
             PROVE  Inv'
  OBVIOUS
<1>1. CASE UNCHANGED vars
  BY <1>1 DEF vars, Inv, TypeOK, TimerSleeps, StreamHasAnEnd, Ending
<1>2. CASE Next
  BY <1>2, StartInv, AlarmInv, TeardownInv, CallbackInv DEF Next, Inside
<1> QED
  BY <1>1, <1>2

\* Inv is an invariant of the manager.
THEOREM Invariance == Spec => []Inv
BY InitInv, StepInv, PTL DEF Spec

\* Every variable keeps its type, for any number of starts and stops.
THEOREM TypeCorrect == Spec => []TypeOK
<1>1. Inv => TypeOK
  BY DEF Inv
<1> QED
  BY Invariance, <1>1, PTL

\* Whatever the manager holds, a start under way, a running session timer or
\* a teardown will release: with any number of racing starts, stops and
\* callbacks, and also inside transitionState.
THEOREM EveryStreamHasAnEnd == Spec => []StreamHasAnEnd
<1>1. Inv => StreamHasAnEnd
  BY DEF Inv
<1> QED
  BY Invariance, <1>1, PTL

-----------------------------------------------------------------------------
\* Whatever the player views do, the manager they share behaves as specified:
\* a step of a view is a call of startStream or stopStream, or not the
\* manager's business.
THEOREM PlayersUseTheManager == PlayerSpec => Spec
<1>1. PlayerInit => Init
  BY DEF PlayerInit
<1>2. [PlayerNext]_allVars => [Next]_vars
  <2> SUFFICES ASSUME PlayerNext PROVE [Next]_vars
    BY DEF allVars
  <2>1. ASSUME NEW v \in Views, Appear(v) \/ Retry(v) PROVE Next
    <3>1. PICK s \in Starts : start[s] = "idle"
      BY <2>1 DEF Appear, Retry, requestStream
    <3>2. NextStart \in Starts /\ StartGuard(NextStart)
      BY <2>1, <3>1 DEF Appear, Retry, requestStream, NextStart, NextOf
    <3> QED BY <3>2 DEF Next
  <2>2. ASSUME NEW v \in Views, Resume(v) \/ Disappear(v) PROVE UNCHANGED vars
    BY <2>2 DEF Resume, Disappear
  <2>3. ASSUME NEW v \in Views, StopTask(v) PROVE Next
    BY <2>3 DEF StopTask, Next, Views
  <2>4. ManagerStep => Next
    BY DEF ManagerStep, Next
  <2> QED BY <2>1, <2>2, <2>3, <2>4 DEF PlayerNext
<1> QED BY <1>1, <1>2, PTL DEF PlayerSpec, Spec

\* The types of the views and their view models, for any number of them.
THEOREM PlayerTypeCorrect == PlayerSpec => []PlayerTypeOK
<1> DEFINE Own == /\ view \in [Views -> {"new", "shown", "gone"}]
                  /\ vm \in [Views -> {"idle", "loading", "loaded", "error"}]
                  /\ request \in [Views -> Starts \cup {None}]
<1>1. PlayerInit => Own
  BY DEF PlayerInit
<1>2. Own /\ [PlayerNext]_allVars => Own'
  <2> SUFFICES ASSUME Own, [PlayerNext]_allVars PROVE Own'
    OBVIOUS
  <2>1. ASSUME NEW v \in Views, requestStream(v)
        PROVE  /\ vm' \in [Views -> {"idle", "loading", "loaded", "error"}]
               /\ request' \in [Views -> Starts \cup {None}]
    <3>1. NextStart \in Starts
      BY <2>1 DEF requestStream, NextStart, NextOf
    <3> QED BY <2>1, <3>1 DEF requestStream
  <2>2. ASSUME NEW v \in Views, Appear(v) PROVE Own'
    BY <2>1, <2>2 DEF Appear
  <2>3. ASSUME NEW v \in Views, Retry(v) PROVE Own'
    BY <2>1, <2>3 DEF Retry
  <2>4. ASSUME NEW v \in Views, Resume(v) PROVE Own'
    BY <2>4 DEF Resume
  <2>5. ASSUME NEW v \in Views, Disappear(v) PROVE Own'
    BY <2>5 DEF Disappear
  <2>6. ASSUME NEW v \in Views, StopTask(v) PROVE Own'
    BY <2>6 DEF StopTask, playerVars
  <2>7. CASE ManagerStep
    BY <2>7 DEF ManagerStep, playerVars
  <2>8. CASE UNCHANGED allVars
    BY <2>8 DEF allVars
  <2> QED BY <2>2, <2>3, <2>4, <2>5, <2>6, <2>7, <2>8 DEF PlayerNext
<1>3. TypeOK /\ Own => PlayerTypeOK
  BY DEF PlayerTypeOK
<1> QED
  BY <1>1, <1>2, <1>3, PlayersUseTheManager, TypeCorrect, PTL DEF PlayerSpec

\* Whatever the views start has an end, also with any number of views.
THEOREM PlayersStreamsEnd == PlayerSpec => []StreamHasAnEnd
  BY PlayersUseTheManager, EveryStreamHasAnEnd, PTL

-----------------------------------------------------------------------------
(***************************************************************************)
(* The session timers.                                                     *)
(***************************************************************************)
\* Only the timer that the manager refers to can still fire: a timer of an
\* earlier session is always cancelled before it is forgotten.
OneTimerSleeps == \A s \in Starts : timerTask[s] = "sleeping" => timer = s

\* A started call whose peer connection is the current one keeps a timer, or a
\* stopStream is on its way to release that peer connection.
StartedIsTimed ==
  peer # None /\ start[peer] = "started" =>
    timer # None \/ \E t \in StopTasks : task[t] \in {"begin", "deleting", "skipped"}

Timed == OneTimerSleeps /\ StartedIsTimed

\* Every step keeps Timed.
LEMMA StepTimed == Inv /\ Timed /\ [Next]_vars => Timed'
<1> SUFFICES ASSUME Inv, Timed, [Next]_vars
             PROVE  Timed'
  OBVIOUS
<1> USE NoneAssumption DEF Inv, TypeOK, Timed, OneTimerSleeps, StartedIsTimed
<1>1. ASSUME NEW s \in Starts, StartGuard(s) \/ Start(s)
      PROVE  Timed'
  <2>1. CASE StartGuard(s) \/ StartConnecting(s)
    BY <1>1, <2>1 DEF StartGuard, StartConnecting
  <2>2. CASE StartToken(s) \/ StartOffer(s) \/ StartWhep(s) \/ StartRemote(s)
    BY <1>1, <2>2 DEF StartToken, StartOffer, StartWhep, StartRemote
  <2>3. CASE StartTimers(s)
    BY <2>3 DEF StartTimers
  <2>4. CASE StartThrows(s)
    <3>1. \A t \in StopTasks : t # <<"catch", s>>
      BY DEF StopTasks
    <3>2. \A t \in StopTasks : task'[t] = task[t]
      BY <2>4, <3>1 DEF StartThrows, Tasks
    <3> QED BY <2>4, <3>2 DEF StartThrows
  <2> QED BY <1>1, <2>1, <2>2, <2>3, <2>4 DEF Start
<1>2. ASSUME NEW u \in Stops, UserStop(u)
      PROVE  Timed'
  <2>1. <<"stop", u>> \in StopTasks /\ <<"stop", u>> \in Tasks
    BY DEF StopTasks, Tasks
  <2> QED BY <1>2, <2>1 DEF UserStop, CancelTimer
<1>3. ASSUME NEW s \in Starts, TimerFires(s)
      PROVE  Timed'
  <2>1. <<"timer", s>> \in StopTasks /\ <<"timer", s>> \in Tasks
    BY DEF StopTasks, Tasks
  <2> QED BY <1>3, <2>1 DEF TimerFires, CancelTimer
<1>4. ASSUME NEW s \in Starts, TimeoutFires(s) \/ Ice(s) \/ TrackAssigned(s)
      PROVE  Timed'
  <2>1. \A t \in StopTasks : t # <<"timeout", s>> /\ t # <<"ice", s>>
    BY DEF StopTasks
  <2>2. \A t \in StopTasks : task'[t] = task[t]
    BY <1>4, <2>1 DEF TimeoutFires, Ice, IceConnected, IceFailed, IceDisconnected,
                      TrackArrives, TrackAssigned, Tasks
  <2> QED BY <1>4, <2>2 DEF TimeoutFires, Ice, IceConnected, IceFailed, IceDisconnected,
                            TrackArrives, TrackAssigned
<1>5. ASSUME NEW t \in Tasks, Teardown(t)
      PROVE  Timed'
  <2>1. CASE TeardownDeletes(t) \/ TeardownSkips(t)
    <3>1. UNCHANGED <<peer, start, timer, timerTask>>
      BY <2>1 DEF TeardownDeletes, TeardownSkips
    <3>2. \A x \in StopTasks : task[x] \in {"begin", "deleting", "skipped"} =>
                               task'[x] \in {"begin", "deleting", "skipped"}
      BY <2>1 DEF TeardownDeletes, TeardownSkips, Tasks
    <3> QED BY <3>1, <3>2
  <2>2. CASE Release(t)
    BY <2>2 DEF Release
  <2>3. CASE Settle(t)
    BY <2>3 DEF Settle
  <2> QED BY <1>5, <2>1, <2>2, <2>3 DEF Teardown
<1>6. ASSUME NEW w \in writing, Store(w)
      PROVE  Timed'
  BY <1>6 DEF Store
<1>7. CASE UNCHANGED vars
  BY <1>7 DEF vars
<1> QED
  BY <1>1, <1>2, <1>3, <1>4, <1>5, <1>6, <1>7 DEF Next, Inside

\* At most one session timer is running, whatever starts overlap, and a stream
\* that startStream has set up is never left without one.
THEOREM OneTimerPerStream == Spec => []Timed
<1>1. Init => Timed
  BY DEF Init, Timed, OneTimerSleeps, StartedIsTimed
<1> QED
  BY <1>1, StepTimed, Invariance, PTL DEF Spec

-----------------------------------------------------------------------------
(***************************************************************************)
(* The safety content of ConnectingEnds.                                   *)
(***************************************************************************)
\* A startStream call that has not yet armed its connection timeout.
Under(s) == start[s] \in {"token", "offer", "whep", "remote", "applied"}

\* A late store of "connecting" belongs to a start that waits for it.
LateConnecting ==
  \A w \in writing : w[2] = "connecting" =>
    \E s \in Starts : w[1] = <<"start", s>> /\ start[s] = "token"

\* While the manager is connecting, a call under way, an armed connection
\* timeout or a transition already decided will take it out of that state.
ConnectingHasAnEnd ==
  state = "connecting" =>
    \/ \E s \in Starts : Under(s) \/ timeout[s] = "sleeping"
    \/ \E w \in writing : w[2] # "connecting"

\* What transitionState(to:) does when it is not to "connecting": the state is
\* left alone, or it or a late store becomes that state.
LEMMA TransitionElsewhere ==
  ASSUME NEW t, NEW to, to # "connecting", transitionState(t, to)
  PROVE  /\ writing \subseteq writing' /\ writing' \subseteq writing \cup {<<t, to>>}
         /\ state' = "connecting" => state = "connecting"
BY DEF transitionState

\* A failure met while connecting ends that state, at once or by a late store.
LEMMA FailureEndsConnecting ==
  ASSUME NEW t, state = "connecting", transitionState(t, "failed")
  PROVE  state' = "failed" \/ \E w \in writing' : w[2] = "failed"
<1>1. state' = "failed" \/ <<t, "failed">> \in writing'
  BY DEF transitionState, canTransition, Valid
<1>2. <<t, "failed">>[2] = "failed"
  OBVIOUS
<1> QED BY <1>1, <1>2

\* Every step keeps the two.
LEMMA StepConnecting ==
  Inv /\ LateConnecting /\ ConnectingHasAnEnd /\ [Next]_vars
    => LateConnecting' /\ ConnectingHasAnEnd'
<1> SUFFICES ASSUME Inv, LateConnecting, ConnectingHasAnEnd, [Next]_vars
             PROVE  LateConnecting' /\ ConnectingHasAnEnd'
  OBVIOUS
<1> USE DEF Inv, TypeOK, LateConnecting, ConnectingHasAnEnd, Under
<1>1. ASSUME NEW s \in Starts, StartGuard(s) \/ StartOffer(s) \/ StartWhep(s) \/ StartRemote(s)
      PROVE  LateConnecting' /\ ConnectingHasAnEnd'
  BY <1>1 DEF StartGuard, StartOffer, StartWhep, StartRemote
<1>2. ASSUME NEW s \in Starts, StartConnecting(s)
      PROVE  LateConnecting' /\ ConnectingHasAnEnd'
  <2>1. start' = [start EXCEPT ![s] = "token"] /\ start[s] = "guarded"
    BY <1>2 DEF StartConnecting
  <2>2. writing' \subseteq writing \cup {<<<<"start", s>>, "connecting">>}
    BY <1>2 DEF StartConnecting, transitionState
  <2> QED BY <2>1, <2>2
<1>3. ASSUME NEW s \in Starts, StartToken(s)
      PROVE  LateConnecting' /\ ConnectingHasAnEnd'
  <2>1. \A w \in writing : w[1] # <<"start", s>>
    BY <1>3 DEF StartToken, Free
  <2>2. \A r \in Starts : r # s => start'[r] = start[r]
    BY <1>3 DEF StartToken
  <2>3. start'[s] = "offer" /\ UNCHANGED <<state, writing, timeout>>
    BY <1>3 DEF StartToken
  <2> QED BY <2>1, <2>2, <2>3
<1>4. ASSUME NEW s \in Starts, StartTimers(s)
      PROVE  LateConnecting' /\ ConnectingHasAnEnd'
  BY <1>4 DEF StartTimers
<1>5. ASSUME NEW s \in Starts, StartThrows(s)
      PROVE  LateConnecting' /\ ConnectingHasAnEnd'
  <2>1. /\ \A w \in writing : w[1] # <<"start", s>>
        /\ start' = [start EXCEPT ![s] = "error"]
        /\ transitionState(<<"catch", s>>, "failed") /\ timeout' = timeout
    BY <1>5 DEF StartThrows, Free
  <2>2. LateConnecting'
    BY <2>1, TransitionElsewhere
  <2>3. ConnectingHasAnEnd'
    <3>1. CASE state = "connecting"
      BY <2>1, <3>1, FailureEndsConnecting
    <3>2. CASE state # "connecting"
      BY <2>1, <3>2, TransitionElsewhere
    <3> QED BY <3>1, <3>2
  <2> QED BY <2>2, <2>3
<1>6. ASSUME NEW s \in Starts, TimeoutFires(s)
      PROVE  LateConnecting' /\ ConnectingHasAnEnd'
  <2>1. CASE state = "connecting"
    <3>1. transitionState(<<"timeout", s>>, "failed") /\ start' = start
      BY <1>6, <2>1 DEF TimeoutFires
    <3>2. LateConnecting'
      BY <3>1, TransitionElsewhere
    <3>3. ConnectingHasAnEnd'
      BY <2>1, <3>1, FailureEndsConnecting
    <3> QED BY <3>2, <3>3
  <2>2. CASE state # "connecting"
    BY <1>6, <2>2 DEF TimeoutFires
  <2> QED BY <2>1, <2>2
<1>7. ASSUME NEW s \in Starts, IceConnected(s) \/ IceFailed(s) \/ IceDisconnected(s)
      PROVE  LateConnecting' /\ ConnectingHasAnEnd'
  <2>1. /\ UNCHANGED <<start, timeout>>
        /\ \E to \in {"connected", "failed", "disconnected"} : transitionState(<<"ice", s>>, to)
    BY <1>7 DEF IceConnected, IceFailed, IceDisconnected
  <2>2. /\ writing \subseteq writing'
        /\ \A w \in writing' : w \in writing \/ w[2] # "connecting"
        /\ state' = "connecting" => state = "connecting"
    BY <2>1, TransitionElsewhere
  <2> QED BY <2>1, <2>2
<1>8. ASSUME NEW t \in Tasks, Settle(t)
      PROVE  LateConnecting' /\ ConnectingHasAnEnd'
  <2>1. UNCHANGED <<start, timeout>> /\ transitionState(t, "disconnected")
    BY <1>8 DEF Settle
  <2>2. /\ writing \subseteq writing'
        /\ \A w \in writing' : w \in writing \/ w[2] # "connecting"
        /\ state' = "connecting" => state = "connecting"
    BY <2>1, TransitionElsewhere
  <2> QED BY <2>1, <2>2
<1>9. ASSUME NEW t \in Tasks, TeardownDeletes(t) \/ TeardownSkips(t) \/ Release(t)
      PROVE  LateConnecting' /\ ConnectingHasAnEnd'
  BY <1>9 DEF TeardownDeletes, TeardownSkips, Release
<1>10. ASSUME NEW w \in writing, Store(w)
       PROVE  LateConnecting' /\ ConnectingHasAnEnd'
  <2>1. UNCHANGED <<start, timeout>> /\ state' = w[2] /\ writing' = writing \ {w}
    BY <1>10 DEF Store
  <2>2. CASE w[2] = "connecting"
    BY <2>1, <2>2
  <2>3. CASE w[2] # "connecting"
    BY <2>1, <2>3
  <2> QED BY <2>2, <2>3
<1>11. ASSUME NEW s \in Starts, TimerFires(s) \/ TrackArrives(s) \/ TrackAssigned(s)
       PROVE  LateConnecting' /\ ConnectingHasAnEnd'
  BY <1>11 DEF TimerFires, TrackArrives, TrackAssigned
<1>12. ASSUME NEW u \in Stops, UserStop(u)
       PROVE  LateConnecting' /\ ConnectingHasAnEnd'
  BY <1>12 DEF UserStop
<1>13. CASE UNCHANGED vars
  BY <1>13 DEF vars
<1> QED
  BY <1>1, <1>2, <1>3, <1>4, <1>5, <1>6, <1>7, <1>8, <1>9, <1>10, <1>11, <1>12, <1>13
  DEF Next, Inside, Start, Ice, Teardown

\* The manager is never stranded in "connecting", also if another thread runs
\* between the check and the store of transitionState: something that will end
\* that state is always pending.
THEOREM ConnectingIsTransient == Spec => []ConnectingHasAnEnd
<1>1. Init => LateConnecting /\ ConnectingHasAnEnd
  BY DEF Init, LateConnecting, ConnectingHasAnEnd
<1> QED
  BY <1>1, StepConnecting, Invariance, PTL DEF Spec

-----------------------------------------------------------------------------
(***************************************************************************)
(* The safety content of StopUnblocks.                                     *)
(***************************************************************************)
\* stopStream t has not come to its last statement, or is about to store.
Due(t) ==
  \/ task[t] \in {"begin", "deleting", "skipped", "settle"}
  \/ <<t, "disconnected">> \in writing

\* A stopStream that meets "connected" or "failed" stays due until one of the
\* two is left: no other stop, cleanup, callback or late store makes it end
\* without effect.
StopStaysDue == [][\A t \in StopTasks : Due(t) /\ Blocked => Due(t)' \/ ~ Blocked']_vars

\* With any number of starts and stops, and with other threads inside
\* transitionState, no stopStream is lost on a connected or failed manager.
THEOREM NoStopIsLost == Spec => StopStaysDue
<1>1. Inv /\ [Next]_vars
      => [\A t \in StopTasks : Due(t) /\ Blocked => Due(t)' \/ ~ Blocked']_vars
  <2> SUFFICES ASSUME Inv, [Next]_vars, NEW t \in StopTasks, Due(t), Blocked
               PROVE  Due(t)' \/ ~ Blocked'
    OBVIOUS
  <2> USE DEF Inv, TypeOK, Due, Blocked
  <2>0. t \in Tasks
    BY DEF Tasks
  <2>1. ASSUME NEW x, NEW to, transitionState(x, to)
        PROVE  writing \subseteq writing'
    BY <2>1 DEF transitionState
  <2>2. ASSUME NEW s \in Starts, StartGuard(s) \/ Start(s)
        PROVE  Due(t)'
    <3>1. task'[t] = task[t]
      <4>1. t # <<"catch", s>>
        BY DEF StopTasks
      <4> QED BY <2>0, <2>2, <4>1
              DEF StartGuard, Start, StartConnecting, StartToken, StartOffer, StartWhep,
                  StartRemote, StartTimers, StartThrows
    <3>2. writing \subseteq writing'
      BY <2>1, <2>2 DEF StartGuard, Start, StartConnecting, StartToken, StartOffer, StartWhep,
                        StartRemote, StartTimers, StartThrows
    <3> QED BY <3>1, <3>2
  <2>3. ASSUME NEW u \in Stops, UserStop(u)
        PROVE  Due(t)'
    BY <2>0, <2>3 DEF UserStop
  <2>4. ASSUME NEW s \in Starts, TimerFires(s)
        PROVE  Due(t)'
    BY <2>0, <2>4 DEF TimerFires
  <2>5. ASSUME NEW s \in Starts, TimeoutFires(s) \/ Ice(s) \/ TrackAssigned(s)
        PROVE  Due(t)'
    <3>1. task'[t] = task[t]
      <4>1. t # <<"timeout", s>> /\ t # <<"ice", s>>
        BY DEF StopTasks
      <4> QED BY <2>0, <2>5, <4>1 DEF TimeoutFires, Ice, IceConnected, IceFailed,
                                      IceDisconnected, TrackArrives, TrackAssigned
    <3>2. writing \subseteq writing'
      BY <2>1, <2>5 DEF TimeoutFires, Ice, IceConnected, IceFailed, IceDisconnected,
                        TrackArrives, TrackAssigned
    <3> QED BY <3>1, <3>2
  <2>6. ASSUME NEW x \in Tasks, TeardownDeletes(x) \/ TeardownSkips(x) \/ Release(x)
        PROVE  Due(t)'
    BY <2>0, <2>6 DEF TeardownDeletes, TeardownSkips, Release
  <2>7. ASSUME NEW x \in Tasks, Settle(x)
        PROVE  Due(t)' \/ ~ Blocked'
    <3>1. state' = "disconnected" \/ <<x, "disconnected">> \in writing'
      BY <2>7 DEF Settle, transitionState, canTransition, Valid
    <3>2. x # t => task'[t] = task[t]
      BY <2>0, <2>7 DEF Settle
    <3>3. writing \subseteq writing'
      BY <2>1, <2>7 DEF Settle
    <3> QED BY <3>1, <3>2, <3>3
  <2>8. ASSUME NEW w \in writing, Store(w)
        PROVE  Due(t)' \/ ~ Blocked'
    <3>1. state' = w[2] /\ writing' = writing \ {w} /\ task' = task
      BY <2>8 DEF Store
    <3>2. CASE w = <<t, "disconnected">>
      BY <3>1, <3>2
    <3>3. CASE w # <<t, "disconnected">>
      BY <3>1, <3>3
    <3> QED BY <3>2, <3>3
  <2>9. CASE UNCHANGED vars
    BY <2>9 DEF vars
  <2> QED
    BY <2>2, <2>3, <2>4, <2>5, <2>6, <2>7, <2>8, <2>9 DEF Next, Inside, Teardown
<1> QED
  BY <1>1, Invariance, PTL DEF Spec, StopStaysDue

-----------------------------------------------------------------------------
(***************************************************************************)
(* The safety content of SpinnerEnds.                                      *)
(***************************************************************************)
\* A view model that loads awaits a startStream call that has been entered, and
\* no other view model awaits the same call.
SpinnerAwaits ==
  \A v \in Views : vm[v] = "loading" =>
    /\ request[v] \in Starts /\ start[request[v]] # "idle"
    /\ \A w \in Views : vm[w] = "loading" /\ request[w] = request[v] => w = v

\* cleanupResources ends by returning to its caller, the catch clause of
\* startStream included: it never settles the state the way stopStream does.
CleanupsReturn == \A t \in CleanupTasks : task[t] \notin {"settle", "done"}

\* A step of the manager does not undo the entry of a startStream call, and
\* keeps the cleanups returning.
LEMMA ManagerKeepsCalls ==
  ASSUME Inv, CleanupsReturn, [Next]_vars
  PROVE  /\ \A s \in Starts : start[s] # "idle" => start'[s] # "idle"
         /\ CleanupsReturn'
<1> USE DEF Inv, TypeOK, CleanupsReturn
<1>1. ASSUME NEW s \in Starts,
             StartGuard(s) \/ Start(s) \/ TimerFires(s) \/ TimeoutFires(s) \/ Ice(s)
               \/ TrackAssigned(s)
      PROVE  /\ \A r \in Starts : start[r] # "idle" => start'[r] # "idle"
             /\ CleanupsReturn'
  BY <1>1 DEF StartGuard, Start, StartConnecting, StartToken, StartOffer, StartWhep, StartRemote,
              StartTimers, StartThrows, TimerFires, TimeoutFires, Ice, IceConnected, IceFailed,
              IceDisconnected, TrackArrives, TrackAssigned, Tasks
<1>2. ASSUME NEW u \in Stops, UserStop(u)
      PROVE  start' = start /\ CleanupsReturn'
  BY <1>2 DEF UserStop, Tasks
<1>3. ASSUME NEW t \in Tasks, Teardown(t)
      PROVE  start' = start /\ CleanupsReturn'
  <2>1. t \in CleanupTasks => t \notin StopTasks
    BY DEF CleanupTasks, StopTasks
  <2>2. t \in CleanupTasks => task[t] # "settle"
    OBVIOUS
  <2> QED
    BY <1>3, <2>1, <2>2 DEF Teardown, TeardownDeletes, TeardownSkips, Release, Settle, Tasks
<1>4. ASSUME NEW w \in writing, Store(w)
      PROVE  start' = start /\ CleanupsReturn'
  BY <1>4 DEF Store
<1>5. CASE UNCHANGED vars
  BY <1>5 DEF vars
<1> QED
  BY <1>1, <1>2, <1>3, <1>4, <1>5 DEF Next, Inside

\* Whoever stops whose stream, and however many views share the manager, a
\* spinner waits for a call that was really made, that is its own and whose
\* failure comes back to it.
THEOREM SpinnersAwaitCalls == PlayerSpec => [](SpinnerAwaits /\ CleanupsReturn)
<1> DEFINE Awaits == SpinnerAwaits /\ CleanupsReturn
<1>1. PlayerInit => Awaits
  BY DEF PlayerInit, Init, SpinnerAwaits, CleanupsReturn, Tasks
<1>2. PlayerTypeOK /\ Inv /\ Awaits /\ [PlayerNext]_allVars /\ [Next]_vars => Awaits'
  <2> SUFFICES ASSUME PlayerTypeOK, Inv, SpinnerAwaits, CleanupsReturn,
                      [PlayerNext]_allVars, [Next]_vars
               PROVE  Awaits'
    OBVIOUS
  <2>1. CleanupsReturn' /\ \A s \in Starts : start[s] # "idle" => start'[s] # "idle"
    BY ManagerKeepsCalls
  <2>2. ASSUME NEW v \in Views, requestStream(v)
        PROVE  SpinnerAwaits'
    <3>1. NextStart \in Starts /\ start[NextStart] = "idle"
      BY <2>2 DEF requestStream, NextStart, NextOf
    <3>2. start'[NextStart] # "idle"
      BY <2>2, <3>1 DEF requestStream, StartGuard, Inv, TypeOK
    <3>3. /\ vm' = [vm EXCEPT ![v] = "loading"]
          /\ request' = [request EXCEPT ![v] = NextStart]
      BY <2>2 DEF requestStream
    <3>4. \A w \in Views \ {v} : vm[w] = "loading" => request[w] # NextStart
      BY <3>1 DEF SpinnerAwaits
    <3> QED BY <2>1, <3>1, <3>2, <3>3, <3>4 DEF SpinnerAwaits, PlayerTypeOK
  <2>3. ASSUME NEW v \in Views, Resume(v)
        PROVE  SpinnerAwaits'
    BY <2>1, <2>3 DEF Resume, SpinnerAwaits, PlayerTypeOK
  <2>4. CASE UNCHANGED <<vm, request>>
    BY <2>1, <2>4 DEF SpinnerAwaits
  <2> QED
    BY <2>1, <2>2, <2>3, <2>4
    DEF PlayerNext, Appear, Retry, Disappear, StopTask, ManagerStep, playerVars, allVars
<1> QED
  BY <1>1, <1>2, PlayersUseTheManager, Invariance, PlayerTypeCorrect, PTL DEF PlayerSpec, Spec

\* What the manager promises on its own it also promises to any number of
\* views: nothing that they start connects for ever, and the stop of a view
\* that leaves is not lost on a manager that is connected or failed.
THEOREM PlayersConnectionsEnd ==
  PlayerSpec => []ConnectingHasAnEnd /\ StopStaysDue
BY PlayersUseTheManager, ConnectingIsTransient, NoStopIsLost, PTL
=============================================================================
