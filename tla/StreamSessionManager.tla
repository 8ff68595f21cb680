------------------------ MODULE StreamSessionManager ------------------------
(***************************************************************************)
(* Live playback in the tvOS app (StreamSessionManager.swift): one manager *)
(* shared by every PlayerViewModel, driven by startStream and stopStream   *)
(* calls, by the session timer and connection timeout tasks it spawns and  *)
(* by the callbacks of WebRTC's signaling threads.                         *)
(*                                                                         *)
(* Nothing serialises them: the class is nonisolated and has no lock.  An  *)
(* action is what a task does from one await to the next, except that the  *)
(* guard of startStream, and (if RacyTransitions) the check and the store  *)
(* of transitionState, are steps of their own.  Peer connection, WHEP      *)
(* session, track, timer and timeout that a startStream call brings about  *)
(* are named by that call.                                                 *)
(***************************************************************************)
EXTENDS Naturals

CONSTANTS
  Starts,           \* startStream calls
  Stops,            \* stopStream calls of the user
  None,             \* nil
  RacyTransitions,  \* may another thread run inside transitionState
  Faults,           \* may tokens, offers and HTTP requests fail
  Video             \* does the camera send a video track

ASSUME NoneAssumption == None \notin Starts
ASSUME SwitchAssumption == {RacyTransitions, Faults, Video} \subseteq BOOLEAN

VARIABLES
  state,      \* connectionState
  peer,       \* self.peerConnection
  url,        \* self.sessionURL
  track,      \* self.videoTrack
  timer,      \* self.sessionTimer
  start,      \* where each startStream call is
  timerTask,  \* the session timer of each call
  timeout,    \* the connection timeout of each call
  task,       \* where each stopStream or cleanupResources execution is
  writing,    \* transitions checked and not yet stored
  closed,     \* peer connections that close() was called on
  queued      \* tracks in a block on the main queue

media == <<closed, queued, track>>
alarms == <<timer, timerTask, timeout>>
vars == <<state, peer, url, start, alarms, task, writing, media>>

\* Executions of stopStream ("stop", "timer") and of cleanupResources (from
\* the catch clause, the timeout and the ICE failure callback).
StopTasks == ({"stop"} \X Stops) \cup ({"timer"} \X Starts)
CleanupTasks == {"catch", "timeout", "ice"} \X Starts
Tasks == StopTasks \cup CleanupTasks
Threads == Tasks \cup ({"start"} \X Starts)

States == {"disconnected", "connecting", "connected", "failed"}

TypeOK ==
  /\ state \in States
  /\ peer \in Starts \cup {None}
  /\ url \in Starts \cup {None}
  /\ track \in Starts \cup {None}
  /\ timer \in Starts \cup {None}
  /\ start \in [Starts -> {"idle", "guarded", "token", "offer", "whep", "remote",
                           "applied", "started", "error", "ignored"}]
  /\ timerTask \in [Starts -> {"none", "sleeping", "cancelled"}]
  /\ timeout \in [Starts -> {"none", "sleeping"}]
  /\ task \in [Tasks -> {"idle", "begin", "deleting", "skipped", "settle", "done"}]
  /\ writing \subseteq Threads \X States
  /\ closed \subseteq Starts
  /\ queued \subseteq Starts

Init ==
  /\ state = "disconnected"
  /\ peer = None /\ url = None /\ track = None /\ timer = None
  /\ start = [s \in Starts |-> "idle"]
  /\ timerTask = [s \in Starts |-> "none"]
  /\ timeout = [s \in Starts |-> "none"]
  /\ task = [t \in Tasks |-> "idle"]
  /\ writing = {} /\ closed = {} /\ queued = {}

-----------------------------------------------------------------------------
(***************************************************************************)
(* transitionState(to:): store the new state if canTransition allows it,   *)
(* at once or, when racy, some time after the check.                       *)
(***************************************************************************)
Valid == {<<"disconnected", "connecting">>, <<"connecting", "connected">>,
          <<"connecting", "failed">>, <<"connected", "disconnected">>,
          <<"failed", "disconnected">>}

canTransition(from, to) == <<from, to>> \in Valid

transitionState(t, to) ==
  \/ ~ canTransition(state, to) /\ UNCHANGED <<state, writing>>
  \/ /\ canTransition(state, to)
     /\ IF RacyTransitions
          THEN writing' = writing \cup {<<t, to>>} /\ UNCHANGED state
          ELSE state' = to /\ UNCHANGED writing

Store(w) ==
  /\ w \in writing
  /\ state' = w[2]
  /\ writing' = writing \ {w}
  /\ UNCHANGED <<peer, url, start, alarms, task, media>>

\* Thread t is not in the middle of transitionState.
Free(t) == \A w \in writing : w[1] # t

-----------------------------------------------------------------------------
(***************************************************************************)
(* startStream                                                             *)
(***************************************************************************)
\* guard connectionState == .disconnected else { return }
StartGuard(s) ==
  /\ start[s] = "idle"
  /\ start' = [start EXCEPT ![s] = IF state = "disconnected" THEN "guarded" ELSE "ignored"]
  /\ UNCHANGED <<state, peer, url, alarms, task, writing, media>>

StartConnecting(s) ==
  /\ start[s] = "guarded"
  /\ transitionState(<<"start", s>>, "connecting")
  /\ start' = [start EXCEPT ![s] = "token"]
  /\ UNCHANGED <<peer, url, alarms, task, media>>

\* The token is there: makePeerConnection, then the offer is awaited.
StartToken(s) ==
  /\ start[s] = "token" /\ Free(<<"start", s>>)
  /\ peer' = s
  /\ start' = [start EXCEPT ![s] = "offer"]
  /\ UNCHANGED <<state, url, alarms, task, writing, media>>

\* The offer is there (a closed peer connection makes none): POST it.
StartOffer(s) ==
  /\ start[s] = "offer" /\ s \notin closed
  /\ start' = [start EXCEPT ![s] = "whep"]
  /\ UNCHANGED <<state, peer, url, alarms, task, writing, media>>

\* 201: remember the session URL, apply the answer.
StartWhep(s) ==
  /\ start[s] = "whep"
  /\ url' = s
  /\ start' = [start EXCEPT ![s] = "remote"]
  /\ UNCHANGED <<state, peer, alarms, task, writing, media>>

\* setRemoteDescription applies the answer: ICE can begin, and the call is
\* about to resume.
StartRemote(s) ==
  /\ start[s] = "remote" /\ s \notin closed
  /\ start' = [start EXCEPT ![s] = "applied"]
  /\ UNCHANGED <<state, peer, url, alarms, task, writing, media>>

StartTimersNoTimer(s) ==
  /\ start[s] = "applied"
  /\ timeout' = [timeout EXCEPT ![s] = "sleeping"]
  /\ start' = [start EXCEPT ![s] = "started"]
  /\ UNCHANGED <<state, peer, url, timer, timerTask, task, writing, media>>

StartTimersNoTimeout(s) ==
  /\ start[s] = "applied"
  /\ timerTask' = [r \in Starts |-> IF r = s THEN "sleeping"
                                    ELSE IF r = timer THEN "cancelled" ELSE timerTask[r]]
  /\ timer' = s
  /\ start' = [start EXCEPT ![s] = "started"]
  /\ UNCHANGED <<state, peer, url, timeout, task, writing, media>>

\* startSessionTimer (which cancels the timer of an earlier session),
\* startConnectionTimeout, return.
StartTimers(s) ==
  /\ start[s] = "applied"
  /\ timerTask' = [r \in Starts |-> IF r = s THEN "sleeping"
                                    ELSE IF r = timer THEN "cancelled" ELSE timerTask[r]]
  /\ timer' = s
  /\ timeout' = [timeout EXCEPT ![s] = "sleeping"]
  /\ start' = [start EXCEPT ![s] = "started"]
  /\ UNCHANGED <<state, peer, url, task, writing, media>>

\* Any of these throws: failed, cleanupResources, rethrow.
StartThrows(s) ==
  /\ start[s] \in {"token", "offer", "whep", "remote"} /\ Free(<<"start", s>>)
  /\ Faults \/ s \in closed
  /\ transitionState(<<"catch", s>>, "failed")
  /\ task' = [task EXCEPT ![<<"catch", s>>] = "begin"]
  /\ start' = [start EXCEPT ![s] = "error"]
  /\ UNCHANGED <<peer, url, alarms, media>>

-----------------------------------------------------------------------------
(***************************************************************************)
(* stopStream and cleanupResources                                         *)
(***************************************************************************)
\* sessionTimer?.cancel(); sessionTimer = nil
CancelTimer ==
  /\ timerTask' = [s \in Starts |-> IF s = timer THEN "cancelled" ELSE timerTask[s]]
  /\ timer' = None

UserStop(u) ==
  /\ task[<<"stop", u>>] = "idle"
  /\ CancelTimer
  /\ task' = [task EXCEPT ![<<"stop", u>>] = "begin"]
  /\ UNCHANGED <<state, peer, url, start, timeout, writing, media>>

\* The session timer expires and calls stopStream, which cancels the very
\* task it is running in.
TimerFires(s) ==
  /\ timerTask[s] = "sleeping"
  /\ CancelTimer
  /\ task' = [task EXCEPT ![<<"timer", s>>] = "begin"]
  /\ UNCHANGED <<state, peer, url, start, timeout, writing, media>>

\* The connection timeout expires, whatever session is connecting by then.
TimeoutFires(s) ==
  /\ timeout[s] = "sleeping"
  /\ timeout' = [timeout EXCEPT ![s] = "none"]
  /\ \/ /\ state = "connecting"
        /\ transitionState(<<"timeout", s>>, "failed")
        /\ task' = [task EXCEPT ![<<"timeout", s>>] = "begin"]
     \/ state # "connecting" /\ UNCHANGED <<state, writing, task>>
  /\ UNCHANGED <<peer, url, start, timer, timerTask, media>>

\* URLSession sends nothing on behalf of a cancelled task.
Sends(t) == t[1] = "timer" => timerTask[t[2]] # "cancelled"

\* if let url = sessionURL: ask for a token, send the DELETE and await the
\* answer, which may be an error.
TeardownDeletes(t) ==
  /\ task[t] = "begin" /\ Free(t)
  /\ url # None /\ Sends(t)
  /\ task' = [task EXCEPT ![t] = "deleting"]
  /\ UNCHANGED <<state, peer, url, start, alarms, writing, media>>

\* No session URL; or no token, or a cancelled task: the error is dropped.
TeardownSkips(t) ==
  /\ task[t] = "begin" /\ Free(t)
  /\ url = None \/ Faults \/ ~ Sends(t)
  /\ task' = [task EXCEPT ![t] = "skipped"]
  /\ UNCHANGED <<state, peer, url, start, alarms, writing, media>>

ReleaseClosingNil(t) ==
  /\ task[t] \in {"deleting", "skipped"}
  /\ track' = None /\ peer' = None /\ url' = None
  /\ closed' = closed \cup {peer}
  /\ state' = IF state = "connected" THEN "disconnected" ELSE state
  /\ task' = [task EXCEPT ![t] = IF t \in StopTasks THEN "settle" ELSE "idle"]
  /\ UNCHANGED <<start, alarms, writing, queued>>

\* releaseResources: drop the tracks and the session URL of whatever session
\* is current by now, close the peer connection.  close() reports .closed to
\* the delegate before it returns.
Release(t) ==
  /\ task[t] \in {"deleting", "skipped"}
  /\ track' = None /\ peer' = None /\ url' = None
  /\ closed' = closed \cup ({peer} \ {None})
  /\ state' = IF peer # None /\ state = "connected" THEN "disconnected" ELSE state
  /\ task' = [task EXCEPT ![t] = IF t \in StopTasks THEN "settle" ELSE "idle"]
  /\ UNCHANGED <<start, alarms, writing, queued>>

SettleIfConnected(t) ==
  /\ task[t] = "settle"
  /\ task' = [task EXCEPT ![t] = "done"]
  /\ IF state = "connected" THEN transitionState(t, "disconnected")
                             ELSE UNCHANGED <<state, writing>>
  /\ UNCHANGED <<peer, url, start, alarms, media>>

\* The end of stopStream: if connectionState != .disconnected ...
Settle(t) ==
  /\ task[t] = "settle"
  /\ task' = [task EXCEPT ![t] = "done"]
  /\ transitionState(t, "disconnected")
  /\ UNCHANGED <<peer, url, start, alarms, media>>

-----------------------------------------------------------------------------
(***************************************************************************)
(* The delegate callbacks of peer connection s.  Nothing compares s with   *)
(* self.peerConnection.                                                    *)
(***************************************************************************)
\* s is referenced, not closed, and has its descriptions.
Negotiated(s) ==
  /\ s \notin closed
  /\ start[s] = "applied" \/ (start[s] = "started" /\ peer = s)
  /\ Free(<<"ice", s>>)

IceConnected(s) ==
  /\ Negotiated(s)
  /\ transitionState(<<"ice", s>>, "connected")
  /\ UNCHANGED <<peer, url, start, alarms, task, media>>

\* One cleanup task per peer connection at a time.
IceFailed(s) ==
  /\ Negotiated(s) /\ task[<<"ice", s>>] = "idle"
  /\ transitionState(<<"ice", s>>, "failed")
  /\ task' = [task EXCEPT ![<<"ice", s>>] = "begin"]
  /\ UNCHANGED <<peer, url, start, alarms, media>>

IceDisconnected(s) ==
  /\ Negotiated(s) /\ state = "connected"
  /\ transitionState(<<"ice", s>>, "disconnected")
  /\ UNCHANGED <<peer, url, start, alarms, task, media>>

\* didAdd (receiver or stream): the track is handed to the main queue ...
TrackArrives(s) ==
  /\ Negotiated(s) /\ Video
  /\ queued' = queued \cup {s}
  /\ UNCHANGED <<state, peer, url, start, alarms, task, writing, closed, track>>

\* ... and assigned there; the block of didAdd(stream) keeps an earlier track.
TrackAssigned(s) ==
  /\ s \in queued
  /\ queued' = queued \ {s}
  /\ track' \in {s} \cup ({track} \ {None})
  /\ UNCHANGED <<state, peer, url, start, alarms, task, writing, closed>>

-----------------------------------------------------------------------------
Start(s) ==
  \/ StartConnecting(s) \/ StartToken(s) \/ StartOffer(s) \/ StartWhep(s)
  \/ StartRemote(s) \/ StartTimers(s) \/ StartThrows(s)

Teardown(t) ==
  TeardownDeletes(t) \/ TeardownSkips(t) \/ Release(t) \/ Settle(t)

Ice(s) == IceConnected(s) \/ IceFailed(s) \/ IceDisconnected(s) \/ TrackArrives(s)

\* What goes on in the manager once it has been called.
Inside ==
  \/ \E s \in Starts :
       Start(s) \/ TimerFires(s) \/ TimeoutFires(s) \/ Ice(s) \/ TrackAssigned(s)
  \/ \E t \in Tasks : Teardown(t)
  \/ \E w \in writing : Store(w)

Next ==
  \/ \E s \in Starts : StartGuard(s)
  \/ \E u \in Stops : UserStop(u)
  \/ Inside

Spec == Init /\ [][Next]_vars

(***************************************************************************)
(* Tasks that can run do run, sleeps end, and every await of startStream   *)
(* and of the teardown ends (URLSession requests have timeouts).  Nothing  *)
(* is assumed of the user or of WebRTC.                                    *)
(***************************************************************************)
Fairness ==
  /\ \A s \in Starts : WF_vars(Start(s)) /\ WF_vars(TimerFires(s)) /\ WF_vars(TimeoutFires(s))
  /\ \A t \in Tasks : WF_vars(Teardown(t))
  /\ \A w \in Threads \X States : WF_vars(Store(w))

FairSpec == Spec /\ Fairness

-----------------------------------------------------------------------------
\* Something that will release the current peer connection and session URL.
Ending ==
  \/ \E s \in Starts : start[s] \in {"offer", "whep", "remote", "applied"}
  \/ timer # None /\ timerTask[timer] = "sleeping"
  \/ \E t \in Tasks : task[t] \in {"begin", "deleting", "skipped"}

(***************************************************************************)
(* No stream plays on for ever: as long as the manager holds a peer        *)
(* connection or a session URL there is a start still under way, a running *)
(* session timer or a teardown that will release them, however starts,     *)
(* stops, timeouts and callbacks interleave.                               *)
(***************************************************************************)
StreamHasAnEnd == peer # None \/ url # None => Ending

(***************************************************************************)
(* The manager never stays in "connecting": after startStream either the   *)
(* call fails, ICE connects, or the connection timeout puts an end to it,  *)
(* also when the user stops or starts again meanwhile.                     *)
(***************************************************************************)
ConnectingEnds == state = "connecting" ~> state # "connecting"

\* Two states in which startStream does nothing and that can outlive their
\* stream.
Blocked == state \in {"connected", "failed"}

(***************************************************************************)
(* stopStream always gets the manager out of "connected" and "failed".     *)
(* Either state can outlive its stream: a timeout can fail a stream that   *)
(* was stopped while it was connecting, and a late store of "connected"    *)
(* can follow the end of an earlier stop.  The next stop ends it, whatever *)
(* is stored while that stop is under way.                                 *)
(***************************************************************************)
StopUnblocks ==
  \A u \in Stops : (task[<<"stop", u>>] = "begin" /\ Blocked) ~> ~ Blocked

(***************************************************************************)
(* Requirement 3.5: "WHEN the session duration timer expires [...]         *)
(* terminate the stream by sending an HTTP DELETE".                        *)
(***************************************************************************)
ExpiryDeletes ==
  \A s \in Starts :
    (task[<<"timer", s>>] = "begin" /\ url = s) ~> task[<<"timer", s>>] = "deleting"
=============================================================================
