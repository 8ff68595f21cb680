---------------------------- MODULE StreamBridge ----------------------------
(***************************************************************************)
(* Live-stream sessions of the unofficial adapter: the Python backend      *)
(* (UnofficialRingAdapter, StreamSessionMap, SipBridgeClient) and the Node *)
(* sidecar (ring-sip-bridge) that holds the Ring calls, two processes that *)
(* talk over HTTP and crash independently.                                 *)
(*                                                                         *)
(* The backend is one asyncio loop: an action is what one task does        *)
(* between two suspension points.  StreamSessionMap's lock is never held   *)
(* across one, so its methods are part of the actions that call them.  A   *)
(* request that timed out may still be handled later.  The session_id, the *)
(* bridge_session_id and the Ring call a create_stream_session call brings *)
(* about are all named by that call.                                       *)
(***************************************************************************)
EXTENDS Integers, FiniteSets

CONSTANTS
  Creates,         \* create_stream_session calls
  Deletes,         \* delete_stream_session calls
  Devices,
  MaxConcurrent,   \* RING_MAX_CONCURRENT_STREAMS
  MaxInFlight,     \* how many create calls the server has in progress at once
  SlowFactory,     \* does factory.start() suspend while it negotiates
  MaxCrashes       \* bound: crashes of the two processes together

ASSUME CreatesAssumption == IsFiniteSet(Creates)
ASSUME ConcurrencyAssumption ==
  MaxConcurrent \in Nat \ {0} /\ MaxInFlight \in Nat \ {0} /\ MaxCrashes \in Nat
ASSUME FactoryAssumption == SlowFactory \in BOOLEAN

VARIABLES
  process,    \* the backend: serving, in the lifespan's aclose(), or not running
  sessions,   \* StreamSessionMap._sessions
  create,     \* where each create_stream_session call is
  del,        \* where each delete_stream_session call is
  closing,    \* aclose(): sessions still to be stopped
  halting,    \* aclose(): the session whose stop() is awaited
  device,     \* input: the device_id of each create call
  target,     \* input: the session_id of each delete call
  posts,      \* POST /sessions requests on their way to the sidecar
  stops,      \* DELETE /sessions/{id} requests on their way to the sidecar
  stopped,    \* DELETE requests the sidecar has answered with 204
  entry,      \* the sidecar's sessions map, and its answer to each POST
  calls,      \* Ring calls that are up (outside both processes)
  faulted,    \* history: sessions for which a request failed or a process died
  crashes     \* crashes so far

inputs == <<device, target>>
aclosing == <<closing, halting>>
net == <<posts, stops, stopped>>
sidecar == <<entry, calls>>
history == <<faulted, crashes>>
vars == <<process, sessions, create, del, aclosing, inputs, net, sidecar, history>>

\* Who can issue a DELETE for a session: a create call whose WHEP leg failed,
\* a delete_stream_session call, or aclose().
Stoppers == {"cleanup", "aclose"} \cup Deletes
StopRequests == [by : Stoppers, id : Creates]

StopByWrongId(by, c) == [by |-> by, id |-> by]

Stop(by, c) == [by |-> by, id |-> c]

\* Between check_capacity and bind, and in progress at all.
Pending == {c \in Creates : create[c] \in {"token", "posted"}}
Running == {c \in Creates : create[c] \in {"token", "posted", "whep", "cleanup"}}

TypeOK ==
  /\ process \in {"up", "closing", "down"}
  /\ sessions \subseteq Creates
  /\ create \in [Creates -> {"idle", "token", "posted", "whep", "cleanup",
                             "open", "failed", "rejected", "dead"}]
  /\ del \in [Deletes -> {"idle", "stopping", "ok", "error", "unknown", "dead"}]
  /\ closing \subseteq Creates /\ halting \subseteq Creates
  /\ device \in [Creates -> Devices]
  /\ target \in [Deletes -> Creates]
  /\ posts \subseteq Creates
  /\ stops \subseteq StopRequests
  /\ stopped \subseteq StopRequests
  /\ entry \in [Creates -> {"none", "negotiating", "active", "terminated",
                            "gone", "busy", "failed"}]
  /\ calls \subseteq Creates
  /\ faulted \subseteq Creates
  /\ crashes \in 0..MaxCrashes

Init ==
  /\ process = "up"
  /\ sessions = {}
  /\ create = [c \in Creates |-> "idle"]
  /\ del = [x \in Deletes |-> "idle"]
  /\ closing = {} /\ halting = {}
  /\ device \in [Creates -> Devices]
  /\ target \in [Deletes -> Creates]
  /\ posts = {} /\ stops = {} /\ stopped = {}
  /\ entry = [c \in Creates |-> "none"]
  /\ calls = {}
  /\ faulted = {} /\ crashes = 0

-----------------------------------------------------------------------------
(***************************************************************************)
(* Requests to the sidecar.  A DELETE is answered, or it fails for the     *)
(* caller while the request is lost or still on its way.                   *)
(***************************************************************************)
StopAnswered(by, c) == Stop(by, c) \in stopped /\ UNCHANGED <<stops, faulted>>

StopFails(by, c) ==
  /\ stops' \in {stops, stops \ {Stop(by, c)}}
  /\ faulted' = faulted \cup {c}

SendStop(by, c) == stops' = stops \cup {Stop(by, c)}

(***************************************************************************)
(* create_stream_session                                                   *)
(***************************************************************************)
HasCapacityOffByOne == Cardinality(sessions) <= MaxConcurrent

\* StreamSessionMap.check_capacity does not raise.
HasCapacity == Cardinality(sessions) < MaxConcurrent

\* The capacity check, then SipBridgeClient.start suspends in the token store.
CreateBegin(c) ==
  /\ process = "up" /\ create[c] = "idle"
  /\ Cardinality(Pending) < MaxInFlight
  /\ create' = [create EXCEPT ![c] = IF HasCapacity THEN "token" ELSE "rejected"]
  /\ UNCHANGED <<process, sessions, del, aclosing, inputs, net, sidecar, history>>

\* The refresh-token provider has a token: POST /sessions is sent.
CreatePost(c) ==
  /\ create[c] = "token"
  /\ create' = [create EXCEPT ![c] = "posted"]
  /\ posts' = posts \cup {c}
  /\ UNCHANGED <<process, sessions, del, aclosing, inputs, stops, stopped, sidecar, history>>

\* The provider has no token: AuthenticationRequiredError.
CreateNoToken(c) ==
  /\ create[c] = "token"
  /\ create' = [create EXCEPT ![c] = "failed"]
  /\ UNCHANGED <<process, sessions, del, aclosing, inputs, net, sidecar, history>>

\* The sidecar answered 409 or 502.
CreateRefused(c) ==
  /\ create[c] = "posted" /\ entry[c] \in {"busy", "failed"}
  /\ create' = [create EXCEPT ![c] = "failed"]
  /\ UNCHANGED <<process, sessions, del, aclosing, inputs, net, sidecar, history>>

\* The POST times out or breaks; the request itself may be lost or still on
\* its way, and the sidecar may have acted on it already.
CreateStartFails(c) ==
  /\ create[c] = "posted"
  /\ create' = [create EXCEPT ![c] = "failed"]
  /\ posts' \in {posts, posts \ {c}}
  /\ faulted' = faulted \cup {c}
  /\ UNCHANGED <<process, sessions, del, aclosing, inputs, stops, stopped, sidecar, crashes>>

\* 201 from the sidecar: bind, then the WHEP POST to mediamtx suspends.
CreateBind(c) ==
  /\ create[c] = "posted"
  /\ entry[c] \in {"active", "terminated", "gone"}
  /\ sessions' = sessions \cup {c}
  /\ create' = [create EXCEPT ![c] = "whep"]
  /\ UNCHANGED <<process, del, aclosing, inputs, net, sidecar, history>>

\* mediamtx answered 201: the session id goes back to the app.
CreateDone(c) ==
  /\ create[c] = "whep"
  /\ create' = [create EXCEPT ![c] = "open"]
  /\ UNCHANGED <<process, sessions, del, aclosing, inputs, net, sidecar, history>>

CreateWhepFailsNoStop(c) ==
  /\ create[c] = "whep"
  /\ create' = [create EXCEPT ![c] = "failed"]
  /\ sessions' = sessions \ {c}
  /\ UNCHANGED <<process, del, aclosing, inputs, net, sidecar, history>>

\* mediamtx timed out, broke or refused: _cleanup_failed_session removes the
\* session and sends the stop.
CreateWhepFails(c) ==
  /\ create[c] = "whep"
  /\ create' = [create EXCEPT ![c] = "cleanup"]
  /\ sessions' = sessions \ {c}
  /\ SendStop("cleanup", c)
  /\ UNCHANGED <<process, del, aclosing, inputs, posts, stopped, sidecar, history>>

CreateCleaned(c) ==
  /\ create[c] = "cleanup"
  /\ StopAnswered("cleanup", c) \/ StopFails("cleanup", c)
  /\ create' = [create EXCEPT ![c] = "failed"]
  /\ UNCHANGED <<process, sessions, del, aclosing, inputs, posts, stopped, sidecar, crashes>>

(***************************************************************************)
(* delete_stream_session, for a session id the app has been given          *)
(***************************************************************************)
\* lookup() finds the session: send the stop.
DeleteBegin(x) ==
  /\ process = "up" /\ del[x] = "idle" /\ create[target[x]] = "open"
  /\ target[x] \in sessions
  /\ del' = [del EXCEPT ![x] = "stopping"]
  /\ SendStop(x, target[x])
  /\ UNCHANGED <<process, sessions, create, aclosing, inputs, posts, stopped, sidecar, history>>

\* lookup() raises StreamSessionNotFoundError.
DeleteUnknown(x) ==
  /\ process = "up" /\ del[x] = "idle" /\ create[target[x]] = "open"
  /\ target[x] \notin sessions
  /\ del' = [del EXCEPT ![x] = "unknown"]
  /\ UNCHANGED <<process, sessions, create, aclosing, inputs, net, sidecar, history>>

\* stop() returned; the finally clause removes the session.
DeleteOk(x) ==
  /\ del[x] = "stopping"
  /\ StopAnswered(x, target[x])
  /\ del' = [del EXCEPT ![x] = "ok"]
  /\ sessions' = sessions \ {target[x]}
  /\ UNCHANGED <<process, create, aclosing, inputs, posts, stopped, sidecar, crashes>>

DeleteErrorKeepsSession(x) ==
  /\ del[x] = "stopping"
  /\ StopFails(x, target[x])
  /\ del' = [del EXCEPT ![x] = "error"]
  /\ UNCHANGED <<process, sessions, create, aclosing, inputs, posts, stopped, sidecar, crashes>>

\* stop() raised; the finally clause removes the session all the same.
DeleteError(x) ==
  /\ del[x] = "stopping"
  /\ StopFails(x, target[x])
  /\ del' = [del EXCEPT ![x] = "error"]
  /\ sessions' = sessions \ {target[x]}
  /\ UNCHANGED <<process, create, aclosing, inputs, posts, stopped, sidecar, crashes>>

(***************************************************************************)
(* Shutdown and crash of the backend.  The lifespan hook runs aclose()     *)
(* after the server has finished every request.                            *)
(***************************************************************************)
AcloseBegin ==
  /\ process = "up"
  /\ Running = {} /\ \A x \in Deletes : del[x] # "stopping"
  /\ process' = "closing"
  /\ closing' = sessions
  /\ sessions' = {}
  /\ UNCHANGED <<halting, create, del, inputs, net, sidecar, history>>

\* The loop sends the stop of one session ...
AcloseSend(c) ==
  /\ process = "closing" /\ c \in closing /\ halting = {}
  /\ closing' = closing \ {c}
  /\ halting' = {c}
  /\ SendStop("aclose", c)
  /\ UNCHANGED <<process, sessions, create, del, inputs, posts, stopped, sidecar, history>>

AcloseRetries(c) ==
  /\ c \in halting
  /\ \/ StopAnswered("aclose", c) /\ UNCHANGED closing
     \/ StopFails("aclose", c) /\ closing' = closing \cup {c}
  /\ halting' = {}
  /\ UNCHANGED <<process, sessions, create, del, inputs, posts, stopped, sidecar, crashes>>

\* ... waits for it, swallows its errors, and goes on with the next.
AcloseReturns(c) ==
  /\ c \in halting
  /\ StopAnswered("aclose", c) \/ StopFails("aclose", c)
  /\ halting' = {}
  /\ UNCHANGED <<process, sessions, create, del, closing, inputs, posts, stopped, sidecar, crashes>>

AcloseEnd ==
  /\ process = "closing" /\ closing = {} /\ halting = {}
  /\ process' = "down"
  /\ UNCHANGED <<sessions, create, del, aclosing, inputs, net, sidecar, history>>

\* The process is killed: the map and every call in progress are gone.
Crash ==
  /\ process \in {"up", "closing"}
  /\ crashes < MaxCrashes /\ crashes' = crashes + 1
  /\ process' = "down"
  /\ faulted' = faulted \cup sessions \cup closing \cup halting \cup Running
  /\ create' = [c \in Creates |-> IF c \in Running THEN "dead" ELSE create[c]]
  /\ del' = [x \in Deletes |-> IF del[x] = "stopping" THEN "dead" ELSE del[x]]
  /\ sessions' = {} /\ closing' = {} /\ halting' = {}
  /\ UNCHANGED <<inputs, net, sidecar>>

Restart ==
  /\ process = "down"
  /\ process' = "up"
  /\ UNCHANGED <<sessions, create, del, aclosing, inputs, net, sidecar, history>>

-----------------------------------------------------------------------------
(***************************************************************************)
(* The sidecar (ring-sip-bridge/index.js) and Ring                         *)
(***************************************************************************)
DeviceNeverBusy(c) == FALSE

\* The device-busy check of POST /sessions.
DeviceBusy(c) ==
  \E s \in Creates : entry[s] = "active" /\ device[s] = device[c]

\* POST /sessions: 409, or start negotiating.  A factory that does not
\* suspend leaves no room for another request before the session is listed.
SidecarPost(c) ==
  /\ c \in posts
  /\ SlowFactory \/ \A s \in Creates : entry[s] # "negotiating"
  /\ posts' = posts \ {c}
  /\ entry' = [entry EXCEPT ![c] = IF DeviceBusy(c) THEN "busy" ELSE "negotiating"]
  /\ UNCHANGED <<process, sessions, create, del, aclosing, inputs, stops, stopped, calls, history>>

\* factory.start() resolves: list the session and answer 201.
SidecarStarted(c) ==
  /\ entry[c] = "negotiating"
  /\ entry' = [entry EXCEPT ![c] = "active"]
  /\ calls' = calls \cup {c}
  /\ UNCHANGED <<process, sessions, create, del, aclosing, inputs, net, history>>

\* factory.start() rejects: answer 502.
SidecarStartFails(c) ==
  /\ entry[c] = "negotiating"
  /\ entry' = [entry EXCEPT ![c] = "failed"]
  /\ UNCHANGED <<process, sessions, create, del, aclosing, inputs, net, calls, history>>

Listed(c) == entry[c] \in {"active", "terminated"}

SidecarStopKeepsEntry(r) ==
  /\ r \in stops
  /\ stops' = stops \ {r}
  /\ stopped' = stopped \cup {r}
  /\ calls' = calls \ {r.id}
  /\ UNCHANGED <<process, sessions, create, del, aclosing, inputs, posts, entry, history>>

\* DELETE /sessions/{id}: stop a listed session, whose stop() may throw and
\* leave the Ring call up, forget it in either case, and answer 204.
SidecarStop(r) ==
  /\ r \in stops
  /\ stops' = stops \ {r}
  /\ stopped' = stopped \cup {r}
  /\ \/ /\ Listed(r.id)
        /\ entry' = [entry EXCEPT ![r.id] = "gone"]
        /\ \/ calls' = calls \ {r.id} /\ UNCHANGED faulted
           \/ faulted' = faulted \cup {r.id} /\ UNCHANGED calls
     \/ ~ Listed(r.id) /\ UNCHANGED <<entry, calls, faulted>>
  /\ UNCHANGED <<process, sessions, create, del, aclosing, inputs, posts, crashes>>

\* Ring ends a call; the onTerminated callback marks a listed session.
RingTerminates(c) ==
  /\ c \in calls
  /\ calls' = calls \ {c}
  /\ entry' = [entry EXCEPT ![c] = IF @ = "active" THEN "terminated" ELSE @]
  /\ UNCHANGED <<process, sessions, create, del, aclosing, inputs, net, history>>

\* The five-second timer set by onTerminated drops the session.
SidecarReap(c) ==
  /\ entry[c] = "terminated"
  /\ entry' = [entry EXCEPT ![c] = "gone"]
  /\ UNCHANGED <<process, sessions, create, del, aclosing, inputs, net, calls, history>>

\* The sidecar is restarted: its sessions, their calls and the requests it
\* was sent are gone.
SidecarCrash ==
  /\ crashes < MaxCrashes /\ crashes' = crashes + 1
  /\ faulted' = faulted \cup calls \cup posts
  /\ entry' = [c \in Creates |-> CASE Listed(c) -> "gone"
                                   [] entry[c] = "negotiating" -> "none"
                                   [] OTHER -> entry[c]]
  /\ calls' = {} /\ posts' = {} /\ stops' = {}
  /\ UNCHANGED <<process, sessions, create, del, aclosing, inputs, stopped>>

-----------------------------------------------------------------------------
Create(c) ==
  \/ CreatePost(c) \/ CreateNoToken(c) \/ CreateRefused(c) \/ CreateStartFails(c)
  \/ CreateBind(c) \/ CreateDone(c) \/ CreateWhepFails(c) \/ CreateCleaned(c)

Delete(x) == DeleteOk(x) \/ DeleteError(x)

Aclose == AcloseEnd \/ \E c \in Creates : AcloseSend(c) \/ AcloseReturns(c)

Sidecar(c) ==
  \/ SidecarPost(c) \/ SidecarStarted(c) \/ SidecarStartFails(c) \/ SidecarReap(c)

Next ==
  \/ \E c \in Creates :
       CreateBegin(c) \/ Create(c) \/ Sidecar(c) \/ RingTerminates(c)
  \/ \E x \in Deletes : DeleteBegin(x) \/ DeleteUnknown(x) \/ Delete(x)
  \/ \E r \in StopRequests : SidecarStop(r)
  \/ AcloseBegin \/ Aclose \/ Crash \/ Restart \/ SidecarCrash

Spec == Init /\ [][Next]_vars

(***************************************************************************)
(* Calls in progress go on (every await of theirs has a timeout), the      *)
(* sidecar handles what it received.  Nothing is assumed of users, of      *)
(* Ring, of crashes or of restarts.                                        *)
(***************************************************************************)
Fairness ==
  /\ \A c \in Creates : WF_vars(Create(c)) /\ WF_vars(Sidecar(c))
  /\ \A x \in Deletes : WF_vars(Delete(x))
  /\ \A r \in StopRequests : WF_vars(SidecarStop(r))
  /\ WF_vars(Aclose)

FairSpec == Spec /\ Fairness

-----------------------------------------------------------------------------
(***************************************************************************)
(* check_capacity is not atomic with bind, yet the overshoot is bounded by *)
(* the create calls in progress ("The resulting overshoot is bounded by    *)
(* the number of concurrent callers", session_map.py).                     *)
(***************************************************************************)
OvershootBounded ==
  Cardinality(sessions) <= MaxConcurrent - 1 + MaxInFlight

\* Somebody in the backend will still stop or list session c, or has asked
\* the sidecar to.
Owned(c) ==
  \/ create[c] = "posted" \/ c \in sessions \/ c \in closing
  \/ \E r \in stops : r.id = c

(***************************************************************************)
(* A Ring call that nobody owns any more is the trace of a failure: of a   *)
(* request to the sidecar that timed out or broke, of session.stop(), or   *)
(* of a crash.  Failed WHEP negotiations, concurrent deletes and aclose()  *)
(* never strand one by themselves.                                         *)
(***************************************************************************)
NoSilentOrphan == \A c \in calls : Owned(c) \/ c \in faulted

(***************************************************************************)
(* When delete_stream_session has returned normally the session is in      *)
(* neither map, whatever other deletes, crashes or late requests did.      *)
(***************************************************************************)
DeletedIsGone ==
  \A x \in Deletes : del[x] = "ok" =>
    target[x] \notin sessions /\ ~ Listed(target[x])

(***************************************************************************)
(* The device_busy check keeps a device to one active session, as long as  *)
(* factory.start() does not suspend.                                       *)
(***************************************************************************)
OneSessionPerDevice ==
  \A c, d \in Creates :
    entry[c] = "active" /\ entry[d] = "active" /\ device[c] = device[d] => c = d

(***************************************************************************)
(* The finally clause of delete_stream_session: once a delete has been     *)
(* accepted the session stops counting against the capacity, also when the *)
(* sidecar fails, hangs or dies.                                           *)
(***************************************************************************)
DeleteFreesCapacity ==
  \A x \in Deletes : del[x] = "stopping" ~> target[x] \notin sessions

(***************************************************************************)
(* aclose() ends: a sidecar that fails or is gone does not hold up the     *)
(* shutdown of the backend.                                                *)
(***************************************************************************)
AcloseTerminates == process = "closing" ~> process # "closing"
=============================================================================
