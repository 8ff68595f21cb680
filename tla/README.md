# ring-appletv-viewer in TLA+

A verification project for the Ring viewer for Apple TV: a tvOS app
(`RingAppleTV/`), a Python backend (`partner-auth-backend/`) and a Node sidecar
(`ring-sip-bridge/`). TLA+ modules model the parts of the system that keep
state across awaits, threads, processes and crashes; TLC checks them on small
instances, and TLAPS proves the central invariants for every value of the
constants.

## 1. The system

```
 tvOS app                         backend (asyncio)                 sidecar (Node)
 PlayerViewModel ─ start/stop ─>  /media/streaming/whep/...         POST /sessions
   StreamSessionManager ── WHEP ─> UnofficialRingAdapter ── HTTP ─> DELETE /sessions/:id ── SIP ─> Ring
   (timers, ICE callbacks)          StreamSessionMap                 (sessions map)
 DashboardViewModel, ...            RingConsumerClient ── HTTPS ───────────────────────────> Ring
   PartnerAPIClient                   RateLimitGovernor
   BackendAuthService ── token ──>  TokenService / RefreshTokenStore (SQLite)
                                        ^ scripts/bootstrap_ring_refresh_token.py (operator)
```

### Components, their state and operations

| component | state | operations | hard behaviour | what makes it correct |
|---|---|---|---|---|
| `RateLimitGovernor` (`adapters/rate_limit.py`) | deque of admission times | `acquire`, `current_rate` | callers sleep on a decision that others make stale; boundary of the window; cancellation | never more than the ceiling in any rolling window; no sleep beside a free slot; every `acquire` ends |
| live-stream bridge (`adapters/unofficial.py`, `session_map.py`, `sip_bridge_client.py`, `ring-sip-bridge/`) | backend's session map, sidecar's session map, Ring calls | `create_stream_session`, `delete_stream_session`, `aclose`; `POST`/`DELETE /sessions`, `onTerminated` | check and bind are not atomic; requests that time out and are handled later; a failed stop; crash of either process | bounded overshoot of the cap; no Ring call stranded without a fault; a delete is final and always frees capacity; shutdown ends; one session per device |
| `StreamSessionManager` (`StreamSessionManager.swift`) | `connectionState`, peer connection, session URL, tracks, timer | `startStream`, `stopStream`, session timer, connection timeout, cleanup, ICE and track callbacks | no lock and no actor; every await lets another task or WebRTC's thread in; cleanup of one session after the start of another | whatever is held is released at some time; never stuck in connecting; a stop gets it out of connected and failed; a stop releases |
| Ring credentials (`ring_consumer_client.py`, `refresh_token_store.py`, `factory.py`, `scripts/bootstrap_ring_refresh_token.py`) | cached access token, one database row, environment | `ensure_access_token`, `_refresh`, `rotate`, `mark_invalid`, bootstrap, the operator's renewal | Ring retires a refresh token when it grants the next; crash or lost answer between grant and store | the row follows Ring's rotation; only rejected tokens are marked invalid; refreshes never overlap; the lock is always released |
| request plumbing of the consumer client (`_request`, `get_snapshot`, caches) | response caches; per call the attempt count and backoff | `get_devices`, `get_history`, `get_snapshot`, `get_clip_url`; retries on 429 and 5xx | 429 and 5xx mixed in one call; unbounded 429 retries; a best-effort PUT between two GETs; late answers overwriting newer ones in the cache | server errors are retried a bounded number of times, Retry-After is kept, operations end once Ring stops throttling, stale entries do not last |
| partner token service (`services/token_service.py`, `data/token_store.py`, `routes/`) | one encrypted token row per user | `exchange_code`, `refresh_token`, `get_valid_token`, `invalidate_session`, webhooks, linking | concurrent refreshes, exchanges and 401s without a lock; crash between rotation and store | no spent token left behind, no pair comes back |
| app authentication (`BackendAuthService`, keychain, `AuthViewModel`) | cached token, keychain item, published state | `getValidToken`, `fetchTokenFromBackend`, `logout`, launch check, check of the login view | no lock; a fetch that outlives a logout or a 401; delete-then-add in the keychain | a token in use is kept in the keychain; no endless loading; an invalid session is not served for ever |
| `PartnerAPIClient` | – | `executeWithRetry` | 401 and 429 loops | every request ends, bounded retries |
| `PlayerViewModel`, player view | published state | `requestStream`, `retry`, `stopStream` | one manager shared by all views; a stop nobody awaits; a start that is ignored and reported as loaded | what a view started is released after it has gone; no endless spinner |
| `DashboardViewModel`, device, media and cache service, background refresh | published list and pictures, refresh task, cache file | `loadDevices`, `refresh`, filter, background loop, system background task | view gone while an await is pending; cancellation swallowed by `try?`; older lists delivered last | no loop that nobody can cancel; a cancelled loop ends; the list becomes what Ring has |
| events | published list | load | none: one request per load | not modelled |
| SDP rewriting, payload mappers | none (pure functions) | `reorderMLinesToMatchOffer`, `ensureRtcpMux`, `mappers.py` | order and duplicates of media sections | agreement with a reference definition |
| mock adapter, middleware, configuration, redaction, views, models, WebRTC shims | none, or development only | – | – | not modelled |

`PROJECT.json` lists every component with its status, and under `hazards` the
places in the code that are hard to test, each with the properties aimed at it.

## 2. The modules

| module | models | role |
|---|---|---|
| `SlidingWindowLimiter` | – | abstract specification: grants such that no window holds too many |
| `RateLimitGovernor` | `rate_limit.py` | the governor, shown to implement the abstract limiter |
| `StreamBridge`, `MCStreamBridge` | backend and sidecar halves of a live stream | composition of two processes over an unreliable request channel; the MC module adds the symmetry of the calls |
| `StreamSessionManager` | `StreamSessionManager.swift`, `WebRTCConnectionState.swift` | the app's stream session |
| `PlayerSessions` | `PlayerViewModel.swift`, `PlayerView.swift` | composition of the player views with the manager they share |
| `RefreshTokens` | `ring_consumer_client.py` (`ensure_access_token`, `_refresh`), `refresh_token_store.py`, `factory.py`, the renewal script | Ring credentials across refresh, crash, restart and renewal |
| `RingRequests` | the rest of `ring_consumer_client.py` | reads of Ring's API with retries and cache |
| `RotatingCredential` | – | abstract specification: a stored pair is replaced by a new one or invalidated, and never comes back |
| `PartnerTokens` | `token_service.py`, `token_store.py` and their two routes | concurrent requests on the token row, shown to implement the abstract credential |
| `AppAuth` | `BackendAuthService.swift`, `DefaultKeychainService.swift`, `AuthViewModel.swift` | the app's token and login state |
| `Dashboard`, `MCDashboard` | `DashboardViewModel.swift`, `DashboardView.swift`, `DefaultDeviceService.swift`, `DefaultCacheService.swift`, `BackgroundRefreshManager.swift` | the device list; the MC module says which lists each filter shows |
| `…Proofs` | – | the theorems about each of the eight components; those about `PlayerSessions` are in `StreamSessionManagerProofs` |

Operators whose name says what is wrong with them (`ExpiredEarly`,
`CreateWhepFailsNoStop`, `StartTimersNoTimer`, …) stand before the definition
they are a faulty variant of. No specification uses them: they are the mutants
that `PROJECT.json` lists, and each makes the property it is listed with fail.

### RateLimitGovernor

One turn of the asyncio loop is a sequence of actions of the caller named by
`turn`: `Begin` (deadline taken), then `Admit` or `Full` (the critical section
with `_trim_locked`), then `Raise` or `Sleep` (the decision after the lock), and
later `Wake`. No other caller runs in between, because the code has no
suspension point there, but the clock does: `Tick` is enabled at any time, so
that the two readings of `time.monotonic()` in one iteration may differ.
`Cancel` is the cancellation of a sleeping task, `CurrentRate` the trimming done
by `current_rate`. `log` is a history variable, the untrimmed list of
admissions; the abstract limiter and the properties speak about it.

Bounds: the clock stops at `MaxTime`, and `Begin` requires that the deadline can
still be reached.

### StreamBridge

The backend is one asyncio process; an action is what one task does between two
suspension points. `StreamSessionMap`'s lock is never held across one, so
`check_capacity`, `bind`, `lookup` and `remove` are parts of the actions that
call them. `create[c]` is the program counter of a `create_stream_session` call:
capacity check (`CreateBegin`), refresh token (`CreatePost`, `CreateNoToken`),
the sidecar's answer (`CreateRefused`, `CreateStartFails`, `CreateBind`), the
WHEP exchange with mediamtx (`CreateDone`, `CreateWhepFails`) and the cleanup
(`CreateCleaned`). Deletes and `aclose` follow the code likewise.

The channel is the sets `posts` and `stops`. A request that fails for its caller
is lost or stays in the set and is handled later. The sidecar's handlers are
`SidecarPost`, `SidecarStarted`, `SidecarStartFails`, `SidecarStop`; `SidecarReap`
is the five-second timer after `onTerminated`. `SlowFactory` says whether
`factory.start()` suspends: the placeholder in `session.js` does not, a real
negotiation does. `SidecarStop` is one action although `session.stop()` is
awaited: a second DELETE in that gap finds the session listed, stops it again
and deletes it again, with the same result. `Crash`, `Restart` and `SidecarCrash`
are the deaths of the containers; a crash of the sidecar takes its Ring calls
with it.

`faulted` is a history variable: the sessions for which a request, a stop or a
process has failed. Two identities are merged: the session id, the bridge's
session id and the Ring call of a create are all named by the create call.

### StreamSessionManager

The class is nonisolated and has no lock. An action is what a task does from one
await to the next, with two exceptions: the guard of `startStream` is separate
from the transition it guards, and with `RacyTransitions` so are the check and
the store of `transitionState`, which other threads may run between. `start[s]`
follows a `startStream` call through token, offer, WHEP answer, remote
description and timers; `StartThrows` is its catch clause. `task` follows every
execution of `stopStream` (by the user or by the session timer) and of
`cleanupResources` (catch clause, timeout, ICE failure): send the DELETE or skip
it, `Release` whatever session is current *then*, `Settle`. The `timer` and
`timeout` tasks of a start are separate, since the code cancels the first and
never the second. Delegate callbacks come from the peer connection `s` and act on
the manager without comparing it with `self.peerConnection`, as in the code.

`TeardownSkips` covers the DELETE that is not sent: no session URL, no token, or
a cancelled task (`URLSession` fails at once in one, which is how `stopStream`
behaves when the session timer calls it). The audio track is handled exactly as
the video track and is not represented. The media never connect by themselves:
nothing is assumed of WebRTC.

### RefreshTokens

Tokens are numbered in the order in which Ring issues them. `pc` follows
`ensure_access_token`: waiting for the lock, loading the row, awaiting the POST,
holding the answer. `RingGrants` may answer with the same token or with its
successor, which retires the token presented; `Answer` loses the answer if its
caller is no longer there. `Bootstrap` is the start-up of the process:
`load()` sees valid rows only, so that an invalid row is overwritten by the
environment's token. A backend without a stored token and without
`RING_REFRESH_TOKEN` does not start.

`Regenerate`, `DropStore` and `Recreate` are the operator's renewal: the script
writes a new token into `.env`, removes the database inside the running
container (which fails unnoticed when the container is not running) and
recreates the container, which is the only moment when the environment of the
container (`env`) takes over the value in the file (`dotenv`). An operator who
does it by hand recreates without dropping the store. `faulted` says that the
backend's line of tokens was broken by a lost answer, a failed `rotate()`, a
crash or a revocation; a bootstrap with an accepted token mends it.

A caller has at most one POST under way (`Call` requires that an earlier request
of the same caller is settled); requests that outlive their call and race with
those of *other* callers are in the model.

### PlayerSessions

Every player view has a view model; all share one manager. `Appear` and `Retry`
enter `startStream` (`requestStream`), `Resume` is its return or its error,
`Disappear` creates the task that calls `stopStream`, and `StopTask` is that task,
which may run before, during or after the start it is meant for. All other steps
are those of `StreamSessionManager` (`Inside`), racing transitions included. A start that the manager's guard ignores
returns normally, and the view model shows it as loaded, as in the code. The
manager's state is published on the main queue; the retry button reads the
manager's state directly, a difference of delay only, since a failed or
disconnected manager changes by a start or a stop alone.

### RingRequests

A caller of the client goes through `Hit` or `Miss` (`_cache_get`), the governor
and the access token (`Admitted`, or `Refused` for either's error), the attempts
of `_request` (`RingReplies`, `Lost`, `Sleep429`, `Sleep5xx`, `GiveUp`, `Retry`)
and `Deliver`, which includes `_cache_set` because the code has no await between
them. `stage` follows `get_snapshot`: GET, after a 404 a PUT whose outcome is
ignored, the settling time, and the second GET, each a `_request` of its own with
fresh locals. Retries do not go back to `acquire`: the governor is asked once per
`_request`. Time exists as remaining time (of a sleep, of a cache entry, of
Ring's Retry-After), so that no clock has to be bounded. `asked` and `failures`
are history variables. The jitter on 5xx sleeps only delays a retry and is
covered by `Retry` being allowed, not forced, when the sleep is over.

### PartnerTokens

Every HTTP request builds a `TokenService` of its own; a `TokenStore` method is
one SQLite transaction. `GetStored`, `GetRefused` and `GetStale` are
`get_valid_token`; `RefreshRead` is the second read of the row in
`refresh_token`, after which Ring's answer decides between `Update`,
`Invalidate`, `RefreshFails` and `RotationLost`. `Exchange` to `SaveTokens` are
`exchange_code`. A pair of tokens is the number of the grant that issued it.
`Invalidate` clears `is_valid` of whatever pair the row holds by then, as
`invalidate` does. `dead` and `stored` are history variables.

`RotatingCredential` is the promise: a stored pair is replaced as a whole by one
that was never stored before, or invalidated. `Credential` maps the row to it.

### AppAuth

`BackendAuthService` is nonisolated and has no lock, so every access to
`cachedToken` and every Keychain operation is a step. Calls are those of the
app's services (`Get`), of the login view (`CheckBackendForToken`, whose button
stays enabled), of the launch (`CheckExistingAuth` or `NoneCached`) and of logout;
`Finish` is what a call's outcome does to `AuthViewModel.state`. `save` is
`Replace`, which deletes the item or fails to, and then `Add` or `AddFails`, which
also is what `errSecDuplicateItem` does when another call has added its item
meanwhile. The launch check reads `cachedToken`, the Keychain (`LoadExisting`,
`NoneExisting`) and writes `cachedToken` (`Restore`) in separate steps; a logout
clears memory (`Logout`), then the Keychain (`LogoutDelete`), and resets the view
model when it is back on the main actor (`LogoutReset`). Deletions may fail
(`try?`). `Relaunch`, the end of the app, may come between any two of these steps
and keeps the Keychain only. Tokens are numbered and age from fresh over near
(`needsRefresh`) to expired. `lost` is a history variable: the item was deleted
after a 401 or by a logout, or an add failed on an empty Keychain, and none has
been added since. Such a loss is real: the old token stays in memory beside an
empty Keychain, and a relaunch then asks for a new check.

### Dashboard

The view model is confined to the main actor; its tasks interleave at their
awaits. `LoadDevices`, `CacheHit` or `CacheMiss`, `RingAnswers`, `Save`,
`Deliver`, `TakePictures` and `StartBackgroundRefresh` are `loadDevices`;
`refresh` enters at the request and ends with `Deliver`; a loop goes round
`Wake`, request, `Deliver`, pictures and `EndPass`. Cancelling a loop (`Stop`)
makes its requests and downloads fail and its sleep end; the loop itself looks at
`Task.isCancelled` only where the code does, so that an answer that was there
already is still delivered. `HandleBackgroundRefresh` shares the cache file. A
list is named by the version of what Ring has; of the pictures only the time that
their download takes is kept, since nothing depends on their data. An expired
cache file is no cache file (`Expire`), because only its reader looks at it.

## 3. What is checked

### Runs that pass

| run | instance | shows |
|---|---|---|
| `governor` | 2 callers (each may call again and again), 2 slots per window of 3 ticks, budget 2, clock to 7 | `AdmissionsPerWindow`: no rolling window holds more admissions than the ceiling; `NoIdleCapacity`: a caller that sleeps does so beside a full window; `ImplementsLimiter`: every admission is a grant of the abstract limiter; `AcquireReturns`: queueing is bounded although others take every slot |
| `bridge` | 3 creates, 2 deletes, 1 device, cap 1, 2 creates in flight, 1 crash, suspending factory, symmetry | `OvershootBounded`: the cap is exceeded by at most the calls in flight less one; `NoSilentOrphan`: a Ring call nobody owns is the trace of a fault; `DeletedIsGone`: a delete that returned normally is final |
| `bridge_live` | 2 creates, 1 delete, 2 devices, cap 2, 1 crash, factory of `session.js` | `OneSessionPerDevice`; `DeleteFreesCapacity`: an accepted delete gives its slot back; `AcloseTerminates` |
| `session` | 1 start, 2 stops, every fault, racing transitions, late tracks | `StreamHasAnEnd`: whatever is held, a start, a timer or a teardown is left to release it; `ConnectingEnds`; `StopUnblocks`: a stop that meets `connected` or `failed` ends that state, whatever is stored meanwhile |
| `player` | 1 view, 2 starts (the first and a retry), every fault, atomic transitions, no tracks | `LeavingReleases`: what a view has started is released after it has gone; `SpinnerEnds`: the progress view ends, also for an ignored or a failed start |
| `tokens` | 2 callers, 3 tokens, 1 crash, revocation, renewal | `InvalidMeansRejected`: a row marked invalid holds a token that Ring refuses; `StoreFollowsRing`: without a fault the row is accepted or its successor is about to be stored; `RefreshIsNeeded`: refreshes never overlap; `RotatesInOrder`: `rotate()` is a compare-and-swap in effect; `CallReturns`: no error path keeps the lock |
| `requests` | 2 callers, devices and snapshots, 1 retry of a 5xx, backoff 1 to 2, Retry-After 3, TTL 2 ticks, 1 change of Ring's data | `FiveHundredsBounded`, `RetryAfterHonoured`, `PutNeverDecides`; `OperationEnds`: only Ring's 429 can keep an operation going; `ReadsCatchUp`: a late answer that overwrote a newer one in the cache does not last |
| `partner_tokens` | 3 requests (again and again), 4 pairs, revocation, crashes, lost answers | `RowFollowsRing`: no spent refresh token is left in the row; `InvalidationIsExplained`: a session is given up for a dead token or after a race of refreshes, never after a timeout; `ImplementsCredential`: the row is a rotating credential |
| `app_auth` | 1 service, 1 check, the launch check, a logout, 3 calls in flight, 2 tokens | `InUseIsKept`: a token in memory has an item in the Keychain, unless a save is half done or the item was given up; `StaysSignedOut`: with no usable token left only a new authorization brings one; `LoadingEnds`; `InvalidSessionFadesOut`: after the backend has invalidated the session for good, tokens stop being handed out |
| `dashboard` | 2 loads, 1 refresh task and 1 background task (both again and again), 3 tasks in flight, 2 versions, 1 filter | `OneRefreshLoop`: a loop that is not the view model's has been cancelled; `LeftIsQuiet`: cancelled loops end; `LoadingEnds`; `ListCatchesUp`: while the background refresh goes on, the list becomes and stays what Ring has |

Why the bounds are enough. *Governor*: two callers are a sleeper and whoever
takes its slot; two slots make a window with an inside, and the clock runs for
more than two windows, so that events expire, are trimmed and are replaced.
*Bridge*: overshooting a cap of one takes two creates, the third is the one that
is rejected or fills the freed slot; two deletes race for one session; one crash
separates any two steps of the rest. *Session*: what a stop can meet is one start
in any of its stages and another stop. *Player*: an overlap of sessions takes two
starts, the first and a retry; the next view is no different for the manager,
since all share it (two views with two starts each are out of TLC's reach, and
covered by the theorem `PlayersStreamsEnd`). Two starts with racing transitions
have 13 million states, too many for liveness; the race is in the `session` run,
and the theorems about the manager and about the composition include it. *Tokens*: a rotation, its
successor and a renewal are three tokens; two callers are the holder of the lock
and the one that waits for it or whose late request is still under way; a lost
rotation takes one crash. *Requests*: two callers are the late answer and the one
it overwrites; Retry-After exceeds the cap of the backoff, and the backoff
reaches its cap; history differs from devices by its TTL only, and a clip from a
snapshot by not reacting to a 404, so neither is in the instance. *Partner
tokens*: two requests that refresh the same token, an exchange between them, and
one pair more. *App*: the
four kinds of calls, any three of them at a time, and a token after the first.
*Dashboard*: the two loads of a view that comes back before the first has run, each
of which starts a loop, race with a refresh or the background task. The safety properties of all modules
are proved without the bounds (section 4).

`CHECK_DEADLOCK FALSE` in the session and player runs: each start and stop
happens once, and when all are over the manager rests. In the other modules a
caller can always call again, the process or app can always be restarted, or time
is up with a call still possible.

### Fairness

* Governor: the event loop runs what is ready, and time passes (`WF` on `Tick`
  and on a caller's own steps). Nobody has to call or to cancel.
* Bridge: a call in progress goes on, because each of its awaits has a timeout
  in `SipBridgeClient` or `httpx`; the sidecar handles what it has received.
  Nothing is assumed of the user, Ring, crashes or restarts.
* Session: tasks that can run do run, sleeps end, awaited requests end with an
  answer or an error. Nothing is assumed of the user or of WebRTC: neither ICE
  success nor ICE failure has to come.
* Tokens: the POST has a timeout, and `asyncio.Lock` wakes its waiters in order,
  which is strong fairness of `Locked`. Ring need not answer.
* Requests: time passes, ready tasks run, `acquire` returns or raises (which the
  `governor` run shows), an attempt is answered or runs into its timeout.
  Nobody has to call, and `OperationEnds` assumes, as a premise, that Ring does
  not throttle for ever.
* App: a started call is carried on, since `URLSession` has timeouts, and
  tokens age. Nothing is assumed of the user or of the backend.
* Player: as for the session; the main actor runs the task that stops a stream
  and resumes the view model. Nothing makes the user come, retry or leave.
* Dashboard: tasks that can run do, and a loop that asks Ring again and again is
  answered at some time (strong fairness of `RingAnswers`): `ListCatchesUp` would
  be too much to ask with Ring out of reach for ever. Nothing else depends on it.

### Runs that are expected to find a violation

Each checks one statement of a document of the repository that the code does not
keep.

| run | statement | what happens |
|---|---|---|
| `session_expiry` | migration requirement 3.5: DELETE when the timer expires | the timer's task calls `stopStream`, which cancels that very task before the request is made |
| `player_leave` | webrtc-streaming FR-5.2: disconnect and release all resources when the user navigates away | a stop while the manager is connecting cannot leave that state; the start goes on and ends in `failed` after the last view has gone, where nothing disconnects it until some later `stopStream`; the next view's first start is ignored and shown as loaded, and its `onDisappear` ends the state |

Further disagreements between documents and code are visible in the model,
without a run of their own:

* `StreamBridge`: the overshoot of the cap contradicts design Property 10 ("SHALL
  never exceed") but is accepted by the docstring of `check_capacity`;
  `OvershootBounded` says how far it goes. A Ring call that ends by itself is
  forgotten by the sidecar while the backend's map keeps it (`RingTerminates`
  leaves `sessions` alone), although adapter requirement 6.6 asks that it be
  marked there. And `unofficial.py:385` says a residual session is "reaped by its
  own watchdog", which the sidecar does not have: a stop that fails in
  `_cleanup_failed_session` strands the call (`CreateCleaned`).
* `StreamSessionManager`: FR-5.5 asks for a new session on retry, but only
  `stopStream` leaves `failed`; `startStream` returns at its guard. CP-3 (valid
  transitions only) is not kept either: between the check and the store of
  `transitionState` another thread may have changed the state. A late store of
  `connected` can follow the last stop, whose stream is gone by then; the state
  stays until the next stop (`StopUnblocks`).
* `RefreshTokens`: adapter requirement 3.2 says a rotated token is not overwritten
  by a stale bootstrap value; after a 401 `load()` hides the invalid row and the
  environment's older token replaces it (`Bootstrap`). The renewal script removes
  the store with `exec`, which fails unnoticed when the backend is down, so that
  the old stored token is used (`Recreate` without `DropStore`).
* `RingRequests`: adapter requirement 8.1 limits the outbound requests per minute;
  retries are sent without asking the governor (`Retry`).
* `PartnerTokens`: a 401 for a token that was read before a new account was linked
  invalidates the newly linked row (`Invalidate`).
* `AppAuth`: the partner-auth-backend requirements (line 114) ask for the
  unauthenticated state after a 401; the service clears its tokens, but
  `AuthViewModel` stays loaded unless the call was its own (`Wipe`).
* `Dashboard`: AppleTVRing requirements (line 104) say the background refresh
  pauses when the user leaves; it does not if the user leaves during
  `loadDevices`, which starts it at its end. And it is not started again when the
  user returns, or after a first load that failed (line 101). The pictures of the
  system's background refresh are thrown away (`CompleteBackground`), although
  the comment of `BackgroundRefreshManager` says they are stored.

## 4. What is proved

All theorems are proved by TLAPS for arbitrary constants that satisfy the named
assumptions: the sentinels (`NoCaller`, `None`, `Nobody`, `NoRow`, `NoToken`) are
not elements of the sets they extend, numeric parameters are natural numbers
(positive where the code divides time or counts slots), task identifiers do not
collide and belong to one kind each, `Creates` is finite, and the first backoff is within its cap.

**RateLimitGovernorProofs.** `TypeCorrect`, `WindowCeiling`
(`AdmissionsPerWindow`), `CapacityUsed` (`NoIdleCapacity`), `Refinement`
(`ImplementsLimiter`). The ceiling is not inductive: `events` is trimmed and says
nothing about what was forgotten. The invariant relates it to the history:
`EventsAreTail` (the deque is a suffix of the log of admissions, no longer than
the ceiling, and whatever was dropped is out of the window), `LogSorted`,
`OneTurn` (only the caller whose turn it is is between check and decision),
`OldestRemembered` and `WakeInTime` (a sleeper's wake-up is no later than the
expiry of an event that is in the last full window). An admission then is a step
of the abstract limiter because the event `MaxPerMinute` places back is among
those dropped.

The queueing budget: `SleepsWithinBudget` (`DeadlineAhead`) and
`DeadlineNeverMoves` (`BudgetIsFinal`) say that a call has one deadline, at most
one budget ahead, that no sleep outlasts it and that nothing moves it, so that a
call does not sleep again once it has passed. `RefusalIsJustified`
(`RefusesOnlyWhenFull`) is the converse of the ceiling: where the trimmed deque is
full, so is the window over the whole history, and nobody is turned away earlier.

**StreamBridgeProofs.** `TypeCorrect`, `OrphansAreFaults` (`NoSilentOrphan`),
`DeleteIsFinal` (`DeletedIsGone`), `OvershootIsBounded` (`OvershootBounded`). The
invariant follows a session through both processes: a create that has not been
posted is unknown everywhere (`Unborn`), a request on its way to or in the sidecar
still has its caller or is faulted (`UnderWay`), whatever the backend knows of was
started (`KnownIsStarted`), stops name started sessions and answered ones forgotten
sessions (`StopsAreLate`), deletes are for opened sessions (`DeletesOpened`), and a
Ring call is active in the sidecar's map or faulted (`CallsAreListed`). The bound on the overshoot is an argument about
cardinalities: the sessions together with the pending creates never exceed it,
because a create passes `check_capacity` only below the cap. `DeviceHasOneSession`
(`OneSessionPerDevice`) assumes `~SlowFactory`, as in `session.js`, and needs
`OneNegotiates`: while a POST negotiates no other does, and its device has no
active session.

`BooksInOrder` (`Books`) is a second invariant, on top of the first: a slot of the
map belongs to a create call in its negotiation or to a session the app can delete
(`SlotsAreOwned`), a delete that is over has freed its slot
(`FinishedDeletesFree`), `aclose()` stops opened sessions only
(`ClosingWasOpen`), a stop for a listed session comes of a delete under way
(`StopsAreWanted`), and nothing outlives its process (`LivesApart`).
`NoSlotIsTaken` (`SlotsAreGivenBack`) lists the only steps that may remove an
entry of the map, and `ShutdownAdvances` (`AcloseOnlyAdvances`) says that the
shutdown loop never goes back to a session.

**StreamSessionManagerProofs.** `TypeCorrect`, `EveryStreamHasAnEnd`
(`StreamHasAnEnd`). All theorems of this module allow racing transitions. The
invariant adds `TimerSleeps` (the timer the manager remembers has not been
cancelled).
`PlayersUseTheManager` shows that every behaviour of the composition
`PlayerSessions` is, seen from the manager, a behaviour of the manager's own
specification; `PlayersStreamsEnd` follows from it without another induction.
`PlayerTypeCorrect` is the composition's type invariant.

`OneTimerPerStream` (`Timed`): a timer is cancelled before it is forgotten, so that
at most one can fire, and a started stream has one or is being stopped.
`ConnectingIsTransient` (`ConnectingHasAnEnd`) holds with the racy
`transitionState` too and needs `LateConnecting`: a late store of `connecting`
belongs to a start that waits for it. `NoStopIsLost` (`StopStaysDue`): a
`stopStream` that meets `connected` or `failed` remains due, as a task that has
not come to its last statement or as a store of `disconnected` that it has decided
on, until both states are left. That a connected state always ends by itself is
not claimed: see section 3. `SpinnersAwaitCalls` and `PlayersConnectionsEnd` speak
of the composition, for any number of views.

**RefreshTokensProofs.** `TypeCorrect`, `InvalidationIsSound`
(`InvalidMeansRejected`), `RotationIsNotLost` (`StoreFollowsRing`),
`OneRefreshAtATime` (`RefreshIsNeeded`). `mark_invalid` does not name a token, so
its soundness needs the whole protocol: tokens in use were issued (`Numbered`), a
process that is down runs nothing (`DownIsQuiet`), the caller that awaits an
answer has presented the token that is still stored, or the store was dropped
(`PostedIsStored`), and answers say what Ring did (`AnswersHold`).

`RotationIsOrdered` (`RotatesInOrder`) uses the same invariant and
`SuccessorsAreLater`: the `UPDATE` of `rotate()` has no condition, yet replaces a
token only by its own successor. `LockIsNeverLeaked` (`LockIsInUse`): the lock is
held only by a call that is inside `_refresh`.

**RingRequestsProofs.** `TypeCorrect`, `ServerErrorsBounded`
(`FiveHundredsBounded`), `RetryAfterIsHonoured` (`RetryAfterHonoured`),
`PutDecidesNothing` (`PutNeverDecides`). The bound on server errors is not
inductive: the counter of the code, not the history, decides when to give up.
`Counting` relates the two (equal, but for a 5xx answer under way), `Waiting`
says that a sleep lasts at least as long as Ring asked for, and `Rested` that
outside `_request` nothing of a request is left.

The response cache: `CacheForgets` (`CacheIsBounded`: an entry shows what Ring has
or has had, for at most one more TTL) and `HitsDoNotRenew` (`OnlyRepliesRefresh`:
only a successful reply for its key gives an entry new data or new life). The
shape of an operation: `OperationsKeepShape` (`OperationShape`: only
`get_snapshot` has a second and a third request, and every sleep is bounded) and
`SnapshotNeverStartsOver` (`RequestsInOrder`: GET, PUT, GET, then the end).

**PartnerTokensProofs.** `TypeCorrect`, `RowFollows` (`RowFollowsRing`),
`Refinement` (`ImplementsCredential`). The
invariant follows pairs on their way: a request that holds a refresh token took it
from the row (`Provenance`), the row does not go away under it (`RowStays`), and
a granted pair is carried by one request only, new to the store and known to Ring
(`InTransit`). The refinement is this last fact: a stored pair was never stored
before. `SessionEndsForAReason` (`InvalidationIsExplained`) combines
`RowFollowsRing` with `RejectedIsSpent` (a refused token stays refused): if the
refused token is still in the row it is dead, or its successor is on its way to
another request; the only other case is a row that has moved on.

**AppAuthProofs.** `TypeCorrect`, from an invariant that says that each call
carries a token where it is about to store one (`Carried`) and that a valid
session has one to hand out (`SessionHasToken`). `InUseIsBacked` (`InUseIsKept`)
is not inductive, since a token on its way into memory may arrive late: `Held`
says the same of those. `LoadingIsServed` (`LoadingHasACall`): a login view that
loads has a check, or a launch check that has found a token, under way.
`SignedOutIsFinal` (`StaysSignedOut`) needs `TokensWereIssued`: whatever the app
holds was handed out before, so that its age has begun to count, and once all of
those are stale and nothing is on its way into the stores, no interleaving makes a
call return a token before the user authorizes again.

**DashboardProofs.** `TypeCorrect`, `NoLoopEscapes` (`OneRefreshLoop`), the latter
for any number of `loadDevices` tasks. `OneRefreshLoop` is inductive given the
types: the only steps that start a loop or change `refreshTask` cancel the one
before. `LoadingIsServed` (`LoadingHasATask`): a dashboard that loads has a load or
refresh task with its answer still to come. `CancellationIsFinal`
(`CancelledWindsDown`) and `NothingStartsUnseen` (`LeftStays`) rest on
`LoopAfterLoad` (a load starts its loop once, with its last statement): a
cancelled loop comes closer to its end with every step (`StepsLeft`), and after
the view has gone and its loads are over none is started. `ListNeverFallsBack`
(`StaysUpToDate`): once the list, the valid cache and all answers on their way
are what Ring has, no late delivery undoes it.

Only model-checked: the liveness properties, since they need fairness, which is
out of this prover's reach. Of most of them the safety core is proved, that is,
whatever has to end has something pending that ends it, or a measure that only
falls, for every value of the constants; what remains to TLC is that the pending
step is taken.

| checked by TLC | proved core |
|---|---|
| `AcquireReturns` | `SleepsWithinBudget`, `DeadlineNeverMoves` |
| `DeleteFreesCapacity` | `BooksInOrder`, `NoSlotIsTaken` |
| `AcloseTerminates` | `ShutdownAdvances` |
| `ConnectingEnds` | `ConnectingIsTransient`, `PlayersConnectionsEnd` |
| `StopUnblocks` | `NoStopIsLost`, `PlayersConnectionsEnd` |
| `LeavingReleases` | `PlayersStreamsEnd` |
| `SpinnerEnds` | `SpinnersAwaitCalls` |
| `CallReturns` | `LockIsNeverLeaked` |
| `OperationEnds` | `OperationsKeepShape`, `SnapshotNeverStartsOver`, `ServerErrorsBounded` |
| `ReadsCatchUp` | `CacheForgets`, `HitsDoNotRenew` |
| `LoadingEnds` (both) | `LoadingIsServed` (both) |
| `InvalidSessionFadesOut` | `SignedOutIsFinal` |
| `LeftIsQuiet` | `NoLoopEscapes`, `CancellationIsFinal`, `NothingStartsUnseen` |
| `ListCatchesUp` | `ListNeverFallsBack` |

## 5. What is not modelled, and why

* Nothing to interleave: views beyond the handlers above, value types,
  configuration, log redaction, input sanitising, encryption, the mock adapter
  and routes, the WebRTC shims. The headers under `WebRTC.xcframework` are vendored
  declarations of a binary library.
* SDP rewriting (`reorderMLinesToMatchOffer`, `ensureRtcpMux`) and the payload
  mappers: functions of one text or payload. Their content is text; a model of it
  would be a transliteration, and unit tests reach all of it.
* `PartnerAPIClient.executeWithRetry`: three retries and one refresh, all local to
  one call and bounded by two counters.
* Webhooks and account linking: one idempotent insert each, in tables of their
  own.
* The events view model: one request per load. `DefaultAuthService`: an earlier
  OAuth implementation that nothing creates.

What is left to do: a measure for the player views (how many steps a view that has
gone still causes), and a composition of `RingRequests` with `RateLimitGovernor`,
which it abstracts to being admitted or refused.
