---------------------------- MODULE RingRequests ----------------------------
(***************************************************************************)
(* Reads of Ring's consumer API by the unofficial adapter                  *)
(* (partner-auth-backend/app/adapters/ring_consumer_client.py): the        *)
(* request plumbing _request with its retries, the in-process response     *)
(* cache, and the four operations that use them.                           *)
(*                                                                         *)
(* Everything runs on one asyncio loop; a step of the model is the code    *)
(* between two awaits.  Time is kept as remaining time only (what a sleep  *)
(* has left, what a cache entry has left), so no clock has to be bounded.  *)
(* Ring's data is abstracted to a version that Ring may advance.           *)
(***************************************************************************)
EXTENDS Integers

CONSTANTS
  Callers,        \* concurrent callers of the client (each may call again)
  Ops,            \* the operations called, a subset of Operations
  DevicesTtl,     \* _DEVICES_CACHE_TTL_SECONDS, in ticks
  HistoryTtl,     \* _HISTORY_CACHE_TTL_SECONDS, in ticks
  Initial,        \* _INITIAL_BACKOFF_SECONDS, in ticks
  MaxBackoff,     \* _MAX_BACKOFF_SECONDS, in ticks
  Max5xx,         \* _MAX_5XX_RETRIES
  Settle,         \* _snapshot_refresh_settle, in ticks
  RetryAfters,    \* the Retry-After values Ring may send, in ticks
  MaxVersion,     \* bound: how often Ring's data changes
  None            \* no cache entry, no reply yet, no header

Cached == {"devices", "history"}
Operations == Cached \cup {"snapshot", "clip"}

ASSUME OpsAssumption == Ops \subseteq Operations
ASSUME TtlAssumption == DevicesTtl \in Nat \ {0} /\ HistoryTtl \in Nat \ {0}
ASSUME BackoffAssumption ==
  Initial \in Nat \ {0} /\ MaxBackoff \in Nat /\ Initial <= MaxBackoff
ASSUME RetryAssumption == Max5xx \in Nat /\ Settle \in Nat
ASSUME RetryAftersAssumption == RetryAfters \subseteq Nat
ASSUME VersionAssumption == MaxVersion \in Nat

VARIABLES
  ver,        \* the version of Ring's data
  cache,      \* self._cache: per key the data's version and the time left
  pc,         \* where each caller is
  op,         \* the operation it called
  stage,      \* get_snapshot: "get", then after a 404 "put" and "again"
  reply,      \* Ring's reply under way to the caller, or None
  attempt,    \* local attempt_5xx of _request
  backoff,    \* local backoff of _request
  timer,      \* what the caller's asyncio.sleep has left
  asked,      \* history: what is left of the Retry-After Ring last sent
  failures    \* history: 5xx replies to the current request

vars == <<ver, cache, pc, op, stage, reply, attempt, backoff, timer,
          asked, failures>>

Versions == 0..MaxVersion
Ttl == [k \in Cached |-> IF k = "devices" THEN DevicesTtl ELSE HistoryTtl]
\* Statuses _request hands to its caller: "ok" carries data (a list, an image,
\* a clip URL), "rejected" is every other answer the operation cannot use.
Final == {"ok", "notfound", "rejected"}
Reply == [status : Final \cup {"429", "5xx"}, ver : Versions,
          after : RetryAfters \cup {None}]

ASSUME NoneAssumption == None \notin Reply

TypeOK ==
  /\ ver \in Versions
  /\ cache \in [Cached -> [ver : Versions, left : Nat] \cup {None}]
  /\ pc \in [Callers -> {"idle", "acquire", "flight", "sleep", "settle"}]
  /\ op \in [Callers -> Operations \cup {None}]
  /\ stage \in [Callers -> {"get", "put", "again"}]
  /\ reply \in [Callers -> Reply \cup {None}]
  /\ attempt \in [Callers -> 0..Max5xx]
  /\ backoff \in [Callers -> Initial..MaxBackoff]
  /\ timer \in [Callers -> Nat]
  /\ asked \in [Callers -> Nat]
  /\ failures \in [Callers -> Nat]

Init ==
  /\ ver = 0
  /\ cache = [k \in Cached |-> None]
  /\ pc = [c \in Callers |-> "idle"]
  /\ op = [c \in Callers |-> None]
  /\ stage = [c \in Callers |-> "get"]
  /\ reply = [c \in Callers |-> None]
  /\ attempt = [c \in Callers |-> 0]
  /\ backoff = [c \in Callers |-> Initial]
  /\ timer = [c \in Callers |-> 0]
  /\ asked = [c \in Callers |-> 0]
  /\ failures = [c \in Callers |-> 0]

-----------------------------------------------------------------------------
(* The response cache *)

\* _cache_get would serve the entry: time.monotonic() < expires_at.
Live(k) == cache[k] # None /\ cache[k].left > 0

HitRenewing(c, k) ==
  /\ pc[c] = "idle"
  /\ Live(k)
  /\ cache' = [cache EXCEPT ![k].left = Ttl[k]]
  /\ UNCHANGED <<ver, pc, op, stage, reply, attempt, backoff, timer, asked,
                 failures>>

\* get_devices, get_history: _cache_get finds a live entry, which is returned.
Hit(c, k) ==
  /\ pc[c] = "idle"
  /\ Live(k)
  /\ UNCHANGED vars

\* Any operation that has to ask Ring; _cache_get drops an expired entry.
Miss(c, o) ==
  /\ pc[c] = "idle"
  /\ o \in Cached => ~ Live(o)
  /\ cache' = [k \in Cached |-> IF k = o THEN None ELSE cache[k]]
  /\ op' = [op EXCEPT ![c] = o]
  /\ pc' = [pc EXCEPT ![c] = "acquire"]
  /\ UNCHANGED <<ver, stage, reply, attempt, backoff, timer, asked, failures>>

-----------------------------------------------------------------------------
(* How a request ends *)

\* The operation of c returns or raises.
Return(c) ==
  /\ pc' = [pc EXCEPT ![c] = "idle"]
  /\ op' = [op EXCEPT ![c] = None]
  /\ stage' = [stage EXCEPT ![c] = "get"]
  /\ UNCHANGED timer

\* get_snapshot after the best-effort PUT, whatever became of it.
SettleAfterPut(c) ==
  /\ pc' = [pc EXCEPT ![c] = "settle"]
  /\ timer' = [timer EXCEPT ![c] = Settle]
  /\ stage' = [stage EXCEPT ![c] = "again"]
  /\ UNCHANGED op

RaiseFromPut(c) == Return(c)

\* _request raises: it propagates, except from the PUT of get_snapshot.
Raise(c) == IF stage[c] = "put" THEN SettleAfterPut(c) ELSE Return(c)

RespondLooping(c, s) ==
  CASE stage[c] = "put" -> SettleAfterPut(c)
    [] op[c] = "snapshot" /\ s = "notfound" ->
         /\ pc' = [pc EXCEPT ![c] = "acquire"]
         /\ stage' = [stage EXCEPT ![c] = "put"]
         /\ UNCHANGED <<timer, op>>
    [] OTHER -> Return(c)

\* _request returns a response with status s: get_snapshot reacts to a 404 of
\* its first GET, everybody else calls raise_for_status.
Respond(c, s) ==
  CASE stage[c] = "put" -> SettleAfterPut(c)
    [] stage[c] = "get" /\ op[c] = "snapshot" /\ s = "notfound" ->
         /\ pc' = [pc EXCEPT ![c] = "acquire"]
         /\ stage' = [stage EXCEPT ![c] = "put"]
         /\ UNCHANGED <<timer, op>>
    [] OTHER -> Return(c)

\* The locals of _request go out of scope.
Forget(c) ==
  /\ reply' = [reply EXCEPT ![c] = None]
  /\ attempt' = [attempt EXCEPT ![c] = 0]
  /\ backoff' = [backoff EXCEPT ![c] = Initial]
  /\ failures' = [failures EXCEPT ![c] = 0]
  /\ asked' = [asked EXCEPT ![c] = 0]

-----------------------------------------------------------------------------
(* _request *)

\* The governor admits the request and the access token is there: attempt_5xx
\* and backoff have their initial values, the first attempt is on its way.
Admitted(c) ==
  /\ pc[c] = "acquire"
  /\ pc' = [pc EXCEPT ![c] = "flight"]
  /\ UNCHANGED <<ver, cache, op, stage, reply, attempt, backoff, timer, asked,
                 failures>>

\* The governor (RateLimitedError) or ensure_access_token raises.
Refused(c) ==
  /\ pc[c] = "acquire"
  /\ Raise(c)
  /\ UNCHANGED <<ver, cache, reply, attempt, backoff, asked, failures>>

\* External: Ring handles the attempt with the data it has now.
RingReplies(c) ==
  /\ pc[c] = "flight"
  /\ reply[c] = None
  /\ \E s \in Final \cup {"429", "5xx"}, a \in RetryAfters \cup {None} :
       /\ a # None => s = "429"
       /\ reply' = [reply EXCEPT ![c] = 
                          [status |-> s, ver |-> IF s = "ok" THEN ver ELSE 0,
                           after |-> a]]
       /\ asked' = IF a = None THEN asked ELSE [asked EXCEPT ![c] = a]
       /\ failures' = IF s = "5xx" THEN [failures EXCEPT ![c] = @ + 1] ELSE failures
  /\ UNCHANGED <<ver, cache, pc, op, stage, attempt, backoff, timer>>

\* httpx.TimeoutException or another transport error, even if Ring replied.
Lost(c) ==
  /\ pc[c] = "flight"
  /\ Raise(c)
  /\ Forget(c)
  /\ UNCHANGED <<ver, cache>>

DoubledUncapped(b) == 2 * b

\* min(backoff * 2, _MAX_BACKOFF_SECONDS)
Doubled(b) == IF 2 * b <= MaxBackoff THEN 2 * b ELSE MaxBackoff

Sleep429Capped(c) ==
  /\ pc[c] = "flight" /\ reply[c] # None /\ reply[c].status = "429"
  /\ timer' = [timer EXCEPT ![c] =
                 IF reply[c].after # None /\ reply[c].after < MaxBackoff
                 THEN reply[c].after ELSE backoff[c]]
  /\ backoff' = [backoff EXCEPT ![c] = Doubled(@)]
  /\ pc' = [pc EXCEPT ![c] = "sleep"]
  /\ reply' = [reply EXCEPT ![c] = None]
  /\ UNCHANGED <<ver, cache, op, stage, attempt, asked, failures>>

Sleep429Resetting(c) ==
  /\ pc[c] = "flight" /\ reply[c] # None /\ reply[c].status = "429"
  /\ timer' = [timer EXCEPT ![c] =
                 IF reply[c].after # None THEN reply[c].after ELSE backoff[c]]
  /\ attempt' = [attempt EXCEPT ![c] = 0]
  /\ pc' = [pc EXCEPT ![c] = "sleep"]
  /\ reply' = [reply EXCEPT ![c] = None]
  /\ UNCHANGED <<ver, cache, op, stage, backoff, asked, failures>>

\* 429: sleep what Retry-After says, else the backoff, and go round.
Sleep429(c) ==
  /\ pc[c] = "flight" /\ reply[c] # None /\ reply[c].status = "429"
  /\ IF reply[c].after # None
     THEN /\ timer' = [timer EXCEPT ![c] = reply[c].after]
          /\ UNCHANGED backoff
     ELSE /\ timer' = [timer EXCEPT ![c] = backoff[c]]
          /\ backoff' = [backoff EXCEPT ![c] = Doubled(@)]
  /\ pc' = [pc EXCEPT ![c] = "sleep"]
  /\ reply' = [reply EXCEPT ![c] = None]
  /\ UNCHANGED <<ver, cache, op, stage, attempt, asked, failures>>

\* 5xx with retries left: sleep the backoff and go round.
Sleep5xx(c) ==
  /\ pc[c] = "flight" /\ reply[c] # None /\ reply[c].status = "5xx"
  /\ attempt[c] < Max5xx
  /\ attempt' = [attempt EXCEPT ![c] = @ + 1]
  /\ timer' = [timer EXCEPT ![c] = backoff[c]]
  /\ backoff' = [backoff EXCEPT ![c] = Doubled(@)]
  /\ pc' = [pc EXCEPT ![c] = "sleep"]
  /\ reply' = [reply EXCEPT ![c] = None]
  /\ UNCHANGED <<ver, cache, op, stage, asked, failures>>

\* 5xx and no retry left: UpstreamUnavailableError.
GiveUp(c) ==
  /\ pc[c] = "flight" /\ reply[c] # None /\ reply[c].status = "5xx"
  /\ attempt[c] >= Max5xx
  /\ Raise(c)
  /\ Forget(c)
  /\ UNCHANGED <<ver, cache>>

\* asyncio.sleep of a retry is over: the next attempt is on its way, without
\* asking the governor or looking at the token again.
Retry(c) ==
  /\ pc[c] = "sleep"
  /\ timer[c] = 0
  /\ pc' = [pc EXCEPT ![c] = "flight"]
  /\ UNCHANGED <<ver, cache, op, stage, reply, attempt, backoff, timer,
                 asked, failures>>

\* The settling time of get_snapshot is over: the second GET starts.
SecondGet(c) ==
  /\ pc[c] = "settle"
  /\ timer[c] = 0
  /\ pc' = [pc EXCEPT ![c] = "acquire"]
  /\ UNCHANGED <<ver, cache, op, stage, reply, attempt, backoff, timer,
                 asked, failures>>

\* Any other status is handed to the operation; _cache_set runs in the same
\* step as the arrival of a list it asked for.
Deliver(c) ==
  /\ pc[c] = "flight" /\ reply[c] # None /\ reply[c].status \in Final
  /\ Respond(c, reply[c].status)
  /\ cache' = IF op[c] \in Cached /\ reply[c].status = "ok"
              THEN [cache EXCEPT ![op[c]] =
                      [ver |-> reply[c].ver, left |-> Ttl[op[c]]]]
              ELSE cache
  /\ Forget(c)
  /\ UNCHANGED ver

-----------------------------------------------------------------------------
\* External: Ring's data changes.
Change ==
  /\ ver < MaxVersion
  /\ ver' = ver + 1
  /\ UNCHANGED <<cache, pc, op, stage, reply, attempt, backoff, timer,
                 asked, failures>>

Less(n) == IF n > 0 THEN n - 1 ELSE 0

\* One tick of time for every sleep, cache entry and Retry-After.
Tick ==
  /\ timer' = [c \in Callers |-> Less(timer[c])]
  /\ asked' = [c \in Callers |-> Less(asked[c])]
  /\ cache' = [k \in Cached |->
                 IF cache[k] = None THEN None ELSE [cache[k] EXCEPT !.left = Less(@)]]
  /\ UNCHANGED <<ver, pc, op, stage, reply, attempt, backoff, failures>>

Call(c) == \E o \in Ops : Miss(c, o) \/ (o \in Cached /\ Hit(c, o))

Step(c) ==
  \/ Admitted(c) \/ Refused(c)
  \/ Sleep429(c) \/ Sleep5xx(c) \/ GiveUp(c) \/ Deliver(c)
  \/ Retry(c) \/ SecondGet(c)

Next ==
  \/ \E c \in Callers : Call(c) \/ Step(c) \/ RingReplies(c) \/ Lost(c)
  \/ Change
  \/ Tick

Spec == Init /\ [][Next]_vars

(***************************************************************************)
(* The event loop runs what is ready, acquire() returns or raises (see     *)
(* RateLimitGovernor), an attempt is answered or runs into its timeout,    *)
(* and time passes.  Nothing makes callers call or Ring's data change.     *)
(***************************************************************************)
Fairness ==
  /\ WF_vars(Tick)
  /\ \A c \in Callers : WF_vars(Step(c)) /\ WF_vars(RingReplies(c) \/ Lost(c))

FairSpec == Spec /\ Fairness

-----------------------------------------------------------------------------
(***************************************************************************)
(* Requirement 8.4: no request sees more than _MAX_5XX_RETRIES + 1 server  *)
(* errors, however 429 replies are mixed in between and whichever of the   *)
(* three requests of get_snapshot it is.                                   *)
(***************************************************************************)
FiveHundredsBounded ==
  \A c \in Callers : failures[c] <= Max5xx + 1

(***************************************************************************)
(* Requirement 8.3: a caller told to wait has no attempt under way before  *)
(* Ring's Retry-After is over, also when it exceeds the backoff cap.       *)
(***************************************************************************)
RetryAfterHonoured ==
  \A c \in Callers : pc[c] = "flight" /\ reply[c] = None => asked[c] = 0

(***************************************************************************)
(* get_snapshot: the refresh PUT is best effort.  Whatever becomes of it   *)
(* (refused by the governor, timed out, 5xx), the operation is still       *)
(* running afterwards and only a GET decides it: it never ends out of the  *)
(* PUT.                                                                    *)
(***************************************************************************)
PutNeverDecides ==
  [][\A c \in Callers : stage[c] = "put" => pc'[c] # "idle"]_vars

(***************************************************************************)
(* Every operation ends once Ring stops answering 429; without that        *)
(* premise it need not, because a 429 is retried without limit.            *)
(***************************************************************************)
Throttled == \E c \in Callers : reply[c] # None /\ reply[c].status = "429"

OperationEnds ==
  <>[]~Throttled => \A c \in Callers : pc[c] = "acquire" ~> pc[c] = "idle"

(***************************************************************************)
(* The cache forgets.  A late answer may overwrite a newer one in the      *)
(* cache, but once Ring's data has stopped changing, sooner or later every *)
(* read returns the current data, from Ring or from the cache.             *)
(***************************************************************************)
ReadsCatchUp ==
  <>[](/\ \A k \in Cached : Live(k) => cache[k].ver = ver
       /\ \A c \in Callers : reply[c] # None /\ reply[c].status = "ok" =>
                            reply[c].ver = ver)
=============================================================================
