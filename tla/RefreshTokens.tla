---------------------------- MODULE RefreshTokens ----------------------------
(***************************************************************************)
(* How the unofficial adapter keeps its Ring credentials: the access-token *)
(* cache and _refresh of RingConsumerClient, the singleton row of          *)
(* RefreshTokenStore, the bootstrap at start-up, the operator's script     *)
(* bootstrap_ring_refresh_token.py, and Ring's OAuth server, which retires *)
(* a refresh token when it hands out the next.  The backend may crash at   *)
(* any moment, docker restarts it; requests and answers may be lost or     *)
(* late.                                                                   *)
(*                                                                         *)
(* Tokens are numbered in the order Ring issues them.                      *)
(***************************************************************************)
EXTENDS Naturals

CONSTANTS
  Callers,     \* concurrent ensure_access_token() calls (a caller may call again)
  Nobody,      \* the lock is free
  MaxToken,    \* bound: refresh tokens Ring issues
  MaxCrashes   \* bound: crashes of the backend

ASSUME CallersAssumption == Nobody \notin Callers
ASSUME BoundsAssumption == MaxToken \in Nat \ {0} /\ MaxCrashes \in Nat

VARIABLES
  process,   \* the backend: "up" or "down"
  row,       \* the stored token, 0 if the table is empty or the file removed
  valid,     \* its is_valid column
  env,       \* RING_REFRESH_TOKEN of the container, 0 if unset
  dotenv,    \* RING_REFRESH_TOKEN in the .env file
  script,    \* where the operator is in renewing the token
  access,    \* self._access_token: "none", "fresh", or "stale" (near expiry)
  lock,      \* the holder of self._token_lock
  pc,        \* where each caller is
  loaded,    \* the local variable refresh_token of each caller
  sent,      \* callers whose POST is on its way to Ring
  reply,     \* Ring's answer to each caller: 0 none, else the new token
  accepted,  \* refresh tokens Ring accepts
  issued,    \* the last token Ring issued
  faulted,   \* history: the backend's token was lost or revoked
  crashes    \* crashes so far

store == <<row, valid>>
ring == <<accepted, issued>>
operator == <<dotenv, script>>
vars == <<process, store, env, operator, access, lock, pc, loaded, sent, reply, ring, faulted, crashes>>

Tokens == 1..MaxToken
Refreshing == {"load", "post", "granted", "refused"}

TypeOK ==
  /\ process \in {"up", "down"}
  /\ row \in Tokens \cup {0}
  /\ valid \in BOOLEAN /\ (valid => row # 0)
  /\ env \in Tokens \cup {0} /\ dotenv \in Tokens \cup {0}
  /\ script \in {"idle", "written", "dropped", "recreated"}
  /\ access \in {"none", "fresh", "stale"}
  /\ lock \in Callers \cup {Nobody}
  /\ pc \in [Callers -> {"idle", "wait", "ok", "error"} \cup Refreshing]
  /\ loaded \in [Callers -> Tokens \cup {0}]
  /\ sent \subseteq Callers
  /\ reply \in [Callers -> Tokens \cup {0}]
  /\ accepted \subseteq Tokens
  /\ issued \in Tokens
  /\ faulted \in BOOLEAN
  /\ crashes \in 0..MaxCrashes

\* A first boot: the operator has generated token 1, or not set it yet.
Init ==
  /\ process = "down"
  /\ row = 0 /\ valid = FALSE
  /\ env \in {0, 1} /\ dotenv = env /\ script = "idle"
  /\ access = "none"
  /\ lock = Nobody
  /\ pc = [c \in Callers |-> "idle"]
  /\ loaded = [c \in Callers |-> 0]
  /\ sent = {}
  /\ reply = [c \in Callers |-> 0]
  /\ accepted = {1} /\ issued = 1
  /\ faulted = FALSE /\ crashes = 0

-----------------------------------------------------------------------------
(***************************************************************************)
(* Start-up: _bootstrap_refresh_token.  load() knows valid rows only.      *)
(***************************************************************************)
load == IF valid THEN row ELSE 0

Bootstrap ==
  /\ process = "down"
  /\ \/ load # 0 /\ UNCHANGED <<store, faulted>>
     \/ load = 0 /\ env # 0 /\ row' = env /\ valid' = TRUE /\ faulted' = (env \notin accepted)
  /\ process' = "up"
  /\ script' = IF script = "recreated" THEN "idle" ELSE script
  /\ UNCHANGED <<env, dotenv, access, lock, pc, loaded, sent, reply, ring, crashes>>

\* The process dies; what it had in memory, answers included, is gone.
Dies ==
  /\ process' = "down"
  /\ access' = "none" /\ lock' = Nobody
  /\ faulted' = (faulted \/ \E c \in Callers : pc[c] = "granted" /\ reply[c] # loaded[c])
  /\ pc' = [c \in Callers |-> "idle"]

Crash ==
  /\ process = "up"
  /\ crashes < MaxCrashes /\ crashes' = crashes + 1
  /\ Dies
  /\ UNCHANGED <<store, env, operator, loaded, sent, reply, ring>>

(***************************************************************************)
(* ensure_access_token                                                     *)
(***************************************************************************)
Call(c) ==
  /\ process = "up"
  /\ pc[c] \in {"idle", "ok", "error"} /\ c \notin sent
  /\ pc' = [pc EXCEPT ![c] = "wait"]
  /\ UNCHANGED <<process, store, env, operator, access, lock, loaded, sent, reply, ring, faulted, crashes>>

LockedWithoutCheck(c) ==
  /\ pc[c] = "wait" /\ lock = Nobody
  /\ lock' = c
  /\ pc' = [pc EXCEPT ![c] = "load"]
  /\ UNCHANGED <<process, store, env, operator, access, loaded, sent, reply, ring, faulted, crashes>>

LockedByAnyone(c) ==
  /\ pc[c] = "wait"
  /\ \/ /\ access = "fresh"
        /\ pc' = [pc EXCEPT ![c] = "ok"]
        /\ UNCHANGED lock
     \/ /\ access # "fresh"
        /\ pc' = [pc EXCEPT ![c] = "load"]
        /\ lock' = c
  /\ UNCHANGED <<process, store, env, operator, access, loaded, sent, reply, ring, faulted, crashes>>

\* async with self._token_lock: a fresh token is returned at once.
Locked(c) ==
  /\ pc[c] = "wait" /\ lock = Nobody
  /\ \/ /\ access = "fresh"
        /\ pc' = [pc EXCEPT ![c] = "ok"]
        /\ UNCHANGED lock
     \/ /\ access # "fresh"
        /\ pc' = [pc EXCEPT ![c] = "load"]
        /\ lock' = c
  /\ UNCHANGED <<process, store, env, operator, access, loaded, sent, reply, ring, faulted, crashes>>

\* The lock is released on every way out of the block.
Leave(c, outcome) ==
  /\ pc' = [pc EXCEPT ![c] = outcome]
  /\ lock' = Nobody

(***************************************************************************)
(* _refresh                                                                *)
(***************************************************************************)
\* The store has a valid token: POST it to Ring's OAuth endpoint.
Post(c) ==
  /\ pc[c] = "load" /\ load # 0
  /\ loaded' = [loaded EXCEPT ![c] = load]
  /\ sent' = sent \cup {c}
  /\ pc' = [pc EXCEPT ![c] = "post"]
  /\ UNCHANGED <<process, store, env, operator, access, lock, reply, ring, faulted, crashes>>

\* No valid token: AuthenticationRequiredError.
NoToken(c) ==
  /\ pc[c] = "load" /\ load = 0
  /\ Leave(c, "error")
  /\ UNCHANGED <<process, store, env, operator, access, loaded, sent, reply, ring, faulted, crashes>>

\* Timeout, transport error or 5xx.  The request may reach Ring later, and an
\* answer that was under way is lost.
PostFailsHoldingLock(c) ==
  /\ pc[c] \in {"post", "granted", "refused"}
  /\ sent' \in {sent, sent \ {c}}
  /\ faulted' = (faulted \/ (pc[c] = "granted" /\ reply[c] # loaded[c]))
  /\ pc' = [pc EXCEPT ![c] = "error"]
  /\ UNCHANGED <<process, store, env, operator, access, lock, loaded, reply, ring, crashes>>

PostFails(c) ==
  /\ pc[c] \in {"post", "granted", "refused"}
  /\ sent' \in {sent, sent \ {c}}
  /\ faulted' = (faulted \/ (pc[c] = "granted" /\ reply[c] # loaded[c]))
  /\ Leave(c, "error")
  /\ UNCHANGED <<process, store, env, operator, access, loaded, reply, ring, crashes>>

\* 401: mark_invalid, then AuthenticationRequiredError.
MarkInvalid(c) ==
  /\ pc[c] = "refused"
  /\ valid' = FALSE
  /\ Leave(c, "error")
  /\ UNCHANGED <<process, row, env, operator, access, loaded, sent, reply, ring, faulted, crashes>>

RefreshedWithoutRotate(c) ==
  /\ pc[c] = "granted"
  /\ access' = "fresh"
  /\ Leave(c, "ok")
  /\ UNCHANGED <<process, store, env, operator, loaded, sent, reply, ring, faulted, crashes>>

\* 200: rotate() if the token is a new one (there must be a table to rotate
\* it into), then cache the access token.
Refreshed(c) ==
  /\ pc[c] = "granted"
  /\ IF reply[c] # loaded[c] THEN row # 0 /\ row' = reply[c] /\ valid' = TRUE
                             ELSE UNCHANGED store
  /\ access' = "fresh"
  /\ Leave(c, "ok")
  /\ UNCHANGED <<process, env, operator, loaded, sent, reply, ring, faulted, crashes>>

\* rotate() fails and rolls back: the new token is lost with the exception.
RotateFails(c) ==
  /\ pc[c] = "granted" /\ reply[c] # loaded[c]
  /\ faulted' = TRUE
  /\ Leave(c, "error")
  /\ UNCHANGED <<process, store, env, operator, access, loaded, sent, reply, ring, crashes>>

\* The cached token is within REFRESH_THRESHOLD_SECONDS of its expiry.
AccessExpires ==
  /\ access = "fresh"
  /\ access' = "stale"
  /\ UNCHANGED <<process, store, env, operator, lock, pc, loaded, sent, reply, ring, faulted, crashes>>

-----------------------------------------------------------------------------
(***************************************************************************)
(* Ring's OAuth server, and the operator                                   *)
(***************************************************************************)
\* Is the caller still there for the answer; if not, a new token is lost.
Answer(c, outcome, token) ==
  IF pc[c] = "post"
    THEN /\ pc' = [pc EXCEPT ![c] = outcome]
         /\ reply' = [reply EXCEPT ![c] = token]
         /\ UNCHANGED faulted
    ELSE /\ faulted' = (faulted \/ (outcome = "granted" /\ token # loaded[c]))
         /\ UNCHANGED <<pc, reply>>

\* Ring accepts the token and answers with the same or with its successor.
RingGrants(c) ==
  /\ c \in sent /\ loaded[c] \in accepted
  /\ sent' = sent \ {c}
  /\ \/ Answer(c, "granted", loaded[c]) /\ UNCHANGED ring
     \/ /\ issued < MaxToken
        /\ issued' = issued + 1
        /\ accepted' = (accepted \ {loaded[c]}) \cup {issued + 1}
        /\ Answer(c, "granted", issued + 1)
  /\ UNCHANGED <<process, store, env, operator, access, lock, loaded, crashes>>

RingRefuses(c) ==
  /\ c \in sent /\ loaded[c] \notin accepted
  /\ sent' = sent \ {c}
  /\ Answer(c, "refused", 0)
  /\ UNCHANGED <<process, store, env, operator, access, lock, loaded, ring, crashes>>

\* The account's password changes: every token is revoked.
RingRevokes ==
  /\ accepted # {}
  /\ accepted' = {}
  /\ faulted' = TRUE
  /\ UNCHANGED <<process, store, env, operator, access, lock, pc, loaded, sent, reply, issued, crashes>>

(***************************************************************************)
(* The operator renews the token, with bootstrap_ring_refresh_token.py or  *)
(* by hand                                                                 *)
(***************************************************************************)
\* obtain_refresh_token and upsert_env, or ring-auth-cli and an editor.
Regenerate ==
  /\ script \in {"idle", "written"} /\ issued < MaxToken
  /\ issued' = issued + 1
  /\ accepted' = accepted \cup {issued + 1}
  /\ dotenv' = issued + 1
  /\ script' = "written"
  /\ UNCHANGED <<process, store, env, access, lock, pc, loaded, sent, reply, faulted, crashes>>

\* docker compose exec backend rm -f /data/tokens.db, which fails unnoticed
\* when the backend is not running.
DropStore ==
  /\ script = "written"
  /\ IF process = "up" THEN row' = 0 /\ valid' = FALSE ELSE UNCHANGED store
  /\ script' = "dropped"
  /\ UNCHANGED <<process, env, dotenv, access, lock, pc, loaded, sent, reply, ring, faulted, crashes>>

\* docker compose up -d --force-recreate backend: the container is replaced
\* by one with the new environment.  By hand, nobody drops the store before.
Recreate ==
  /\ script \in {"written", "dropped"}
  /\ Dies
  /\ env' = dotenv
  /\ script' = IF script = "dropped" THEN "recreated" ELSE "idle"
  /\ UNCHANGED <<store, dotenv, loaded, sent, reply, ring, crashes>>

-----------------------------------------------------------------------------
Refresh(c) ==
  Post(c) \/ NoToken(c) \/ PostFails(c) \/ MarkInvalid(c) \/ Refreshed(c) \/ RotateFails(c)

Next ==
  \/ Bootstrap \/ Crash \/ AccessExpires \/ RingRevokes
  \/ Regenerate \/ DropStore \/ Recreate
  \/ \E c \in Callers :
       Call(c) \/ Locked(c) \/ Refresh(c) \/ RingGrants(c) \/ RingRefuses(c)

Spec == Init /\ [][Next]_vars

(***************************************************************************)
(* Awaits of _refresh end (the POST has a timeout), and asyncio.Lock wakes *)
(* its waiters in turn.                                                    *)
(***************************************************************************)
Fairness ==
  \A c \in Callers : WF_vars(Refresh(c)) /\ SF_vars(Locked(c))

FairSpec == Spec /\ Fairness

-----------------------------------------------------------------------------
(***************************************************************************)
(* mark_invalid never throws away good credentials: a row that is marked   *)
(* invalid holds a token Ring no longer accepts, although the UPDATE does  *)
(* not name the token that was refused.                                    *)
(***************************************************************************)
InvalidMeansRejected == ~ valid => row \notin accepted

(***************************************************************************)
(* Rotation is never lost without a fault: as long as no answer or token   *)
(* was lost and nothing was revoked, a valid row is accepted by Ring, or   *)
(* its successor is in the hands of the caller that is about to store it.  *)
(***************************************************************************)
StoreFollowsRing ==
  valid /\ ~ faulted =>
    \/ row \in accepted
    \/ \E c \in Callers : pc[c] = "granted" /\ loaded[c] = row /\ reply[c] \in accepted

(***************************************************************************)
(* "concurrent callers never trigger duplicate refreshes": whoever is      *)
(* refreshing does so because no fresh token is cached, and is alone.      *)
(***************************************************************************)
RefreshIsNeeded ==
  \A c \in Callers : pc[c] \in Refreshing => access # "fresh" /\ lock = c

(***************************************************************************)
(* rotate() works as a compare-and-swap although its UPDATE has no         *)
(* condition: while the backend runs, the stored token is replaced only by *)
(* its successor, by the caller that posted that very token and holds the  *)
(* lock.  And a row that was marked invalid becomes valid again only at    *)
(* start-up, with the token of the environment.                            *)
(***************************************************************************)
RotatesInOrder ==
  [][/\ process = "up" /\ row' # row /\ row' # 0 =>
          \E c \in Callers :
            /\ pc[c] = "granted" /\ lock = c
            /\ loaded[c] = row /\ reply[c] = row' /\ row < row'
     /\ ~ valid /\ valid' => process = "down" /\ row' = env]_vars

(***************************************************************************)
(* Every ensure_access_token call returns, raises or dies with the         *)
(* process: no error path keeps the lock.                                  *)
(***************************************************************************)
CallReturns == \A c \in Callers : pc[c] = "wait" ~> pc[c] \in {"ok", "error", "idle"}
=============================================================================
