---------------------------- MODULE PartnerTokens ----------------------------
(***************************************************************************)
(* The Partner API tokens of the backend: TokenService                     *)
(* (partner-auth-backend/app/services/token_service.py) over the tokens    *)
(* table of TokenStore (app/data/token_store.py), as called by the routes  *)
(* GET /api/token and POST /ring/token-exchange.                           *)
(*                                                                         *)
(* Every request builds its own TokenService, there is no lock, and each   *)
(* TokenStore method is one SQLite transaction on a connection of its own; *)
(* requests therefore interleave at every await.  A pair of access and     *)
(* refresh token is the number of the grant that issued it.  Both routes   *)
(* work on the one row of user "default".                                  *)
(***************************************************************************)
EXTENDS Integers

CONSTANTS
  Requests,   \* concurrent HTTP requests to the backend (each may come again)
  MaxGrants,  \* bound: how many token pairs Ring issues
  NoRow       \* the user has no row in the tokens table

ASSUME GrantsAssumption == MaxGrants \in Nat
ASSUME NoRowAssumption == NoRow \notin [pair : 0..MaxGrants, valid : BOOLEAN, stale : BOOLEAN]

VARIABLES
  row,       \* the tokens row; stale: within _REFRESH_THRESHOLD of expires_at
  pc,        \* where each request is
  held,      \* the refresh token a request read and posts
  got,       \* the pair Ring granted to a request
  issued,    \* external: number of pairs Ring has issued
  accepted,  \* external: the refresh tokens Ring accepts
  dead,      \* history: tokens revoked by Ring, or spent for a pair that was
             \* lost on the way back
  stored     \* history: pairs that have been in the row

vars == <<row, pc, held, got, issued, accepted, dead, stored>>

Pairs == 1..MaxGrants
Row == [pair : Pairs, valid : BOOLEAN, stale : BOOLEAN]
Labels == {"idle", "read", "post", "granted", "rejected", "code", "coded"}

TypeOK ==
  /\ row \in Row \cup {NoRow}
  /\ pc \in [Requests -> Labels]
  /\ held \in [Requests -> Pairs \cup {0}]
  /\ got \in [Requests -> Pairs \cup {0}]
  /\ issued \in 0..MaxGrants
  /\ accepted \subseteq 1..issued
  /\ dead \subseteq Pairs
  /\ stored \subseteq Pairs

Init ==
  /\ row = NoRow
  /\ pc = [p \in Requests |-> "idle"]
  /\ held = [p \in Requests |-> 0]
  /\ got = [p \in Requests |-> 0]
  /\ issued = 0
  /\ accepted = {}
  /\ dead = {}
  /\ stored = {}

\* The request is over and its locals are gone.
Finish(p) ==
  /\ pc' = [pc EXCEPT ![p] = "idle"]
  /\ held' = [held EXCEPT ![p] = 0]
  /\ got' = [got EXCEPT ![p] = 0]

-----------------------------------------------------------------------------
(* get_valid_token *)

\* No row, or is_valid is 0: TokenNotFoundError, SessionInvalidError.
GetRefused(p) ==
  /\ pc[p] = "idle"
  /\ row # NoRow => ~ row.valid
  /\ UNCHANGED vars

\* The stored pair is far enough from its expiry.
GetStored(p) ==
  /\ pc[p] = "idle"
  /\ row # NoRow
  /\ row.valid
  /\ ~ row.stale
  /\ UNCHANGED vars

\* The stored pair is about to expire or has expired: refresh_token is called.
GetStale(p) ==
  /\ pc[p] = "idle"
  /\ row # NoRow
  /\ row.valid
  /\ row.stale
  /\ pc' = [pc EXCEPT ![p] = "read"]
  /\ UNCHANGED <<row, held, got, issued, accepted, dead, stored>>

-----------------------------------------------------------------------------
(* refresh_token *)

\* The row is read again (is_valid is not looked at) and its refresh token
\* posted.  A row is never deleted, so the row is there.
RefreshRead(p) ==
  /\ pc[p] = "read"
  /\ held' = [held EXCEPT ![p] = row.pair]
  /\ pc' = [pc EXCEPT ![p] = "post"]
  /\ UNCHANGED <<row, got, issued, accepted, dead, stored>>

\* External: Ring takes the refresh token and rotates it.
RingRotates(p) ==
  /\ pc[p] = "post"
  /\ held[p] \in accepted
  /\ issued < MaxGrants
  /\ issued' = issued + 1
  /\ accepted' = (accepted \ {held[p]}) \cup {issued + 1}
  /\ got' = [got EXCEPT ![p] = issued + 1]
  /\ pc' = [pc EXCEPT ![p] = "granted"]
  /\ UNCHANGED <<row, held, dead, stored>>

\* External: Ring answers 401 to a token that is spent or revoked.
RingRejects(p) ==
  /\ pc[p] = "post"
  /\ held[p] \notin accepted
  /\ pc' = [pc EXCEPT ![p] = "rejected"]
  /\ UNCHANGED <<row, held, got, issued, accepted, dead, stored>>

RefreshFailsAs401(p) ==
  /\ pc[p] = "post"
  /\ pc' = [pc EXCEPT ![p] = "rejected"]
  /\ UNCHANGED <<row, held, got, issued, accepted, dead, stored>>

\* Any other status, a timeout of the POST or a transport error: UpstreamError
\* or the httpx exception, and the row is left alone.
RefreshFails(p) ==
  /\ pc[p] = "post"
  /\ Finish(p)
  /\ UNCHANGED <<row, issued, accepted, dead, stored>>

UpdateAccessOnly(p) ==
  /\ pc[p] = "granted"
  /\ row' = [row EXCEPT !.valid = TRUE, !.stale = FALSE]
  /\ stored' = stored \cup {got[p]}
  /\ Finish(p)
  /\ UNCHANGED <<issued, accepted, dead>>

\* 200: update_tokens overwrites the row, sets is_valid, and the new pair is
\* handed out.
Update(p) ==
  /\ pc[p] = "granted"
  /\ row' = [pair |-> got[p], valid |-> TRUE, stale |-> FALSE]
  /\ stored' = stored \cup {got[p]}
  /\ Finish(p)
  /\ UNCHANGED <<issued, accepted, dead>>

InvalidateToggling(p) ==
  /\ pc[p] = "rejected"
  /\ row' = [row EXCEPT !.valid = ~ @]
  /\ Finish(p)
  /\ UNCHANGED <<issued, accepted, dead, stored>>

\* 401: invalidate_session clears is_valid of the row, whatever it holds by now.
Invalidate(p) ==
  /\ pc[p] = "rejected"
  /\ row' = [row EXCEPT !.valid = FALSE]
  /\ Finish(p)
  /\ UNCHANGED <<issued, accepted, dead, stored>>

\* The answer, or the write of the row, fails after Ring rotated the token.
RotationLost(p) ==
  /\ pc[p] = "granted"
  /\ dead' = dead \cup {held[p]}
  /\ Finish(p)
  /\ UNCHANGED <<row, issued, accepted, stored>>

-----------------------------------------------------------------------------
(* exchange_code *)

\* POST /ring/token-exchange: the authorization code is posted to Ring.
Exchange(p) ==
  /\ pc[p] = "idle"
  /\ pc' = [pc EXCEPT ![p] = "code"]
  /\ UNCHANGED <<row, held, got, issued, accepted, dead, stored>>

\* External: Ring takes the code and issues a pair of a grant of its own.
RingIssues(p) ==
  /\ pc[p] = "code"
  /\ issued < MaxGrants
  /\ issued' = issued + 1
  /\ accepted' = accepted \cup {issued + 1}
  /\ got' = [got EXCEPT ![p] = issued + 1]
  /\ pc' = [pc EXCEPT ![p] = "coded"]
  /\ UNCHANGED <<row, held, dead, stored>>

\* Ring refuses the code, or the answer or the write of the row fails.
ExchangeFails(p) ==
  /\ pc[p] \in {"code", "coded"}
  /\ Finish(p)
  /\ UNCHANGED <<row, issued, accepted, dead, stored>>

\* 200: save_tokens inserts or overwrites the row and sets is_valid.
SaveTokens(p) ==
  /\ pc[p] = "coded"
  /\ row' = [pair |-> got[p], valid |-> TRUE, stale |-> FALSE]
  /\ stored' = stored \cup {got[p]}
  /\ Finish(p)
  /\ UNCHANGED <<issued, accepted, dead>>

-----------------------------------------------------------------------------
\* Time passes: the stored pair comes within five minutes of its expiry.
Expire ==
  /\ row # NoRow
  /\ ~ row.stale
  /\ row' = [row EXCEPT !.stale = TRUE]
  /\ UNCHANGED <<pc, held, got, issued, accepted, dead, stored>>

\* External: the account owner withdraws the authorization.
Revoke ==
  /\ accepted # {}
  /\ accepted' = {}
  /\ dead' = dead \cup accepted
  /\ UNCHANGED <<row, pc, held, got, issued, stored>>

\* The backend process dies and is restarted: the row survives, the requests
\* and what Ring had granted to them do not.
Crash ==
  /\ \E p \in Requests : pc[p] # "idle"
  /\ pc' = [p \in Requests |-> "idle"]
  /\ held' = [p \in Requests |-> 0]
  /\ got' = [p \in Requests |-> 0]
  /\ dead' = dead \cup {held[p] : p \in {q \in Requests : pc[q] = "granted"}}
  /\ UNCHANGED <<row, issued, accepted, stored>>

Step(p) ==
  \/ RefreshRead(p) \/ Update(p) \/ Invalidate(p) \/ SaveTokens(p)
  \/ RotationLost(p)

Answer(p) ==
  \/ RingRotates(p) \/ RingRejects(p) \/ RefreshFails(p)
  \/ RingIssues(p) \/ ExchangeFails(p)

Get(p) == GetRefused(p) \/ GetStored(p) \/ GetStale(p)

Next ==
  \/ \E p \in Requests : Get(p) \/ Exchange(p) \/ Step(p) \/ Answer(p)
  \/ Expire
  \/ Revoke
  \/ Crash

Spec == Init /\ [][Next]_vars

-----------------------------------------------------------------------------
(***************************************************************************)
(* The row never falls behind Ring by the backend's own doing: its refresh *)
(* token is one Ring accepts, or its successor is on the way to a request  *)
(* that will store it, or it was revoked or its successor lost in a crash  *)
(* or a failed answer.  Concurrent refreshes, exchanges and invalidations  *)
(* may overwrite each other's row but never leave a spent token behind.    *)
(***************************************************************************)
RowFollowsRing ==
  row # NoRow =>
    \/ row.pair \in accepted \cup dead
    \/ \E p \in Requests : pc[p] = "granted" /\ held[p] = row.pair

SessionValid == row # NoRow /\ row.valid

\* The 401 of request p is news about the row: its token was revoked, or spent
\* for a pair that was lost.  Otherwise the 401 came of a race of refreshes: the
\* row has moved on, or the pair that replaces the token is on its way.
Explained(p) ==
  /\ pc[p] = "rejected"
  /\ \/ held[p] \in dead
     \/ held[p] # row.pair
     \/ \E q \in Requests \ {p} : pc[q] = "granted" /\ held[q] = held[p]

(***************************************************************************)
(* A valid session is given up only after a 401 that the token or a race   *)
(* of refreshes explains, although invalidate_session does not name the    *)
(* refused token: without concurrent refreshes only a token that was       *)
(* revoked, or whose successor was lost, ends a session; a timeout or a    *)
(* 5xx never does.                                                         *)
(***************************************************************************)
InvalidationIsExplained ==
  [][SessionValid /\ ~ SessionValid' => \E p \in Requests : Explained(p)]_vars

Credential == INSTANCE RotatingCredential WITH
  MaxGrants <- MaxGrants,
  pair <- IF row = NoRow THEN 0 ELSE row.pair,
  valid <- row # NoRow /\ row.valid,
  used <- stored

(***************************************************************************)
(* However refreshes, exchanges, 401s and crashes interleave, the row      *)
(* behaves as a rotating credential: a pair is stored at most once and     *)
(* whole, and an invalidated session is never revived with the pair it was *)
(* invalidated with, also when the 401 belonged to an older refresh.       *)
(***************************************************************************)
ImplementsCredential == Credential!Spec
=============================================================================
