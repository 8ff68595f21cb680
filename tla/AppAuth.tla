------------------------------- MODULE AppAuth -------------------------------
(***************************************************************************)
(* Authentication in the tvOS app: BackendAuthService over                 *)
(* DefaultKeychainService, and AuthViewModel on top                        *)
(* (RingAppleTV/Sources/Services/Implementations/BackendAuthService.swift, *)
(* DefaultKeychainService.swift, ViewModels/AuthViewModel.swift).          *)
(*                                                                         *)
(* BackendAuthService is not an actor and has no lock: its async methods   *)
(* run on the concurrent executor, so calls interleave between any two     *)
(* accesses to cachedToken and the Keychain, each of which is one step     *)
(* here.  The view model is confined to the main actor.  A token is the    *)
(* number of the pair the backend handed out, and has an age.              *)
(***************************************************************************)
EXTENDS Integers, FiniteSets

CONSTANTS
  Services,   \* concurrent getValidToken calls of the app's services
  Checks,     \* checkBackendForToken tasks (the button stays enabled)
  Launch,     \* the checkExistingAuth task of ContentView
  Exit,       \* the logout task
  MaxInFlight, \* bound: how many calls are under way at a time
  MaxTokens,  \* bound: how many tokens the backend hands out
  NoToken     \* nothing cached, no Keychain item

Calls == Services \cup Checks \cup {Launch, Exit}

ASSUME CallsAssumption ==
  Services \cap Checks = {} /\ {Launch, Exit} \cap (Services \cup Checks) = {} /\ Launch # Exit
ASSUME TokensAssumption == {MaxTokens, MaxInFlight} \subseteq Nat /\ NoToken \notin Nat

VARIABLES
  cached,    \* cachedToken
  keychain,  \* the Keychain item "auth_token"
  vm,        \* AuthViewModel.state
  launched,  \* ContentView's task has run since the app was started
  pc,        \* where each call is
  local,     \* the token a call is about to store or to cache
  age,       \* per token: "fresh", "near" (needsRefresh) or "expired"
  session,   \* external: what the backend knows, "none", "valid", "invalid"
  issued,    \* external: the newest token, which the backend hands out
  lost       \* history: the last item was given up: a 401, a logout, a failed add

vars == <<cached, keychain, vm, launched, pc, local, age, session, issued, lost>>
stores == <<cached, keychain, lost>>
world == <<age, session, issued>>

Tokens == 1..MaxTokens
Labels == {"idle", "existing", "restore", "cache", "load", "recache",
           "fetch", "save", "add", "store", "clear", "wipe", "reset"}

TypeOK ==
  /\ cached \in Tokens \cup {NoToken}
  /\ keychain \in Tokens \cup {NoToken}
  /\ vm \in {"idle", "loading", "loaded", "error"}
  /\ launched \in BOOLEAN
  /\ pc \in [Calls -> Labels]
  /\ local \in [Calls -> Tokens \cup {NoToken}]
  /\ age \in [Tokens -> {"fresh", "near", "expired"}]
  /\ session \in {"none", "valid", "invalid"}
  /\ issued \in 0..MaxTokens
  /\ lost \in BOOLEAN

Init ==
  /\ cached = NoToken
  /\ keychain = NoToken
  /\ vm = "idle"
  /\ launched = FALSE
  /\ pc = [c \in Calls |-> "idle"]
  /\ local = [c \in Calls |-> NoToken]
  /\ age = [t \in Tokens |-> "fresh"]
  /\ session = "none"
  /\ issued = 0
  /\ lost = FALSE

-----------------------------------------------------------------------------
(* How a call ends: the service hands the outcome to its caller, the view  *)
(* model turns it into its state.                                          *)

FinishSilent(c, o) ==
  /\ pc' = [pc EXCEPT ![c] = "idle"]
  /\ local' = [local EXCEPT ![c] = NoToken]
  /\ vm' = IF c \notin Services /\ o = "token" THEN "loaded" ELSE vm

Finish(c, o) ==
  /\ pc' = [pc EXCEPT ![c] = "idle"]
  /\ local' = [local EXCEPT ![c] = NoToken]
  /\ vm' = IF c \in Services THEN vm
           ELSE IF o = "token" THEN "loaded"
           ELSE IF c = Launch THEN "idle" ELSE "error"

Goto(c, l) == pc' = [pc EXCEPT ![c] = l]

\* Bound: another call may be started.
Room == Cardinality({c \in Calls : pc[c] # "idle"}) < MaxInFlight

-----------------------------------------------------------------------------
(* getValidToken *)

Usable(t) == t # NoToken /\ age[t] = "fresh"

\* A service needs a token.
Get(c) ==
  /\ c \in Services
  /\ Room
  /\ pc[c] = "idle"
  /\ Goto(c, "cache")
  /\ UNCHANGED <<stores, vm, launched, local, world>>

CacheHitUnchecked(c) ==
  /\ pc[c] = "cache"
  /\ cached # NoToken
  /\ Finish(c, "token")
  /\ UNCHANGED <<stores, launched, world>>

\* 1. The in-memory token is neither expired nor about to.
CacheHit(c) ==
  /\ pc[c] = "cache"
  /\ Usable(cached)
  /\ Finish(c, "token")
  /\ UNCHANGED <<stores, launched, world>>

CacheMiss(c) ==
  /\ pc[c] = "cache"
  /\ ~ Usable(cached)
  /\ Goto(c, "load")
  /\ UNCHANGED <<stores, vm, launched, local, world>>

LoadUnchecked(c) ==
  /\ pc[c] = "load"
  /\ keychain # NoToken
  /\ local' = [local EXCEPT ![c] = keychain]
  /\ Goto(c, "recache")
  /\ UNCHANGED <<stores, vm, launched, world>>

\* 2. The Keychain has a usable token ...
Load(c) ==
  /\ pc[c] = "load"
  /\ Usable(keychain)
  /\ local' = [local EXCEPT ![c] = keychain]
  /\ Goto(c, "recache")
  /\ UNCHANGED <<stores, vm, launched, world>>

\* ... which becomes the in-memory token and is returned.
Recache(c) ==
  /\ pc[c] = "recache"
  /\ cached' = local[c]
  /\ Finish(c, "token")
  /\ UNCHANGED <<keychain, lost, launched, world>>

\* 3. Nothing usable, or the item cannot be read: fetchTokenFromBackend.
LoadNothing(c) ==
  /\ pc[c] = "load"
  /\ Goto(c, "fetch")
  /\ UNCHANGED <<stores, vm, launched, local, world>>

-----------------------------------------------------------------------------
(* fetchTokenFromBackend *)

\* External: the backend answers 200 with the user's current token.
BackendToken(c) ==
  /\ pc[c] = "fetch"
  /\ session = "valid"
  /\ local' = [local EXCEPT ![c] = issued]
  /\ Goto(c, "save")
  /\ UNCHANGED <<stores, vm, launched, world>>

\* External: the backend answers 401, the session is invalid.
Backend401(c) ==
  /\ pc[c] = "fetch"
  /\ session = "invalid"
  /\ Goto(c, "clear")
  /\ UNCHANGED <<stores, vm, launched, local, world>>

\* 404, another status, an unreadable body or a network error, also when the
\* backend's answer was on its way.
FetchFails(c) ==
  /\ pc[c] \in {"fetch", "save"}
  /\ Finish(c, "error")
  /\ UNCHANGED <<stores, launched, world>>

StoreUnsaved(c) ==
  /\ pc[c] = "save"
  /\ cached' = local[c]
  /\ Goto(c, "store")
  /\ UNCHANGED <<keychain, lost, vm, launched, local, world>>

\* storeToken: save first deletes the Keychain item, whatever that returns ...
Replace(c) ==
  /\ pc[c] = "save"
  /\ keychain' \in {NoToken, keychain}
  /\ Goto(c, "add")
  /\ UNCHANGED <<cached, lost, vm, launched, local, world>>

\* ... and then adds it again ...
Add(c) ==
  /\ pc[c] = "add"
  /\ keychain = NoToken
  /\ keychain' = local[c]
  /\ lost' = FALSE
  /\ Goto(c, "store")
  /\ UNCHANGED <<cached, vm, launched, local, world>>

\* ... which can fail, and does if an item is there (errSecDuplicateItem), one
\* that was not deleted or one that another call has added: storeToken throws.
AddFails(c) ==
  /\ pc[c] = "add"
  /\ lost' = (lost \/ keychain = NoToken)
  /\ Finish(c, "error")
  /\ UNCHANGED <<cached, keychain, launched, world>>

\* storeToken: the token also becomes the in-memory token.
Store(c) ==
  /\ pc[c] = "store"
  /\ cached' = local[c]
  /\ Finish(c, "token")
  /\ UNCHANGED <<keychain, lost, launched, world>>

\* 401: the in-memory token is dropped ...
Clear(c) ==
  /\ pc[c] = "clear"
  /\ cached' = NoToken
  /\ Goto(c, "wipe")
  /\ UNCHANGED <<keychain, lost, vm, launched, local, world>>

\* ... and the Keychain item, unless its deletion fails (try?).
DeleteItem ==
  /\ keychain' \in {NoToken, keychain}
  /\ lost' = (lost \/ keychain' = NoToken)

Wipe(c) ==
  /\ pc[c] = "wipe" /\ c # Exit
  /\ DeleteItem
  /\ Finish(c, "error")
  /\ UNCHANGED <<cached, launched, world>>

-----------------------------------------------------------------------------
(* AuthViewModel *)

Unexpired(t) == t # NoToken /\ age[t] # "expired"

\* checkExistingAuth on launch.  isAuthenticated: there is an in-memory token,
\* and getValidToken follows ...
CheckExistingAuth ==
  /\ ~ launched /\ launched' = TRUE /\ pc[Launch] = "idle"
  /\ Room
  /\ Unexpired(cached)
  /\ vm' = "loading"
  /\ Goto(Launch, "cache")
  /\ UNCHANGED <<stores, local, world>>

\* ... or the Keychain is asked ...
NoneCached ==
  /\ ~ launched /\ launched' = TRUE /\ pc[Launch] = "idle"
  /\ Room
  /\ ~ Unexpired(cached)
  /\ Goto(Launch, "existing")
  /\ UNCHANGED <<stores, vm, local, world>>

\* ... which has one ...
LoadExisting ==
  /\ pc[Launch] = "existing"
  /\ Unexpired(keychain)
  /\ local' = [local EXCEPT ![Launch] = keychain]
  /\ Goto(Launch, "restore")
  /\ UNCHANGED <<stores, vm, launched, world>>

\* ... that becomes the in-memory token ...
Restore ==
  /\ pc[Launch] = "restore"
  /\ cached' = local[Launch]
  /\ local' = [local EXCEPT ![Launch] = NoToken]
  /\ vm' = "loading"
  /\ Goto(Launch, "cache")
  /\ UNCHANGED <<keychain, lost, launched, world>>

\* ... or has none that can be read and has not expired: the login view stays.
NoneExisting ==
  /\ pc[Launch] = "existing"
  /\ Goto(Launch, "idle")
  /\ UNCHANGED <<stores, vm, launched, local, world>>

\* checkBackendForToken: "I've Completed Setup" and "Try Again" of the login
\* view, also while another check is under way.
CheckBackendForToken(c) ==
  /\ c \in Checks
  /\ Room
  /\ pc[c] = "idle"
  /\ vm # "loaded"
  /\ vm' = "loading"
  /\ Goto(c, "fetch")
  /\ UNCHANGED <<stores, launched, local, world>>

\* logout (no view offers it) runs off the main actor ...
Logout ==
  /\ vm = "loaded"
  /\ Room
  /\ pc[Exit] = "idle"
  /\ cached' = NoToken
  /\ Goto(Exit, "wipe")
  /\ UNCHANGED <<keychain, lost, vm, launched, local, world>>

LogoutDelete ==
  /\ pc[Exit] = "wipe"
  /\ DeleteItem
  /\ Goto(Exit, "reset")
  /\ UNCHANGED <<cached, vm, launched, local, world>>

\* ... and when it is back there the state is reset.
LogoutReset ==
  /\ pc[Exit] = "reset"
  /\ vm' = "idle"
  /\ Goto(Exit, "idle")
  /\ UNCHANGED <<stores, launched, local, world>>

\* The app is terminated and started again: only the Keychain survives.
Relaunch ==
  /\ launched
  /\ cached' = NoToken
  /\ vm' = "idle"
  /\ launched' = FALSE
  /\ pc' = [c \in Calls |-> "idle"]
  /\ local' = [c \in Calls |-> NoToken]
  /\ UNCHANGED <<keychain, lost, world>>

-----------------------------------------------------------------------------
\* External: the user authorizes in the Ring app, or the backend refreshes.
BackendIssues ==
  /\ issued < MaxTokens
  /\ issued' = issued + 1
  /\ session' = "valid"
  /\ UNCHANGED <<stores, vm, launched, pc, local, age>>

\* External: the backend invalidates the session.
BackendInvalidates ==
  /\ session = "valid"
  /\ session' = "invalid"
  /\ UNCHANGED <<stores, vm, launched, pc, local, age, issued>>

\* Time passes for an issued token.
Grow(t) ==
  /\ t <= issued
  /\ age[t] # "expired"
  /\ age' = [age EXCEPT ![t] = IF @ = "fresh" THEN "near" ELSE "expired"]
  /\ UNCHANGED <<stores, vm, launched, pc, local, session, issued>>

IsAuthenticated == LoadExisting \/ Restore \/ NoneExisting

Step(c) ==
  \/ CacheHit(c) \/ CacheMiss(c) \/ Load(c) \/ Recache(c) \/ LoadNothing(c)
  \/ BackendToken(c) \/ Backend401(c) \/ FetchFails(c)
  \/ Replace(c) \/ Add(c) \/ AddFails(c) \/ Store(c) \/ Clear(c) \/ Wipe(c)
  \/ c = Launch /\ IsAuthenticated
  \/ c = Exit /\ (LogoutDelete \/ LogoutReset)

Next ==
  \/ \E c \in Calls : Get(c) \/ CheckBackendForToken(c) \/ Step(c)
  \/ CheckExistingAuth \/ NoneCached \/ Logout \/ Relaunch
  \/ BackendIssues \/ BackendInvalidates \/ \E t \in Tokens : Grow(t)

Spec == Init /\ [][Next]_vars

(***************************************************************************)
(* A started call is carried on (a request has URLSession's timeout), and  *)
(* tokens age, all of them in the end since there are finitely many.       *)
(***************************************************************************)
Fairness ==
  /\ \A c \in Calls : WF_vars(Step(c))
  /\ WF_vars(\E t \in Tokens : Grow(t))

FairSpec == Spec /\ Fairness

-----------------------------------------------------------------------------
(***************************************************************************)
(* A token in use can be found again after a relaunch: while there is one  *)
(* in memory the Keychain has an item, unless a call is between the two    *)
(* halves of save or the item was given up, by a 401, a logout or an add   *)
(* that failed on an empty Keychain, and none has been added since.  No    *)
(* overlap of saves, loads and logouts adds to these cases: of two saves   *)
(* that delete each other's item one leaves its own.                       *)
(***************************************************************************)
InUseIsKept ==
  cached # NoToken => keychain # NoToken \/ lost \/ \E c \in Calls : pc[c] = "add"

(***************************************************************************)
(* The login view does not load forever: a check that was started leads to *)
(* the dashboard, to an error or back to the instructions, also when two   *)
(* checks overlap or the app is relaunched.                                *)
(***************************************************************************)
LoadingEnds == vm = "loading" ~> vm # "loading"

\* A step (not the end of the app) in which a call returns a token.
HandsOut(c) ==
  pc[c] \in {"cache", "recache", "store"} /\ pc'[c] = "idle" /\ (launched => launched')

(***************************************************************************)
(* Once the backend has invalidated the session for good, the app sooner   *)
(* or later stops handing out tokens, even if a late answer stored one     *)
(* after the 401 had cleared them or a Keychain deletion failed.           *)
(***************************************************************************)
InvalidSessionFadesOut ==
  <>[](session = "invalid") => <>[][\A c \in Calls : ~ HandsOut(c)]_vars

\* The session is invalid, no token is usable any more and none is on its way
\* into the stores.
SignedOut ==
  /\ session = "invalid"
  /\ \A t \in Tokens : t <= issued => age[t] # "fresh"
  /\ \A c \in Calls : pc[c] \notin {"recache", "save", "add", "store"}

(***************************************************************************)
(* Signed out is final: from there on no call returns a token, and only a  *)
(* new authorization ends it.  No token left in memory or in the Keychain, *)
(* no late call and no relaunch brings the session back.                   *)
(***************************************************************************)
StaysSignedOut ==
  [][SignedOut => (\A c \in Calls : ~ HandsOut(c)) /\ (SignedOut' \/ session' = "valid")]_vars
=============================================================================
