---------------------------- MODULE AppAuthProofs ----------------------------
(***************************************************************************)
(* Proofs about AppAuth, for any number of concurrent calls and of tokens: *)
(* type correctness, that a token in use stays in the Keychain unless it   *)
(* was given up, that a view that loads has a call under way, and that the *)
(* app once signed out stays so until it is authorized again.              *)
(***************************************************************************)
EXTENDS AppAuth, TLAPS

\* What a call is about to put into the Keychain or into memory is a token.
Carrying == {"restore", "recache", "save", "add", "store"}
Carried(c) == pc[c] \in Carrying => local[c] \in Tokens

\* A valid session has a token.
SessionHasToken == session = "valid" => issued \in Tokens

Inv == TypeOK /\ SessionHasToken /\ \A c \in Calls : Carried(c)

-----------------------------------------------------------------------------
LEMMA InitInv == Init => Inv
<1> SUFFICES ASSUME Init PROVE Inv
  OBVIOUS
<1>1. issued \in 0..MaxTokens
  BY TokensAssumption DEF Init
<1>2. TypeOK
  BY <1>1 DEF Init, TypeOK, Labels
<1>3. SessionHasToken /\ \A c \in Calls : Carried(c)
  BY DEF Init, SessionHasToken, Carried, Carrying
<1> QED BY <1>2, <1>3 DEF Inv

\* A call moves on: what it carries is a token, and the other calls do not
\* notice.
LEMMA MoveInv ==
  ASSUME Inv, NEW c \in Calls, NEW l \in Labels, Goto(c, l),
         NEW t \in Tokens \cup {NoToken}, local' = [local EXCEPT ![c] = t],
         l \in Carrying => t \in Tokens,
         vm' \in {"idle", "loading", "loaded", "error"},
         launched' \in BOOLEAN, lost' \in BOOLEAN,
         cached' \in Tokens \cup {NoToken}, keychain' \in Tokens \cup {NoToken},
         UNCHANGED world
  PROVE  Inv'
<1>0. TypeOK
  BY DEF Inv
<1>1. TypeOK'
  <2>1. pc' \in [Calls -> Labels] /\ local' \in [Calls -> Tokens \cup {NoToken}]
    BY <1>0 DEF Goto, TypeOK
  <2>2. UNCHANGED <<age, session, issued>>
    BY DEF world
  <2> QED BY <1>0, <2>1, <2>2 DEF TypeOK
<1>2. SessionHasToken'
  BY DEF Inv, SessionHasToken, world
<1>3. ASSUME NEW d \in Calls PROVE Carried(d)'
  <2>1. CASE d = c
    BY <1>0, <2>1 DEF Carried, Goto, TypeOK
  <2>2. CASE d # c
    BY <1>0, <2>2 DEF Inv, Carried, Goto, TypeOK
  <2> QED BY <2>1, <2>2
<1> QED BY <1>1, <1>2, <1>3 DEF Inv

\* A call that keeps what it carries.
LEMMA KeepInv ==
  ASSUME Inv, NEW c \in Calls, NEW l \in Labels, Goto(c, l), UNCHANGED local,
         l \in Carrying => pc[c] \in Carrying,
         vm' \in {"idle", "loading", "loaded", "error"},
         launched' \in BOOLEAN, lost' \in BOOLEAN,
         cached' \in Tokens \cup {NoToken}, keychain' \in Tokens \cup {NoToken},
         UNCHANGED world
  PROVE  Inv'
<1>1. local' = [local EXCEPT ![c] = local[c]] /\ local[c] \in Tokens \cup {NoToken}
  BY DEF Inv, TypeOK
<1>2. l \in Carrying => local[c] \in Tokens
  BY DEF Inv, Carried
<1> QED BY <1>1, <1>2, MoveInv

\* A call ends: its locals are gone.
LEMMA FinishInv ==
  ASSUME Inv, NEW c \in Calls, NEW o \in {"token", "error"}, Finish(c, o),
         lost' \in BOOLEAN,
         cached' \in Tokens \cup {NoToken}, keychain' \in Tokens \cup {NoToken},
         UNCHANGED <<launched, world>>
  PROVE  Inv'
<1>1. vm' \in {"idle", "loading", "loaded", "error"} /\ launched' \in BOOLEAN
  BY DEF Inv, TypeOK, Finish
<1>2. Goto(c, "idle") /\ "idle" \in Labels \ Carrying
  BY DEF Finish, Goto, Labels, Carrying
<1>3. local' = [local EXCEPT ![c] = NoToken]
  BY DEF Finish
<1> QED BY <1>1, <1>2, <1>3, MoveInv

-----------------------------------------------------------------------------
LEMMA NextInv == Inv /\ [Next]_vars => Inv'
<1> SUFFICES ASSUME Inv, [Next]_vars PROVE Inv'
  OBVIOUS
<1>0. /\ TypeOK /\ lost \in BOOLEAN /\ launched \in BOOLEAN
      /\ vm \in {"idle", "loading", "loaded", "error"}
      /\ cached \in Tokens \cup {NoToken} /\ keychain \in Tokens \cup {NoToken}
      /\ Launch \in Calls /\ Exit \in Calls
  BY DEF Inv, TypeOK, Calls
<1>1. ASSUME NEW c \in Calls,
             \/ CacheHit(c) \/ FetchFails(c) \/ Recache(c) \/ Store(c) \/ AddFails(c) \/ Wipe(c)
      PROVE  Inv'
  <2>1. PICK o \in {"token", "error"} : Finish(c, o)
    BY <1>1 DEF CacheHit, FetchFails, Recache, Store, AddFails, Wipe
  <2>2. UNCHANGED <<launched, world>> /\ lost' \in BOOLEAN
    BY <1>0, <1>1 DEF CacheHit, FetchFails, Recache, Store, AddFails, Wipe, DeleteItem, stores
  <2>3. pc[c] \in {"recache", "store"} => local[c] \in Tokens
    BY DEF Inv, Carried, Carrying
  <2>4. cached' \in Tokens \cup {NoToken} /\ keychain' \in Tokens \cup {NoToken}
    BY <1>0, <1>1, <2>3
    DEF CacheHit, FetchFails, Recache, Store, AddFails, Wipe, DeleteItem, stores
  <2> QED BY <2>1, <2>2, <2>4, FinishInv
<1>2. ASSUME NEW c \in Calls,
             \/ Get(c) \/ CacheMiss(c) \/ LoadNothing(c) \/ Backend401(c)
             \/ CheckBackendForToken(c) \/ Clear(c)
      PROVE  Inv'
  <2>1. PICK l \in {"cache", "load", "fetch", "clear", "wipe"} : Goto(c, l)
    BY <1>2 DEF Get, CacheMiss, LoadNothing, Backend401, CheckBackendForToken, Clear
  <2>2. l \in Labels /\ l \notin Carrying
    BY DEF Labels, Carrying
  <2>3. /\ cached' \in {cached, NoToken} /\ vm' \in {vm, "loading"}
        /\ UNCHANGED <<keychain, lost, launched, local, world>>
    BY <1>2 DEF Get, CacheMiss, LoadNothing, Backend401, CheckBackendForToken, Clear, stores
  <2> QED BY <1>0, <2>1, <2>2, <2>3, KeepInv
<1>3. ASSUME NEW c \in Calls, Load(c) PROVE Inv'
  <2>1. keychain \in Tokens /\ "recache" \in Labels
    BY <1>0, <1>3 DEF Load, Usable, Labels
  <2>2. /\ UNCHANGED <<cached, keychain, lost, world, vm, launched>>
        /\ Goto(c, "recache") /\ local' = [local EXCEPT ![c] = keychain]
    BY <1>3 DEF Load, stores
  <2> QED BY <1>0, <2>1, <2>2, MoveInv
<1>4. ASSUME NEW c \in Calls, BackendToken(c) PROVE Inv'
  <2>1. issued \in Tokens /\ "save" \in Labels
    BY <1>4 DEF Inv, SessionHasToken, BackendToken, Labels
  <2>2. /\ UNCHANGED <<cached, keychain, lost, world, vm, launched>>
        /\ Goto(c, "save") /\ local' = [local EXCEPT ![c] = issued]
    BY <1>4 DEF BackendToken, stores
  <2> QED BY <1>0, <2>1, <2>2, MoveInv
<1>5. ASSUME NEW c \in Calls, Replace(c) \/ Add(c) PROVE Inv'
  <2>1. pc[c] \in Carrying /\ {"add", "store"} \subseteq Labels
    BY <1>5 DEF Replace, Add, Carrying, Labels
  <2>2. local[c] \in Tokens
    BY <2>1 DEF Inv, Carried
  <2>3. /\ keychain' \in {keychain, NoToken, local[c]} /\ lost' \in BOOLEAN
        /\ UNCHANGED <<cached, vm, launched, local, world>>
    BY <1>0, <1>5 DEF Replace, Add
  <2>4. Goto(c, "add") \/ Goto(c, "store")
    BY <1>5 DEF Replace, Add
  <2> QED BY <1>0, <2>1, <2>2, <2>3, <2>4, KeepInv
<1>6. CASE CheckExistingAuth \/ NoneCached \/ NoneExisting
  <2>1. PICK l \in {"cache", "existing", "idle"} : Goto(Launch, l)
    BY <1>6 DEF CheckExistingAuth, NoneCached, NoneExisting
  <2>2. l \in Labels /\ l \notin Carrying
    BY DEF Labels, Carrying
  <2>3. /\ vm' \in {vm, "loading"} /\ launched' \in BOOLEAN
        /\ UNCHANGED <<cached, keychain, lost, local, world>>
    BY <1>0, <1>6 DEF CheckExistingAuth, NoneCached, NoneExisting, stores
  <2> QED BY <1>0, <2>1, <2>2, <2>3, KeepInv
<1>7. CASE LoadExisting
  <2>1. keychain \in Tokens /\ "restore" \in Labels
    BY <1>0, <1>7 DEF LoadExisting, Unexpired, Labels
  <2>2. /\ UNCHANGED <<cached, keychain, lost, world, vm, launched>>
        /\ Goto(Launch, "restore") /\ local' = [local EXCEPT ![Launch] = keychain]
    BY <1>7 DEF LoadExisting, stores
  <2> QED BY <1>0, <2>1, <2>2, MoveInv
<1>8. CASE Restore
  <2>1. local[Launch] \in Tokens
    BY <1>0, <1>8 DEF Restore, Inv, Carried, Carrying
  <2>2. "cache" \in Labels /\ "cache" \notin Carrying
    BY DEF Labels, Carrying
  <2>3. /\ UNCHANGED <<keychain, lost, world, launched>> /\ vm' = "loading"
        /\ cached' = local[Launch]
        /\ Goto(Launch, "cache") /\ local' = [local EXCEPT ![Launch] = NoToken]
    BY <1>8 DEF Restore
  <2> QED BY <1>0, <2>1, <2>2, <2>3, MoveInv
<1>9. CASE Logout \/ LogoutDelete \/ LogoutReset
  <2>1. PICK l \in {"wipe", "reset", "idle"} : Goto(Exit, l)
    BY <1>9 DEF Logout, LogoutDelete, LogoutReset
  <2>2. l \in Labels /\ l \notin Carrying
    BY DEF Labels, Carrying
  <2>3. /\ vm' \in {vm, "idle"} /\ lost' \in BOOLEAN /\ UNCHANGED <<launched, local, world>>
        /\ cached' \in {cached, NoToken} /\ keychain' \in {keychain, NoToken}
    BY <1>0, <1>9 DEF Logout, LogoutDelete, LogoutReset, DeleteItem, stores
  <2> QED BY <1>0, <2>1, <2>2, <2>3, KeepInv
<1>10. CASE Relaunch
  BY <1>0, <1>10 DEF Inv, Relaunch, TypeOK, SessionHasToken, Carried, Carrying, world, Labels
<1>11. CASE BackendIssues
  BY <1>0, <1>11, TokensAssumption
  DEF Inv, BackendIssues, TypeOK, SessionHasToken, Carried, stores, Tokens
<1>12. CASE BackendInvalidates
  BY <1>0, <1>12 DEF Inv, BackendInvalidates, TypeOK, SessionHasToken, Carried, stores
<1>13. ASSUME NEW t \in Tokens, Grow(t) PROVE Inv'
  <2>1. TypeOK'
    BY <1>0, <1>13 DEF Grow, TypeOK, stores
  <2> QED
    BY <1>13, <2>1 DEF Inv, Grow, SessionHasToken, Carried, stores
<1>14. CASE UNCHANGED vars
  BY <1>0, <1>14 DEF Inv, vars, TypeOK, SessionHasToken, Carried
<1> QED
  BY <1>1, <1>2, <1>3, <1>4, <1>5, <1>6, <1>7, <1>8, <1>9, <1>10, <1>11, <1>12, <1>13, <1>14
  DEF Next, Step, IsAuthenticated

\* The inductive invariant holds throughout.
LEMMA Invariance == Spec => []Inv
  BY InitInv, NextInv, PTL DEF Spec

-----------------------------------------------------------------------------
\* Every variable of the app's authentication keeps its type.
THEOREM TypeCorrect == Spec => []TypeOK
<1>1. Inv => TypeOK
  BY DEF Inv
<1> QED BY <1>1, Invariance, PTL

-----------------------------------------------------------------------------
(***************************************************************************)
(* A token in use is kept.  The invariant also speaks of the tokens on     *)
(* their way into memory.                                                  *)
(***************************************************************************)
Backed == keychain # NoToken \/ lost \/ \E c \in Calls : pc[c] = "add"
OnItsWay == {"restore", "recache", "store"}
Held == (cached # NoToken \/ \E c \in Calls : pc[c] \in OnItsWay) => Backed

\* A call that is not between delete and add moves on, and takes nothing out
\* of the Keychain that it does not give up.
LEMMA MoveHeld ==
  ASSUME TypeOK, Held, NEW c \in Calls, NEW l \in Labels, Goto(c, l), pc[c] # "add",
         \/ UNCHANGED <<keychain, lost>>
         \/ DeleteItem,
         cached' \in {cached, NoToken} \/ pc[c] \in OnItsWay,
         l \in OnItsWay => keychain # NoToken /\ UNCHANGED keychain
  PROVE  Held'
<1>1. Backed => Backed'
  <2>1. \A d \in Calls : pc[d] = "add" => pc'[d] = "add"
    BY DEF Goto, TypeOK
  <2> QED BY <2>1 DEF Backed, DeleteItem
<1>2. l \in OnItsWay => Backed'
  BY DEF Backed
<1>3. \A d \in Calls : pc'[d] \in OnItsWay => pc[d] \in OnItsWay \/ l \in OnItsWay
  BY DEF Goto, TypeOK
<1> QED BY <1>1, <1>2, <1>3 DEF Held

\* Whatever overlaps, a token in memory has an item in the Keychain, unless a
\* save is under way or the item was given up.
THEOREM InUseIsBacked == Spec => []InUseIsKept
<1>1. Init => Held
  BY DEF Init, Held, OnItsWay
<1>2. Inv /\ Held /\ [Next]_vars => Held'
  <2> SUFFICES ASSUME Inv, Held, [Next]_vars PROVE Held'
    OBVIOUS
  <2>0. TypeOK /\ Launch \in Calls /\ Exit \in Calls
    BY DEF Inv, Calls
  <2>1. ASSUME NEW c \in Calls,
               \/ CacheHit(c) \/ FetchFails(c) \/ Recache(c) \/ Store(c) \/ Wipe(c)
               \/ Get(c) \/ CacheMiss(c) \/ LoadNothing(c) \/ Backend401(c)
               \/ CheckBackendForToken(c) \/ Clear(c) \/ BackendToken(c)
        PROVE  Held'
    <3>1. PICK l \in {"idle", "cache", "load", "fetch", "clear", "wipe", "save"} : Goto(c, l)
      BY <2>1
      DEF CacheHit, FetchFails, Recache, Store, Wipe, Get, CacheMiss, LoadNothing, Backend401,
          CheckBackendForToken, Clear, BackendToken, Finish, Goto
    <3>2. l \in Labels /\ l \notin OnItsWay
      BY DEF Labels, OnItsWay
    <3>3. /\ UNCHANGED <<keychain, lost>> \/ DeleteItem
          /\ cached' \in {cached, NoToken} \/ pc[c] \in OnItsWay
      BY <2>1
      DEF CacheHit, FetchFails, Recache, Store, Wipe, Get, CacheMiss, LoadNothing, Backend401,
          CheckBackendForToken, Clear, BackendToken, stores, OnItsWay
    <3>4. pc[c] # "add"
      BY <2>1
      DEF CacheHit, FetchFails, Recache, Store, Wipe, Get, CacheMiss, LoadNothing, Backend401,
          CheckBackendForToken, Clear, BackendToken
    <3> QED BY <2>0, <3>1, <3>2, <3>3, <3>4, MoveHeld
  <2>2. ASSUME NEW c \in Calls, Load(c) \/ (c = Launch /\ LoadExisting) PROVE Held'
    <3>1. \/ Goto(c, "recache") \/ Goto(c, "restore")
      BY <2>2 DEF Load, LoadExisting
    <3>2. /\ UNCHANGED <<keychain, lost, cached>> /\ keychain # NoToken /\ pc[c] # "add"
          /\ {"recache", "restore"} \subseteq Labels
      BY <2>2 DEF Load, LoadExisting, Usable, Unexpired, stores, Labels
    <3> QED BY <2>0, <3>1, <3>2, MoveHeld
  <2>3. ASSUME NEW c \in Calls, Replace(c) PROVE Held'
    <3>1. pc'[c] = "add"
      BY <2>0, <2>3 DEF Replace, Goto, TypeOK
    <3> QED BY <3>1 DEF Held, Backed
  <2>4. ASSUME NEW c \in Calls, Add(c) PROVE Held'
    <3>1. local[c] \in Tokens
      BY <2>4 DEF Add, Inv, Carried, Carrying
    <3>2. keychain' # NoToken
      BY <2>4, <3>1, TokensAssumption DEF Add, Tokens
    <3> QED BY <3>2 DEF Held, Backed
  <2>5. ASSUME NEW c \in Calls, AddFails(c) PROVE Held'
    <3>1. keychain' # NoToken \/ lost'
      BY <2>5 DEF AddFails
    <3> QED BY <3>1 DEF Held, Backed
  <2>6. CASE CheckExistingAuth \/ NoneCached \/ NoneExisting \/ Restore
    <3>1. PICK l \in {"cache", "existing", "idle"} : Goto(Launch, l)
      BY <2>6 DEF CheckExistingAuth, NoneCached, NoneExisting, Restore
    <3>2. l \in Labels /\ l \notin OnItsWay
      BY DEF Labels, OnItsWay
    <3>3. /\ UNCHANGED <<keychain, lost>>
          /\ cached' = cached \/ pc[Launch] \in OnItsWay
      BY <2>6 DEF CheckExistingAuth, NoneCached, NoneExisting, Restore, stores, OnItsWay
    <3>4. pc[Launch] # "add"
      BY <2>6 DEF CheckExistingAuth, NoneCached, NoneExisting, Restore
    <3> QED BY <2>0, <3>1, <3>2, <3>3, <3>4, MoveHeld
  <2>7. CASE Logout \/ LogoutDelete \/ LogoutReset
    <3>1. PICK l \in {"wipe", "reset", "idle"} : Goto(Exit, l)
      BY <2>7 DEF Logout, LogoutDelete, LogoutReset
    <3>2. l \in Labels /\ l \notin OnItsWay
      BY DEF Labels, OnItsWay
    <3>3. /\ UNCHANGED <<keychain, lost>> \/ DeleteItem
          /\ cached' \in {cached, NoToken} /\ pc[Exit] # "add"
      BY <2>7 DEF Logout, LogoutDelete, LogoutReset, stores
    <3> QED BY <2>0, <3>1, <3>2, <3>3, MoveHeld
  <2>8. CASE Relaunch
    BY <2>8 DEF Relaunch, Held, OnItsWay
  <2>9. CASE UNCHANGED <<cached, keychain, lost, pc>>
    BY <2>9 DEF Held, Backed
  <2>10. CASE LoadExisting
    BY <2>0, <2>2, <2>10
  <2>11. CASE BackendIssues \/ BackendInvalidates \/ (\E t \in Tokens : Grow(t)) \/ UNCHANGED vars
    BY <2>9, <2>11 DEF BackendIssues, BackendInvalidates, Grow, stores, vars
  <2> QED
    BY <2>1, <2>2, <2>3, <2>4, <2>5, <2>6, <2>7, <2>8, <2>10, <2>11
    DEF Next, Step, IsAuthenticated
<1>3. Held => InUseIsKept
  BY DEF Held, Backed, InUseIsKept
<1> QED BY <1>1, <1>2, <1>3, Invariance, PTL DEF Spec

-----------------------------------------------------------------------------
(***************************************************************************)
(* Loading: the safety content of LoadingEnds.                             *)
(***************************************************************************)
\* While the login view shows its progress there is a check, or a launch check
\* that has found a token, which has not returned yet.
Quiet == {"idle", "existing", "restore"}
LoadingHasACall == vm = "loading" => \E c \in Checks \cup {Launch} : pc[c] \notin Quiet

\* A call ends in a view model state that is not loading, or it is a service's
\* and the view model does not hear of it.
LEMMA FinishStopsLoading ==
  ASSUME TypeOK, LoadingHasACall, NEW c \in Calls, NEW o \in {"token", "error"}, Finish(c, o)
  PROVE  LoadingHasACall'
<1>1. CASE c \in Services
  <2>1. vm' = vm
    BY <1>1 DEF Finish
  <2>2. \A d \in Checks \cup {Launch} : d # c /\ d \in Calls
    BY <1>1, CallsAssumption DEF Calls
  <2>3. \A d \in Calls : d # c => pc'[d] = pc[d]
    BY DEF Finish, TypeOK
  <2> QED BY <2>1, <2>2, <2>3 DEF LoadingHasACall
<1>2. CASE c \notin Services
  <2>1. vm' \in {"loaded", "idle", "error"}
    BY <1>2 DEF Finish
  <2> QED BY <2>1 DEF LoadingHasACall
<1> QED BY <1>1, <1>2

\* A call that moves on is still under way, if it counted.
LEMMA MoveKeepsLoading ==
  ASSUME TypeOK, LoadingHasACall, NEW c \in Calls, NEW l \in Labels, Goto(c, l),
         pc[c] \in Quiet \/ l \notin Quiet, UNCHANGED vm
  PROVE  LoadingHasACall'
<1>1. \A d \in Calls : pc[d] \notin Quiet => pc'[d] \notin Quiet
  BY DEF Goto, TypeOK
<1> QED BY <1>1 DEF LoadingHasACall, Calls

\* The progress view is never left without a call that ends it, for any number
\* of overlapping checks.
THEOREM LoadingIsServed == Spec => []LoadingHasACall
<1>1. Init => LoadingHasACall
  BY DEF Init, LoadingHasACall
<1>2. TypeOK /\ LoadingHasACall /\ [Next]_vars => LoadingHasACall'
  <2> SUFFICES ASSUME TypeOK, LoadingHasACall, [Next]_vars PROVE LoadingHasACall'
    OBVIOUS
  <2>0. Launch \in Calls /\ Exit \in Calls
    BY DEF Calls
  <2>1. ASSUME NEW c \in Calls,
               \/ CacheHit(c) \/ Recache(c) \/ FetchFails(c) \/ AddFails(c) \/ Store(c)
               \/ Wipe(c)
        PROVE  LoadingHasACall'
    BY <2>1, FinishStopsLoading DEF CacheHit, Recache, FetchFails, AddFails, Store, Wipe
  <2>2. ASSUME NEW c \in Calls,
               \/ Get(c) \/ CacheMiss(c) \/ Load(c) \/ LoadNothing(c) \/ BackendToken(c)
               \/ Backend401(c) \/ Replace(c) \/ Add(c) \/ Clear(c)
        PROVE  LoadingHasACall'
    <3>1. PICK l \in {"cache", "load", "recache", "fetch", "save", "clear", "add", "store",
                      "wipe"} : Goto(c, l)
      BY <2>2
      DEF Get, CacheMiss, Load, LoadNothing, BackendToken, Backend401, Replace, Add, Clear
    <3>2. l \in Labels /\ l \notin Quiet
      BY DEF Labels, Quiet
    <3>3. UNCHANGED vm
      BY <2>2
      DEF Get, CacheMiss, Load, LoadNothing, BackendToken, Backend401, Replace, Add, Clear
    <3> QED BY <3>1, <3>2, <3>3, MoveKeepsLoading
  <2>3. ASSUME NEW c \in Calls, CheckBackendForToken(c) PROVE LoadingHasACall'
    <3>1. c \in Checks /\ pc'[c] = "fetch"
      BY <2>3 DEF CheckBackendForToken, Goto, TypeOK
    <3> QED BY <3>1 DEF LoadingHasACall, Quiet
  <2>4. CASE CheckExistingAuth \/ Restore
    <3>1. pc'[Launch] = "cache"
      BY <2>0, <2>4 DEF CheckExistingAuth, Restore, Goto, TypeOK
    <3> QED BY <3>1 DEF LoadingHasACall, Quiet
  <2>5. CASE NoneCached \/ LoadExisting \/ NoneExisting
    <3>1. PICK l \in {"existing", "restore", "idle"} : Goto(Launch, l)
      BY <2>5 DEF NoneCached, LoadExisting, NoneExisting
    <3>2. pc[Launch] \in Quiet /\ l \in Labels /\ UNCHANGED vm
      BY <2>5 DEF NoneCached, LoadExisting, NoneExisting, Quiet, Labels
    <3> QED BY <2>0, <3>1, <3>2, MoveKeepsLoading
  <2>6. CASE Logout \/ LogoutDelete
    <3>1. PICK l \in {"wipe", "reset"} : Goto(Exit, l)
      BY <2>6 DEF Logout, LogoutDelete
    <3>2. l \in Labels /\ l \notin Quiet /\ UNCHANGED vm
      BY <2>6 DEF Logout, LogoutDelete, Quiet, Labels
    <3> QED BY <2>0, <3>1, <3>2, MoveKeepsLoading
  <2>7. CASE LogoutReset \/ Relaunch
    BY <2>7 DEF LogoutReset, Relaunch, LoadingHasACall
  <2>8. CASE UNCHANGED <<vm, pc>>
    BY <2>8 DEF LoadingHasACall
  <2> QED
    BY <2>1, <2>2, <2>3, <2>4, <2>5, <2>6, <2>7, <2>8
    DEF Next, Step, IsAuthenticated, BackendIssues, BackendInvalidates, Grow, vars
<1> QED BY <1>1, <1>2, TypeCorrect, PTL DEF Spec

-----------------------------------------------------------------------------
(***************************************************************************)
(* Signed out: the safety content of InvalidSessionFadesOut.               *)
(***************************************************************************)
\* Every token the app holds is one the backend has handed out, so that its
\* age has begun to count.
TokensWereIssued ==
  /\ \A t \in {cached, keychain} : t # NoToken => t <= issued
  /\ \A c \in Calls : local[c] # NoToken => local[c] <= issued

\* A step puts no token anywhere that was not already held, except for the one
\* that the backend has just handed out.
LEMMA TokensMove ==
  ASSUME TypeOK, TokensWereIssued, issued' = issued,
         cached' \in {cached, keychain, NoToken} \cup {local[c] : c \in Calls},
         keychain' \in {keychain, NoToken} \cup {local[c] : c \in Calls},
         \A c \in Calls : local'[c] \in {local[c], keychain, issued, NoToken}
  PROVE  TokensWereIssued'
<1>0. issued \in Nat
  BY TokensAssumption DEF TypeOK
<1>1. \A t \in {cached', keychain'} : t # NoToken => t <= issued
  BY DEF TokensWereIssued
<1>2. \A c \in Calls : local'[c] # NoToken => local'[c] <= issued
  BY <1>0 DEF TokensWereIssued
<1> QED BY <1>1, <1>2 DEF TokensWereIssued

LEMMA IssuedInv == Spec => []TokensWereIssued
<1>1. Init => TokensWereIssued
  BY DEF Init, TokensWereIssued
<1>2. TypeOK /\ TypeOK' /\ TokensWereIssued /\ [Next]_vars => TokensWereIssued'
  <2> SUFFICES ASSUME TypeOK, TypeOK', TokensWereIssued, [Next]_vars PROVE TokensWereIssued'
    OBVIOUS
  <2>0. local \in [Calls -> Tokens \cup {NoToken}] /\ Launch \in Calls /\ Exit \in Calls
    BY DEF TypeOK, Calls
  <2>1. ASSUME NEW c \in Calls, Get(c) \/ CheckBackendForToken(c) \/ Step(c)
        PROVE  TokensWereIssued'
    <3>1. issued' = issued
      BY <2>1
      DEF Get, CheckBackendForToken, Step, CacheHit, CacheMiss, Load, Recache, LoadNothing,
          BackendToken, Backend401, FetchFails, Replace, Add, AddFails, Store, Clear,
          Wipe, DeleteItem, IsAuthenticated, LoadExisting, Restore, NoneExisting, LogoutDelete,
          LogoutReset, world
    <3>2. cached' \in {cached, local[c], NoToken} /\ keychain' \in {keychain, local[c], NoToken}
      BY <2>1
      DEF Get, CheckBackendForToken, Step, CacheHit, CacheMiss, Load, Recache, LoadNothing,
          BackendToken, Backend401, FetchFails, Replace, Add, AddFails, Store, Clear,
          Wipe, DeleteItem, IsAuthenticated, LoadExisting, Restore, NoneExisting, LogoutDelete,
          LogoutReset, stores
    <3>3. \/ local' = local
          \/ \E t \in {keychain, issued, NoToken} : local' = [local EXCEPT ![c] = t]
      BY <2>1
      DEF Get, CheckBackendForToken, Step, CacheHit, CacheMiss, Load, Recache, LoadNothing,
          BackendToken, Backend401, FetchFails, Replace, Add, AddFails, Store, Clear,
          Wipe, DeleteItem, IsAuthenticated, LoadExisting, Restore, NoneExisting, LogoutDelete,
          LogoutReset, Finish
    <3>4. \A d \in Calls : local'[d] \in {local[d], keychain, issued, NoToken}
      BY <2>0, <3>3
    <3> QED BY <3>1, <3>2, <3>4, TokensMove
  <2>2. CASE CheckExistingAuth \/ NoneCached \/ Logout \/ Relaunch
    <3>1. /\ issued' = issued /\ cached' \in {cached, keychain, NoToken}
          /\ keychain' \in {keychain, NoToken}
      BY <2>2 DEF CheckExistingAuth, NoneCached, Logout, Relaunch, world, stores
    <3>2. \A d \in Calls : local'[d] \in {local[d], NoToken}
      BY <2>2 DEF CheckExistingAuth, NoneCached, Logout, Relaunch
    <3> QED BY <3>1, <3>2, TokensMove
  <2>3. CASE BackendIssues
    <3>1. /\ issued \in Int /\ issued' = issued + 1
          /\ UNCHANGED <<cached, keychain, local>>
      BY <2>3 DEF BackendIssues, stores, TypeOK
    <3>2. \A t \in Tokens \cup {NoToken} : (t # NoToken => t <= issued) => (t # NoToken => t <= issued')
      BY <3>1 DEF Tokens
    <3>3. /\ {cached, keychain} \subseteq Tokens \cup {NoToken}
          /\ \A c \in Calls : local[c] \in Tokens \cup {NoToken}
      BY DEF TypeOK
    <3> QED BY <3>1, <3>2, <3>3 DEF TokensWereIssued
  <2>4. CASE UNCHANGED <<cached, keychain, local, issued>>
    BY <2>4 DEF TokensWereIssued
  <2> QED
    BY <2>1, <2>2, <2>3, <2>4 DEF Next, BackendInvalidates, Grow, stores, vars
<1> QED BY <1>1, <1>2, TypeCorrect, PTL DEF Spec

\* A token that is held and can be used is fresh and has been handed out: there
\* is none when signed out.
LEMMA NothingUsable ==
  ASSUME TypeOK, TokensWereIssued, SignedOut
  PROVE  ~ Usable(cached) /\ ~ Usable(keychain)
  BY DEF TypeOK, TokensWereIssued, SignedOut, Usable

\* A call that moves on or ends without a token keeps the app signed out.
LEMMA StepSignedOut ==
  ASSUME TypeOK, SignedOut, NEW c \in Calls,
         NEW l \in Labels \ {"recache", "save", "add", "store"}, Goto(c, l),
         pc[c] = "cache" => l # "idle", UNCHANGED world
  PROVE  (\A d \in Calls : ~ HandsOut(d)) /\ SignedOut'
<1>1. \A d \in Calls : ~ HandsOut(d)
  BY DEF TypeOK, Goto, SignedOut, HandsOut
<1>2. \A d \in Calls : pc'[d] \notin {"recache", "save", "add", "store"}
  BY DEF TypeOK, Goto, SignedOut
<1> QED BY <1>1, <1>2 DEF SignedOut, world

\* Signed out is final until the user authorizes the app again.
THEOREM SignedOutIsFinal == Spec => StaysSignedOut
<1>1. TypeOK /\ TokensWereIssued /\ [Next]_vars
      => [SignedOut => (\A c \in Calls : ~ HandsOut(c)) /\ (SignedOut' \/ session' = "valid")]_vars
  <2> SUFFICES ASSUME TypeOK, TokensWereIssued, [Next]_vars, SignedOut
               PROVE  (\A c \in Calls : ~ HandsOut(c)) /\ (SignedOut' \/ session' = "valid")
    OBVIOUS
  <2>0. /\ session = "invalid" /\ ~ Usable(cached) /\ ~ Usable(keychain)
        /\ \A c \in Calls : pc[c] \notin {"recache", "save", "add", "store"}
        /\ Launch \in Calls /\ Exit \in Calls
    BY NothingUsable DEF SignedOut, Calls
  <2>1. ASSUME NEW c \in Calls,
               \/ Get(c) \/ CheckBackendForToken(c) \/ CacheMiss(c) \/ LoadNothing(c)
               \/ Backend401(c) \/ Clear(c)
        PROVE  (\A d \in Calls : ~ HandsOut(d)) /\ SignedOut'
    <3>1. PICK l \in {"cache", "load", "fetch", "clear", "wipe"} : Goto(c, l)
      BY <2>1 DEF Get, CheckBackendForToken, CacheMiss, LoadNothing, Backend401, Clear
    <3>2. UNCHANGED world
      BY <2>1 DEF Get, CheckBackendForToken, CacheMiss, LoadNothing, Backend401, Clear
    <3> QED BY <3>1, <3>2, StepSignedOut DEF Labels
  <2>2. ASSUME NEW c \in Calls, FetchFails(c) \/ Wipe(c)
        PROVE  (\A d \in Calls : ~ HandsOut(d)) /\ SignedOut'
    <3>1. Goto(c, "idle") /\ pc[c] # "cache" /\ UNCHANGED world
      BY <2>2 DEF FetchFails, Wipe, Finish, Goto
    <3> QED BY <3>1, StepSignedOut DEF Labels
  <2>3. ASSUME NEW c \in Calls,
               \/ CacheHit(c) \/ Load(c) \/ Recache(c) \/ BackendToken(c) \/ Replace(c)
               \/ Add(c) \/ AddFails(c) \/ Store(c)
        PROVE  FALSE
    BY <2>0, <2>3 DEF CacheHit, Load, Recache, BackendToken, Replace, Add, AddFails, Store
  <2>4. CASE \/ CheckExistingAuth \/ NoneCached \/ LoadExisting \/ Restore \/ NoneExisting
    <3>1. PICK l \in {"cache", "existing", "restore", "idle"} : Goto(Launch, l)
      BY <2>4 DEF CheckExistingAuth, NoneCached, LoadExisting, Restore, NoneExisting
    <3>2. pc[Launch] # "cache" /\ UNCHANGED world
      BY <2>4 DEF CheckExistingAuth, NoneCached, LoadExisting, Restore, NoneExisting
    <3> QED BY <2>0, <3>1, <3>2, StepSignedOut DEF Labels
  <2>5. CASE Logout \/ LogoutDelete \/ LogoutReset
    <3>1. PICK l \in {"wipe", "reset", "idle"} : Goto(Exit, l)
      BY <2>5 DEF Logout, LogoutDelete, LogoutReset
    <3>2. pc[Exit] # "cache" /\ UNCHANGED world
      BY <2>5 DEF Logout, LogoutDelete, LogoutReset
    <3> QED BY <2>0, <3>1, <3>2, StepSignedOut DEF Labels
  <2>6. CASE Relaunch
    <3>1. launched /\ ~ launched'
      BY <2>6 DEF Relaunch
    <3> QED BY <2>6, <3>1 DEF Relaunch, SignedOut, HandsOut, world
  <2>7. CASE BackendIssues
    BY <2>7 DEF BackendIssues, HandsOut
  <2>8. CASE BackendInvalidates
    BY <2>0, <2>8 DEF BackendInvalidates
  <2>9. ASSUME NEW t \in Tokens, Grow(t)
        PROVE  (\A d \in Calls : ~ HandsOut(d)) /\ SignedOut'
    <3>1. \A u \in Tokens : age[u] # "fresh" => age'[u] # "fresh"
      BY <2>9 DEF Grow, TypeOK
    <3> QED BY <2>9, <3>1 DEF Grow, SignedOut, HandsOut
  <2>10. CASE UNCHANGED vars
    BY <2>10 DEF vars, SignedOut, HandsOut
  <2> QED
    BY <2>1, <2>2, <2>3, <2>4, <2>5, <2>6, <2>7, <2>8, <2>9, <2>10
    DEF Next, Step, IsAuthenticated
<1> QED BY <1>1, TypeCorrect, IssuedInv, PTL DEF Spec, StaysSignedOut
=============================================================================
