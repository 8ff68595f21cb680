------------------------- MODULE RefreshTokensProofs -------------------------
(***************************************************************************)
(* Proofs about RefreshTokens, for any number of callers, tokens and       *)
(* crashes.                                                                *)
(***************************************************************************)
EXTENDS RefreshTokens, TLAPS

USE DEF store, ring, operator

\* Nothing is older than the last token issued: a new token is new to everyone.
Numbered ==
  /\ row <= issued /\ env <= issued /\ dotenv <= issued
  /\ \A t \in accepted : t <= issued
  /\ \A c \in Callers : reply[c] <= issued /\ loaded[c] <= issued

\* A process that is down has no callers.
DownIsQuiet == process = "down" => \A c \in Callers : pc[c] = "idle"

\* The store does not change under a caller that has posted its token, unless
\* the operator removes it.
PostedIsStored ==
  \A c \in Callers :
    pc[c] \in {"post", "granted", "refused"} => row = 0 \/ (valid /\ loaded[c] = row)

\* What Ring's answers say stays true until they are acted on.
AnswersHold ==
  \A c \in Callers :
    /\ pc[c] = "refused" => loaded[c] \notin accepted
    /\ pc[c] = "granted" => reply[c] # 0 /\ (faulted \/ reply[c] \in accepted)

Inv ==
  /\ TypeOK
  /\ Numbered
  /\ DownIsQuiet
  /\ PostedIsStored
  /\ AnswersHold
  /\ RefreshIsNeeded
  /\ InvalidMeansRejected
  /\ StoreFollowsRing

-----------------------------------------------------------------------------
\* Inv holds before the first boot.
LEMMA InitInv == Init => Inv
<1> SUFFICES ASSUME Init PROVE Inv
  OBVIOUS
<1>1. 1 \in Tokens /\ 0 \in 0..MaxCrashes
  BY BoundsAssumption DEF Tokens
<1>2. TypeOK
  <2>1. pc \in [Callers -> {"idle", "wait", "ok", "error"} \cup Refreshing]
    BY DEF Init
  <2>2. /\ loaded \in [Callers -> Tokens \cup {0}]
        /\ reply \in [Callers -> Tokens \cup {0}]
    BY DEF Init
  <2>3. /\ env \in Tokens \cup {0} /\ dotenv \in Tokens \cup {0} /\ issued \in Tokens /\ accepted \subseteq Tokens
        /\ crashes \in 0..MaxCrashes
    BY <1>1 DEF Init
  <2> QED
    BY <2>1, <2>2, <2>3 DEF Init, TypeOK
<1>3. Numbered
  BY DEF Init, Numbered
<1>4. DownIsQuiet /\ PostedIsStored /\ AnswersHold /\ RefreshIsNeeded
  BY DEF Init, DownIsQuiet, PostedIsStored, AnswersHold, RefreshIsNeeded, Refreshing
<1>5. InvalidMeansRejected /\ StoreFollowsRing
  BY DEF Init, InvalidMeansRejected, StoreFollowsRing
<1> QED
  BY <1>2, <1>3, <1>4, <1>5 DEF Inv

\* Start-up and crash keep Inv: nobody holds a token over a restart, and an
\* answer lost in a crash is a fault.
LEMMA ProcessInv ==
  ASSUME Inv, Bootstrap \/ Crash \/ AccessExpires
  PROVE  Inv'
<1> USE BoundsAssumption, CallersAssumption
<1> USE DEF Inv, TypeOK, Numbered, DownIsQuiet, PostedIsStored, AnswersHold,
            RefreshIsNeeded, InvalidMeansRejected, StoreFollowsRing, Tokens, Refreshing
<1>1. CASE Bootstrap
  BY <1>1 DEF Bootstrap, load
<1>2. CASE Crash
  BY <1>2 DEF Crash, Dies
<1>3. CASE AccessExpires
  BY <1>3 DEF AccessExpires
<1> QED
  BY <1>1, <1>2, <1>3

\* Entering and leaving the critical section keeps Inv.
LEMMA CallInv ==
  ASSUME Inv, NEW c \in Callers, Call(c) \/ Locked(c)
  PROVE  Inv'
<1> USE BoundsAssumption, CallersAssumption
<1> USE DEF Inv, TypeOK, Numbered, DownIsQuiet, PostedIsStored, AnswersHold,
            RefreshIsNeeded, InvalidMeansRejected, StoreFollowsRing, Tokens, Refreshing
<1>1. CASE Call(c)
  BY <1>1 DEF Call
<1>2. CASE Locked(c)
  BY <1>2 DEF Locked
<1> QED
  BY <1>1, <1>2

\* The steps of _refresh keep Inv.  The row a refused caller marks invalid is
\* the one it posted (PostedIsStored), which Ring still refuses (AnswersHold).
LEMMA RefreshInv ==
  ASSUME Inv, NEW c \in Callers, Refresh(c)
  PROVE  Inv'
<1> USE BoundsAssumption, CallersAssumption
<1> USE DEF Inv, TypeOK, Numbered, DownIsQuiet, PostedIsStored, AnswersHold,
            RefreshIsNeeded, InvalidMeansRejected, StoreFollowsRing, Tokens, Refreshing
<1>1. CASE Post(c)
  BY <1>1 DEF Post, load
<1>2. CASE NoToken(c)
  BY <1>2 DEF NoToken, Leave, load
<1>3. CASE PostFails(c)
  BY <1>3 DEF PostFails, Leave
<1>4. CASE MarkInvalid(c)
  BY <1>4 DEF MarkInvalid, Leave
<1>5. CASE Refreshed(c)
  <2>1. TypeOK' /\ Numbered' /\ DownIsQuiet' /\ PostedIsStored'
    BY <1>5 DEF Refreshed, Leave
  <2>2. AnswersHold' /\ RefreshIsNeeded' /\ InvalidMeansRejected' /\ StoreFollowsRing'
    BY <1>5 DEF Refreshed, Leave
  <2> QED
    BY <2>1, <2>2
<1>6. CASE RotateFails(c)
  BY <1>6 DEF RotateFails, Leave
<1> QED
  BY <1>1, <1>2, <1>3, <1>4, <1>5, <1>6 DEF Refresh

\* Ring granting a token keeps Inv.  A successor is a number nobody has seen
\* (Numbered), so no invalid row and no refused caller comes back to life.
LEMMA RingGrantsInv ==
  ASSUME Inv, NEW c \in Callers, RingGrants(c)
  PROVE  Inv'
<1> USE BoundsAssumption, CallersAssumption
<1>1. CASE Answer(c, "granted", loaded[c]) /\ UNCHANGED ring
  BY <1>1 DEF RingGrants, Answer, Inv, TypeOK, Numbered, DownIsQuiet, PostedIsStored, AnswersHold,
              RefreshIsNeeded, InvalidMeansRejected, StoreFollowsRing, Tokens,
              Refreshing
<1>2. CASE /\ issued < MaxToken
           /\ issued' = issued + 1
           /\ accepted' = (accepted \ {loaded[c]}) \cup {issued + 1}
           /\ Answer(c, "granted", issued + 1)
  <2> DEFINE t == issued + 1
  <2>1. /\ t \in Tokens /\ t # 0 /\ t <= t
        /\ \A k \in Tokens \cup {0} : k <= issued => k <= t /\ k # t
    BY <1>2 DEF Inv, TypeOK, Tokens
  <2>2. issued' = t /\ accepted' = (accepted \ {loaded[c]}) \cup {t} /\ Answer(c, "granted", t)
    BY <1>2
  <2> HIDE DEF t
  <2>3. TypeOK'
    <3>1. /\ pc' \in [Callers -> {"idle", "wait", "ok", "error"} \cup Refreshing]
          /\ reply' \in [Callers -> Tokens \cup {0}]
          /\ faulted' \in BOOLEAN
      BY <2>1, <2>2 DEF Answer, Inv, TypeOK, Refreshing
    <3> QED
      BY <2>1, <2>2, <3>1 DEF RingGrants, Inv, TypeOK
  <2>4. Numbered'
    BY <2>1, <2>2 DEF RingGrants, Answer, Inv, TypeOK, Numbered
  <2>5. DownIsQuiet' /\ PostedIsStored' /\ RefreshIsNeeded'
    BY <2>2 DEF RingGrants, Answer, Inv, TypeOK, DownIsQuiet, PostedIsStored,
           RefreshIsNeeded, Refreshing
  <2>6. AnswersHold'
    BY <2>1, <2>2 DEF RingGrants, Answer, Inv, TypeOK, Numbered, PostedIsStored, AnswersHold,
           RefreshIsNeeded, Refreshing
  <2>7. InvalidMeansRejected' /\ StoreFollowsRing'
    BY <2>1, <2>2 DEF RingGrants, Answer, Inv, TypeOK, Numbered, PostedIsStored,
           InvalidMeansRejected, StoreFollowsRing, RefreshIsNeeded, Refreshing
  <2> QED
    BY <2>3, <2>4, <2>5, <2>6, <2>7 DEF Inv
<1> QED
  BY <1>1, <1>2 DEF RingGrants

\* Refusals and revocations keep Inv.
LEMMA RingInv ==
  ASSUME Inv, RingRevokes \/ \E c \in Callers : RingRefuses(c)
  PROVE  Inv'
<1> USE BoundsAssumption, CallersAssumption
<1> USE DEF Inv, TypeOK, Numbered, DownIsQuiet, PostedIsStored, AnswersHold,
            RefreshIsNeeded, InvalidMeansRejected, StoreFollowsRing, Tokens, Refreshing
<1>1. CASE RingRevokes
  BY <1>1 DEF RingRevokes
<1>2. ASSUME NEW c \in Callers, RingRefuses(c)
      PROVE  Inv'
  BY <1>2 DEF RingRefuses, Answer
<1> QED
  BY <1>1, <1>2

\* The operator's steps keep Inv, with callers in the middle of a refresh too:
\* a store that was removed is never written before the next start.
LEMMA OperatorInv ==
  ASSUME Inv, Regenerate \/ DropStore \/ Recreate
  PROVE  Inv'
<1> USE BoundsAssumption, CallersAssumption
<1> USE DEF Inv, TypeOK, Numbered, DownIsQuiet, PostedIsStored, AnswersHold,
            RefreshIsNeeded, InvalidMeansRejected, StoreFollowsRing, Tokens, Refreshing
<1>1. CASE Regenerate
  BY <1>1 DEF Regenerate
<1>2. CASE DropStore
  <2>1. TypeOK' /\ DownIsQuiet' /\ PostedIsStored'
    BY <1>2 DEF DropStore
  <2>2. Numbered'
    BY <1>2 DEF DropStore
  <2>3. AnswersHold' /\ RefreshIsNeeded' /\ InvalidMeansRejected' /\ StoreFollowsRing'
    BY <1>2 DEF DropStore
  <2> QED
    BY <2>1, <2>2, <2>3
<1>3. CASE Recreate
  BY <1>3 DEF Recreate, Dies
<1> QED
  BY <1>1, <1>2, <1>3

\* Every step keeps Inv.
LEMMA StepInv == Inv /\ [Next]_vars => Inv'
<1> SUFFICES ASSUME Inv, [Next]_vars PROVE Inv'
  OBVIOUS
<1>1. CASE UNCHANGED vars
  BY <1>1 DEF vars, Inv, TypeOK, Numbered, DownIsQuiet, PostedIsStored, AnswersHold,
              RefreshIsNeeded, InvalidMeansRejected, StoreFollowsRing
<1>2. CASE Next
  BY <1>2, ProcessInv, CallInv, RefreshInv, RingGrantsInv, RingInv, OperatorInv DEF Next
<1> QED
  BY <1>1, <1>2

-----------------------------------------------------------------------------
\* Inv is an invariant of the credentials, with any number of callers and
\* crashes.
THEOREM Invariance == Spec => []Inv
<1>1. Init => Inv
  BY InitInv
<1>2. Inv /\ [Next]_vars => Inv'
  BY StepInv
<1> QED
  BY <1>1, <1>2, PTL DEF Spec

\* The variables keep their types.
THEOREM TypeCorrect == Spec => []TypeOK
<1>1. Inv => TypeOK
  BY DEF Inv
<1> QED
  BY <1>1, Invariance, PTL

\* mark_invalid, which names no token in its UPDATE, never marks a row whose
\* token Ring accepts.
THEOREM InvalidationIsSound == Spec => []InvalidMeansRejected
<1>1. Inv => InvalidMeansRejected
  BY DEF Inv
<1> QED
  BY <1>1, Invariance, PTL

\* Without a fault the stored token is the one Ring accepts, or the caller
\* that holds its successor is still to store it.
THEOREM RotationIsNotLost == Spec => []StoreFollowsRing
<1>1. Inv => StoreFollowsRing
  BY DEF Inv
<1> QED
  BY <1>1, Invariance, PTL

\* At most one caller refreshes, and only without a fresh access token.
THEOREM OneRefreshAtATime == Spec => []RefreshIsNeeded
<1>1. Inv => RefreshIsNeeded
  BY DEF Inv
<1> QED
  BY <1>1, Invariance, PTL

-----------------------------------------------------------------------------
\* The token lock is never held by a call that has left _refresh.
LockIsInUse == lock # Nobody => pc[lock] \in Refreshing

\* The safety content of CallReturns: whatever fails in _refresh, and also when
\* the process dies in it, the lock goes back, so that a waiting call never
\* waits for one that is over.
THEOREM LockIsNeverLeaked == Spec => []LockIsInUse
<1>1. Init => LockIsInUse
  BY DEF Init, LockIsInUse
<1>2. Inv /\ LockIsInUse /\ [Next]_vars => LockIsInUse'
  <2> SUFFICES ASSUME Inv, LockIsInUse, [Next]_vars PROVE LockIsInUse'
    OBVIOUS
  <2> USE CallersAssumption DEF Inv, TypeOK, RefreshIsNeeded, LockIsInUse, Refreshing
  <2>1. ASSUME NEW c \in Callers, Call(c) \/ Locked(c) PROVE LockIsInUse'
    BY <2>1 DEF Call, Locked
  <2>2. ASSUME NEW c \in Callers, Refresh(c) PROVE LockIsInUse'
    BY <2>2 DEF Refresh, Post, NoToken, PostFails, MarkInvalid, Refreshed, RotateFails, Leave
  <2>3. ASSUME NEW c \in Callers, RingGrants(c) \/ RingRefuses(c) PROVE LockIsInUse'
    BY <2>3 DEF RingGrants, RingRefuses, Answer
  <2>4. CASE Bootstrap \/ AccessExpires \/ RingRevokes \/ Regenerate \/ DropStore \/ UNCHANGED vars
    BY <2>4 DEF Bootstrap, AccessExpires, RingRevokes, Regenerate, DropStore, vars
  <2>5. CASE Crash \/ Recreate
    BY <2>5 DEF Crash, Recreate, Dies
  <2> QED
    BY <2>1, <2>2, <2>3, <2>4, <2>5 DEF Next
<1> QED
  BY <1>1, <1>2, Invariance, PTL DEF Spec

-----------------------------------------------------------------------------
\* A token that Ring answers with in place of the posted one is a later one.
SuccessorsAreLater ==
  \A c \in Callers : pc[c] = "granted" /\ reply[c] # loaded[c] => loaded[c] < reply[c]

\* No interleaving of callers, late answers, crashes and renewals lets an older
\* refresh token overwrite a newer one, or revives a row Ring has refused.
THEOREM RotationIsOrdered == Spec => RotatesInOrder
<1>1. Init => SuccessorsAreLater
  BY DEF Init, SuccessorsAreLater
<1>2. Inv /\ SuccessorsAreLater /\ [Next]_vars => SuccessorsAreLater'
  <2> SUFFICES ASSUME Inv, SuccessorsAreLater, [Next]_vars PROVE SuccessorsAreLater'
    OBVIOUS
  <2>1. ASSUME NEW c \in Callers, RingGrants(c) PROVE SuccessorsAreLater'
    <3>1. /\ loaded' = loaded /\ loaded[c] \in Nat /\ issued \in Nat /\ loaded[c] <= issued
          /\ \E t \in {loaded[c], issued + 1} : Answer(c, "granted", t)
      BY <2>1 DEF RingGrants, Inv, TypeOK, Tokens, Numbered
    <3>2. \A d \in Callers \ {c} : pc'[d] = pc[d] /\ reply'[d] = reply[d]
      BY <3>1 DEF Answer, Inv, TypeOK
    <3>3. pc[c] = "post" => reply'[c] \in {loaded[c], issued + 1}
      BY <3>1 DEF Answer, Inv, TypeOK
    <3>4. pc[c] # "post" => pc'[c] = pc[c] /\ reply'[c] = reply[c]
      BY <3>1 DEF Answer, Inv, TypeOK
    <3> QED BY <3>1, <3>2, <3>3, <3>4 DEF SuccessorsAreLater
  <2>2. ASSUME NEW c \in Callers, Post(c) PROVE SuccessorsAreLater'
    BY <2>2 DEF Post, SuccessorsAreLater, Inv, TypeOK
  <2>3. ASSUME NEW c \in Callers,
               Call(c) \/ Locked(c) \/ NoToken(c) \/ PostFails(c) \/ MarkInvalid(c)
                 \/ Refreshed(c) \/ RotateFails(c) \/ RingRefuses(c)
        PROVE  SuccessorsAreLater'
    BY <2>3 DEF Call, Locked, NoToken, PostFails, MarkInvalid, Refreshed, RotateFails,
                RingRefuses, Answer, Leave, SuccessorsAreLater, Inv, TypeOK
  <2>4. CASE Bootstrap \/ Crash \/ AccessExpires \/ RingRevokes \/ Regenerate \/ DropStore
               \/ Recreate \/ UNCHANGED vars
    BY <2>4 DEF Bootstrap, Crash, Dies, AccessExpires, RingRevokes, Regenerate, DropStore,
                Recreate, vars, SuccessorsAreLater
  <2> QED
    BY <2>1, <2>2, <2>3, <2>4 DEF Next, Refresh
<1> DEFINE Ordered ==
      /\ process = "up" /\ row' # row /\ row' # 0 =>
           \E c \in Callers :
             /\ pc[c] = "granted" /\ lock = c
             /\ loaded[c] = row /\ reply[c] = row' /\ row < row'
      /\ ~ valid /\ valid' => process = "down" /\ row' = env
<1>3. Inv /\ SuccessorsAreLater /\ [Next]_vars => [Ordered]_vars
  <2> SUFFICES ASSUME Inv, SuccessorsAreLater, Next PROVE Ordered
    OBVIOUS
  <2>1. ASSUME NEW c \in Callers, Refreshed(c) PROVE Ordered
    <3>1. /\ pc[c] = "granted" /\ lock = c
          /\ row = 0 \/ (valid /\ loaded[c] = row)
          /\ reply[c] # loaded[c] => loaded[c] < reply[c]
      BY <2>1 DEF Refreshed, Inv, RefreshIsNeeded, Refreshing, PostedIsStored, SuccessorsAreLater
    <3> QED BY <2>1, <3>1 DEF Refreshed
  <2>2. CASE Bootstrap
    BY <2>2 DEF Bootstrap
  <2>3. CASE DropStore
    BY <2>3 DEF DropStore
  <2>4. ASSUME NEW c \in Callers, MarkInvalid(c) PROVE Ordered
    BY <2>4 DEF MarkInvalid
  <2>5. ASSUME NEW c \in Callers,
               Call(c) \/ Locked(c) \/ Post(c) \/ NoToken(c) \/ PostFails(c) \/ RotateFails(c)
                 \/ RingGrants(c) \/ RingRefuses(c)
        PROVE  UNCHANGED <<row, valid>>
    BY <2>5 DEF Call, Locked, Post, NoToken, PostFails, RotateFails, RingGrants, RingRefuses
  <2>6. Crash \/ AccessExpires \/ RingRevokes \/ Regenerate \/ Recreate => UNCHANGED <<row, valid>>
    BY DEF Crash, AccessExpires, RingRevokes, Regenerate, Recreate
  <2> QED
    BY <2>1, <2>2, <2>3, <2>4, <2>5, <2>6 DEF Next, Refresh
<1> QED
  BY <1>1, <1>2, <1>3, Invariance, PTL DEF Spec, RotatesInOrder
=============================================================================
