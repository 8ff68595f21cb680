------------------------ MODULE PartnerTokensProofs ------------------------
(***************************************************************************)
(* Proofs about PartnerTokens, for any number of concurrent requests and   *)
(* of pairs: type correctness, that the row never falls behind Ring by the *)
(* backend's own doing, that it implements RotatingCredential, and for     *)
(* which reasons a session can end.                                        *)
(***************************************************************************)
EXTENDS PartnerTokens, TLAPS

\* A pair is on its way into the row.
Carries(p) == pc[p] \in {"granted", "coded"}
\* The request works on a refresh token it has read from the row.
Holds(p) == pc[p] \in {"post", "granted", "rejected"}

\* The row is there as soon as somebody refreshes it, and never goes away.
RowStays == \A p \in Requests : pc[p] = "read" \/ Holds(p) => row # NoRow

\* What was in the row, in a request, or accepted by Ring was issued by Ring.
Provenance ==
  /\ row # NoRow => row.pair \in stored
  /\ stored \subseteq 1..issued
  /\ \A p \in Requests : Holds(p) => held[p] \in stored

\* A pair that is on its way is new to the store and known to Ring, and only
\* one request carries it.
InTransit ==
  /\ \A p \in Requests : Carries(p) =>
       got[p] \in 1..issued /\ got[p] \notin stored /\ got[p] \in accepted \cup dead
  /\ \A p, q \in Requests : Carries(p) /\ Carries(q) /\ p # q => got[p] # got[q]

Inv == TypeOK /\ RowStays /\ Provenance /\ InTransit /\ RowFollowsRing

-----------------------------------------------------------------------------
LEMMA RowsAreRows == \A r \in Row : r # NoRow
  BY NoRowAssumption, GrantsAssumption DEF Row, Pairs

LEMMA InitInv == Init => Inv
  BY GrantsAssumption, NoRowAssumption
  DEF Init, Inv, TypeOK, RowStays, Provenance, InTransit, RowFollowsRing,
      Carries, Holds, Labels, Pairs, Row

\* Every action keeps the types; the parts of the invariant it needs are those
\* that say there is a row and a pair.
LEMMA TypeStep == Inv /\ [Next]_vars => TypeOK'
<1> SUFFICES ASSUME Inv, [Next]_vars PROVE TypeOK'
  OBVIOUS
<1> USE GrantsAssumption DEF TypeOK, Labels, Pairs, Row, Finish
<1>1. ASSUME NEW p \in Requests, Get(p) PROVE TypeOK'
  BY <1>1 DEF Inv, Get, GetRefused, GetStored, GetStale, vars
<1>2. ASSUME NEW p \in Requests, Exchange(p) PROVE TypeOK'
  BY <1>2 DEF Inv, Exchange
<1>3. ASSUME NEW p \in Requests, RefreshRead(p) PROVE TypeOK'
  BY <1>3 DEF Inv, RefreshRead, RowStays
<1>4. ASSUME NEW p \in Requests, Update(p) \/ SaveTokens(p) PROVE TypeOK'
  <2>1. got[p] \in Pairs
    BY <1>4 DEF Inv, InTransit, Carries, Update, SaveTokens
  <2>2. CASE Update(p)
    BY <2>1, <2>2 DEF Inv, Update
  <2>3. CASE SaveTokens(p)
    BY <2>1, <2>3 DEF Inv, SaveTokens
  <2> QED BY <1>4, <2>2, <2>3
<1>5. ASSUME NEW p \in Requests, Invalidate(p) PROVE TypeOK'
  <2>1. row \in Row
    BY <1>5 DEF Inv, Invalidate, RowStays, Holds
  <2> QED BY <1>5, <2>1 DEF Inv, Invalidate
<1>6. ASSUME NEW p \in Requests, RotationLost(p) PROVE TypeOK'
  <2>1. held[p] \in Pairs
    BY <1>6 DEF Inv, Provenance, Holds, RotationLost
  <2> QED BY <1>6, <2>1 DEF Inv, RotationLost
<1>7. ASSUME NEW p \in Requests, Answer(p) PROVE TypeOK'
  <2>1. CASE RingRotates(p)
    <3>1. accepted' \subseteq 1..issued' /\ issued' \in 0..MaxGrants
      <4>1. issued' = issued + 1 /\ issued < MaxGrants /\ issued \in 0..MaxGrants
        BY <2>1 DEF Inv, RingRotates
      <4>2. accepted \subseteq 1..issued
        BY DEF Inv
      <4>3. accepted' \subseteq accepted \cup {issued + 1}
        BY <2>1 DEF RingRotates
      <4> HIDE DEF TypeOK
      <4> QED BY <4>1, <4>2, <4>3
    <3>2. got' \in [Requests -> Pairs \cup {0}] /\ pc' \in [Requests -> Labels]
      BY <2>1 DEF Inv, RingRotates
    <3> QED BY <2>1, <3>1, <3>2 DEF Inv, RingRotates
  <2>2. CASE RingIssues(p)
    BY <2>2 DEF Inv, RingIssues
  <2>3. CASE RingRejects(p)
    BY <2>3 DEF Inv, RingRejects
  <2>4. CASE RefreshFails(p) \/ ExchangeFails(p)
    BY <2>4 DEF Inv, RefreshFails, ExchangeFails
  <2> QED BY <1>7, <2>1, <2>2, <2>3, <2>4 DEF Answer
<1>8. CASE Expire
  BY <1>8 DEF Inv, Expire
<1>9. CASE Revoke
  BY <1>9 DEF Inv, Revoke
<1>10. CASE Crash
  <2>1. \A q \in Requests : pc[q] = "granted" => held[q] \in 1..MaxGrants
    BY DEF Inv, Provenance, Holds
  <2> QED BY <1>10, <2>1 DEF Inv, Crash
<1>11. CASE UNCHANGED vars
  BY <1>11 DEF Inv, vars
<1> QED
  BY <1>1, <1>2, <1>3, <1>4, <1>5, <1>6, <1>7, <1>8, <1>9, <1>10, <1>11
  DEF Next, Step

\* An action that keeps the stored and the issued pairs, moves no pair, and
\* leaves the other requests where they are.
LEMMA QuietStep ==
  ASSUME Inv, TypeOK',
         UNCHANGED <<stored, issued>>,
         accepted \cup dead \subseteq accepted' \cup dead',
         row = NoRow => row' = NoRow,
         row # NoRow => row' # NoRow /\ row'.pair = row.pair,
         \A p \in Requests :
           /\ pc'[p] = "read" \/ Holds(p)' => row # NoRow
           /\ Holds(p)' => Holds(p) /\ held'[p] = held[p]
           /\ Carries(p)' => Carries(p) /\ got'[p] = got[p],
         \A p \in Requests : pc[p] = "granted" =>
           pc'[p] = "granted" \/ held[p] \in dead'
  PROVE  Inv'
<1>1. RowStays'
  BY DEF Inv, RowStays
<1>2. Provenance'
  BY DEF Inv, Provenance
<1>3. InTransit'
  BY DEF Inv, InTransit
<1>4. RowFollowsRing'
  BY DEF Inv, RowFollowsRing, Holds
<1> QED BY <1>1, <1>2, <1>3, <1>4 DEF Inv

(***************************************************************************)
(* The inductive step, one case per action.                                *)
(***************************************************************************)
LEMMA NextInv == Inv /\ [Next]_vars => Inv'
<1> SUFFICES ASSUME Inv, [Next]_vars PROVE Inv'
  OBVIOUS
<1>0. TypeOK /\ TypeOK'
  BY TypeStep DEF Inv
<1>1. ASSUME NEW p \in Requests, GetRefused(p) \/ GetStored(p) PROVE Inv'
  BY <1>0, <1>1, QuietStep DEF Inv, RowStays, GetRefused, GetStored, vars, Holds, Carries
<1>2. ASSUME NEW p \in Requests, GetStale(p) \/ Exchange(p) PROVE Inv'
  BY <1>0, <1>2, QuietStep
  DEF Inv, RowStays, GetStale, Exchange, Holds, Carries, TypeOK
<1>3. ASSUME NEW p \in Requests, RefreshRead(p) PROVE Inv'
  <2>1. row # NoRow /\ row.pair \in stored
    BY <1>3 DEF Inv, RowStays, Provenance, RefreshRead
  <2>2. \A q \in Requests : q # p => pc'[q] = pc[q] /\ held'[q] = held[q]
    BY <1>0, <1>3 DEF RefreshRead, TypeOK
  <2>3. pc'[p] = "post" /\ held'[p] = row.pair /\ pc[p] = "read"
    BY <1>0, <1>3 DEF RefreshRead, TypeOK
  <2>4. RowStays'
    BY <1>3, <2>1 DEF RowStays, RefreshRead
  <2>5. Provenance'
    BY <1>3, <2>1, <2>2, <2>3 DEF Inv, Provenance, RefreshRead, Holds
  <2>6. InTransit'
    BY <1>3, <2>2, <2>3 DEF Inv, InTransit, RefreshRead, Carries
  <2>7. RowFollowsRing'
    BY <1>3, <2>2, <2>3 DEF Inv, RowFollowsRing, RefreshRead
  <2> QED BY <1>0, <1>3, <2>4, <2>5, <2>6, <2>7 DEF Inv, RefreshRead
<1>4. ASSUME NEW p \in Requests, Update(p) \/ SaveTokens(p) PROVE Inv'
  <2>1. /\ Carries(p)
        /\ row' = [pair |-> got[p], valid |-> TRUE, stale |-> FALSE]
        /\ stored' = stored \cup {got[p]}
        /\ UNCHANGED <<issued, accepted, dead>>
    BY <1>4 DEF Update, SaveTokens, Carries
  <2>2. \A q \in Requests : q # p => pc'[q] = pc[q] /\ held'[q] = held[q] /\ got'[q] = got[q]
    BY <1>0, <1>4 DEF Update, SaveTokens, Finish, TypeOK
  <2>3. pc'[p] = "idle"
    BY <1>0, <1>4 DEF Update, SaveTokens, Finish, TypeOK
  <2>4. row' # NoRow /\ row'.pair = got[p]
    <3>1. got[p] \in Pairs
      BY <1>0, <2>1 DEF Inv, InTransit, TypeOK, Pairs
    <3>2. row' \in Row /\ row'.pair = got[p]
      BY <2>1, <3>1 DEF Row
    <3> QED BY <3>2, RowsAreRows
  <2>5. RowStays'
    BY <2>4 DEF RowStays
  <2>6. Provenance'
    BY <2>1, <2>2, <2>3, <2>4 DEF Inv, Provenance, InTransit, Holds
  <2>7. InTransit'
    BY <2>1, <2>2, <2>3 DEF Inv, InTransit, Carries
  <2>8. RowFollowsRing'
    BY <2>1, <2>4 DEF Inv, RowFollowsRing, InTransit
  <2> QED BY <1>0, <2>1, <2>5, <2>6, <2>7, <2>8 DEF Inv
<1>5. ASSUME NEW p \in Requests, Invalidate(p) PROVE Inv'
  <2>1. row # NoRow /\ row \in Row
    BY <1>0, <1>5 DEF Inv, Invalidate, RowStays, Holds, TypeOK
  <2>2. row' \in Row /\ row'.pair = row.pair
    BY <1>5, <2>1 DEF Invalidate, Row
  <2>3. row' # NoRow
    BY <2>2, RowsAreRows
  <2> QED
    BY <1>0, <1>5, <2>1, <2>2, <2>3, QuietStep
    DEF Inv, Invalidate, Finish, Holds, Carries, TypeOK
<1>6. ASSUME NEW p \in Requests, RotationLost(p) \/ RefreshFails(p) \/ ExchangeFails(p)
      PROVE  Inv'
  BY <1>0, <1>6, QuietStep
  DEF Inv, RotationLost, RefreshFails, ExchangeFails, Finish, RowStays, Holds, Carries,
      TypeOK
<1>7. ASSUME NEW p \in Requests, RingRejects(p) PROVE Inv'
  BY <1>0, <1>7, QuietStep
  DEF Inv, RingRejects, RowStays, Holds, Carries, TypeOK
<1>8. ASSUME NEW p \in Requests, RingRotates(p) \/ RingIssues(p) PROVE Inv'
  <2>1. /\ issued' = issued + 1 /\ issued \in Nat
        /\ issued + 1 \in accepted'
        /\ UNCHANGED <<row, held, dead, stored>>
        /\ \/ accepted \subseteq accepted' /\ pc'[p] = "coded" /\ pc[p] = "code"
           \/ /\ accepted \ {held[p]} \subseteq accepted'
              /\ pc'[p] = "granted" /\ pc[p] = "post"
        /\ got'[p] = issued + 1
    BY <1>0, <1>8, GrantsAssumption DEF RingRotates, RingIssues, TypeOK
  <2>2. \A q \in Requests : q # p => pc'[q] = pc[q] /\ got'[q] = got[q]
    BY <1>0, <1>8 DEF RingRotates, RingIssues, TypeOK
  <2>3. RowStays'
    BY <2>1, <2>2 DEF Inv, RowStays, Holds
  <2>4. Provenance'
    BY <2>1, <2>2 DEF Inv, Provenance, Holds
  <2>5. InTransit'
    <3>1. issued + 1 \notin stored /\ issued + 1 \notin 1..issued
      BY <2>1 DEF Inv, Provenance
    <3>2. ASSUME NEW q \in Requests, Carries(q)'
          PROVE  got'[q] \in 1..issued' /\ got'[q] \notin stored' /\ got'[q] \in accepted' \cup dead'
      <4>1. CASE q = p
        BY <2>1, <3>1, <4>1
      <4>2. CASE q # p
        <5>1. Carries(q) /\ got'[q] = got[q]
          BY <2>2, <3>2, <4>2 DEF Carries
        <5>2. got[q] \in 1..issued /\ got[q] \notin stored /\ got[q] \in accepted \cup dead
          BY <5>1 DEF Inv, InTransit
        <5>3. pc[p] = "post" => held[p] \in stored
          BY DEF Inv, Provenance, Holds
        <5> QED BY <2>1, <5>1, <5>2, <5>3
      <4> QED BY <4>1, <4>2
    <3>3. ASSUME NEW q \in Requests, NEW r \in Requests, Carries(q)', Carries(r)', q # r
          PROVE  got'[q] # got'[r]
      <4>1. \A s \in Requests : Carries(s)' /\ s # p =>
              Carries(s) /\ got'[s] = got[s] /\ got[s] \in 1..issued
        BY <2>2 DEF Inv, InTransit, Carries
      <4> QED BY <2>1, <3>1, <3>3, <4>1 DEF Inv, InTransit
    <3> QED BY <3>2, <3>3 DEF InTransit
  <2>6. RowFollowsRing'
    BY <2>1, <2>2 DEF Inv, RowFollowsRing
  <2> QED BY <1>0, <2>1, <2>3, <2>4, <2>5, <2>6 DEF Inv
<1>9. CASE Expire
  <2>1. row # NoRow /\ row \in Row
    BY <1>0, <1>9 DEF Expire, TypeOK
  <2>2. row' \in Row /\ row'.pair = row.pair
    BY <1>9, <2>1 DEF Expire, Row
  <2>3. row' # NoRow
    BY <2>2, RowsAreRows
  <2> QED
    BY <1>0, <1>9, <2>1, <2>2, <2>3, QuietStep DEF Inv, Expire, RowStays, Holds, Carries
<1>10. CASE Revoke
  BY <1>0, <1>10, QuietStep DEF Inv, Revoke, RowStays, Holds, Carries
<1>11. CASE Crash
  BY <1>0, <1>11, QuietStep DEF Inv, Crash, Holds, Carries, TypeOK
<1>12. CASE UNCHANGED vars
  BY <1>0, <1>12, QuietStep DEF Inv, vars, RowStays, Holds, Carries
<1> QED
  BY <1>1, <1>2, <1>3, <1>4, <1>5, <1>6, <1>7, <1>8, <1>9, <1>10, <1>11, <1>12
  DEF Next, Get, Step, Answer

\* The inductive invariant holds throughout.
LEMMA Invariance == Spec => []Inv
  BY InitInv, NextInv, PTL DEF Spec

-----------------------------------------------------------------------------
\* The row, the requests and Ring's bookkeeping keep their types.
THEOREM TypeCorrect == Spec => []TypeOK
<1>1. Inv => TypeOK
  BY DEF Inv
<1> QED BY <1>1, Invariance, PTL

\* The stored refresh token is accepted by Ring, being replaced, or was revoked
\* or lost, for any number of concurrent requests.
THEOREM RowFollows == Spec => []RowFollowsRing
<1>1. Inv => RowFollowsRing
  BY DEF Inv
<1> QED BY <1>1, Invariance, PTL

\* Every step of the token service is a step of RotatingCredential or leaves
\* the row and what has been in it alone.
THEOREM Refinement == Spec => ImplementsCredential
<1>1. Init => Credential!Init
  BY DEF Init, Credential!Init
<1>2. Inv /\ [Next]_vars => [Credential!Next]_(Credential!credential)
  <2> SUFFICES ASSUME Inv, [Next]_vars
               PROVE  [Credential!Next]_(Credential!credential)
    OBVIOUS
  <2>0. TypeOK
    BY DEF Inv
  <2>1. ASSUME NEW p \in Requests, Update(p) \/ SaveTokens(p) PROVE Credential!Replace
    <3>1. got[p] \in (1..MaxGrants) \ stored
      BY <2>0, <2>1, GrantsAssumption
      DEF Inv, InTransit, Carries, Update, SaveTokens, TypeOK
    <3>2. row' = [pair |-> got[p], valid |-> TRUE, stale |-> FALSE]
          /\ stored' = stored \cup {got[p]}
      BY <2>1 DEF Update, SaveTokens
    <3>3. row' \in Row /\ row'.pair = got[p] /\ row'.valid = TRUE
      BY <3>1, <3>2 DEF Row, Pairs
    <3>4. row' # NoRow
      BY <3>3, RowsAreRows
    <3> QED BY <3>1, <3>2, <3>3, <3>4 DEF Credential!Replace
  <2>2. ASSUME NEW p \in Requests, Invalidate(p)
        PROVE  [Credential!Next]_(Credential!credential)
    <3>1. row \in Row /\ row # NoRow
      BY <2>0, <2>2 DEF Inv, Invalidate, RowStays, Holds, TypeOK
    <3>2. row' \in Row /\ row'.pair = row.pair /\ row'.valid = FALSE /\ stored' = stored
      BY <2>2, <3>1 DEF Invalidate, Row
    <3>3. row' # NoRow
      BY <3>2, RowsAreRows
    <3> QED
      BY <3>1, <3>2, <3>3 DEF Row, Credential!Next, Credential!Invalidate, Credential!credential
  <2>3. CASE Expire
    <3>1. row \in Row /\ row # NoRow
      BY <2>0, <2>3 DEF Expire, TypeOK
    <3>2. row' \in Row /\ row'.pair = row.pair /\ row'.valid = row.valid /\ stored' = stored
      BY <2>3, <3>1 DEF Expire, Row
    <3>3. row' # NoRow
      BY <3>2, RowsAreRows
    <3> QED BY <3>1, <3>2, <3>3 DEF Credential!credential
  <2>4. CASE UNCHANGED <<row, stored>>
    BY <2>4 DEF Credential!credential
  <2> QED
    BY <2>1, <2>2, <2>3, <2>4
    DEF Next, Get, Step, Answer, vars, Credential!Next, GetRefused, GetStored, GetStale,
        Exchange, RefreshRead, RotationLost, RingRotates, RingRejects, RefreshFails,
        RingIssues, ExchangeFails, Revoke, Crash
<1> QED BY <1>1, <1>2, Invariance, PTL DEF Spec, ImplementsCredential, Credential!Spec

-----------------------------------------------------------------------------
(***************************************************************************)
(* Why a session ends.                                                     *)
(***************************************************************************)
\* A token that Ring has refused stays refused.
RejectedIsSpent ==
  \A p \in Requests : pc[p] = "rejected" => held[p] \in 1..issued /\ held[p] \notin accepted

\* A request is refused with a token that Ring issued and does not accept.
LEMMA RefusedNow ==
  ASSUME Inv, NEW p \in Requests, RingRejects(p), RejectedIsSpent PROVE RejectedIsSpent'
<1>1. held[p] \in 1..issued /\ held[p] \notin accepted
  BY DEF Inv, RingRejects, Provenance, Holds
<1> QED BY <1>1 DEF RejectedIsSpent, RingRejects, Inv, TypeOK

\* Ring accepts no old token again, and a refused request keeps its token until
\* it has invalidated the session.
LEMMA RefusedBefore ==
  ASSUME Inv, RejectedIsSpent, issued \in Nat,
         \/ accepted' \subseteq accepted /\ issued' = issued
         \/ accepted' \subseteq accepted \cup {issued + 1} /\ issued' = issued + 1,
         \A p \in Requests : pc'[p] = "rejected" => pc[p] = "rejected" /\ held'[p] = held[p]
  PROVE  RejectedIsSpent'
<1>1. ASSUME NEW p \in Requests, pc'[p] = "rejected"
      PROVE  held'[p] \in 1..issued' /\ held'[p] \notin accepted'
  <2>1. held'[p] = held[p] /\ held[p] \in 1..issued /\ held[p] \notin accepted
    BY <1>1 DEF RejectedIsSpent
  <2> QED BY <2>1
<1> QED BY <1>1 DEF RejectedIsSpent

LEMMA RejectedInv == Spec => []RejectedIsSpent
<1>1. Init => RejectedIsSpent
  BY DEF Init, RejectedIsSpent
<1>2. Inv /\ RejectedIsSpent /\ [Next]_vars => RejectedIsSpent'
  <2> SUFFICES ASSUME Inv, RejectedIsSpent, [Next]_vars PROVE RejectedIsSpent'
    OBVIOUS
  <2>0. /\ issued \in Nat /\ pc \in [Requests -> Labels] /\ held \in [Requests -> Pairs \cup {0}]
        /\ got \in [Requests -> Pairs \cup {0}]
    BY GrantsAssumption DEF Inv, TypeOK
  <2>1. ASSUME NEW p \in Requests, Get(p) \/ Exchange(p) \/ RefreshRead(p) PROVE RejectedIsSpent'
    BY <2>0, <2>1, RefusedBefore
    DEF Get, GetRefused, GetStored, GetStale, Exchange, RefreshRead, vars
  <2>2. ASSUME NEW p \in Requests, RingRotates(p) \/ RingIssues(p) PROVE RejectedIsSpent'
    BY <2>0, <2>2, RefusedBefore DEF RingRotates, RingIssues
  <2>3. ASSUME NEW p \in Requests,
               \/ Update(p) \/ Invalidate(p) \/ SaveTokens(p) \/ RotationLost(p)
               \/ RefreshFails(p) \/ ExchangeFails(p)
        PROVE  RejectedIsSpent'
    BY <2>0, <2>3, RefusedBefore
    DEF Update, Invalidate, SaveTokens, RotationLost, RefreshFails, ExchangeFails, Finish
  <2>4. CASE Expire \/ Revoke \/ Crash \/ UNCHANGED vars
    BY <2>0, <2>4, RefusedBefore DEF Expire, Revoke, Crash, vars
  <2> QED BY <2>1, <2>2, <2>3, <2>4, RefusedNow DEF Next, Step, Answer
<1> QED BY <1>1, <1>2, Invariance, PTL DEF Spec

\* A session that the backend gives up was revoked, lost in a crash or a failed
\* answer, or the loser of a race of two refreshes gave it up.
THEOREM SessionEndsForAReason == Spec => InvalidationIsExplained
<1>1. Inv /\ RejectedIsSpent /\ [Next]_vars
      => [SessionValid /\ ~ SessionValid' => \E p \in Requests : Explained(p)]_vars
  <2> SUFFICES ASSUME Inv, RejectedIsSpent, [Next]_vars, SessionValid, ~ SessionValid'
               PROVE  \E p \in Requests : Explained(p)
    OBVIOUS
  <2>0. row \in Row /\ row # NoRow /\ row.valid /\ TypeOK
    BY DEF Inv, TypeOK, SessionValid
  <2>1. ASSUME NEW p \in Requests, Update(p) \/ SaveTokens(p) PROVE FALSE
    <3>1. Carries(p) /\ row' = [pair |-> got[p], valid |-> TRUE, stale |-> FALSE]
      BY <2>1 DEF Update, SaveTokens, Carries
    <3>2. got[p] \in Pairs
      BY <2>0, <3>1 DEF Inv, InTransit, TypeOK, Pairs
    <3>3. row' \in Row /\ row'.valid = TRUE
      BY <3>1, <3>2 DEF Row
    <3> QED BY <3>3, RowsAreRows DEF SessionValid
  <2>2. CASE Expire
    <3>1. row' \in Row /\ row'.valid = row.valid
      BY <2>0, <2>2 DEF Expire, Row
    <3> QED BY <2>0, <3>1, RowsAreRows DEF SessionValid
  <2>3. ASSUME NEW p \in Requests, Invalidate(p) PROVE Explained(p)
    <3>1. pc[p] = "rejected" /\ held[p] \notin accepted
      BY <2>3 DEF Invalidate, RejectedIsSpent
    <3>2. row.pair \in accepted \cup dead \/ \E q \in Requests : pc[q] = "granted" /\ held[q] = row.pair
      BY <2>0 DEF Inv, RowFollowsRing
    <3> QED BY <3>1, <3>2 DEF Explained
  <2>4. CASE UNCHANGED row
    BY <2>0, <2>4 DEF SessionValid
  <2> QED
    BY <2>1, <2>2, <2>3, <2>4
    DEF Next, Get, Step, Answer, vars, GetRefused, GetStored, GetStale, Exchange, RefreshRead,
        RotationLost, RingRotates, RingRejects, RefreshFails, RingIssues, ExchangeFails,
        Revoke, Crash
<1> QED BY <1>1, Invariance, RejectedInv, PTL DEF Spec, InvalidationIsExplained
=============================================================================
