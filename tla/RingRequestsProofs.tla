------------------------- MODULE RingRequestsProofs -------------------------
(***************************************************************************)
(* Proofs about RingRequests, for any number of callers and any timing     *)
(* parameters: type correctness (in particular the capped backoff and the  *)
(* bounded attempt counter), the bound on server errors per request, that  *)
(* Ring's Retry-After is honoured, what the cache may hold and for how     *)
(* long, and in which order an operation makes its requests.               *)
(***************************************************************************)
EXTENDS RingRequests, TLAPS

ServerError(c) == reply[c] # None /\ reply[c].status = "5xx"

\* attempt_5xx counts the server errors that have been dealt with.
Counting(c) ==
  failures[c] = IF ServerError(c) THEN attempt[c] + 1 ELSE attempt[c]

\* What is left of a Retry-After is in the reply or in the sleep it caused.
Waiting(c) ==
  asked[c] > 0 =>
    \/ /\ pc[c] = "flight" /\ reply[c] # None
       /\ reply[c].status = "429" /\ reply[c].after # None
       /\ asked[c] <= reply[c].after
    \/ pc[c] = "sleep" /\ asked[c] <= timer[c]

\* Outside _request nothing of a request is left, and a caller that is idle
\* is not in the middle of get_snapshot.
Rested(c) ==
  /\ pc[c] # "flight" => reply[c] = None
  /\ pc[c] \notin {"flight", "sleep"} => attempt[c] = 0 /\ failures[c] = 0
  /\ pc[c] = "idle" => stage[c] = "get"

Good(c) == Counting(c) /\ Waiting(c) /\ Rested(c)

Inv == TypeOK /\ \A c \in Callers : Good(c)

\* The state of caller c alone.
Own(c) == <<pc[c], op[c], stage[c], reply[c], attempt[c], backoff[c], timer[c],
            asked[c], failures[c]>>

-----------------------------------------------------------------------------
LEMMA InitInv == Init => Inv
  BY TtlAssumption, BackoffAssumption, RetryAssumption, VersionAssumption
  DEF Init, Inv, TypeOK, Good, Counting, Waiting, Rested, ServerError, Versions

\* min(2 * backoff, cap) stays between the initial backoff and the cap.
LEMMA DoubledRange ==
  ASSUME NEW b \in Initial..MaxBackoff PROVE Doubled(b) \in Initial..MaxBackoff
  BY BackoffAssumption DEF Doubled

\* A caller that does not move stays as it was.
LEMMA Frame ==
  ASSUME NEW d \in Callers, Good(d), UNCHANGED Own(d) PROVE Good(d)'
  BY DEF Good, Counting, Waiting, Rested, ServerError, Own

\* The end of an operation, or of the PUT, changes only the caller's own state.
LEMMA EndTypes ==
  ASSUME TypeOK, NEW c \in Callers,
         Return(c) \/ SettleAfterPut(c) \/
           (/\ pc' = [pc EXCEPT ![c] = "acquire"]
            /\ stage' = [stage EXCEPT ![c] = "put"]
            /\ UNCHANGED <<timer, op>>)
  PROVE  /\ pc' \in [Callers -> {"idle", "acquire", "flight", "sleep", "settle"}]
         /\ op' \in [Callers -> Operations \cup {None}]
         /\ stage' \in [Callers -> {"get", "put", "again"}]
         /\ timer' \in [Callers -> Nat]
         /\ \A d \in Callers : d # c => pc'[d] = pc[d] /\ op'[d] = op[d]
                                        /\ stage'[d] = stage[d] /\ timer'[d] = timer[d]
         /\ pc'[c] \in {"idle", "acquire", "settle"}
         /\ pc'[c] = "idle" => stage'[c] = "get"
<1> USE RetryAssumption DEF TypeOK
<1>1. CASE Return(c)
  BY <1>1 DEF Return
<1>2. CASE SettleAfterPut(c)
  BY <1>2 DEF SettleAfterPut
<1> QED BY <1>1, <1>2

LEMMA ForgetTypes ==
  ASSUME TypeOK, NEW c \in Callers, Forget(c)
  PROVE  /\ reply' \in [Callers -> Reply \cup {None}]
         /\ attempt' \in [Callers -> 0..Max5xx]
         /\ backoff' \in [Callers -> Initial..MaxBackoff]
         /\ asked' \in [Callers -> Nat]
         /\ failures' \in [Callers -> Nat]
         /\ \A d \in Callers : d # c =>
              /\ reply'[d] = reply[d] /\ attempt'[d] = attempt[d]
              /\ backoff'[d] = backoff[d] /\ asked'[d] = asked[d]
              /\ failures'[d] = failures[d]
         /\ reply'[c] = None /\ attempt'[c] = 0 /\ asked'[c] = 0 /\ failures'[c] = 0
  BY BackoffAssumption, RetryAssumption DEF TypeOK, Forget

\* A request is over, in one of the ways the operations end it.
LEMMA OverInv ==
  ASSUME Inv, NEW c \in Callers, Forget(c), UNCHANGED ver,
         cache' \in [Cached -> [ver : Versions, left : Nat] \cup {None}],
         Return(c) \/ SettleAfterPut(c) \/
           (/\ pc' = [pc EXCEPT ![c] = "acquire"]
            /\ stage' = [stage EXCEPT ![c] = "put"]
            /\ UNCHANGED <<timer, op>>)
  PROVE  Inv'
<1>1. TypeOK'
  BY EndTypes, ForgetTypes DEF Inv, TypeOK
<1>2. Good(c)'
  BY EndTypes, ForgetTypes DEF Inv, Good, Counting, Waiting, Rested, ServerError
<1>3. ASSUME NEW d \in Callers, d # c PROVE Good(d)'
  BY <1>3, EndTypes, ForgetTypes, Frame DEF Inv, Own
<1> QED BY <1>1, <1>2, <1>3 DEF Inv

LEMMA RaiseEnds == ASSUME NEW c, Raise(c) PROVE Return(c) \/ SettleAfterPut(c)
  BY DEF Raise

LEMMA NextInv == Inv /\ [Next]_vars => Inv'
<1> SUFFICES ASSUME Inv, [Next]_vars PROVE Inv'
  OBVIOUS
<1>0. TypeOK
  BY DEF Inv
<1>1. ASSUME NEW c \in Callers, NEW o \in Ops, Miss(c, o) PROVE Inv'
  <2>1. TypeOK'
    BY <1>0, <1>1, OpsAssumption DEF TypeOK, Miss
  <2>2. Good(c)'
    BY <1>0, <1>1 DEF Inv, TypeOK, Miss, Good, Counting, Waiting, Rested, ServerError
  <2>3. ASSUME NEW d \in Callers, d # c PROVE Good(d)'
    BY <1>0, <1>1, <2>3, Frame DEF Inv, TypeOK, Miss, Own
  <2> QED BY <2>1, <2>2, <2>3 DEF Inv
<1>2. ASSUME NEW c \in Callers, Admitted(c) \/ Retry(c) \/ SecondGet(c) PROVE Inv'
  <2>1. TypeOK'
    BY <1>0, <1>2 DEF TypeOK, Admitted, Retry, SecondGet
  <2>2. Good(c)'
    <3>1. CASE Admitted(c)
      BY <1>0, <3>1 DEF Inv, TypeOK, Admitted, Good, Counting, Waiting, Rested, ServerError
    <3>2. CASE Retry(c)
      BY <1>0, <3>2 DEF Inv, TypeOK, Retry, Good, Counting, Waiting, Rested, ServerError
    <3>3. CASE SecondGet(c)
      BY <1>0, <3>3 DEF Inv, TypeOK, SecondGet, Good, Counting, Waiting, Rested, ServerError
    <3> QED BY <1>2, <3>1, <3>2, <3>3
  <2>3. ASSUME NEW d \in Callers, d # c PROVE Good(d)'
    BY <1>0, <1>2, <2>3, Frame DEF Inv, TypeOK, Admitted, Retry, SecondGet, Own
  <2> QED BY <2>1, <2>2, <2>3 DEF Inv
<1>3. ASSUME NEW c \in Callers, Refused(c) PROVE Inv'
  <2>1. Return(c) \/ SettleAfterPut(c)
    BY <1>3, RaiseEnds DEF Refused
  <2>2. UNCHANGED <<ver, cache, reply, attempt, backoff, asked, failures>> /\ pc[c] = "acquire"
    BY <1>3 DEF Refused
  <2>3. TypeOK'
    BY <1>0, <2>1, <2>2, EndTypes DEF TypeOK
  <2>4. Good(c)'
    BY <1>0, <2>1, <2>2, EndTypes
    DEF Inv, TypeOK, Good, Counting, Waiting, Rested, ServerError
  <2>5. ASSUME NEW d \in Callers, d # c PROVE Good(d)'
    BY <1>0, <2>1, <2>2, <2>5, EndTypes, Frame DEF Inv, Own
  <2> QED BY <2>3, <2>4, <2>5 DEF Inv
<1>4. ASSUME NEW c \in Callers, RingReplies(c) PROVE Inv'
  <2>1. PICK s \in Final \cup {"429", "5xx"}, a \in RetryAfters \cup {None} :
          /\ a # None => s = "429"
          /\ reply' = [reply EXCEPT ![c] =
                         [status |-> s, ver |-> IF s = "ok" THEN ver ELSE 0, after |-> a]]
          /\ asked' = IF a = None THEN asked ELSE [asked EXCEPT ![c] = a]
          /\ failures' = IF s = "5xx" THEN [failures EXCEPT ![c] = @ + 1] ELSE failures
    BY <1>4 DEF RingReplies
  <2>2. /\ pc[c] = "flight" /\ reply[c] = None
        /\ UNCHANGED <<ver, cache, pc, op, stage, attempt, backoff, timer>>
    BY <1>4 DEF RingReplies
  <2>3. a # None => a \in Nat
    BY <2>1, RetryAftersAssumption
  <2>4. [status |-> s, ver |-> IF s = "ok" THEN ver ELSE 0, after |-> a] \in Reply
    BY <1>0, VersionAssumption DEF Reply, TypeOK, Versions
  <2>5. TypeOK'
    <3>1. reply' \in [Callers -> Reply \cup {None}]
      BY <1>0, <2>1, <2>4 DEF TypeOK
    <3>2. asked' \in [Callers -> Nat]
      BY <1>0, <2>1, <2>3 DEF TypeOK
    <3>3. failures' \in [Callers -> Nat]
      BY <1>0, <2>1 DEF TypeOK
    <3> QED BY <1>0, <2>2, <3>1, <3>2, <3>3 DEF TypeOK
  <2>6. /\ reply'[c] # None /\ reply'[c].status = s /\ reply'[c].after = a
    BY <1>0, <2>1, <2>4, NoneAssumption DEF TypeOK
  <2>7. asked[c] = 0 /\ failures[c] = attempt[c]
    BY <1>0, <2>2 DEF Inv, Good, Waiting, Counting, ServerError, TypeOK
  <2>8. Good(c)'
    <3>1. Counting(c)'
      BY <1>0, <2>1, <2>2, <2>6, <2>7 DEF Counting, ServerError, TypeOK
    <3>2. Waiting(c)'
      BY <1>0, <2>1, <2>2, <2>3, <2>6, <2>7 DEF Waiting, TypeOK
    <3>3. Rested(c)'
      BY <2>2 DEF Rested
    <3> QED BY <3>1, <3>2, <3>3 DEF Good
  <2>9. ASSUME NEW d \in Callers, d # c PROVE Good(d)'
    BY <1>0, <2>1, <2>2, <2>9, Frame DEF Inv, TypeOK, Own
  <2> QED BY <2>5, <2>8, <2>9 DEF Inv
<1>5. ASSUME NEW c \in Callers, Lost(c) \/ GiveUp(c) PROVE Inv'
  BY <1>0, <1>5, RaiseEnds, OverInv DEF Lost, GiveUp, TypeOK
<1>6. ASSUME NEW c \in Callers, Deliver(c) PROVE Inv'
  <2>1. Respond(c, reply[c].status) /\ Forget(c) /\ UNCHANGED ver
    BY <1>6 DEF Deliver
  <2>2. \/ Return(c) \/ SettleAfterPut(c)
        \/ /\ pc' = [pc EXCEPT ![c] = "acquire"]
           /\ stage' = [stage EXCEPT ![c] = "put"]
           /\ UNCHANGED <<timer, op>>
    BY <2>1 DEF Respond
  <2>3. cache' \in [Cached -> [ver : Versions, left : Nat] \cup {None}]
    <3>1. reply[c] \in Reply
      BY <1>0, <1>6 DEF Deliver, TypeOK
    <3>2. reply[c].ver \in Versions
      BY <3>1 DEF Reply
    <3>3. \A k \in Cached : Ttl[k] \in Nat
      BY TtlAssumption DEF Ttl
    <3> QED BY <1>0, <1>6, <3>2, <3>3 DEF Deliver, TypeOK
  <2> QED BY <2>1, <2>2, <2>3, OverInv
<1>7. ASSUME NEW c \in Callers, Sleep429(c) \/ Sleep5xx(c) PROVE Inv'
  <2>1. reply[c] \in Reply /\ pc[c] = "flight" /\ reply[c] # None
    BY <1>0, <1>7 DEF Sleep429, Sleep5xx, TypeOK
  <2>2. reply[c].after # None => reply[c].after \in Nat
    BY <2>1, RetryAftersAssumption DEF Reply
  <2>3. backoff[c] \in Nat /\ Doubled(backoff[c]) \in Initial..MaxBackoff
    BY <1>0, DoubledRange, BackoffAssumption DEF TypeOK
  <2>4. CASE Sleep429(c)
    <3>1. TypeOK'
      BY <1>0, <2>2, <2>3, <2>4 DEF Sleep429, TypeOK
    <3>2. Good(c)'
      <4>1. Counting(c)'
        BY <1>0, <2>4 DEF Inv, Good, Counting, ServerError, Sleep429, TypeOK
      <4>2. Waiting(c)'
        BY <1>0, <2>2, <2>3, <2>4 DEF Inv, Good, Waiting, Sleep429, TypeOK
      <4>3. Rested(c)'
        BY <1>0, <2>4 DEF Rested, Sleep429, TypeOK
      <4> QED BY <4>1, <4>2, <4>3 DEF Good
    <3>3. ASSUME NEW d \in Callers, d # c PROVE Good(d)'
      BY <1>0, <2>4, <3>3, Frame DEF Inv, Sleep429, TypeOK, Own
    <3> QED BY <3>1, <3>2, <3>3 DEF Inv
  <2>5. CASE Sleep5xx(c)
    <3>1. TypeOK'
      BY <1>0, <2>3, <2>5, RetryAssumption DEF Sleep5xx, TypeOK
    <3>2. Good(c)'
      <4>1. Counting(c)'
        BY <1>0, <2>5 DEF Inv, Good, Counting, ServerError, Sleep5xx, TypeOK
      <4>2. Waiting(c)'
        BY <1>0, <2>5 DEF Inv, Good, Waiting, Sleep5xx, TypeOK
      <4>3. Rested(c)'
        BY <1>0, <2>5 DEF Rested, Sleep5xx, TypeOK
      <4> QED BY <4>1, <4>2, <4>3 DEF Good
    <3>3. ASSUME NEW d \in Callers, d # c PROVE Good(d)'
      BY <1>0, <2>5, <3>3, Frame DEF Inv, Sleep5xx, TypeOK, Own
    <3> QED BY <3>1, <3>2, <3>3 DEF Inv
  <2> QED BY <1>7, <2>4, <2>5
<1>8. CASE Change
  <2>1. TypeOK'
    BY <1>0, <1>8, VersionAssumption DEF Change, TypeOK, Versions
  <2>2. ASSUME NEW d \in Callers PROVE Good(d)'
    BY <1>8, Frame DEF Inv, Change, Own
  <2> QED BY <2>1, <2>2 DEF Inv
<1>9. CASE Tick
  <2>1. \A n \in Nat : Less(n) \in Nat
    BY DEF Less
  <2>2. TypeOK'
    <3>1. cache' \in [Cached -> [ver : Versions, left : Nat] \cup {None}]
      BY <1>0, <1>9, <2>1 DEF Tick, TypeOK
    <3>2. timer' \in [Callers -> Nat] /\ asked' \in [Callers -> Nat]
      BY <1>0, <1>9, <2>1 DEF Tick, TypeOK
    <3> QED BY <1>0, <1>9, <3>1, <3>2 DEF Tick, TypeOK
  <2>3. ASSUME NEW d \in Callers PROVE Good(d)'
    <3>1. asked'[d] = Less(asked[d]) /\ timer'[d] = Less(timer[d])
      BY <1>9 DEF Tick
    <3>2. asked[d] \in Nat /\ timer[d] \in Nat
      BY <1>0 DEF TypeOK
    <3>3. Good(d) /\ UNCHANGED <<pc, stage, reply, attempt, failures>>
      BY <1>9 DEF Inv, Tick
    <3>4. Counting(d)' /\ Rested(d)'
      BY <3>3 DEF Good, Counting, Rested, ServerError
    <3>5. Waiting(d)'
      <4>1. ASSUME asked'[d] > 0 PROVE asked[d] > 0 /\ asked'[d] = asked[d] - 1
        BY <3>1, <3>2, <4>1 DEF Less
      <4>2. asked[d] > 0 /\ asked[d] <= timer[d] => timer'[d] = timer[d] - 1
        BY <3>1, <3>2 DEF Less
      <4>3. CASE pc[d] = "sleep"
        BY <3>2, <3>3, <4>1, <4>2, <4>3 DEF Good, Waiting
      <4>4. CASE pc[d] # "sleep"
        <5> SUFFICES ASSUME asked'[d] > 0 PROVE Waiting(d)'
          BY DEF Waiting
        <5>1. /\ pc[d] = "flight" /\ reply[d] # None
              /\ reply[d].status = "429" /\ reply[d].after # None
              /\ asked[d] <= reply[d].after
          BY <3>3, <4>1, <4>4 DEF Good, Waiting
        <5>2. reply[d].after \in Nat
          BY <1>0, <5>1, RetryAftersAssumption DEF TypeOK, Reply
        <5>3. asked'[d] <= reply[d].after
          BY <3>2, <4>1, <5>1, <5>2
        <5> QED BY <3>3, <5>1, <5>3 DEF Waiting
      <4> QED BY <4>3, <4>4
    <3> QED BY <3>4, <3>5 DEF Good
  <2> QED BY <2>2, <2>3 DEF Inv
<1>10. CASE UNCHANGED vars
  <2>1. TypeOK'
    BY <1>0, <1>10 DEF vars, TypeOK
  <2>2. ASSUME NEW d \in Callers PROVE Good(d)'
    BY <1>10, Frame DEF Inv, vars, Own
  <2> QED BY <2>1, <2>2 DEF Inv
<1> QED
  BY <1>1, <1>2, <1>3, <1>4, <1>5, <1>6, <1>7, <1>8, <1>9, <1>10
  DEF Next, Call, Step, Hit

\* The inductive invariant holds throughout.
LEMMA Invariance == Spec => []Inv
  BY InitInv, NextInv, PTL DEF Spec

-----------------------------------------------------------------------------
\* Counters, backoffs and cache entries keep their types and ranges.
THEOREM TypeCorrect == Spec => []TypeOK
<1>1. Inv => TypeOK
  BY DEF Inv
<1> QED BY <1>1, Invariance, PTL

\* No request sees more than Max5xx + 1 server errors.
THEOREM ServerErrorsBounded == Spec => []FiveHundredsBounded
<1>1. ASSUME Inv, NEW c \in Callers PROVE failures[c] <= Max5xx + 1
  <2>1. attempt[c] \in 0..Max5xx /\ Counting(c)
    BY <1>1 DEF Inv, TypeOK, Good
  <2> QED BY <2>1, RetryAssumption DEF Counting
<1>2. Inv => FiveHundredsBounded
  BY <1>1 DEF FiveHundredsBounded
<1> QED BY <1>2, Invariance, PTL

\* No attempt is under way while Ring's Retry-After runs.
THEOREM RetryAfterIsHonoured == Spec => []RetryAfterHonoured
<1>1. Inv => RetryAfterHonoured
  BY DEF Inv, TypeOK, Good, Waiting, RetryAfterHonoured
<1> QED BY <1>1, Invariance, PTL

\* get_snapshot never ends out of its PUT.
THEOREM PutDecidesNothing == Spec => PutNeverDecides
<1>1. Inv /\ [Next]_vars =>
        [\A c \in Callers : stage[c] = "put" => pc'[c] # "idle"]_vars
  <2> SUFFICES ASSUME Inv, [Next]_vars, NEW c \in Callers, stage[c] = "put"
               PROVE  pc'[c] # "idle"
    OBVIOUS
  <2>0. TypeOK /\ pc[c] # "idle"
    BY DEF Inv, Good, Rested
  <2>1. ASSUME NEW d \in Callers,
               Refused(d) \/ Lost(d) \/ GiveUp(d) \/ Deliver(d)
        PROVE  pc'[c] # "idle"
    <3>1. CASE d = c
      <4>1. SettleAfterPut(c)
        BY <2>1, <3>1 DEF Refused, Lost, GiveUp, Deliver, Raise, Respond
      <4> QED BY <2>0, <4>1 DEF TypeOK, SettleAfterPut
    <3>2. CASE d # c
      <4>1. \/ Return(d) \/ SettleAfterPut(d)
            \/ /\ pc' = [pc EXCEPT ![d] = "acquire"]
               /\ stage' = [stage EXCEPT ![d] = "put"]
               /\ UNCHANGED <<timer, op>>
        BY <2>1, RaiseEnds DEF Refused, Lost, GiveUp, Deliver, Respond
      <4> QED BY <2>0, <3>2, <4>1, EndTypes
    <3> QED BY <3>1, <3>2
  <2>2. ASSUME NEW d \in Callers, NEW l \in {"acquire", "flight", "sleep"},
               pc' = [pc EXCEPT ![d] = l]
        PROVE  pc'[c] # "idle"
    BY <2>0, <2>2 DEF TypeOK
  <2>3. ASSUME NEW d \in Callers,
               \/ \E o \in Ops : Miss(d, o)
               \/ Admitted(d) \/ Retry(d) \/ SecondGet(d) \/ Sleep429(d) \/ Sleep5xx(d)
        PROVE  pc'[c] # "idle"
    BY <2>2, <2>3 DEF Miss, Admitted, Retry, SecondGet, Sleep429, Sleep5xx
  <2>4. CASE UNCHANGED pc
    BY <2>0, <2>4
  <2> QED
    BY <2>1, <2>3, <2>4 DEF Next, Call, Step, Hit, RingReplies, Change, Tick, vars
<1> QED BY <1>1, Invariance, PTL DEF Spec, PutNeverDecides

-----------------------------------------------------------------------------
(***************************************************************************)
(* The response cache: the safety content of ReadsCatchUp.                 *)
(***************************************************************************)
\* Cache entries and replies under way show data Ring has or has had, and an
\* entry has at most one TTL left.
CacheIsBounded ==
  /\ \A k \in Cached : cache[k] # None => cache[k].ver <= ver /\ cache[k].left <= Ttl[k]
  /\ \A c \in Callers : reply[c] # None => reply[c].ver <= ver

\* A step gives an entry new data or new life ...
Renewed(k) ==
  /\ cache'[k] # None
  /\ cache[k] = None \/ cache'[k].ver # cache[k].ver \/ cache'[k].left > cache[k].left

\* ... or stores the reply of a request for that key, for one TTL.
ByReply(k) ==
  \E c \in Callers :
    /\ pc[c] = "flight" /\ op[c] = k
    /\ reply[c] # None /\ reply[c].status = "ok"
    /\ cache'[k] = [ver |-> reply[c].ver, left |-> Ttl[k]]

\* Only a reply of Ring's renews an entry, and by exactly one TTL: a hit, a late
\* answer that failed or another key's never does.
OnlyRepliesRefresh == [][\A k \in Cached : Renewed(k) => ByReply(k)]_vars

\* The time to live of a key is a positive number of ticks.
LEMMA TtlIsNat == \A k \in Cached : Ttl[k] \in Nat
BY TtlAssumption DEF Ttl

\* What a step may do to the cache: nothing, drop an expired entry, let every
\* entry age, or store a list that has arrived.
LEMMA CacheSteps ==
  ASSUME TypeOK, [Next]_vars
  PROVE  \/ \A k \in Cached : cache'[k] \in {cache[k], None}
         \/ Tick
         \/ \E c \in Callers :
              /\ pc[c] = "flight" /\ op[c] \in Cached
              /\ reply[c] # None /\ reply[c].status = "ok"
              /\ cache' = [cache EXCEPT ![op[c]] = [ver |-> reply[c].ver, left |-> Ttl[op[c]]]]
<1>1. ASSUME NEW c \in Callers, Deliver(c)
      PROVE  \/ cache' = cache
             \/ /\ pc[c] = "flight" /\ op[c] \in Cached
                /\ reply[c] # None /\ reply[c].status = "ok"
                /\ cache' = [cache EXCEPT ![op[c]] = [ver |-> reply[c].ver, left |-> Ttl[op[c]]]]
  BY <1>1 DEF Deliver
<1>2. ASSUME NEW c \in Callers, NEW o \in Ops, Miss(c, o)
      PROVE  \A k \in Cached : cache'[k] \in {cache[k], None}
  BY <1>2 DEF Miss
<1>3. ASSUME NEW c \in Callers,
             \/ Admitted(c) \/ Refused(c) \/ Sleep429(c) \/ Sleep5xx(c) \/ GiveUp(c)
             \/ Retry(c) \/ SecondGet(c) \/ RingReplies(c) \/ Lost(c)
             \/ \E o \in Ops : Hit(c, o)
      PROVE  cache' = cache
  BY <1>3 DEF Admitted, Refused, Sleep429, Sleep5xx, GiveUp, Retry, SecondGet, RingReplies,
              Lost, Hit, vars
<1>4. Change \/ UNCHANGED vars => cache' = cache
  BY DEF Change, vars
<1> QED
  BY <1>1, <1>2, <1>3, <1>4 DEF Next, Call, Step

\* Ring's data never goes back to an earlier version.
LEMMA VersionNeverFalls ==
  ASSUME TypeOK, [Next]_vars
  PROVE  ver' >= ver /\ ver \in Nat /\ ver' \in Nat
<1>1. ver \in Nat
  BY VersionAssumption DEF TypeOK, Versions
<1>2. ver' = ver \/ ver' = ver + 1
  BY DEF Next, vars, Change, Tick, Call, Hit, Miss, Step, Admitted, Refused, Sleep429, Sleep5xx,
         GiveUp, Deliver, Retry, SecondGet, RingReplies, Lost
<1> QED BY <1>1, <1>2

\* What a step may do to a reply: nothing, take it away, or bring one with the
\* data of this moment.
LEMMA ReplySteps ==
  ASSUME TypeOK, [Next]_vars, NEW c \in Callers
  PROVE  reply'[c] \in {reply[c], None} \/ reply'[c].ver <= ver
<1>1. ASSUME NEW d \in Callers, RingReplies(d)
      PROVE  reply'[c] = reply[c] \/ reply'[c].ver <= ver
  <2>1. PICK s \in Final \cup {"429", "5xx"}, a \in RetryAfters \cup {None} :
          reply' = [reply EXCEPT ![d] =
                      [status |-> s, ver |-> IF s = "ok" THEN ver ELSE 0, after |-> a]]
    BY <1>1 DEF RingReplies
  <2>2. ver \in Nat
    BY VersionNeverFalls
  <2> QED BY <2>1, <2>2 DEF TypeOK
<1>2. ASSUME NEW d \in Callers,
             Lost(d) \/ GiveUp(d) \/ Deliver(d) \/ Sleep429(d) \/ Sleep5xx(d)
      PROVE  reply'[c] \in {reply[c], None}
  BY <1>2 DEF Lost, GiveUp, Deliver, Forget, Sleep429, Sleep5xx, TypeOK
<1>3. ASSUME NEW d \in Callers,
             Call(d) \/ Admitted(d) \/ Refused(d) \/ Retry(d) \/ SecondGet(d)
      PROVE  reply'[c] = reply[c]
  BY <1>3 DEF Call, Hit, Miss, vars, Admitted, Refused, Retry, SecondGet
<1>4. Change \/ Tick \/ UNCHANGED vars => reply'[c] = reply[c]
  BY DEF Change, Tick, vars
<1> QED
  BY <1>1, <1>2, <1>3, <1>4 DEF Next, Step

\* An entry one tick later.
LEMMA AgedEntry ==
  ASSUME TypeOK, Tick, NEW k \in Cached, cache'[k] # None
  PROVE  /\ cache[k] # None /\ cache'[k].ver = cache[k].ver
         /\ cache'[k].left <= cache[k].left /\ cache[k].left \in Nat /\ cache'[k].left \in Nat
<1>1. cache[k] # None /\ cache'[k] = [cache[k] EXCEPT !.left = Less(@)]
  BY DEF Tick
<1>2. cache[k] \in [ver : Versions, left : Nat]
  BY <1>1 DEF TypeOK
<1>3. cache'[k].ver = cache[k].ver /\ cache'[k].left = Less(cache[k].left)
  BY <1>1, <1>2
<1>4. cache[k].left \in Nat
  BY <1>2
<1> QED BY <1>1, <1>3, <1>4 DEF Less

\* No read returns data that Ring did not have, or keeps it longer than its
\* TTL, in whatever order answers arrive.
THEOREM CacheForgets == Spec => []CacheIsBounded
<1>1. Init => CacheIsBounded
  BY DEF Init, CacheIsBounded
<1>2. TypeOK /\ TypeOK' /\ CacheIsBounded /\ [Next]_vars => CacheIsBounded'
  <2> SUFFICES ASSUME TypeOK, TypeOK', CacheIsBounded, [Next]_vars PROVE CacheIsBounded'
    OBVIOUS
  <2>1. ver' >= ver /\ ver \in Nat /\ ver' \in Nat
    BY VersionNeverFalls
  <2>2. ASSUME NEW c \in Callers, reply'[c] # None PROVE reply'[c].ver <= ver'
    <3>1. reply'[c].ver <= ver
      BY <2>2, ReplySteps DEF CacheIsBounded
    <3>2. reply'[c].ver \in Nat
      BY <2>2, VersionAssumption DEF TypeOK, Reply, Versions
    <3> QED BY <2>1, <3>1, <3>2
  <2>3. ASSUME NEW k \in Cached, cache'[k] # None
        PROVE  cache'[k].ver <= ver' /\ cache'[k].left <= Ttl[k]
    <3>1. cache'[k].ver \in Nat /\ cache'[k].left \in Nat /\ Ttl[k] \in Nat
      BY <2>3, VersionAssumption, TtlIsNat DEF TypeOK, Versions
    <3>2. CASE \A j \in Cached : cache'[j] \in {cache[j], None}
      BY <2>1, <2>3, <3>1, <3>2 DEF CacheIsBounded
    <3>3. CASE Tick
      BY <2>1, <2>3, <3>1, <3>3, AgedEntry DEF CacheIsBounded
    <3>4. ASSUME NEW c \in Callers, op[c] \in Cached, reply[c] # None,
                 cache' = [cache EXCEPT ![op[c]] = [ver |-> reply[c].ver, left |-> Ttl[op[c]]]]
          PROVE  cache'[k].ver <= ver' /\ cache'[k].left <= Ttl[k]
      <4>1. CASE k = op[c]
        <5>1. cache'[k] = [ver |-> reply[c].ver, left |-> Ttl[k]]
          BY <3>4, <4>1 DEF TypeOK
        <5>2. reply[c].ver <= ver
          BY <3>4 DEF CacheIsBounded
        <5> QED BY <2>1, <3>1, <5>1, <5>2
      <4>2. CASE k # op[c]
        BY <2>1, <2>3, <3>1, <3>4, <4>2 DEF TypeOK, CacheIsBounded
      <4> QED BY <4>1, <4>2
    <3> QED BY <3>2, <3>3, <3>4, CacheSteps
  <2> QED BY <2>2, <2>3 DEF CacheIsBounded
<1> QED BY <1>1, <1>2, TypeCorrect, PTL DEF Spec

\* No hit, no failure and no answer to another request prolongs an entry.
THEOREM HitsDoNotRenew == Spec => OnlyRepliesRefresh
<1>1. TypeOK /\ TypeOK' /\ [Next]_vars => [\A k \in Cached : Renewed(k) => ByReply(k)]_vars
  <2> SUFFICES ASSUME TypeOK, TypeOK', [Next]_vars, NEW k \in Cached, Renewed(k)
               PROVE  ByReply(k)
    OBVIOUS
  <2>1. cache'[k].left \in Nat /\ (cache[k] # None => cache[k].left \in Nat)
    BY DEF TypeOK, Renewed
  <2>2. CASE \A j \in Cached : cache'[j] \in {cache[j], None}
    BY <2>1, <2>2 DEF Renewed
  <2>3. CASE Tick
    BY <2>1, <2>3, AgedEntry DEF Renewed
  <2>4. ASSUME NEW c \in Callers, pc[c] = "flight", op[c] \in Cached, reply[c] # None,
               reply[c].status = "ok",
               cache' = [cache EXCEPT ![op[c]] = [ver |-> reply[c].ver, left |-> Ttl[op[c]]]]
        PROVE  ByReply(k)
    <3>1. k = op[c]
      BY <2>1, <2>4 DEF TypeOK, Renewed
    <3>2. cache'[k] = [ver |-> reply[c].ver, left |-> Ttl[k]]
      BY <2>4, <3>1 DEF TypeOK
    <3> QED BY <2>4, <3>1, <3>2 DEF ByReply
  <2> QED BY <2>2, <2>3, <2>4, CacheSteps
<1> QED BY <1>1, TypeCorrect, PTL DEF Spec, OnlyRepliesRefresh

-----------------------------------------------------------------------------
(***************************************************************************)
(* The shape of an operation: the safety content of OperationEnds.         *)
(***************************************************************************)
\* Only get_snapshot makes a second and a third request, it settles only before
\* the third, and no sleep is longer than the settling time, the backoff cap or
\* a Retry-After of Ring's.
Shape(c) ==
  /\ stage[c] # "get" => op[c] = "snapshot"
  /\ pc[c] = "settle" => stage[c] = "again" /\ timer[c] <= Settle
  /\ pc[c] = "sleep" => timer[c] <= MaxBackoff \/ \E a \in RetryAfters : timer[c] <= a

OperationShape == \A c \in Callers : Shape(c)

\* The end of a request keeps the shape of the operation.
LEMMA EndShape ==
  ASSUME TypeOK, NEW c \in Callers, Shape(c),
         \/ Return(c)
         \/ stage[c] = "put" /\ SettleAfterPut(c)
         \/ /\ op[c] = "snapshot"
            /\ pc' = [pc EXCEPT ![c] = "acquire"]
            /\ stage' = [stage EXCEPT ![c] = "put"]
            /\ UNCHANGED <<timer, op>>
  PROVE  Shape(c)' /\ \A d \in Callers : d # c => (Shape(d) => Shape(d)')
<1> USE RetryAssumption DEF TypeOK, Shape
<1>1. CASE Return(c)
  BY <1>1 DEF Return
<1>2. CASE stage[c] = "put" /\ SettleAfterPut(c)
  BY <1>2 DEF SettleAfterPut
<1> QED BY <1>1, <1>2

\* How a request of the operation ends, in every case.
LEMMA RequestEnds ==
  ASSUME NEW c, Refused(c) \/ Lost(c) \/ GiveUp(c) \/ Deliver(c)
  PROVE  \/ Return(c) /\ stage[c] # "put"
         \/ stage[c] = "put" /\ SettleAfterPut(c)
         \/ /\ stage[c] = "get" /\ op[c] = "snapshot"
            /\ pc' = [pc EXCEPT ![c] = "acquire"]
            /\ stage' = [stage EXCEPT ![c] = "put"]
            /\ UNCHANGED <<timer, op>>
BY DEF Refused, Lost, GiveUp, Deliver, Raise, Respond

\* Every operation keeps its shape: at most three requests with bounded sleeps.
THEOREM OperationsKeepShape == Spec => []OperationShape
<1>1. Init => OperationShape
  BY DEF Init, OperationShape, Shape
<1>2. Inv /\ OperationShape /\ [Next]_vars => OperationShape'
  <2> SUFFICES ASSUME Inv, OperationShape, [Next]_vars PROVE OperationShape'
    OBVIOUS
  <2>0. TypeOK /\ \A c \in Callers : Shape(c)
    BY DEF Inv, OperationShape
  <2>1. ASSUME NEW c \in Callers, Refused(c) \/ Lost(c) \/ GiveUp(c) \/ Deliver(c)
        PROVE  OperationShape'
    BY <2>0, <2>1, RequestEnds, EndShape DEF OperationShape
  <2>2. ASSUME NEW c \in Callers, NEW o \in Ops, Miss(c, o)
        PROVE  OperationShape'
    BY <2>0, <2>2 DEF Miss, Inv, Good, Rested, OperationShape, Shape, TypeOK
  <2>3. ASSUME NEW c \in Callers, Admitted(c) \/ Retry(c) \/ SecondGet(c)
        PROVE  OperationShape'
    BY <2>0, <2>3 DEF Admitted, Retry, SecondGet, OperationShape, Shape, TypeOK
  <2>4. ASSUME NEW c \in Callers, Sleep429(c) \/ Sleep5xx(c)
        PROVE  OperationShape'
    <3>1. backoff[c] <= MaxBackoff
      BY <2>0, BackoffAssumption DEF TypeOK
    <3>2. /\ UNCHANGED <<op, stage>> /\ pc' = [pc EXCEPT ![c] = "sleep"]
          /\ \/ timer' = [timer EXCEPT ![c] = backoff[c]]
             \/ /\ timer' = [timer EXCEPT ![c] = reply[c].after]
                /\ reply[c] # None /\ reply[c].after # None
      BY <2>4 DEF Sleep429, Sleep5xx
    <3>3. reply[c] # None /\ reply[c].after # None => reply[c].after \in RetryAfters
      BY <2>0 DEF TypeOK, Reply
    <3>4. reply[c] # None /\ reply[c].after # None =>
            reply[c].after \in RetryAfters /\ reply[c].after <= reply[c].after
      BY <3>3, RetryAftersAssumption
    <3>5. Shape(c)'
      BY <2>0, <3>1, <3>2, <3>4 DEF TypeOK, Shape
    <3>6. ASSUME NEW d \in Callers, d # c PROVE Shape(d)'
      BY <2>0, <3>2, <3>6 DEF TypeOK, Shape
    <3> QED BY <3>5, <3>6 DEF OperationShape
  <2>5. CASE Tick
    <3>1. \A c \in Callers : timer'[c] <= timer[c] /\ timer[c] \in Nat /\ timer'[c] \in Nat
      BY <2>0, <2>5 DEF Tick, Less, TypeOK
    <3>2. UNCHANGED <<pc, op, stage>>
      BY <2>5 DEF Tick
    <3>3. ASSUME NEW c \in Callers PROVE Shape(c)'
      <4>1. \A a \in Nat : timer[c] <= a => timer'[c] <= a
        BY <3>1
      <4> QED
        BY <2>0, <3>2, <4>1, RetryAssumption, BackoffAssumption, RetryAftersAssumption DEF Shape
    <3> QED BY <3>3 DEF OperationShape
  <2>6. CASE Change \/ UNCHANGED vars
    BY <2>0, <2>6 DEF Change, vars, OperationShape, Shape
  <2>7. ASSUME NEW c \in Callers, RingReplies(c) \/ \E o \in Ops : Hit(c, o)
        PROVE  OperationShape'
    BY <2>0, <2>7 DEF RingReplies, Hit, vars, OperationShape, Shape
  <2> QED
    BY <2>1, <2>2, <2>3, <2>4, <2>5, <2>6, <2>7 DEF Next, Call, Step
<1> QED BY <1>1, <1>2, Invariance, PTL DEF Spec

\* The requests of get_snapshot come in order and none comes twice: GET, after a
\* 404 the PUT, then the last GET, after which the operation is over.
RequestsInOrder ==
  [][\A c \in Callers :
       /\ stage[c] = "get" => stage'[c] \in {"get", "put"}
       /\ stage[c] = "put" => stage'[c] \in {"put", "again"}
       /\ stage[c] = "again" => stage'[c] = "again" \/ (stage'[c] = "get" /\ pc'[c] = "idle")]_vars

\* get_snapshot makes at most three requests, whatever Ring answers: no 404 of
\* the last GET, and no failure of the PUT, starts it over.
THEOREM SnapshotNeverStartsOver == Spec => RequestsInOrder
<1> DEFINE InOrder(c) ==
      /\ stage[c] = "get" => stage'[c] \in {"get", "put"}
      /\ stage[c] = "put" => stage'[c] \in {"put", "again"}
      /\ stage[c] = "again" => stage'[c] = "again" \/ (stage'[c] = "get" /\ pc'[c] = "idle")
<1>1. TypeOK /\ [Next]_vars => [\A c \in Callers : InOrder(c)]_vars
  <2> SUFFICES ASSUME TypeOK, [Next]_vars, NEW c \in Callers PROVE InOrder(c)
    OBVIOUS
  <2>1. ASSUME NEW d \in Callers, Refused(d) \/ Lost(d) \/ GiveUp(d) \/ Deliver(d)
        PROVE  InOrder(c)
    <3>1. \/ Return(d) /\ stage[d] # "put"
          \/ stage[d] = "put" /\ SettleAfterPut(d)
          \/ /\ stage[d] = "get"
             /\ stage' = [stage EXCEPT ![d] = "put"]
      BY <2>1, RequestEnds
    <3> QED BY <3>1 DEF TypeOK, Return, SettleAfterPut
  <2>2. CASE stage' = stage
    BY <2>2 DEF TypeOK
  <2> QED
    BY <2>1, <2>2 DEF Next, Call, Step, Hit, Miss, Admitted, Sleep429, Sleep5xx, Retry, SecondGet,
                      RingReplies, Change, Tick, vars
<1> QED BY <1>1, TypeCorrect, PTL DEF Spec, RequestsInOrder
=============================================================================
