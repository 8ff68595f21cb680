----------------------- MODULE RateLimitGovernorProofs -----------------------
(***************************************************************************)
(* Proofs about RateLimitGovernor, for every set of callers, every ceiling,*)
(* every queue wait and every window length.                               *)
(*                                                                         *)
(* The admissions of any window are bounded because self._events is at all *)
(* times a suffix of the admission history, at most MaxPerMinute long, and *)
(* everything trimmed off that history has left the window for good.       *)
(***************************************************************************)
EXTENDS RateLimitGovernor, TLAPS

USE MaxAssumption, WaitAssumption, WindowAssumption, TimeAssumption

Dropped == Len(log) - Len(events)

\* Admission times never decrease and never lie in the future.
LogSorted ==
  /\ \A i, j \in 1..Len(log) : i <= j => log[i] <= log[j]
  /\ \A i \in 1..Len(log) : log[i] <= now

\* self._events is the tail of the history; the rest is out of the window.
EventsAreTail ==
  /\ Dropped >= 0
  /\ Len(events) <= MaxPerMinute
  /\ \A i \in 1..Len(events) : events[i] = log[Dropped + i]
  /\ \A i \in 1..Dropped : log[i] <= now - Window

\* Exactly the caller whose turn it is stands between check and decision.
OneTurn ==
  \A c \in Callers : pc[c] \in {"check", "decide"} <=> turn = c

\* What the caller remembers when it decides: the oldest of a full window.
OldestRemembered ==
  \A c \in Callers : pc[c] = "decide" =>
    /\ Len(events) = MaxPerMinute
    /\ wake[c] = events[1] + Window

\* No sleeper is to wake later than the first moment with a free slot.
WakeInTime ==
  \A c \in Callers : pc[c] = "sleeping" =>
    /\ Len(log) >= MaxPerMinute
    /\ wake[c] <= log[Len(log) - MaxPerMinute + 1] + Window

Inv ==
  /\ TypeOK
  /\ LogSorted
  /\ EventsAreTail
  /\ OneTurn
  /\ OldestRemembered
  /\ WakeInTime

-----------------------------------------------------------------------------
\* An element of a sequence belongs to the set the sequence is over.
LEMMA ElementOf ==
  ASSUME NEW S, NEW s \in Seq(S), NEW i \in 1..Len(s)
  PROVE  s[i] \in S
OBVIOUS

(***************************************************************************)
(* What _trim_locked leaves: the tail after the k popped events, and every *)
(* admission before that tail has left the window.                         *)
(***************************************************************************)
LEMMA TrimFacts ==
  ASSUME TypeOK, EventsAreTail, NEW k \in 0..Len(events), TrimCount(k)
  PROVE  /\ Trimmed(k) \in Seq(0..MaxTime)
         /\ Len(Trimmed(k)) = Len(events) - k
         /\ \A i \in 1..(Len(events) - k) :
              Trimmed(k)[i] = events[k + i] /\ Trimmed(k)[i] = log[Dropped + k + i]
         /\ \A i \in 1..(Dropped + k) : log[i] <= now - Window
<1>1. events \in Seq(0..MaxTime) /\ Len(events) \in Nat /\ Len(log) \in Nat
  BY DEF TypeOK
<1>2. Trimmed(k) \in Seq(0..MaxTime) /\ Len(Trimmed(k)) = Len(events) - k
  BY <1>1 DEF Trimmed
<1>3. \A i \in 1..(Len(events) - k) :
        Trimmed(k)[i] = events[k + i] /\ Trimmed(k)[i] = log[Dropped + k + i]
  <2>1. TAKE i \in 1..(Len(events) - k)
  <2>2. Trimmed(k)[i] = events[k + i]
    BY <1>1 DEF Trimmed
  <2>3. events[k + i] = log[Dropped + (k + i)]
    BY <1>1 DEF EventsAreTail
  <2> QED BY <2>2, <2>3, <1>1 DEF Dropped
<1>4. ASSUME NEW i \in 1..(Dropped + k) PROVE log[i] <= now - Window
  <2>1. CASE i <= Dropped
    BY <2>1, <1>1 DEF EventsAreTail, Dropped
  <2>2. CASE i > Dropped
    <3>1. i - Dropped \in 1..k /\ i - Dropped \in 1..Len(events)
      BY <2>2, <1>1 DEF Dropped
    <3>2. events[i - Dropped] = log[Dropped + (i - Dropped)]
      BY <3>1 DEF EventsAreTail
    <3>3. Dropped + (i - Dropped) = i
      BY <1>1 DEF Dropped
    <3>4. events[i - Dropped] <= now - Window
      BY <3>1 DEF TrimCount, Expired
    <3> QED BY <3>2, <3>3, <3>4
  <2> QED BY <2>1, <2>2, <1>1 DEF Dropped
<1> QED BY <1>2, <1>3, <1>4

(***************************************************************************)
(* The inductive invariant is preserved by every step.                     *)
(***************************************************************************)
\* Inv holds before the first call.
LEMMA InitInv == Init => Inv
BY CallersAssumption DEF Init, Inv, TypeOK, Labels, LogSorted, EventsAreTail,
       Dropped, OneTurn, OldestRemembered, WakeInTime

\* An admission keeps Inv: the reserved slot extends both the window and the
\* history by now, which is no earlier than anything in them.
LEMMA AdmitInv == ASSUME Inv, NEW c \in Callers, Admit(c) PROVE Inv'
<1>1. PICK k \in 0..Len(events) :
        /\ TrimCount(k)
        /\ Len(Trimmed(k)) < MaxPerMinute
        /\ events' = Append(Trimmed(k), now)
  BY DEF Admit
<1>2. /\ Trimmed(k) \in Seq(0..MaxTime)
      /\ Len(Trimmed(k)) = Len(events) - k
      /\ \A i \in 1..(Len(events) - k) : Trimmed(k)[i] = log[Dropped + k + i]
      /\ \A i \in 1..(Dropped + k) : log[i] <= now - Window
  BY <1>1, TrimFacts DEF Inv
<1>3. /\ log \in Seq(0..MaxTime) /\ events \in Seq(0..MaxTime)
      /\ Len(log) \in Nat /\ Len(events) \in Nat /\ now \in 0..MaxTime
      /\ log' = Append(log, now) /\ now' = now
  BY DEF Inv, TypeOK, Admit
<1>4. /\ Len(log') = Len(log) + 1
      /\ \A i \in 1..Len(log) : log'[i] = log[i]
      /\ log'[Len(log) + 1] = now
      /\ log' \in Seq(0..MaxTime)
  BY <1>3
<1>5. /\ Len(events') = Len(events) - k + 1
      /\ \A i \in 1..(Len(events) - k) : events'[i] = Trimmed(k)[i]
      /\ events'[Len(events) - k + 1] = now
      /\ events' \in Seq(0..MaxTime)
  BY <1>1, <1>2, <1>3
<1>6. TypeOK'
  BY <1>3, <1>4, <1>5 DEF Inv, TypeOK, Admit, Labels
<1>7. LogSorted'
  BY <1>3, <1>4 DEF Inv, LogSorted
<1>8. EventsAreTail'
  <2>1. Dropped' = Dropped + k
    BY <1>3, <1>4, <1>5 DEF Dropped
  <2>2. Dropped' >= 0 /\ Len(events') <= MaxPerMinute
    BY <1>1, <1>2, <1>3, <1>5, <2>1 DEF Inv, EventsAreTail, Dropped
  <2>3. ASSUME NEW i \in 1..Len(events') PROVE events'[i] = log'[Dropped' + i]
    <3>1. CASE i = Len(events) - k + 1
      BY <3>1, <2>1, <1>3, <1>4, <1>5 DEF Dropped
    <3>2. CASE i \in 1..(Len(events) - k)
      <4>1. Dropped + k + i \in 1..Len(log)
        BY <3>2, <1>3 DEF Inv, EventsAreTail, Dropped
      <4> QED BY <3>2, <4>1, <2>1, <1>2, <1>4, <1>5
    <3>3. i = Len(events) - k + 1 \/ i \in 1..(Len(events) - k)
      BY <1>3, <1>5
    <3> QED BY <3>1, <3>2, <3>3
  <2>4. ASSUME NEW i \in 1..Dropped' PROVE log'[i] <= now' - Window
    <3>1. i \in 1..(Dropped + k) /\ i \in 1..Len(log)
      BY <2>1, <1>3 DEF Dropped
    <3> QED BY <3>1, <1>2, <1>3, <1>4
  <2> QED BY <2>2, <2>3, <2>4 DEF EventsAreTail
<1>9. OneTurn'
  BY CallersAssumption DEF Inv, OneTurn, TypeOK, Admit
<1>10. OldestRemembered'
  BY DEF Inv, OneTurn, OldestRemembered, TypeOK, Admit
<1>11. WakeInTime'
  <2> SUFFICES ASSUME NEW d \in Callers, pc'[d] = "sleeping"
               PROVE /\ Len(log') >= MaxPerMinute
                     /\ wake'[d] <= log'[Len(log') - MaxPerMinute + 1] + Window
    BY DEF WakeInTime
  <2>1. pc[d] = "sleeping" /\ wake'[d] = wake[d] /\ wake[d] \in Nat
    BY DEF Admit, Inv, TypeOK
  <2>2. /\ Len(log) >= MaxPerMinute
        /\ wake[d] <= log[Len(log) - MaxPerMinute + 1] + Window
    BY <2>1 DEF Inv, WakeInTime
  <2>3. log[Len(log) - MaxPerMinute + 1] <= log'[Len(log) - MaxPerMinute + 2]
    <3>1. CASE MaxPerMinute = 1
      BY <3>1, <2>2, <1>3, <1>4 DEF Inv, LogSorted
    <3>2. CASE MaxPerMinute > 1
      <4>1. /\ Len(log) - MaxPerMinute + 1 \in 1..Len(log)
            /\ Len(log) - MaxPerMinute + 2 \in 1..Len(log)
        BY <3>2, <2>2, <1>3
      <4>2. log[Len(log) - MaxPerMinute + 1] <= log[Len(log) - MaxPerMinute + 2]
        BY <4>1 DEF Inv, LogSorted
      <4> QED BY <4>1, <4>2, <1>4
    <3> QED BY <3>1, <3>2
  <2>4. /\ Len(log') - MaxPerMinute + 1 = Len(log) - MaxPerMinute + 2
        /\ Len(log') >= MaxPerMinute
    BY <2>2, <1>3, <1>4
  <2>5. /\ log[Len(log) - MaxPerMinute + 1] \in 0..MaxTime
        /\ log'[Len(log) - MaxPerMinute + 2] \in 0..MaxTime
    <3>1. /\ Len(log) - MaxPerMinute + 1 \in 1..Len(log)
          /\ Len(log) - MaxPerMinute + 2 \in 1..Len(log')
      BY <2>2, <1>3, <1>4
    <3> QED BY <3>1, <1>3, <1>4, ElementOf
  <2>6. wake'[d] <= log'[Len(log) - MaxPerMinute + 2] + Window
    BY <2>1, <2>2, <2>3, <2>5
  <2> QED BY <2>4, <2>6
<1> QED BY <1>6, <1>7, <1>8, <1>9, <1>10, <1>11 DEF Inv

\* Trimming alone (a full window, or current_rate) keeps the tail property.
LEMMA TrimKeepsTail ==
  ASSUME Inv, NEW k \in 0..Len(events), TrimCount(k),
         events' = Trimmed(k), UNCHANGED <<now, log>>
  PROVE  EventsAreTail' /\ events' \in Seq(0..MaxTime)
<1>1. /\ Trimmed(k) \in Seq(0..MaxTime)
      /\ Len(Trimmed(k)) = Len(events) - k
      /\ \A i \in 1..(Len(events) - k) : Trimmed(k)[i] = log[Dropped + k + i]
      /\ \A i \in 1..(Dropped + k) : log[i] <= now - Window
  BY TrimFacts DEF Inv
<1>2. Len(log) \in Nat /\ Len(events) \in Nat /\ now \in 0..MaxTime
  BY DEF Inv, TypeOK
<1>3. Dropped' = Dropped + k
  BY <1>1, <1>2 DEF Dropped
<1>4. Dropped' >= 0 /\ Len(events') <= MaxPerMinute
  BY <1>1, <1>2, <1>3 DEF Inv, EventsAreTail, Dropped
<1> QED BY <1>1, <1>2, <1>3, <1>4 DEF EventsAreTail

\* Finding the window full keeps Inv: what acquire() remembers is the oldest
\* admission of a full window.
LEMMA FullInv == ASSUME Inv, NEW c \in Callers, Full(c) PROVE Inv'
<1>1. PICK k \in 0..Len(events) :
        /\ TrimCount(k)
        /\ Len(Trimmed(k)) >= MaxPerMinute
        /\ events' = Trimmed(k)
        /\ wake' = [wake EXCEPT ![c] = Trimmed(k)[1] + Window]
  BY DEF Full
<1>2. UNCHANGED <<now, log>>
  BY DEF Full
<1>3. EventsAreTail' /\ events' \in Seq(0..MaxTime)
  BY <1>1, <1>2, TrimKeepsTail
<1>4. Len(events') = MaxPerMinute /\ events'[1] \in 0..MaxTime
  <2>1. Len(events') \in Nat /\ Len(events') >= MaxPerMinute
    BY <1>1, <1>3
  <2>2. Len(events') = MaxPerMinute
    BY <1>3, <2>1 DEF EventsAreTail
  <2> QED BY <1>3, <2>2, ElementOf
<1>5. TypeOK'
  BY <1>1, <1>3, <1>4 DEF Inv, TypeOK, Full, Labels
<1>6. LogSorted'
  BY <1>2 DEF Inv, LogSorted
<1>7. OneTurn'
  BY DEF Inv, OneTurn, TypeOK, Full
<1>8. OldestRemembered'
  BY <1>1, <1>4 DEF Inv, OneTurn, OldestRemembered, TypeOK, Full
<1>9. WakeInTime'
  BY <1>1, <1>2 DEF Inv, WakeInTime, TypeOK, Full
<1> QED BY <1>3, <1>5, <1>6, <1>7, <1>8, <1>9 DEF Inv

\* Going to sleep keeps Inv: the wake-up is no later than the moment the
\* oldest admission leaves the window.
LEMMA SleepInv == ASSUME Inv, NEW c \in Callers, Sleep(c) PROVE Inv'
<1>1. /\ UNCHANGED <<now, events, deadline, log>>
      /\ wake' = [wake EXCEPT ![c] = IF wake[c] < deadline[c] THEN wake[c] ELSE deadline[c]]
      /\ wake[c] \in Nat /\ deadline[c] \in Nat
      /\ pc[c] = "decide" /\ pc' = [pc EXCEPT ![c] = "sleeping"]
  BY DEF Sleep, Inv, TypeOK
<1>2. TypeOK' /\ LogSorted' /\ EventsAreTail'
  BY <1>1 DEF Inv, TypeOK, LogSorted, EventsAreTail, Dropped, Sleep, Labels
<1>3. OneTurn' /\ OldestRemembered'
  BY CallersAssumption DEF Inv, TypeOK, OneTurn, OldestRemembered, Sleep
<1>4. /\ Len(log) >= MaxPerMinute
      /\ wake[c] = log[Len(log) - MaxPerMinute + 1] + Window
  <2>1. Len(events) = MaxPerMinute /\ wake[c] = events[1] + Window
    BY <1>1 DEF Inv, OldestRemembered
  <2>2. Len(log) \in Nat /\ Dropped >= 0 /\ events[1] = log[Dropped + 1]
    BY <2>1 DEF Inv, TypeOK, EventsAreTail
  <2> QED BY <2>1, <2>2 DEF Dropped
<1>5. wake'[c] <= wake[c] /\ \A d \in Callers \ {c} : wake'[d] = wake[d] /\ pc'[d] = pc[d]
  BY <1>1 DEF Inv, TypeOK
<1>6. WakeInTime'
  BY <1>1, <1>4, <1>5 DEF Inv, WakeInTime
<1> QED BY <1>2, <1>3, <1>6 DEF Inv

\* Steps that leave the window and its history alone.
LEMMA QuietInv ==
  ASSUME Inv, NEW c \in Callers, Begin(c) \/ Raise(c) \/ Wake(c) \/ Cancel(c)
  PROVE  Inv'
<1>1. UNCHANGED <<now, events, log, wake>>
  BY DEF Begin, Raise, Wake, Cancel
<1>2. TypeOK'
  <2>1. now \in 0..MaxTime /\ now + QueueWait \in Nat
    BY DEF Inv, TypeOK
  <2>2. deadline' \in [Callers -> Nat]
    BY <2>1 DEF Inv, TypeOK, Begin, Raise, Wake, Cancel
  <2>3. turn' \in Callers \cup {NoCaller} /\ pc' \in [Callers -> Labels]
    BY DEF Inv, TypeOK, Begin, Raise, Wake, Cancel, Labels
  <2> QED BY <1>1, <2>2, <2>3 DEF Inv, TypeOK
<1>3. LogSorted' /\ EventsAreTail'
  BY <1>1 DEF Inv, LogSorted, EventsAreTail, Dropped
<1>4. OneTurn'
  BY CallersAssumption DEF Inv, TypeOK, OneTurn, Begin, Raise, Wake, Cancel, Outside
<1>5. OldestRemembered'
  BY <1>1 DEF Inv, TypeOK, OldestRemembered, Begin, Raise, Wake, Cancel
<1>6. WakeInTime'
  BY <1>1 DEF Inv, TypeOK, WakeInTime, Begin, Raise, Wake, Cancel
<1> QED BY <1>2, <1>3, <1>4, <1>5, <1>6 DEF Inv

\* current_rate() keeps Inv although it trims between the turns of callers.
LEMMA CurrentRateInv == ASSUME Inv, CurrentRate PROVE Inv'
<1>1. UNCHANGED <<now, turn, pc, deadline, wake, log>>
  BY DEF CurrentRate
<1>2. EventsAreTail' /\ events' \in Seq(0..MaxTime)
  BY <1>1, TrimKeepsTail DEF CurrentRate
<1>3. TypeOK' /\ LogSorted' /\ OneTurn' /\ WakeInTime'
  BY <1>1, <1>2 DEF Inv, TypeOK, LogSorted, OneTurn, WakeInTime
<1>4. OldestRemembered'
  BY <1>1, CallersAssumption DEF Inv, OneTurn, OldestRemembered, CurrentRate
<1> QED BY <1>2, <1>3, <1>4 DEF Inv

\* Time passing, also in the middle of a turn, keeps Inv.
LEMMA TickInv == ASSUME Inv, Tick PROVE Inv'
<1>1. /\ now \in 0..MaxTime /\ now < MaxTime /\ now' = now + 1
      /\ UNCHANGED <<events, turn, pc, deadline, wake, log>>
  BY DEF Inv, TypeOK, Tick
<1>2. TypeOK' /\ OneTurn' /\ OldestRemembered' /\ WakeInTime'
  BY <1>1 DEF Inv, TypeOK, OneTurn, OldestRemembered, WakeInTime
<1>3. \A i \in 1..Len(log) : log[i] \in 0..MaxTime
  BY ElementOf DEF Inv, TypeOK
<1>4. LogSorted'
  BY <1>1, <1>3 DEF Inv, LogSorted
<1>5. EventsAreTail'
  <2>1. \A i \in 1..Dropped : i \in 1..Len(log)
    BY DEF Inv, TypeOK, Dropped
  <2> QED BY <1>1, <1>3, <2>1 DEF Inv, EventsAreTail, Dropped
<1> QED BY <1>2, <1>4, <1>5 DEF Inv

\* Every step keeps Inv.
LEMMA StepInv == Inv /\ [Next]_vars => Inv'
<1> SUFFICES ASSUME Inv, [Next]_vars PROVE Inv'
  OBVIOUS
<1>1. ASSUME NEW c \in Callers, Begin(c) \/ Step(c) \/ Cancel(c) PROVE Inv'
  BY <1>1, AdmitInv, FullInv, SleepInv, QuietInv DEF Step
<1>2. CASE UNCHANGED vars
  BY <1>2 DEF vars, Inv, TypeOK, LogSorted, EventsAreTail, Dropped, OneTurn,
              OldestRemembered, WakeInTime
<1> QED BY <1>1, <1>2, CurrentRateInv, TickInv DEF Next

\* Inv is an invariant of the governor, for every number of callers, limit,
\* window and queueing budget.
THEOREM Invariance == Spec => []Inv
BY InitInv, StepInv, PTL DEF Spec

-----------------------------------------------------------------------------
(***************************************************************************)
(* acquire() implements the abstract rolling-window limiter.               *)
(***************************************************************************)
\* Where the trimmed deque has room, so has the window over the whole history.
LEMMA AdmitIsGrant == ASSUME Inv, NEW c \in Callers, Admit(c) PROVE Limiter!Grant
<1>1. PICK k \in 0..Len(events) :
        TrimCount(k) /\ Len(Trimmed(k)) < MaxPerMinute
  BY DEF Admit
<1>2. /\ Len(Trimmed(k)) = Len(events) - k
      /\ \A i \in 1..(Dropped + k) : log[i] <= now - Window
  BY <1>1, TrimFacts DEF Inv
<1>3. Len(log) \in Nat /\ Len(events) \in Nat
  BY DEF Inv, TypeOK
<1>4. Limiter!HasRoom
  <2> SUFFICES ASSUME Len(log) >= MaxPerMinute
               PROVE  log[Len(log) - MaxPerMinute + 1] <= now - Window
    BY DEF Limiter!HasRoom
  <2>1. Len(log) - MaxPerMinute + 1 \in 1..(Dropped + k)
    BY <1>1, <1>2, <1>3 DEF Dropped
  <2> QED BY <2>1, <1>2
<1> QED BY <1>4 DEF Admit, Limiter!Grant

\* acquire() implements the abstract limiter: every step is a Grant, a Tick or
\* a stutter of SlidingWindowLimiter.
THEOREM Refinement == Spec => ImplementsLimiter
<1>1. Init => Limiter!Init
  BY DEF Init, Limiter!Init
<1>2. Inv /\ [Next]_vars => [Limiter!Next]_(Limiter!limiterVars)
  <2> SUFFICES ASSUME Inv, [Next]_vars
               PROVE  [Limiter!Next]_(Limiter!limiterVars)
    OBVIOUS
  <2>1. ASSUME NEW c \in Callers, Admit(c) PROVE Limiter!Next
    BY <2>1, AdmitIsGrant DEF Limiter!Next
  <2>2. ASSUME NEW c \in Callers,
               Begin(c) \/ Full(c) \/ Raise(c) \/ Sleep(c) \/ Wake(c) \/ Cancel(c)
        PROVE  UNCHANGED <<now, log>>
    BY <2>2 DEF Begin, Full, Raise, Sleep, Wake, Cancel
  <2>3. CASE CurrentRate \/ UNCHANGED vars
    BY <2>3 DEF CurrentRate, vars, Limiter!limiterVars
  <2>4. CASE Tick
    BY <2>4 DEF Tick, Limiter!Next, Limiter!Tick
  <2> QED BY <2>1, <2>2, <2>3, <2>4 DEF Next, Step, Limiter!limiterVars
<1> QED BY <1>1, <1>2, Invariance, PTL DEF Spec, ImplementsLimiter, Limiter!Spec

(***************************************************************************)
(* Type correctness of the governor's state.                               *)
(***************************************************************************)
THEOREM TypeCorrect == Spec => []TypeOK
<1>1. Inv => TypeOK
  BY DEF Inv
<1> QED BY <1>1, Invariance, PTL

(***************************************************************************)
(* Requirement 8.1 of acquire(), for every ceiling and window length.      *)
(* WindowBound is inductive only with the history sorted and the grants    *)
(* guarded by HasRoom, which AdmitIsGrant provides.                        *)
(***************************************************************************)
THEOREM WindowCeiling == Spec => []AdmissionsPerWindow
<1> USE DEF AdmissionsPerWindow, Limiter!WindowBound
<1>1. Init => AdmissionsPerWindow
  BY DEF Init
<1>2. Inv /\ AdmissionsPerWindow /\ [Next]_vars => AdmissionsPerWindow'
  <2> SUFFICES ASSUME Inv, AdmissionsPerWindow, [Next]_vars
               PROVE  AdmissionsPerWindow'
    OBVIOUS
  <2>1. ASSUME NEW c \in Callers, Admit(c) PROVE AdmissionsPerWindow'
    <3>1. /\ log \in Seq(0..MaxTime) /\ Len(log) \in Nat /\ now \in 0..MaxTime
          /\ log' = Append(log, now)
      BY <2>1 DEF Inv, TypeOK, Admit
    <3>2. /\ Len(log') = Len(log) + 1
          /\ \A i \in 1..Len(log) : log'[i] = log[i]
          /\ log'[Len(log) + 1] = now
      BY <3>1
    <3>3. Len(log) >= MaxPerMinute => log[Len(log) - MaxPerMinute + 1] <= now - Window
      BY <2>1, AdmitIsGrant DEF Limiter!Grant, Limiter!HasRoom
    <3>4. ASSUME NEW i \in 1..(Len(log') - MaxPerMinute)
          PROVE  log'[i + MaxPerMinute] - log'[i] >= Window
      <4>1. CASE i = Len(log) + 1 - MaxPerMinute
        <5>1. i \in 1..Len(log) /\ i + MaxPerMinute = Len(log) + 1
              /\ i = Len(log) - MaxPerMinute + 1 /\ Len(log) >= MaxPerMinute
          BY <4>1, <3>1, <3>2
        <5>2. log[i] \in 0..MaxTime
          BY <5>1, <3>1, ElementOf
        <5> QED BY <5>1, <5>2, <3>1, <3>2, <3>3
      <4>2. CASE i \in 1..(Len(log) - MaxPerMinute)
        <5>1. i \in 1..Len(log) /\ i + MaxPerMinute \in 1..Len(log)
          BY <4>2, <3>1
        <5> QED BY <5>1, <4>2, <3>2
      <4>3. i = Len(log) + 1 - MaxPerMinute \/ i \in 1..(Len(log) - MaxPerMinute)
        BY <3>1, <3>2
      <4> QED BY <4>1, <4>2, <4>3
    <3> QED BY <3>4
  <2>2. CASE UNCHANGED log
    BY <2>2
  <2>3. (\E c \in Callers : Admit(c)) \/ UNCHANGED log
    BY DEF Next, Step, Begin, Full, Raise, Sleep, Wake, Cancel, CurrentRate, Tick, vars
  <2> QED BY <2>1, <2>2, <2>3
<1> QED BY <1>1, <1>2, Invariance, PTL DEF Spec

(***************************************************************************)
(* No caller sleeps past the first moment with a free slot.                *)
(***************************************************************************)
THEOREM CapacityUsed == Spec => []NoIdleCapacity
<1>1. Inv => NoIdleCapacity
  <2> SUFFICES ASSUME Inv, NEW c \in Callers, pc[c] = "sleeping", now < wake[c]
               PROVE  /\ Len(log) >= MaxPerMinute
                      /\ log[Len(log) - MaxPerMinute + 1] > now - Window
    BY DEF NoIdleCapacity
  <2>1. /\ Len(log) >= MaxPerMinute
        /\ wake[c] <= log[Len(log) - MaxPerMinute + 1] + Window
    BY DEF Inv, WakeInTime
  <2>2. /\ log \in Seq(0..MaxTime) /\ Len(log) \in Nat
        /\ now \in 0..MaxTime /\ wake[c] \in Nat
    BY DEF Inv, TypeOK
  <2>3. Len(log) - MaxPerMinute + 1 \in 1..Len(log)
    BY <2>1, <2>2
  <2>4. log[Len(log) - MaxPerMinute + 1] \in 0..MaxTime
    BY <2>2, <2>3, ElementOf
  <2> QED BY <2>1, <2>2, <2>4
<1> QED BY <1>1, Invariance, PTL

-----------------------------------------------------------------------------
(***************************************************************************)
(* The queueing budget.  These two theorems are the safety content of      *)
(* AcquireReturns: a call gets one deadline, no sleep of it ends later,    *)
(* and once the deadline has passed the call cannot go to sleep again, so  *)
(* that its next turn is its last.                                         *)
(***************************************************************************)
\* The deadline of a call under way is at most one budget ahead, the clock of
\* the model reaches it, and a sleep never outlasts it.
DeadlineAhead ==
  \A c \in Callers : pc[c] \notin Outside =>
    /\ deadline[c] <= now + QueueWait
    /\ deadline[c] <= MaxTime
    /\ pc[c] = "sleeping" => wake[c] <= deadline[c]

\* Requirement 8.2 as an invariant: whatever other callers take, acquire()
\* never waits beyond queue_wait_seconds from its own beginning.
THEOREM SleepsWithinBudget == Spec => []DeadlineAhead
<1>1. Init => DeadlineAhead
  BY DEF Init, DeadlineAhead, Outside
<1>2. TypeOK /\ DeadlineAhead /\ [Next]_vars => DeadlineAhead'
  <2> SUFFICES ASSUME TypeOK, DeadlineAhead, [Next]_vars
               PROVE  DeadlineAhead'
    OBVIOUS
  <2> USE DEF TypeOK, DeadlineAhead, Outside
  <2>1. ASSUME NEW c \in Callers, Begin(c) PROVE DeadlineAhead'
    BY <2>1 DEF Begin
  <2>2. ASSUME NEW c \in Callers, Admit(c) \/ Raise(c) \/ Wake(c) \/ Cancel(c)
        PROVE  DeadlineAhead'
    BY <2>2 DEF Admit, Raise, Wake, Cancel
  <2>3. ASSUME NEW c \in Callers, Full(c) PROVE DeadlineAhead'
    <3>1. /\ UNCHANGED <<now, deadline>> /\ pc' = [pc EXCEPT ![c] = "decide"]
          /\ pc[c] = "check" /\ \A d \in Callers \ {c} : wake'[d] = wake[d]
      BY <2>3 DEF Full
    <3> QED BY <3>1
  <2>4. ASSUME NEW c \in Callers, Sleep(c) PROVE DeadlineAhead'
    BY <2>4 DEF Sleep
  <2>5. CASE CurrentRate \/ UNCHANGED vars
    BY <2>5 DEF CurrentRate, vars
  <2>6. CASE Tick
    BY <2>6 DEF Tick
  <2> QED BY <2>1, <2>2, <2>3, <2>4, <2>5, <2>6 DEF Next, Step
<1> QED BY <1>1, <1>2, TypeCorrect, PTL DEF Spec

\* A call under way keeps the deadline it was given, and once that deadline
\* has passed it does not go to sleep again.
BudgetIsFinal ==
  [][\A c \in Callers : pc[c] \notin Outside =>
       /\ deadline'[c] = deadline[c]
       /\ now >= deadline[c] /\ pc[c] # "sleeping" => pc'[c] # "sleeping"]_vars

\* No wake-up, no other caller and no passing of time restarts or extends the
\* budget of an acquire() call.
THEOREM DeadlineNeverMoves == Spec => BudgetIsFinal
<1>1. TypeOK /\ [Next]_vars =>
        [\A c \in Callers : pc[c] \notin Outside =>
           /\ deadline'[c] = deadline[c]
           /\ now >= deadline[c] /\ pc[c] # "sleeping" => pc'[c] # "sleeping"]_vars
  <2> SUFFICES ASSUME TypeOK, Next, NEW c \in Callers, pc[c] \notin Outside
               PROVE  /\ deadline'[c] = deadline[c]
                      /\ now >= deadline[c] /\ pc[c] # "sleeping" => pc'[c] # "sleeping"
    OBVIOUS
  <2>1. ASSUME NEW d \in Callers, Begin(d) \/ Step(d) \/ Cancel(d)
        PROVE  /\ deadline'[c] = deadline[c]
               /\ now >= deadline[c] /\ pc[c] # "sleeping" => pc'[c] # "sleeping"
    BY <2>1 DEF TypeOK, Outside, Begin, Step, Admit, Full, Raise, Sleep, Wake, Cancel
  <2>2. CASE CurrentRate \/ Tick
    BY <2>2 DEF CurrentRate, Tick
  <2> QED BY <2>1, <2>2 DEF Next
<1> QED BY <1>1, TypeCorrect, PTL DEF Spec, BudgetIsFinal

-----------------------------------------------------------------------------
\* A caller is turned away from the critical section only where the abstract
\* limiter has no room, and RateLimitedError comes only after the deadline.
RefusesOnlyWhenFull ==
  [][\A c \in Callers :
       /\ pc[c] = "check" /\ pc'[c] = "decide" => ~ Limiter!HasRoom
       /\ pc[c] = "decide" /\ pc'[c] = "limited" => now >= deadline[c]]_vars

\* The deque that the critical section trims and measures loses no capacity:
\* where it is full, so is the window over the whole admission history.
LEMMA FullMeansNoRoom == ASSUME Inv, NEW c \in Callers, Full(c) PROVE ~ Limiter!HasRoom
<1>1. PICK k \in 0..Len(events) :
        TrimCount(k) /\ Len(Trimmed(k)) >= MaxPerMinute
  BY DEF Full
<1>2. /\ Len(log) \in Nat /\ Len(events) \in Nat /\ Dropped >= 0
      /\ Len(events) <= MaxPerMinute /\ Len(Trimmed(k)) = Len(events) - k
  BY <1>1, TrimFacts DEF Inv, TypeOK, EventsAreTail
<1>3. k = 0 /\ Len(events) = MaxPerMinute
  BY <1>1, <1>2
<1>4. ~ Expired(events[1])
  BY <1>1, <1>2, <1>3 DEF TrimCount
<1>5. events[1] = log[Len(log) - MaxPerMinute + 1] /\ Len(log) >= MaxPerMinute
  <2>1. events[1] = log[Dropped + 1]
    BY <1>3 DEF Inv, EventsAreTail
  <2> QED BY <2>1, <1>2, <1>3 DEF Dropped
<1> QED BY <1>4, <1>5 DEF Expired, Limiter!HasRoom

\* acquire() never keeps a caller waiting, and never raises RateLimitedError,
\* on account of a window that still had room when it looked.
THEOREM RefusalIsJustified == Spec => RefusesOnlyWhenFull
<1>1. Inv /\ [Next]_vars =>
        [\A c \in Callers :
           /\ pc[c] = "check" /\ pc'[c] = "decide" => ~ Limiter!HasRoom
           /\ pc[c] = "decide" /\ pc'[c] = "limited" => now >= deadline[c]]_vars
  <2> SUFFICES ASSUME Inv, Next, NEW c \in Callers
               PROVE  /\ pc[c] = "check" /\ pc'[c] = "decide" => ~ Limiter!HasRoom
                      /\ pc[c] = "decide" /\ pc'[c] = "limited" => now >= deadline[c]
    OBVIOUS
  <2>1. pc[c] = "check" /\ pc'[c] = "decide" => Full(c)
    BY DEF Inv, TypeOK, Next, Step, Begin, Admit, Full, Raise, Sleep, Wake, Cancel,
           CurrentRate, Tick
  <2>2. pc[c] = "decide" /\ pc'[c] = "limited" => Raise(c)
    BY DEF Inv, TypeOK, Next, Step, Begin, Admit, Full, Raise, Sleep, Wake, Cancel,
           CurrentRate, Tick
  <2> QED BY <2>1, <2>2, FullMeansNoRoom DEF Raise
<1> QED BY <1>1, Invariance, PTL DEF Spec, RefusesOnlyWhenFull
=============================================================================
