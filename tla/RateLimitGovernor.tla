------------------------- MODULE RateLimitGovernor -------------------------
(***************************************************************************)
(* The outbound rate limiter of the backend's unofficial adapter           *)
(* (partner-auth-backend/app/adapters/rate_limit.py).                      *)
(*                                                                         *)
(* acquire() runs on one asyncio event loop.  Its critical section and     *)
(* everything up to asyncio.sleep() contain no suspension point, so one    *)
(* turn of the loop executes check and decision of one caller without      *)
(* another caller in between; the monotonic clock however moves on during  *)
(* the turn.  "turn" names the caller whose turn it is, and Tick is        *)
(* enabled at every moment.  The asyncio.Lock is therefore never contended *)
(* and is represented by the turn.                                         *)
(***************************************************************************)
EXTENDS Integers, Sequences

CONSTANTS
  Callers,       \* concurrent acquire() calls (a caller may call again)
  MaxPerMinute,  \* the constructor's max_per_minute
  QueueWait,     \* the constructor's queue_wait_seconds, in ticks
  Window,        \* WINDOW_SECONDS, in ticks
  MaxTime,       \* bound: the clock stops here
  NoCaller       \* nobody's turn

ASSUME CallersAssumption == NoCaller \notin Callers
ASSUME MaxAssumption == MaxPerMinute \in Nat \ {0}
ASSUME WaitAssumption == QueueWait \in Nat
ASSUME WindowAssumption == Window \in Nat \ {0}
ASSUME TimeAssumption == MaxTime \in Nat

VARIABLES
  now,        \* time.monotonic()
  events,     \* self._events: admission times still considered
  turn,       \* the caller running on the event loop, or NoCaller
  pc,         \* where each caller is in acquire()
  deadline,   \* the local variable deadline of each caller
  wake,       \* "decide": the local variable oldest + Window;
              \* "sleeping": when asyncio.sleep returns
  log         \* history: the time of every admission, never trimmed

vars == <<now, events, turn, pc, deadline, wake, log>>

Labels == {"idle", "check", "decide", "sleeping",
           "admitted", "limited", "cancelled"}

\* Not inside acquire(): never called, returned, raised or cancelled.
Outside == {"idle", "admitted", "limited", "cancelled"}

TypeOK ==
  /\ now \in 0..MaxTime
  /\ events \in Seq(0..MaxTime)
  /\ turn \in Callers \cup {NoCaller}
  /\ pc \in [Callers -> Labels]
  /\ deadline \in [Callers -> Nat]
  /\ wake \in [Callers -> Nat]
  /\ log \in Seq(0..MaxTime)

Init ==
  /\ now = 0
  /\ events = << >>
  /\ turn = NoCaller
  /\ pc = [c \in Callers |-> "idle"]
  /\ deadline = [c \in Callers |-> 0]
  /\ wake = [c \in Callers |-> 0]
  /\ log = << >>

-----------------------------------------------------------------------------
(***************************************************************************)
(* _trim_locked(now): pop from the left while the oldest event is at or    *)
(* before the cutoff.  TrimCount(k) says the loop pops exactly k events.   *)
(***************************************************************************)
ExpiredEarly(t) == t <= now - Window + 1

Expired(t) == t <= now - Window

TrimCount(k) ==
  /\ \A i \in 1..k : Expired(events[i])
  /\ k < Len(events) => ~ Expired(events[k + 1])

Trimmed(k) == SubSeq(events, k + 1, Len(events))

BeginInThePast(c) ==
  /\ turn = NoCaller
  /\ pc[c] \in Outside
  /\ now + QueueWait <= MaxTime
  /\ turn' = c
  /\ pc' = [pc EXCEPT ![c] = "check"]
  /\ deadline' = [deadline EXCEPT ![c] = now - QueueWait]
  /\ UNCHANGED <<now, events, wake, log>>

(***************************************************************************)
(* acquire() is entered: the deadline is taken, then the loop starts.      *)
(***************************************************************************)
Begin(c) ==
  /\ turn = NoCaller
  /\ pc[c] \in Outside
  /\ now + QueueWait <= MaxTime      \* bound: every deadline is reached
  /\ turn' = c
  /\ pc' = [pc EXCEPT ![c] = "check"]
  /\ deadline' = [deadline EXCEPT ![c] = now + QueueWait]
  /\ UNCHANGED <<now, events, wake, log>>

\* The critical section finds room: reserve the slot and return.
Admit(c) ==
  /\ turn = c
  /\ pc[c] = "check"
  /\ \E k \in 0..Len(events) :
       /\ TrimCount(k)
       /\ Len(Trimmed(k)) < MaxPerMinute
       /\ events' = Append(Trimmed(k), now)
  /\ log' = Append(log, now)
  /\ pc' = [pc EXCEPT ![c] = "admitted"]
  /\ turn' = NoCaller
  /\ UNCHANGED <<now, deadline, wake>>

\* The critical section finds the window full and remembers its oldest event.
Full(c) ==
  /\ turn = c
  /\ pc[c] = "check"
  /\ \E k \in 0..Len(events) :
       /\ TrimCount(k)
       /\ Len(Trimmed(k)) >= MaxPerMinute
       /\ events' = Trimmed(k)
       /\ wake' = [wake EXCEPT ![c] = Trimmed(k)[1] + Window]
  /\ pc' = [pc EXCEPT ![c] = "decide"]
  /\ UNCHANGED <<now, turn, deadline, log>>

\* After the lock: the budget is used up, raise RateLimitedError.
Raise(c) ==
  /\ turn = c
  /\ pc[c] = "decide"
  /\ now >= deadline[c]
  /\ pc' = [pc EXCEPT ![c] = "limited"]
  /\ turn' = NoCaller
  /\ UNCHANGED <<now, events, deadline, wake, log>>

SleepToDeadline(c) ==
  /\ turn = c
  /\ pc[c] = "decide"
  /\ now < deadline[c]
  /\ wake' = [wake EXCEPT ![c] = deadline[c]]
  /\ pc' = [pc EXCEPT ![c] = "sleeping"]
  /\ turn' = NoCaller
  /\ UNCHANGED <<now, events, deadline, log>>

\* After the lock: sleep until the oldest event leaves the window or until
\* the deadline, whichever is first.
Sleep(c) ==
  /\ turn = c
  /\ pc[c] = "decide"
  /\ now < deadline[c]
  /\ wake' = [wake EXCEPT ![c] = IF @ < deadline[c] THEN @ ELSE deadline[c]]
  /\ pc' = [pc EXCEPT ![c] = "sleeping"]
  /\ turn' = NoCaller
  /\ UNCHANGED <<now, events, deadline, log>>

WakeRestartingBudget(c) ==
  /\ turn = NoCaller
  /\ pc[c] = "sleeping"
  /\ now >= wake[c]
  /\ turn' = c
  /\ pc' = [pc EXCEPT ![c] = "check"]
  /\ deadline' = [deadline EXCEPT ![c] = now + QueueWait]
  /\ UNCHANGED <<now, events, wake, log>>

\* asyncio.sleep returns and the while loop goes round.
Wake(c) ==
  /\ turn = NoCaller
  /\ pc[c] = "sleeping"
  /\ now >= wake[c]
  /\ turn' = c
  /\ pc' = [pc EXCEPT ![c] = "check"]
  /\ UNCHANGED <<now, events, deadline, wake, log>>

\* The task awaiting acquire() is cancelled; only the sleep can be cancelled.
Cancel(c) ==
  /\ turn = NoCaller
  /\ pc[c] = "sleeping"
  /\ pc' = [pc EXCEPT ![c] = "cancelled"]
  /\ UNCHANGED <<now, events, turn, deadline, wake, log>>

\* current_rate(): trims as a side effect.
CurrentRate ==
  /\ turn = NoCaller
  /\ \E k \in 0..Len(events) : TrimCount(k) /\ events' = Trimmed(k)
  /\ UNCHANGED <<now, turn, pc, deadline, wake, log>>

Tick ==
  /\ now < MaxTime
  /\ now' = now + 1
  /\ UNCHANGED <<events, turn, pc, deadline, wake, log>>

Step(c) == Admit(c) \/ Full(c) \/ Raise(c) \/ Sleep(c) \/ Wake(c)

Next ==
  \/ \E c \in Callers : Begin(c) \/ Step(c) \/ Cancel(c)
  \/ CurrentRate
  \/ Tick

Spec == Init /\ [][Next]_vars

(***************************************************************************)
(* The event loop runs every callback that is ready, and time passes.      *)
(***************************************************************************)
Fairness == WF_vars(Tick) /\ \A c \in Callers : WF_vars(Step(c))

FairSpec == Spec /\ Fairness

-----------------------------------------------------------------------------
(***************************************************************************)
(* The governor implements the abstract rolling-window limiter: every      *)
(* admission of acquire() is a Grant, whatever the interleaving of         *)
(* callers, sleeps, cancellations and trims.                               *)
(***************************************************************************)
Limiter == INSTANCE SlidingWindowLimiter WITH now <- now, log <- log

ImplementsLimiter == Limiter!Spec

(***************************************************************************)
(* Requirement 8.1 for acquire(): no rolling window of WINDOW_SECONDS      *)
(* holds more than max_per_minute admissions.                              *)
(***************************************************************************)
AdmissionsPerWindow == Limiter!WindowBound

(***************************************************************************)
(* No capacity is wasted: as long as a caller sleeps and its wake-up time  *)
(* is ahead, the window that ends now really is full, whoever took slots   *)
(* or was cancelled meanwhile.                                             *)
(***************************************************************************)
NoIdleCapacity ==
  \A c \in Callers :
    pc[c] = "sleeping" /\ now < wake[c] =>
      /\ Len(log) >= MaxPerMinute
      /\ log[Len(log) - MaxPerMinute + 1] > now - Window

(***************************************************************************)
(* Requirement 8.2: queueing is bounded.  Every acquire() returns, raises  *)
(* RateLimitedError or is cancelled, even if other callers take every slot *)
(* that frees up.                                                          *)
(***************************************************************************)
AcquireReturns ==
  \A c \in Callers : pc[c] = "check" ~> pc[c] \in Outside
=============================================================================
