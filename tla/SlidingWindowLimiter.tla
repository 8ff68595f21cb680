------------------------ MODULE SlidingWindowLimiter ------------------------
(***************************************************************************)
(* What a rolling-window rate limiter promises, without callers, queues or *)
(* trimming: a grant is given only when fewer than MaxPerMinute grants lie *)
(* in the window that ends now.  RateLimitGovernor implements this module. *)
(***************************************************************************)
EXTENDS Integers, Sequences

CONSTANTS
  MaxPerMinute,  \* grants allowed per window
  Window,        \* length of the window
  MaxTime        \* bound of the clock

VARIABLES
  now,   \* the clock
  log    \* the time of every grant so far

limiterVars == <<now, log>>

Init == now = 0 /\ log = << >>

\* The MaxPerMinute-th most recent grant, if there is one, has left the window.
HasRoom ==
  Len(log) >= MaxPerMinute => log[Len(log) - MaxPerMinute + 1] <= now - Window

Grant ==
  /\ HasRoom
  /\ log' = Append(log, now)
  /\ UNCHANGED now

Tick ==
  /\ now < MaxTime
  /\ now' = now + 1
  /\ UNCHANGED log

Next == Grant \/ Tick

Spec == Init /\ [][Next]_limiterVars

(***************************************************************************)
(* No rolling window of length Window contains more than MaxPerMinute      *)
(* grants: any grant and the MaxPerMinute-th one after it are at least     *)
(* Window apart ("at most max_per_minute successful acquire() calls per    *)
(* rolling 60-second window", rate_limit.py).                              *)
(***************************************************************************)
WindowBound ==
  \A i \in 1..(Len(log) - MaxPerMinute) :
    log[i + MaxPerMinute] - log[i] >= Window
=============================================================================
