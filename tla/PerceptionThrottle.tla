------------------------- MODULE PerceptionThrottle -------------------------
(* PerceptionThrottlePlugin (plugins/perception_throttle.py): slow perception *)
(* recomputed every refresh_steps calls or once refresh_interval_s is over,   *)
(* and replayed in between.  perception_fn runs between the two critical      *)
(* sections of get().  The clock is one bit: whether the interval since the   *)
(* last refresh is over.                                                      *)
EXTENDS Integers

CONSTANTS
    RefreshSteps,            \* config.refresh_steps
    TimedRefresh,            \* config.refresh_interval_s > 0
    None

VARIABLE throttle            \* the plugin's fields

Init == throttle = [cached |-> None, refreshes |-> 0, reuses |-> 0,
                    calls_since_refresh |-> RefreshSteps, overdue |-> TRUE]

\* The call being made is counted before _due() looks at the counter.
Calls == throttle.calls_since_refresh + 1

\* Mutant of Due: the last step of a period still replays.
DueOneLate ==
    \/ throttle.refreshes = 0
    \/ Calls > RefreshSteps
    \/ TimedRefresh /\ throttle.overdue

Due ==
    \/ throttle.refreshes = 0
    \/ Calls >= RefreshSteps
    \/ TimedRefresh /\ throttle.overdue

Refresh ==
    /\ Due
    /\ throttle' = [throttle EXCEPT !.refreshes = @ + 1, !.calls_since_refresh = 0,
                                    !.overdue = FALSE]

Reuse ==
    /\ ~Due
    /\ throttle' = [throttle EXCEPT !.reuses = @ + 1, !.calls_since_refresh = Calls]

\* The last completed refresh wins.
Store(perception) == throttle' = [throttle EXCEPT !.cached = perception]

\* The interval passes.
Elapse ==
    /\ TimedRefresh
    /\ ~throttle.overdue
    /\ throttle' = [throttle EXCEPT !.overdue = TRUE]

\* Control steps so far.
Step == throttle.refreshes + throttle.reuses
=============================================================================
