----------------------------- MODULE Processors -----------------------------
(***************************************************************************)
(* The action processors of processors.cpp: DeltaToAbsolute and then       *)
(* ActionSafetyFilter, the last thing between a backend's chunk and the    *)
(* robot.  A chunk is a sequence of rows; floats are small integers and    *)
(* NaN, for which every comparison is false; Infinity is larger than all   *)
(* distances between values.                                               *)
(***************************************************************************)
EXTENDS Integers, Sequences

CONSTANTS NaN, Infinity

Rejected == [representation |-> "rejected", rows |-> <<>>]

Plus(a, b) == IF NaN \in {a, b} THEN NaN ELSE a + b
Less(a, b) == NaN \notin {a, b} /\ a < b

\* std::clamp
clamp(value, low, high) ==
    IF Less(value, low) THEN low ELSE IF Less(high, value) THEN high ELSE value

element_or(values, dimension, fallback) ==
    IF values = <<>> THEN fallback ELSE IF Len(values) = 1 THEN values[1] ELSE values[dimension]

Shaped(rows, dimensions) == \A k \in DOMAIN rows : Len(rows[k]) = dimensions

\* Row k is the state plus the first k deltas.
DeltaToAbsolute(proprioception, actions, spec) ==
    LET previous[k \in 0..Len(actions.rows)] ==
            IF k = 0 THEN proprioception
            ELSE [d \in 1..spec.action_dim |-> Plus(previous[k - 1][d], actions.rows[k][d])]
    IN IF actions.representation # "delta" THEN actions
       ELSE IF ~ Shaped(actions.rows, spec.action_dim) \/ Len(proprioception) < spec.action_dim
       THEN Rejected
       ELSE [representation |-> "absolute",
             rows |-> [k \in DOMAIN actions.rows |-> previous[k]]]

validate_vector_size(values, dimensions) == Len(values) \in {0, 1, dimensions}

lower(config, d) == element_or(config.lower_bounds, d, -Infinity)
upper(config, d) == element_or(config.upper_bounds, d, Infinity)
delta(config, d) == element_or(config.maximum_delta, d, Infinity)

\* The state where it has a coordinate, zero where it has none.
Start(proprioception, d) == IF d <= Len(proprioception) THEN proprioception[d] ELSE 0

\* Mutant of Limited: the rate limit comes last.
LimitedByRateLast(config, d, value, previous) ==
    LET finite == IF value = NaN THEN previous ELSE value
        bounded == clamp(finite, lower(config, d), upper(config, d))
    IN clamp(bounded, Plus(previous, -delta(config, d)), Plus(previous, delta(config, d)))

Limited(config, d, value, previous) ==
    LET finite == IF value = NaN THEN previous ELSE value
        bounded == clamp(finite, lower(config, d), upper(config, d))
        near == clamp(bounded, Plus(previous, -delta(config, d)), Plus(previous, delta(config, d)))
    IN clamp(near, lower(config, d), upper(config, d))

ActionSafetyFilter(config, proprioception, actions, spec) ==
    LET dimensions == 1..spec.action_dim
        previous[k \in 0..Len(actions.rows)] ==
            [d \in dimensions |-> IF k = 0 THEN Start(proprioception, d)
                                  ELSE Limited(config, d, actions.rows[k][d], previous[k - 1][d])]
    IN IF /\ actions.representation = "absolute"
          /\ Shaped(actions.rows, spec.action_dim) /\ Len(actions.rows) = spec.action_horizon
          /\ \A values \in {config.lower_bounds, config.upper_bounds, config.maximum_delta} :
                validate_vector_size(values, spec.action_dim)
          /\ \A d \in dimensions : lower(config, d) <= upper(config, d) /\ delta(config, d) >= 0
          /\ config.reject_non_finite =>
                \A k \in DOMAIN actions.rows, d \in dimensions : actions.rows[k][d] # NaN
       THEN [actions EXCEPT !.rows = [k \in DOMAIN @ |-> previous[k]]]
       ELSE Rejected

-----------------------------------------------------------------------------

\* What the filter lets through is within the bounds at every step, and from a state that
\* is within them too no step is farther than maximum_delta from the one before; of the
\* positions that both limits allow each step takes the one closest to what the model
\* wants.  From a state farther outside the bounds than maximum_delta the first step
\* exceeds the limit: it goes to the nearest bound at once.  Without reject_non_finite, a
\* value that is not a number holds the robot where it was.
ChunkIsSafe(config, proprioception, actions, spec) ==
    LET wanted == DeltaToAbsolute(proprioception, actions, spec)
        safe == ActionSafetyFilter(config, proprioception, wanted, spec)
    IN safe # Rejected => \A k \in DOMAIN safe.rows, d \in 1..spec.action_dim :
        LET before == IF k = 1 THEN Start(proprioception, d) ELSE safe.rows[k - 1][d]
            aim == IF wanted.rows[k][d] = NaN THEN before ELSE wanted.rows[k][d]
            now == safe.rows[k][d]
            distance(a, b) == IF a > b THEN a - b ELSE b - a
            bounds == lower(config, d)..upper(config, d)
            allowed == {p \in bounds : distance(p, before) <= delta(config, d)}
        IN /\ now \in bounds
           /\ allowed # {} => /\ now \in allowed
                              /\ \A p \in allowed : distance(now, aim) <= distance(p, aim)
           /\ allowed = {} => /\ k = 1
                              /\ \A p \in bounds : distance(now, before) <= distance(p, before)
=============================================================================
