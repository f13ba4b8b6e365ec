---------------------------- MODULE ActionHeads -----------------------------
(***************************************************************************)
(* VLAPipeline over an action head (action_heads/).  The head that decodes *)
(* is one of three kinds, alone or as the fast system of a dual one, whose *)
(* slow planner's result is kept between requests.  The planner and the    *)
(* clock are where time passes.  A planner, an encoder or a head may raise,*)
(* which ends the request.  A head without its callables only raises.      *)
(* The latent is what it was planned for, when and since which reset.      *)
(***************************************************************************)
EXTENDS Integers

CONSTANTS Instructions, Interval, MaxTime, TokenLimit, NumSteps, MaxResets, MaxPlans, None

VARIABLES
    dual, kind,              \* the head create_head() built
    now,                     \* time.monotonic()
    latent, latent_instruction, latent_time, system2_calls,
    last_token_count, last_num_steps,
    request,                 \* the one being served: where it is, its instruction
    resets,
    chunk                    \* the last actions returned

headVars == <<dual, kind, now, latent, latent_instruction, latent_time, system2_calls,
              last_token_count, last_num_steps, request, resets, chunk>>

plans == <<latent, latent_instruction, latent_time, system2_calls>>
counts == <<last_token_count, last_num_steps, resets>>

Idle == [at |-> "idle", instruction |-> None, checked |-> 0]

create_head ==
    /\ dual \in BOOLEAN
    /\ kind \in {"autoregressive", "regression", "flow_matching"}
    /\ now = 0 /\ request = Idle /\ chunk = None
    /\ latent = None /\ latent_instruction = None /\ latent_time = None
    /\ system2_calls = 0 /\ last_token_count = 0 /\ last_num_steps = 0
    /\ resets = 0

Goto(place) == request' = [request EXCEPT !.at = place]

\* Mutant of needs_replan: only the age of the plan counts.
needs_replan_by_age(instruction) ==
    system2_calls = 0 \/ now - latent_time >= Interval

needs_replan(instruction) ==
    \/ system2_calls = 0
    \/ instruction # latent_instruction
    \/ now - latent_time >= Interval

\* VLAPipeline.infer() up to the head, and DualSystemHead.decode()'s test.
infer(instruction) ==
    /\ request = Idle /\ system2_calls < MaxPlans
    /\ request' = [at |-> IF dual /\ needs_replan(instruction) THEN "plan" ELSE "fast",
                   instruction |-> instruction, checked |-> now]
    /\ UNCHANGED <<dual, kind, now, plans, counts, chunk>>

Plan ==
    /\ request.at = "plan"
    /\ latent' = [instruction |-> request.instruction, time |-> now, reset |-> resets]
    /\ latent_instruction' = request.instruction
    /\ latent_time' = now
    /\ system2_calls' = system2_calls + 1
    /\ Goto("fast")
    /\ UNCHANGED <<dual, kind, now, counts, chunk>>

PlanRaises ==
    /\ request.at = "plan"
    /\ request' = Idle
    /\ UNCHANGED <<dual, kind, now, plans, counts, chunk>>

\* At most TokenLimit tokens; without any the head raises, as on a chunk that is not what
\* the ModelSpec asks for.
decode_autoregressive(ok) ==
    /\ kind = "autoregressive"
    /\ last_token_count' \in 0..TokenLimit
    /\ ok => last_token_count' > 0
    /\ UNCHANGED last_num_steps

\* One call, which may raise.
decode_regression(ok) ==
    /\ kind = "regression"
    /\ UNCHANGED <<last_token_count, last_num_steps>>

\* All integration steps, unless a velocity has the wrong shape; the chunk is checked
\* before or after they are counted.
decode_flow_matching(ok) ==
    /\ kind = "flow_matching"
    /\ last_num_steps' \in {last_num_steps, NumSteps}
    /\ ok => last_num_steps' = NumSteps
    /\ UNCHANGED last_token_count

\* The fast head's decode().
decode(ok) ==
    /\ request.at = "fast"
    /\ decode_autoregressive(ok) \/ decode_regression(ok) \/ decode_flow_matching(ok)

Return ==
    /\ decode(TRUE)
    /\ chunk' = [instruction |-> request.instruction, checked |-> request.checked,
                 conditioned |-> IF dual THEN latent ELSE None, reset |-> resets]
    /\ request' = Idle
    /\ UNCHANGED <<dual, kind, now, plans, resets>>

Raise ==
    /\ decode(FALSE)
    /\ request' = Idle
    /\ UNCHANGED <<dual, kind, now, plans, resets, chunk>>

\* VLAPipeline.reset(): the dual head forgets its plan, and every head its counts.
reset ==
    /\ request = Idle /\ resets < MaxResets
    /\ resets' = resets + 1
    /\ IF dual THEN /\ latent' = None /\ latent_instruction' = None
                    /\ latent_time' = None /\ system2_calls' = 0
               ELSE UNCHANGED plans
    /\ last_token_count' = 0 /\ last_num_steps' = 0
    /\ UNCHANGED <<dual, kind, now, request, chunk>>

Elapse ==
    /\ now < MaxTime
    /\ now' = now + 1
    /\ UNCHANGED <<dual, kind, plans, counts, request, chunk>>

HeadsNext ==
    \/ \E i \in Instructions : infer(i)
    \/ Plan \/ PlanRaises \/ Return \/ Raise \/ reset \/ Elapse

-----------------------------------------------------------------------------

\* "System2 replans only when the instruction changes or refresh_interval_s elapses":
\* the actions a dual head returns are conditioned on a plan for the same instruction,
\* of the same episode, and not older than the refresh interval when decode() looked,
\* also when planners and heads have raised in between.
PlanIsCurrent ==
    dual /\ chunk # None =>
        /\ chunk.conditioned.instruction = chunk.instruction
        /\ chunk.conditioned.reset = chunk.reset
        /\ chunk.checked - chunk.conditioned.time < Interval
=============================================================================
