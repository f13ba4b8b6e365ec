------------------------------ MODULE MCEngine ------------------------------
(* Threads that call the engine directly: each request is inferred once and   *)
(* every thread may reset the engine at most MaxResets times in all.          *)
EXTENDS Engine

CONSTANT MaxResets           \* bound on the resets of a behaviour

VARIABLES todo, resets
vars == <<engineVars, todo, resets>>

Init == EngineInit /\ todo = Requests /\ resets = 0

Infer(t, r) ==
    /\ r \in todo
    /\ Call(t, r)
    /\ todo' = todo \ {r}
    /\ UNCHANGED resets

Reset(t) ==
    /\ resets < MaxResets
    /\ CallReset(t)
    /\ resets' = resets + 1
    /\ UNCHANGED todo

Step(t) == (InferStep(t) \/ ResetStep(t) \/ Collect(t)) /\ UNCHANGED <<todo, resets>>

Next ==
    \/ \E t \in Threads : (\E r \in Requests : Infer(t, r)) \/ Reset(t) \/ Step(t)
    \/ \E r \in Requests : /\ r \in todo \/ Watched(r)
                           /\ request_cancellation(r) \/ Expire(r)
                           /\ UNCHANGED <<todo, resets>>

\* A thread inside the engine keeps running; the backend and the processors return.
Spec == Init /\ [][Next]_vars /\ \A t \in Threads : WF_vars(Step(t))

\* Every call of infer() or reset() returns: nobody waits for backend_mutex_ forever.
EveryCallReturns == \A t \in Threads : ~ At(t, "idle") ~> At(t, "idle")
=============================================================================
