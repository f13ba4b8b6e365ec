------------------------------- MODULE Engine -------------------------------
(***************************************************************************)
(* The synchronous inference engine (src/engine.cpp).  Any thread may call *)
(* infer() or reset(); backend_mutex_ serializes what touches the backend  *)
(* and the processors, the metrics are lock-free atomics.  Deadlines pass  *)
(* and cancellations arrive at any moment.  The backend and the processors *)
(* are plugins: what they return is a nondeterministic choice.             *)
(***************************************************************************)
EXTENDS Integers, FiniteSets

CONSTANTS
    Threads,                 \* threads that call the engine
    Requests,                \* the observations handed to infer()
    Cancellable,             \* requests whose options carry a cancellation token
    Deadlined,               \* requests whose options carry a deadline
    ObservationProcessors,   \* how many observation processors are installed
    ActionProcessors,        \* how many action processors are installed
    Latencies,               \* the elapsed times a call may measure
    None                     \* no request, no thread

ASSUME EngineAssumption ==
    /\ ObservationProcessors \in Nat \ {0}   \* the constructor installs ObservationValidator
    /\ ActionProcessors \in Nat
    /\ Latencies \subseteq Nat
    /\ Cancellable \subseteq Requests /\ Deadlined \subseteq Requests
    /\ None \notin Threads \cup Requests /\ IsFiniteSet(Threads)

VARIABLES
    call,                    \* each thread's activation of infer() or reset()
    backend_mutex_,          \* the thread that holds it, or None
    metrics,                 \* the atomic counters
    cancellation_requested,  \* requests whose token is cancelled
    expired,                 \* requests whose deadline has passed
    dirty,                   \* stages that carry state of the current episode
    recorded                 \* history: every latency that was recorded

tokens == <<cancellation_requested, expired>>
engineVars == <<call, backend_mutex_, metrics, tokens, dirty, recorded>>

\* Observation processors come first, then the action processors, then the backend.
Backend == ObservationProcessors + ActionProcessors + 1
Stages == 1..Backend

\* The statuses infer() and reset() return.
EngineCodes == {"ok", "cancelled", "deadline_exceeded", "stage_error"}
Uncounted == {"cancel?", "deadline?", "lock", "observe", "backend", "running", "act", "count"}
Counted == {"classify", "latency", "maximum", "return"}
\* pc is the place in infer() or reset(), site the checkpoint or the stage it is
\* at; late records that the request was already dead when the mutex was taken.
Idle == [pc |-> "idle", job |-> None, site |-> 0, code |-> "ok", elapsed |-> 0,
         previous |-> 0, late |-> FALSE]

EngineInit ==
    /\ call = [t \in Threads |-> Idle]
    /\ backend_mutex_ = None
    /\ metrics = [requests |-> 0, succeeded |-> 0, failed |-> 0, deadline_exceeded |-> 0,
                  cancelled |-> 0, dropped |-> 0, maximum_latency_us |-> 0]
    /\ cancellation_requested = {}
    /\ expired = {}
    /\ dirty = {}
    /\ recorded = {}

At(t, label) == call[t].pc = label
Bump(counter) == metrics' = [metrics EXCEPT ![counter] = @ + 1]

-----------------------------------------------------------------------------
(* infer() *)

Call(t, r) ==
    /\ At(t, "idle")
    /\ call' = [call EXCEPT ![t].pc = "enter", ![t].job = r]
    /\ UNCHANGED <<backend_mutex_, metrics, tokens, dirty, recorded>>

\* requests_ is incremented before anything else.
Enter(t) ==
    /\ At(t, "enter")
    /\ Bump("requests")
    /\ call' = [call EXCEPT ![t].pc = "cancel?", ![t].site = 1]
    /\ UNCHANGED <<backend_mutex_, tokens, dirty, recorded>>

\* finish_error(status): the call goes on to record_result with a failure.
finish_error(t, status) == call' = [call EXCEPT ![t].pc = "count", ![t].code = status]

\* Each of the four checkpoints asks for a cancellation first ...
CheckCancellation(t) ==
    /\ At(t, "cancel?")
    /\ IF call[t].job \in cancellation_requested
       THEN finish_error(t, "cancelled")
       ELSE call' = [call EXCEPT ![t].pc = "deadline?"]
    /\ UNCHANGED <<backend_mutex_, metrics, tokens, dirty, recorded>>

\* Mutant of Expired: only the checkpoint before the mutex looks at the clock.
ExpiredOnArrival(t) == call[t].job \in expired /\ call[t].site = 1

Expired(t) == call[t].job \in expired

\* ... and for the deadline second, and lets the call go on to the next part.
Continue == <<"lock", "observe", "backend", "count">>

CheckDeadline(t) ==
    /\ At(t, "deadline?")
    /\ IF Expired(t)
       THEN finish_error(t, "deadline_exceeded")
       ELSE call' = [call EXCEPT ![t].pc = Continue[call[t].site]]
    /\ UNCHANGED <<backend_mutex_, metrics, tokens, dirty, recorded>>

Acquire(t) == backend_mutex_ = None /\ backend_mutex_' = t

Lock(t) ==
    /\ At(t, "lock")
    /\ Acquire(t)
    /\ call' = [call EXCEPT ![t].pc = "cancel?", ![t].site = 2,
                            ![t].late = call[t].job \in cancellation_requested \cup expired]
    /\ UNCHANGED <<metrics, tokens, dirty, recorded>>

Touched(first, last) == first..last

\* The processors of one kind run in order; the first that fails ends the call.
RunProcessors(t, first, last) ==
    /\ \/ /\ call' = [call EXCEPT ![t].pc = "cancel?", ![t].site = @ + 1]
          /\ dirty' = dirty \cup Touched(first, last)
       \/ \E failing \in first..last :
             /\ finish_error(t, "stage_error")
             /\ dirty' = dirty \cup Touched(first, failing)
    /\ UNCHANGED <<backend_mutex_, metrics, tokens, recorded>>

Observe(t) == At(t, "observe") /\ RunProcessors(t, 1, ObservationProcessors)

BackendStart(t) ==
    /\ At(t, "backend")
    /\ call' = [call EXCEPT ![t].pc = "running"]
    /\ dirty' = dirty \cup {Backend}
    /\ UNCHANGED <<backend_mutex_, metrics, tokens, recorded>>

\* MockBackend::infer polls the request's token and deadline every millisecond,
\* so either may end it, or it computes its actions before it notices.
Polled(t) ==
    \/ call[t].job \in cancellation_requested /\ finish_error(t, "cancelled")
    \/ call[t].job \in expired /\ finish_error(t, "deadline_exceeded")
    \/ call' = [call EXCEPT ![t].pc = "act"]

\* Other backends may also fail for a reason of their own.
BackendReturn(t) ==
    /\ At(t, "running")
    /\ Polled(t) \/ finish_error(t, "stage_error")
    /\ UNCHANGED <<backend_mutex_, metrics, tokens, dirty, recorded>>

Act(t) == At(t, "act") /\ RunProcessors(t, ObservationProcessors + 1, Backend - 1)

-----------------------------------------------------------------------------
(* record_result(): one atomic operation per step *)

\* Mutant of CountedAs: a named failure is counted under its name only.
CountedByName(t) ==
    CASE call[t].code = "ok" -> "succeeded"
      [] call[t].code = "stage_error" -> "failed"
      [] OTHER -> call[t].code

CountedAs(t) == IF call[t].code = "ok" THEN "succeeded" ELSE "failed"

Count(t) ==
    /\ At(t, "count")
    /\ Bump(CountedAs(t))
    /\ call' = [call EXCEPT ![t].pc = IF call[t].code = "ok" THEN "latency" ELSE "classify"]
    /\ UNCHANGED <<backend_mutex_, tokens, dirty, recorded>>

Classify(t) ==
    /\ At(t, "classify")
    /\ IF call[t].code \in {"deadline_exceeded", "cancelled"}
       THEN Bump(call[t].code) ELSE UNCHANGED metrics
    /\ call' = [call EXCEPT ![t].pc = "latency"]
    /\ UNCHANGED <<backend_mutex_, tokens, dirty, recorded>>

\* The elapsed time is added to the total (not modelled) and the maximum is loaded.
LoadMaximum(t) ==
    /\ At(t, "latency")
    /\ \E us \in Latencies :
          call' = [call EXCEPT ![t].pc = "maximum", ![t].elapsed = us,
                               ![t].previous = metrics.maximum_latency_us]
    /\ UNCHANGED <<backend_mutex_, metrics, tokens, dirty, recorded>>

\* Mutant of ExchangeFails: a plain store instead of a compare-exchange.
StoreNeverFails(t) == FALSE

ExchangeFails(t) == metrics.maximum_latency_us # call[t].previous

\* One turn of the compare_exchange_weak loop: it ends when the maximum it last
\* saw is not below elapsed, or when the exchange succeeds; a failed exchange
\* reloads the maximum.
SwapMaximum(t) ==
    LET larger == call[t].previous < call[t].elapsed
    IN /\ At(t, "maximum")
       /\ IF larger /\ ExchangeFails(t)
          THEN /\ call' = [call EXCEPT ![t].previous = metrics.maximum_latency_us]
               /\ UNCHANGED <<metrics, recorded>>
          ELSE /\ metrics' = IF larger
                             THEN [metrics EXCEPT !.maximum_latency_us = call[t].elapsed]
                             ELSE metrics
               /\ recorded' = recorded \cup {call[t].elapsed}
               /\ call' = [call EXCEPT ![t].pc = "return"]
       /\ UNCHANGED <<backend_mutex_, tokens, dirty>>

\* Mutant of Released: the mutex is only given back by a call that succeeds.
ReleasedOnSuccess(t) ==
    IF backend_mutex_ = t /\ call[t].code = "ok" THEN None ELSE backend_mutex_

Released(t) == IF backend_mutex_ = t THEN None ELSE backend_mutex_

\* infer() returns and its lock_guard, if it got that far, releases the mutex.
Return(t) ==
    /\ At(t, "return")
    /\ call' = [call EXCEPT ![t] = [Idle EXCEPT !.pc = "returned", !.job = call[t].job,
                                                !.code = call[t].code]]
    /\ backend_mutex_' = Released(t)
    /\ UNCHANGED <<metrics, tokens, dirty, recorded>>

\* The caller takes the result.
Collect(t) ==
    /\ At(t, "returned")
    /\ call' = [call EXCEPT ![t] = Idle]
    /\ UNCHANGED <<backend_mutex_, metrics, tokens, dirty, recorded>>

\* record_dropped(), called by the scheduler for each of n requests it drops.
record_dropped(n) == metrics' = [metrics EXCEPT !.dropped = @ + n]

-----------------------------------------------------------------------------
(* reset() *)

CallReset(t) ==
    /\ At(t, "idle")
    /\ call' = [call EXCEPT ![t].pc = "reset_lock"]
    /\ UNCHANGED <<backend_mutex_, metrics, tokens, dirty, recorded>>

ResetLock(t) ==
    /\ At(t, "reset_lock")
    /\ Acquire(t)
    /\ call' = [call EXCEPT ![t].pc = "reset_stage", ![t].site = 1]
    /\ UNCHANGED <<metrics, tokens, dirty, recorded>>

\* Mutant of StageFails: the status of a stage that could not reset is dropped.
StageFailureIgnored(t) ==
    /\ call' = [call EXCEPT ![t].pc = IF call[t].site = Backend THEN "reset_return" ELSE @,
                            ![t].site = @ + 1]
    /\ UNCHANGED dirty

\* A stage that cannot reset returns its status at once and leaves itself, the
\* later processors and the backend as they were.
StageFails(t) ==
    /\ call' = [call EXCEPT ![t].pc = "reset_return", ![t].code = "stage_error"]
    /\ UNCHANGED dirty

StageResets(t) ==
    /\ dirty' = dirty \ {call[t].site}
    /\ call' = [call EXCEPT ![t].pc = IF call[t].site = Backend THEN "reset_return" ELSE @,
                            ![t].site = @ + 1]

ResetStage(t) ==
    /\ At(t, "reset_stage")
    /\ StageResets(t) \/ StageFails(t)
    /\ UNCHANGED <<backend_mutex_, metrics, tokens, recorded>>

ResetReturn(t) ==
    /\ At(t, "reset_return")
    /\ call' = [call EXCEPT ![t].pc = "returned"]
    /\ backend_mutex_' = Released(t)
    /\ UNCHANGED <<metrics, tokens, dirty, recorded>>

-----------------------------------------------------------------------------
(* The environment: tokens are cancelled and deadlines pass.  After infer(r)    *)
(* has returned nothing reads r's token or deadline again.                      *)

Watched(r) == \E t \in Threads : call[t].job = r

request_cancellation(r) ==
    /\ r \in Cancellable \ cancellation_requested
    /\ cancellation_requested' = cancellation_requested \cup {r}
    /\ UNCHANGED <<call, backend_mutex_, metrics, expired, dirty, recorded>>

Expire(r) ==
    /\ r \in Deadlined \ expired
    /\ expired' = expired \cup {r}
    /\ UNCHANGED <<call, backend_mutex_, metrics, cancellation_requested, dirty, recorded>>

InferStep(t) ==
    \/ Enter(t) \/ CheckCancellation(t) \/ CheckDeadline(t) \/ Lock(t)
    \/ Observe(t) \/ BackendStart(t) \/ BackendReturn(t) \/ Act(t)
    \/ Count(t) \/ Classify(t) \/ LoadMaximum(t) \/ SwapMaximum(t) \/ Return(t)

ResetStep(t) == ResetLock(t) \/ ResetStage(t) \/ ResetReturn(t)

-----------------------------------------------------------------------------

\* A request that was cancelled or expired while its thread waited for the mutex
\* never reaches the backend, although it passed the checkpoint before the wait.
LateNeverReachesBackend ==
    \A t \in Threads : call[t].pc \in {"backend", "running"} => ~ call[t].late

\* reset() reports success only when every processor and the backend have been
\* reset and no inference has touched one since it started.
ResetLeavesNothingDirty ==
    \A t \in Threads : At(t, "reset_return") /\ call[t].code = "ok" => dirty = {}

\* The lock-free counters lose no call: each one that has entered is counted as
\* a success, as a failure, or is still on its way to record_result, and the two
\* named failure counters never exceed the failures.
EveryCallCounted ==
    /\ metrics.requests = metrics.succeeded + metrics.failed
                            + Cardinality({t \in Threads : call[t].pc \in Uncounted})
    /\ metrics.deadline_exceeded + metrics.cancelled <= metrics.failed

\* No concurrent recording is lost by the compare-exchange loop: the maximum is
\* the largest latency any call has recorded.
MaximumLatencyKept ==
    /\ \A us \in recorded : us <= metrics.maximum_latency_us
    /\ metrics.maximum_latency_us \in recorded \cup {0}

=============================================================================
