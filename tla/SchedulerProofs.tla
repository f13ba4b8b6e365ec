--------------------------- MODULE SchedulerProofs --------------------------
(* For any number of requests, callers and threads: what the engine's mutex,  *)
(* checkpoints and counters guarantee, and what the queue, the worker and     *)
(* shutdown() guarantee on top of it; and that what the last action processor *)
(* lets through is within its limits.                                         *)
EXTENDS Scheduler, Processors, FiniteSetTheorems, TLAPS

\* Zenon by default, with time for a busy machine; a leaf that needs arithmetic cites SMTT.
USE ZenonT(60)

-----------------------------------------------------------------------------
(* The engine on its own, called by any thread at any time *)

EngineNext ==
    \/ \E t \in Threads : \/ \E r \in Requests : Call(t, r)
                          \/ InferStep(t) \/ Collect(t) \/ CallReset(t) \/ ResetStep(t)
    \/ \E r \in Requests : request_cancellation(r) \/ Expire(r)
    \/ \E n \in Nat : record_dropped(n) /\ UNCHANGED <<call, backend_mutex_, tokens, dirty, recorded>>

EngineSpec == EngineInit /\ [][EngineNext]_engineVars

Checking == {"cancel?", "deadline?"}
Recording == {"count", "classify", "latency", "maximum", "return"}
InStage == {"observe", "backend", "running", "act", "reset_stage", "reset_return"}
Labels == Checking \cup Recording \cup InStage \cup {"idle", "enter", "lock", "returned", "reset_lock"}

Calls == [pc : Labels, job : Requests \cup {None}, site : Nat, code : EngineCodes,
          elapsed : Nat, previous : Nat, late : BOOLEAN]
Counters == {"requests", "succeeded", "failed", "deadline_exceeded", "cancelled", "dropped",
             "maximum_latency_us"}
Metrics == [Counters -> Nat]

EngineTypeOK ==
    /\ call \in [Threads -> Calls]
    /\ backend_mutex_ \in Threads \cup {None}
    /\ metrics \in Metrics
    /\ dirty \in SUBSET Stages
    /\ recorded \in SUBSET Nat

\* The checkpoint tells where a call is, and between two calls nothing is left of the last.
Sited ==
    \A t \in Threads :
        /\ At(t, "idle") => call[t] = Idle
        /\ At(t, "lock") => call[t].site = 1
        /\ At(t, "observe") => call[t].site = 2
        /\ call[t].pc \in {"backend", "running", "act"} => call[t].site = 3
        /\ call[t].pc \in Checking \cup Recording => call[t].site \in 1..4
        /\ At(t, "reset_stage") => call[t].site \in Stages

\* Who is past the second checkpoint, or in the stages of reset(), has the mutex.
Inside(t) ==
    \/ call[t].pc \in InStage
    \/ call[t].pc \in Checking \cup Recording /\ call[t].site >= 2

Exclusive == \A t \in Threads : backend_mutex_ = t <=> Inside(t)

\* A call that was late when it got the mutex ends at the second checkpoint.
LateStops ==
    \A t \in Threads : call[t].late =>
        \/ At(t, "cancel?") /\ call[t].site = 2 /\ call[t].job \in cancellation_requested \cup expired
        \/ At(t, "deadline?") /\ call[t].site = 2 /\ call[t].job \in expired
        \/ call[t].pc \in Recording

\* What reset() has passed is clean.
ResetProgress ==
    \A t \in Threads : At(t, "reset_stage") => \A s \in dirty : s >= call[t].site

InFlight == {t \in Threads : call[t].pc \in Uncounted}
Classifying == {t \in Threads : At(t, "classify")}

\* Every call is counted once, and a failure is counted before it is classified.
Counting ==
    /\ metrics.requests = metrics.succeeded + metrics.failed + Cardinality(InFlight)
    /\ metrics.deadline_exceeded + metrics.cancelled + Cardinality(Classifying) <= metrics.failed

\* The maximum never falls below what a call has read.
MaximumGrows ==
    \A t \in Threads : At(t, "maximum") => call[t].previous <= metrics.maximum_latency_us

EngineInv ==
    /\ EngineTypeOK /\ Sited /\ Exclusive /\ LateStops
    /\ ResetProgress /\ ResetLeavesNothingDirty
    /\ Counting
    /\ MaximumGrows /\ MaximumLatencyKept

-----------------------------------------------------------------------------
(* The engine: types, places and the mutex *)

USE DEF At, Labels, Checking, Recording, InStage, tokens

LEMMA OneCall ==
    ASSUME call \in [Threads -> Calls], NEW t \in Threads, call' = [call EXCEPT ![t] = call'[t]],
           call'[t] \in Calls
    PROVE  call' \in [Threads -> Calls]
OBVIOUS

LEMMA CounterTypes ==
    ASSUME NEW m \in Metrics
    PROVE  /\ m.requests \in Nat /\ m.succeeded \in Nat /\ m.failed \in Nat
           /\ m.deadline_exceeded \in Nat /\ m.cancelled \in Nat
           /\ m.maximum_latency_us \in Nat
BY DEF Counters, Metrics

LEMMA Bumped ==
    ASSUME metrics \in Metrics, NEW c \in Counters, Bump(c)
    PROVE  /\ metrics' \in Metrics
           /\ metrics'.requests = metrics.requests + IF c = "requests" THEN 1 ELSE 0
           /\ metrics'.succeeded = metrics.succeeded + IF c = "succeeded" THEN 1 ELSE 0
           /\ metrics'.failed = metrics.failed + IF c = "failed" THEN 1 ELSE 0
           /\ metrics'.deadline_exceeded
                = metrics.deadline_exceeded + IF c = "deadline_exceeded" THEN 1 ELSE 0
           /\ metrics'.cancelled = metrics.cancelled + IF c = "cancelled" THEN 1 ELSE 0
           /\ c # "maximum_latency_us" => metrics'.maximum_latency_us = metrics.maximum_latency_us
<1>1. /\ metrics' \in Metrics
      /\ \A d \in Counters : metrics'[d] = IF d = c THEN metrics[d] + 1 ELSE metrics[d]
  BY SMTT(30) DEF Bump, Metrics
<1>2. QED  BY <1>1, SMTT(30) DEF Counters, Metrics

CallCounters == <<metrics.requests, metrics.succeeded, metrics.failed, metrics.deadline_exceeded,
                  metrics.cancelled>>

LEMMA Dropped ==
    ASSUME metrics \in Metrics, NEW n \in Nat, record_dropped(n)
    PROVE  metrics' \in Metrics /\ UNCHANGED <<CallCounters, metrics.maximum_latency_us>>
BY SMTT(30) DEF record_dropped, Counters, Metrics, CallCounters

LEMMA NewMaximum ==
    ASSUME metrics \in Metrics, NEW n \in Nat, metrics' = [metrics EXCEPT !.maximum_latency_us = n]
    PROVE  metrics' \in Metrics /\ metrics'.maximum_latency_us = n /\ UNCHANGED CallCounters
BY DEF Counters, Metrics, CallCounters


LEMMA InferType ==
    ASSUME EngineTypeOK, Sited, NEW t \in Threads, InferStep(t)
    PROVE  EngineTypeOK'
<1>1. CASE Enter(t)
  <2>1. metrics' \in Metrics
    BY <1>1, Bumped DEF Enter, EngineTypeOK, Counters
  <2>2. call' = [call EXCEPT ![t] = call'[t]]
    BY <1>1 DEF EngineTypeOK, Enter
  <2>3. call'[t] \in Calls
    BY <1>1 DEF EngineTypeOK, Calls, Enter
  <2>4. QED  BY <1>1, <2>1, <2>2, <2>3, OneCall DEF EngineTypeOK, Enter
<1>2. CASE CheckCancellation(t)
  BY <1>2, SMTT(30) DEF EngineTypeOK, Calls, Sited, EngineCodes, CheckCancellation, finish_error
<1>3. CASE CheckDeadline(t)
  BY <1>3, SMTT(30) DEF EngineTypeOK, Calls, Sited, EngineCodes, CheckDeadline, finish_error, Expired,
     Continue
<1>4. CASE Lock(t)
  BY <1>4, SMTT(30) DEF EngineTypeOK, Calls, Sited, EngineCodes, Lock, Acquire
<1>5. CASE Observe(t)
  BY <1>5, EngineAssumption, SMTT(30) DEF EngineTypeOK, Calls, Sited, EngineCodes, Touched, Stages, Backend,
     Observe, RunProcessors, finish_error
<1>6. CASE BackendStart(t)
  BY <1>6, EngineAssumption, SMTT(30) DEF EngineTypeOK, Calls, Sited, EngineCodes, Stages, Backend,
     BackendStart
<1>7. CASE BackendReturn(t)
  BY <1>7, SMTT(30) DEF EngineTypeOK, Calls, Sited, EngineCodes, BackendReturn, Polled, finish_error
<1>8. CASE Act(t)
  BY <1>8, EngineAssumption, SMTT(30) DEF EngineTypeOK, Calls, Sited, EngineCodes, Touched, Stages, Backend,
     Act, RunProcessors, finish_error
<1>9. CASE Count(t)
  <2>1. metrics' \in Metrics
    BY <1>9, Bumped DEF Count, EngineTypeOK, Counters, CountedAs
  <2>2. call' = [call EXCEPT ![t] = call'[t]]
    BY <1>9 DEF EngineTypeOK, Count
  <2>3. call'[t] \in Calls
    BY <1>9 DEF EngineTypeOK, Calls, Count
  <2>4. QED  BY <1>9, <2>1, <2>2, <2>3, OneCall DEF EngineTypeOK, Count
<1>10. CASE Classify(t)
  <2>1. metrics' \in Metrics
    BY <1>10, Bumped DEF Classify, EngineTypeOK, Counters
  <2>2. call' \in [Threads -> Calls]
    BY <1>10, SMTT(30) DEF EngineTypeOK, Calls, Classify
  <2>3. QED  BY <1>10, <2>1, <2>2 DEF EngineTypeOK, Classify
<1>11. CASE LoadMaximum(t)
  <2>1. metrics.maximum_latency_us \in Nat
    BY CounterTypes DEF EngineTypeOK
  <2>2. PICK us \in Nat : call' = [call EXCEPT ![t].pc = "maximum", ![t].elapsed = us,
                                    ![t].previous = metrics.maximum_latency_us]
    BY <1>11, EngineAssumption DEF LoadMaximum
  <2>3. call' = [call EXCEPT ![t] = call'[t]]
    BY <2>2 DEF EngineTypeOK
  <2>4. call'[t] \in Calls
    BY <2>1, <2>2 DEF EngineTypeOK, Calls
  <2>5. QED  BY <1>11, <2>3, <2>4, OneCall DEF EngineTypeOK, LoadMaximum
<1>12. CASE SwapMaximum(t)
  <2>1. metrics.maximum_latency_us \in Nat /\ call[t].elapsed \in Nat
    BY CounterTypes DEF EngineTypeOK, Calls
  <2>2. metrics' \in Metrics
    BY <1>12, <2>1, NewMaximum DEF EngineTypeOK, SwapMaximum
  <2>3. QED  BY <1>12, <2>1, <2>2, SMTT(30) DEF EngineTypeOK, Calls, SwapMaximum
<1>13. CASE Return(t)
  BY <1>13 DEF EngineTypeOK, Calls, Sited, EngineCodes, Return, Released, Idle
<1>14. QED
  BY <1>1, <1>2, <1>3, <1>4, <1>5, <1>6, <1>7, <1>8, <1>9, <1>10, <1>11, <1>12, <1>13 DEF InferStep

LEMMA InferSited ==
    ASSUME EngineTypeOK, Sited, NEW t \in Threads, InferStep(t)
    PROVE  Sited'
<1>1. CASE Enter(t)
  BY <1>1, SMTT(30) DEF EngineTypeOK, Calls, Sited, Enter
<1>2. CASE CheckCancellation(t)
  BY <1>2, SMTT(30) DEF EngineTypeOK, Calls, Sited, CheckCancellation, finish_error
<1>3. CASE CheckDeadline(t)
  BY <1>3, SMTT(30) DEF EngineTypeOK, Calls, Sited, CheckDeadline, finish_error, Expired, Continue
<1>4. CASE Lock(t)
  BY <1>4, SMTT(30) DEF EngineTypeOK, Calls, Sited, Lock, Acquire
<1>5. CASE Observe(t)
  BY <1>5, SMTT(30) DEF EngineTypeOK, Calls, Sited, Observe, RunProcessors, finish_error
<1>6. CASE BackendStart(t)
  BY <1>6 DEF EngineTypeOK, Calls, Sited, BackendStart
<1>7. CASE BackendReturn(t)
  BY <1>7, SMTT(30) DEF EngineTypeOK, Calls, Sited, BackendReturn, Polled, finish_error
<1>8. CASE Act(t)
  BY <1>8, SMTT(30) DEF EngineTypeOK, Calls, Sited, Act, RunProcessors, finish_error
<1>9. CASE Count(t)
  BY <1>9, SMTT(30) DEF EngineTypeOK, Calls, Sited, Count
<1>10. CASE Classify(t)
  BY <1>10 DEF EngineTypeOK, Calls, Sited, Classify
<1>11. CASE LoadMaximum(t)
  BY <1>11, SMTT(30) DEF EngineTypeOK, Calls, Sited, LoadMaximum
<1>12. CASE SwapMaximum(t)
  BY <1>12, SMTT(30) DEF EngineTypeOK, Calls, Sited, SwapMaximum, ExchangeFails
<1>13. CASE Return(t)
  BY <1>13 DEF EngineTypeOK, Calls, Sited, Return, Released, Idle
<1>14. QED
  BY <1>1, <1>2, <1>3, <1>4, <1>5, <1>6, <1>7, <1>8, <1>9, <1>10, <1>11, <1>12, <1>13 DEF InferStep

LEMMA InferExclusive ==
    ASSUME EngineTypeOK, Sited, Exclusive, NEW t \in Threads, InferStep(t)
    PROVE  Exclusive'
<1>1. CASE Enter(t)
  BY <1>1, EngineAssumption, SMTT(30) DEF EngineTypeOK, Calls, Sited, Exclusive, Inside, Enter
<1>2. CASE CheckCancellation(t)
  BY <1>2, EngineAssumption, SMTT(30) DEF EngineTypeOK, Calls, Sited, Exclusive, Inside, CheckCancellation,
     finish_error
<1>3. CASE CheckDeadline(t)
  BY <1>3, EngineAssumption, SMTT(30) DEF EngineTypeOK, Calls, Sited, Exclusive, Inside, CheckDeadline,
     finish_error, Expired, Continue
<1>4. CASE Lock(t)
  BY <1>4, EngineAssumption, SMTT(30) DEF EngineTypeOK, Calls, Sited, Exclusive, Inside, Lock, Acquire
<1>5. CASE Observe(t)
  BY <1>5, EngineAssumption, SMTT(30) DEF EngineTypeOK, Calls, Sited, Exclusive, Inside, Observe,
     RunProcessors, finish_error
<1>6. CASE BackendStart(t)
  BY <1>6, EngineAssumption DEF EngineTypeOK, Calls, Sited, Exclusive, Inside, BackendStart
<1>7. CASE BackendReturn(t)
  BY <1>7, EngineAssumption, SMTT(30) DEF EngineTypeOK, Calls, Sited, Exclusive, Inside, BackendReturn,
     Polled, finish_error
<1>8. CASE Act(t)
  BY <1>8, EngineAssumption, SMTT(30) DEF EngineTypeOK, Calls, Sited, Exclusive, Inside, Act, RunProcessors,
     finish_error
<1>9. CASE Count(t)
  BY <1>9, EngineAssumption, SMTT(30) DEF EngineTypeOK, Calls, Sited, Exclusive, Inside, Count
<1>10. CASE Classify(t)
  BY <1>10, EngineAssumption, SMTT(30) DEF EngineTypeOK, Calls, Sited, Exclusive, Inside, Classify
<1>11. CASE LoadMaximum(t)
  BY <1>11, EngineAssumption, SMTT(30) DEF EngineTypeOK, Calls, Sited, Exclusive, Inside, LoadMaximum
<1>12. CASE SwapMaximum(t)
  BY <1>12, EngineAssumption, SMTT(30) DEF EngineTypeOK, Calls, Sited, Exclusive, Inside, SwapMaximum,
     ExchangeFails
<1>13. CASE Return(t)
  BY <1>13, EngineAssumption DEF EngineTypeOK, Calls, Sited, Exclusive, Inside, Return, Released,
     Idle
<1>14. QED
  BY <1>1, <1>2, <1>3, <1>4, <1>5, <1>6, <1>7, <1>8, <1>9, <1>10, <1>11, <1>12, <1>13 DEF InferStep

LEMMA ResetType ==
    ASSUME EngineTypeOK, Sited, NEW t \in Threads, ResetStep(t)
    PROVE  EngineTypeOK' /\ Sited'
<1>1. CASE ResetLock(t)
  <2>1. 1 \in Stages
    BY EngineAssumption, SMTT(30) DEF Stages, Backend
  <2>2. call' = [call EXCEPT ![t] = call'[t]]
    BY <1>1 DEF EngineTypeOK, ResetLock
  <2>3. call'[t] \in Calls /\ call'[t].pc = "reset_stage" /\ call'[t].site = 1
    BY <1>1 DEF EngineTypeOK, Calls, ResetLock
  <2>4. EngineTypeOK'
    BY <1>1, <2>2, <2>3, OneCall DEF EngineTypeOK, ResetLock, Acquire
  <2>5. Sited'
    BY <2>1, <2>2, <2>3 DEF EngineTypeOK, Sited
  <2>6. QED  BY <2>4, <2>5
<1>2. CASE ResetStage(t)
  <2>1. /\ call[t].site \in Stages
        /\ call[t].site # Backend => call[t].site + 1 \in Stages
        /\ call[t].site + 1 \in Nat
    BY <1>2, EngineAssumption, SMTT(30) DEF Sited, ResetStage, Stages, Backend
  <2>2. CASE StageResets(t)
    <3>1. call' = [call EXCEPT ![t] = call'[t]]
      BY <2>2 DEF EngineTypeOK, StageResets
    <3>2. /\ call'[t] \in Calls
          /\ \/ call'[t].pc = "reset_return"
             \/ call'[t].pc = "reset_stage" /\ call'[t].site \in Stages
      BY <1>2, <2>1, <2>2 DEF EngineTypeOK, Calls, ResetStage, StageResets
    <3>3. EngineTypeOK'
      BY <1>2, <2>2, <3>1, <3>2, OneCall DEF EngineTypeOK, ResetStage, StageResets
    <3>4. Sited'
      BY <3>1, <3>2 DEF EngineTypeOK, Sited
    <3>5. QED  BY <3>3, <3>4
  <2>3. CASE StageFails(t)
    <3>1. call' = [call EXCEPT ![t] = call'[t]]
      BY <2>3 DEF EngineTypeOK, StageFails
    <3>2. call'[t] \in Calls /\ call'[t].pc = "reset_return"
      <4>1. call'[t] = [call[t] EXCEPT !.pc = "reset_return", !.code = "stage_error"]
        BY <2>3 DEF EngineTypeOK, StageFails
      <4>2. QED  BY <4>1 DEF EngineTypeOK, Calls, EngineCodes
    <3>3. EngineTypeOK'
      BY <1>2, <2>3, <3>1, <3>2, OneCall DEF EngineTypeOK, ResetStage, StageFails
    <3>4. Sited'
      BY <3>1, <3>2 DEF EngineTypeOK, Sited
    <3>5. QED  BY <3>3, <3>4
  <2>4. QED  BY <1>2, <2>2, <2>3 DEF ResetStage
<1>3. CASE ResetReturn(t)
  BY <1>3, SMTT(30) DEF EngineTypeOK, Calls, Sited, Stages, Backend, EngineCodes, ResetReturn, Released
<1>4. QED  BY <1>1, <1>2, <1>3 DEF ResetStep

LEMMA ResetExclusive ==
    ASSUME EngineTypeOK, Sited, Exclusive, NEW t \in Threads, ResetStep(t)
    PROVE  Exclusive'
<1>1. CASE ResetLock(t)
  BY <1>1, EngineAssumption, SMTT(30) DEF EngineTypeOK, Calls, Sited, Exclusive, Inside, ResetLock, Acquire
<1>2. CASE ResetStage(t)
  BY <1>2, EngineAssumption, SMTT(30) DEF EngineTypeOK, Calls, Sited, Exclusive, Inside, ResetStage,
     StageResets, StageFails
<1>3. CASE ResetReturn(t)
  BY <1>3, EngineAssumption, SMTT(30) DEF EngineTypeOK, Calls, Sited, Exclusive, Inside, ResetReturn, Released
<1>4. QED  BY <1>1, <1>2, <1>3 DEF ResetStep

-----------------------------------------------------------------------------
(* The engine: late calls, the recorded maximum, and what a reset leaves *)

LEMMA InferLate ==
    ASSUME EngineTypeOK, Sited, LateStops, NEW t \in Threads, InferStep(t)
    PROVE  LateStops'
<1>1. CASE Enter(t)
  BY <1>1, SMTT(30) DEF EngineTypeOK, Calls, Sited, LateStops, Enter
<1>2. CASE CheckCancellation(t)
  BY <1>2, SMTT(30) DEF EngineTypeOK, Calls, Sited, LateStops, CheckCancellation, finish_error
<1>3. CASE CheckDeadline(t)
  BY <1>3, SMTT(30) DEF EngineTypeOK, Calls, Sited, LateStops, CheckDeadline, finish_error, Expired, Continue
<1>4. CASE Lock(t)
  BY <1>4, SMTT(30) DEF EngineTypeOK, Calls, Sited, LateStops, Lock, Acquire
<1>5. CASE Observe(t)
  BY <1>5, SMTT(30) DEF EngineTypeOK, Calls, Sited, LateStops, Observe, RunProcessors, finish_error
<1>6. CASE BackendStart(t)
  BY <1>6, SMTT(30) DEF EngineTypeOK, Calls, Sited, LateStops, BackendStart
<1>7. CASE BackendReturn(t)
  BY <1>7, SMTT(30) DEF EngineTypeOK, Calls, Sited, LateStops, BackendReturn, Polled, finish_error
<1>8. CASE Act(t)
  BY <1>8, SMTT(30) DEF EngineTypeOK, Calls, Sited, LateStops, Act, RunProcessors, finish_error
<1>9. CASE Count(t)
  BY <1>9, SMTT(30) DEF EngineTypeOK, Calls, Sited, LateStops, Count
<1>10. CASE Classify(t)
  BY <1>10, SMTT(30) DEF EngineTypeOK, Calls, Sited, LateStops, Classify
<1>11. CASE LoadMaximum(t)
  BY <1>11, SMTT(30) DEF EngineTypeOK, Calls, Sited, LateStops, LoadMaximum
<1>12. CASE SwapMaximum(t)
  BY <1>12, SMTT(30) DEF EngineTypeOK, Calls, Sited, LateStops, SwapMaximum, ExchangeFails
<1>13. CASE Return(t)
  BY <1>13 DEF EngineTypeOK, Calls, Sited, LateStops, Return, Released, Idle
<1>14. QED
  BY <1>1, <1>2, <1>3, <1>4, <1>5, <1>6, <1>7, <1>8, <1>9, <1>10, <1>11, <1>12, <1>13 DEF InferStep

LEMMA ResetLate ==
    ASSUME EngineTypeOK, Sited, LateStops, NEW t \in Threads, ResetStep(t)
    PROVE  LateStops'
<1>1. CASE ResetLock(t)
  BY <1>1, SMTT(30) DEF EngineTypeOK, Calls, Sited, LateStops, ResetLock, Acquire
<1>2. CASE ResetStage(t)
  BY <1>2, SMTT(30) DEF EngineTypeOK, Calls, Sited, LateStops, ResetStage, StageResets, StageFails
<1>3. CASE ResetReturn(t)
  BY <1>3, SMTT(30) DEF EngineTypeOK, Calls, Sited, LateStops, ResetReturn, Released
<1>4. QED  BY <1>1, <1>2, <1>3 DEF ResetStep

LEMMA InferMax ==
    ASSUME EngineTypeOK, Sited, MaximumGrows, MaximumLatencyKept, NEW t \in Threads, InferStep(t)
    PROVE  MaximumGrows' /\ MaximumLatencyKept'
<1>1. CASE Enter(t)
  <2>1. UNCHANGED metrics.maximum_latency_us
    BY <1>1, Bumped DEF Enter, EngineTypeOK, Counters
  <2>2. QED  BY <1>1, <2>1 DEF EngineTypeOK, Calls, MaximumGrows, MaximumLatencyKept, Enter
<1>2. CASE CheckCancellation(t)
  BY <1>2 DEF EngineTypeOK, Calls, MaximumGrows, MaximumLatencyKept, CheckCancellation, finish_error
<1>3. CASE CheckDeadline(t)
  BY <1>3, SMTT(30) DEF EngineTypeOK, Calls, MaximumGrows, MaximumLatencyKept, Sited, CheckDeadline,
     finish_error, Expired, Continue
<1>4. CASE Lock(t)
  BY <1>4 DEF EngineTypeOK, Calls, MaximumGrows, MaximumLatencyKept, Lock, Acquire
<1>5. CASE Observe(t)
  BY <1>5 DEF EngineTypeOK, Calls, MaximumGrows, MaximumLatencyKept, Observe, RunProcessors,
     finish_error
<1>6. CASE BackendStart(t)
  BY <1>6 DEF EngineTypeOK, Calls, MaximumGrows, MaximumLatencyKept, BackendStart
<1>7. CASE BackendReturn(t)
  BY <1>7, SMTT(30) DEF EngineTypeOK, Calls, MaximumGrows, MaximumLatencyKept, BackendReturn, Polled,
     finish_error
<1>8. CASE Act(t)
  BY <1>8 DEF EngineTypeOK, Calls, MaximumGrows, MaximumLatencyKept, Act, RunProcessors,
     finish_error
<1>9. CASE Count(t)
  <2>1. UNCHANGED metrics.maximum_latency_us
    BY <1>9, Bumped DEF Count, EngineTypeOK, Counters, CountedAs
  <2>2. QED  BY <1>9, <2>1 DEF EngineTypeOK, Calls, MaximumGrows, MaximumLatencyKept, Count
<1>10. CASE Classify(t)
  <2>1. UNCHANGED metrics.maximum_latency_us
    BY <1>10, Bumped DEF Classify, EngineTypeOK, Counters
  <2>2. QED  BY <1>10, <2>1 DEF EngineTypeOK, Calls, MaximumGrows, MaximumLatencyKept, Classify
<1>11. CASE LoadMaximum(t)
  <2>1. metrics.maximum_latency_us \in Nat
    BY CounterTypes DEF EngineTypeOK
  <2>2. QED
    BY <1>11, <2>1, SMTT(30) DEF EngineTypeOK, Calls, MaximumGrows, MaximumLatencyKept, LoadMaximum
<1>12. CASE SwapMaximum(t)
  <2>1. /\ metrics.maximum_latency_us \in Nat /\ call[t].elapsed \in Nat /\ call[t].previous \in Nat
        /\ call[t].previous <= metrics.maximum_latency_us
    BY <1>12, CounterTypes DEF EngineTypeOK, Calls, MaximumGrows, SwapMaximum
  <2>2. CASE call[t].previous < call[t].elapsed /\ ~ ExchangeFails(t)
    <3>1. metrics'.maximum_latency_us = call[t].elapsed
      BY <1>12, <2>1, <2>2, NewMaximum DEF EngineTypeOK, SwapMaximum
    <3>2. metrics.maximum_latency_us < call[t].elapsed
      BY <2>2 DEF ExchangeFails
    <3>3. MaximumGrows'
      BY <1>12, <2>1, <2>2, <3>1, <3>2, SMTT(30) DEF EngineTypeOK, Calls, MaximumGrows, SwapMaximum
    <3>4. MaximumLatencyKept'
      BY <1>12, <2>1, <2>2, <3>1, <3>2, SMTT(30) DEF EngineTypeOK, Calls, MaximumLatencyKept, SwapMaximum
    <3>5. QED  BY <3>3, <3>4
  <2>3. CASE ~ (call[t].previous < call[t].elapsed /\ ~ ExchangeFails(t))
    BY <1>12, <2>1, <2>3, SMTT(30) DEF EngineTypeOK, Calls, MaximumGrows, MaximumLatencyKept, SwapMaximum
  <2>4. QED  BY <2>2, <2>3
<1>13. CASE Return(t)
  BY <1>13 DEF EngineTypeOK, Calls, MaximumGrows, MaximumLatencyKept, Return, Released, Idle
<1>14. QED
  BY <1>1, <1>2, <1>3, <1>4, <1>5, <1>6, <1>7, <1>8, <1>9, <1>10, <1>11, <1>12, <1>13 DEF InferStep

LEMMA ResetMax ==
    ASSUME EngineTypeOK, Sited, MaximumGrows, MaximumLatencyKept, NEW t \in Threads, ResetStep(t)
    PROVE  MaximumGrows' /\ MaximumLatencyKept'
<1>1. CASE ResetLock(t)
  BY <1>1 DEF EngineTypeOK, Calls, MaximumGrows, MaximumLatencyKept, ResetLock, Acquire
<1>2. CASE ResetStage(t)
  BY <1>2, SMTT(30) DEF EngineTypeOK, Calls, MaximumGrows, MaximumLatencyKept, ResetStage, StageResets,
     StageFails
<1>3. CASE ResetReturn(t)
  BY <1>3 DEF EngineTypeOK, Calls, MaximumGrows, MaximumLatencyKept, ResetReturn, Released
<1>4. QED  BY <1>1, <1>2, <1>3 DEF ResetStep

LEMMA InferReset ==
    ASSUME EngineTypeOK, Sited, Exclusive, ResetProgress, ResetLeavesNothingDirty, NEW t \in Threads, InferStep(t)
    PROVE  ResetProgress' /\ ResetLeavesNothingDirty'
<1>1. CASE Enter(t)
  BY <1>1 DEF EngineTypeOK, Calls, Exclusive, Inside, ResetProgress, ResetLeavesNothingDirty, Enter
<1>2. CASE CheckCancellation(t)
  BY <1>2, SMTT(30) DEF EngineTypeOK, Calls, Exclusive, Inside, ResetProgress, ResetLeavesNothingDirty,
     CheckCancellation, finish_error
<1>3. CASE CheckDeadline(t)
  BY <1>3, SMTT(30) DEF EngineTypeOK, Calls, Exclusive, Inside, ResetProgress, ResetLeavesNothingDirty,
     Sited, CheckDeadline, finish_error, Expired, Continue
<1>4. CASE Lock(t)
  BY <1>4, SMTT(30) DEF EngineTypeOK, Calls, Exclusive, Inside, ResetProgress, ResetLeavesNothingDirty,
     Lock, Acquire
<1>5. CASE Observe(t)
  BY <1>5, SMTT(30) DEF EngineTypeOK, Calls, Exclusive, Inside, ResetProgress, ResetLeavesNothingDirty,
     Observe, RunProcessors, finish_error
<1>6. CASE BackendStart(t)
  BY <1>6 DEF EngineTypeOK, Calls, Exclusive, Inside, ResetProgress, ResetLeavesNothingDirty,
     BackendStart
<1>7. CASE BackendReturn(t)
  BY <1>7, SMTT(30) DEF EngineTypeOK, Calls, Exclusive, Inside, ResetProgress, ResetLeavesNothingDirty,
     BackendReturn, Polled, finish_error
<1>8. CASE Act(t)
  BY <1>8, SMTT(30) DEF EngineTypeOK, Calls, Exclusive, Inside, ResetProgress, ResetLeavesNothingDirty, Act,
     RunProcessors, finish_error
<1>9. CASE Count(t)
  BY <1>9 DEF EngineTypeOK, Calls, Exclusive, Inside, ResetProgress, ResetLeavesNothingDirty, Count
<1>10. CASE Classify(t)
  BY <1>10 DEF EngineTypeOK, Calls, Exclusive, Inside, ResetProgress, ResetLeavesNothingDirty,
     Classify
<1>11. CASE LoadMaximum(t)
  BY <1>11, SMTT(30) DEF EngineTypeOK, Calls, Exclusive, Inside, ResetProgress, ResetLeavesNothingDirty,
     LoadMaximum
<1>12. CASE SwapMaximum(t)
  BY <1>12, SMTT(30) DEF EngineTypeOK, Calls, Exclusive, Inside, ResetProgress, ResetLeavesNothingDirty,
     SwapMaximum, ExchangeFails
<1>13. CASE Return(t)
  BY <1>13 DEF EngineTypeOK, Calls, Exclusive, Inside, ResetProgress, ResetLeavesNothingDirty,
     Return, Released, Idle
<1>14. QED
  BY <1>1, <1>2, <1>3, <1>4, <1>5, <1>6, <1>7, <1>8, <1>9, <1>10, <1>11, <1>12, <1>13 DEF InferStep

LEMMA ResetReset ==
    ASSUME EngineTypeOK, Sited, Exclusive, ResetProgress, ResetLeavesNothingDirty, NEW t \in Threads, ResetStep(t)
    PROVE  ResetProgress' /\ ResetLeavesNothingDirty'
<1>1. CASE ResetLock(t)
  <2>1. \A s \in dirty : s >= 1
    BY EngineAssumption, SMTT(30) DEF EngineTypeOK, Stages, Backend
  <2>2. QED
    BY <1>1, <2>1, EngineAssumption, SMTT(30) DEF EngineTypeOK, Calls, Exclusive, Inside, ResetProgress,
       ResetLeavesNothingDirty,
       ResetLock, Acquire
<1>2. CASE ResetStage(t)
  BY <1>2, EngineAssumption, SMTT(30) DEF EngineTypeOK, Calls, Exclusive, Inside, ResetProgress,
     ResetLeavesNothingDirty, Stages, Backend, ResetStage, StageResets, StageFails
<1>3. CASE ResetReturn(t)
  BY <1>3 DEF EngineTypeOK, Calls, Exclusive, Inside, ResetProgress, ResetLeavesNothingDirty,
     ResetReturn, Released
<1>4. QED  BY <1>1, <1>2, <1>3 DEF ResetStep

-----------------------------------------------------------------------------
(* The engine: the counters *)

LEMMA OneThread ==
    ASSUME NEW A \in SUBSET Threads, NEW t \in Threads
    PROVE  /\ Cardinality(A) \in Nat
           /\ t \notin A => Cardinality(A \cup {t}) = Cardinality(A) + 1
           /\ t \in A => Cardinality(A \ {t}) = Cardinality(A) - 1
<1>1. IsFiniteSet(A)  BY EngineAssumption, FS_Subset
<1>2. Cardinality(A) \in Nat  BY <1>1, FS_CardinalityType
<1>3. t \notin A => Cardinality(A \cup {t}) = Cardinality(A) + 1
  BY <1>1, FS_AddElement
<1>4. t \in A => Cardinality(A \ {t}) = Cardinality(A) - 1
  BY <1>1, FS_RemoveElement
<1>5. QED  BY <1>2, <1>3, <1>4

\* A step that moves no call over a counter and changes no counter.
LEMMA Uncounting ==
    ASSUME Counting, InFlight' = InFlight, Classifying' = Classifying,
           UNCHANGED CallCounters
    PROVE  Counting'
BY DEF Counting, CallCounters

LEMMA OneMoreOneLess ==
    ASSUME NEW q \in Nat, NEW s \in Nat, NEW f \in Nat, NEW c \in Nat, q = s + f + c
    PROVE  q = (s + 1) + f + (c - 1)
BY SMTT(30)

LEMMA InferCounting ==
    ASSUME EngineTypeOK, Sited, Counting, NEW t \in Threads, InferStep(t)
    PROVE  Counting'
<1>0. /\ InFlight \in SUBSET Threads /\ Classifying \in SUBSET Threads
      /\ Cardinality(InFlight) \in Nat /\ Cardinality(Classifying) \in Nat
  BY OneThread DEF InFlight, Classifying
<1>c. /\ metrics.requests \in Nat /\ metrics.succeeded \in Nat /\ metrics.failed \in Nat
      /\ metrics.deadline_exceeded \in Nat /\ metrics.cancelled \in Nat
  BY CounterTypes DEF EngineTypeOK
<1>1. CASE Enter(t)
  <2>1. t \notin InFlight /\ InFlight' = InFlight \cup {t} /\ Classifying' = Classifying
    BY <1>1, SMTT(30) DEF Enter, EngineTypeOK, Calls, Uncounted, InFlight, Classifying
  <2>2. Cardinality(InFlight') = Cardinality(InFlight) + 1
    BY <2>1, <1>0, OneThread
  <2>3. metrics'.requests = metrics.requests + 1
        /\ UNCHANGED <<metrics.succeeded, metrics.failed, metrics.deadline_exceeded, metrics.cancelled>>
    BY <1>1, <1>c, Bumped, SMTT(30) DEF EngineTypeOK, Enter, Counters
  <2>4. QED  BY <1>0, <1>c, <2>1, <2>2, <2>3, SMTT(30) DEF Counting
<1>2. CASE Count(t)
  <2>1. t \in InFlight /\ InFlight' = InFlight \ {t} /\ t \notin Classifying
    BY <1>2 DEF Count, EngineTypeOK, Calls, Uncounted, InFlight, Classifying
  <2>2. Cardinality(InFlight') = Cardinality(InFlight) - 1
    BY <2>1, <1>0, OneThread
  <2>3. CASE call[t].code = "ok"
    <3>1. Classifying' = Classifying
      BY <1>2, <2>3 DEF Count, EngineTypeOK, Calls, Uncounted, InFlight, Classifying
    <3>2. metrics'.succeeded = metrics.succeeded + 1
          /\ UNCHANGED <<metrics.requests, metrics.failed, metrics.deadline_exceeded, metrics.cancelled>>
      BY <1>2, <1>c, <2>3, Bumped, SMTT(30) DEF EngineTypeOK, Count, CountedAs, Counters
    <3>3. Cardinality(Classifying') = Cardinality(Classifying)  BY <3>1
    <3>4. metrics.requests
             = (metrics.succeeded + 1) + metrics.failed + (Cardinality(InFlight) - 1)
      <4>1. metrics.requests = metrics.succeeded + metrics.failed + Cardinality(InFlight)
        BY DEF Counting
      <4>2. QED  BY <1>0, <1>c, <4>1, OneMoreOneLess, SMTT(30)
    <3>5. QED  BY <2>2, <3>2, <3>3, <3>4 DEF Counting
  <2>4. CASE call[t].code # "ok"
    <3>1. Classifying' = Classifying \cup {t}
      BY <1>2, <2>4 DEF Count, EngineTypeOK, Calls, Uncounted, InFlight, Classifying
    <3>2. Cardinality(Classifying') = Cardinality(Classifying) + 1
      BY <3>1, <2>1, <1>0, OneThread
    <3>3. metrics'.failed = metrics.failed + 1
          /\ UNCHANGED <<metrics.requests, metrics.succeeded, metrics.deadline_exceeded, metrics.cancelled>>
      BY <1>2, <1>c, <2>4, Bumped, SMTT(30) DEF EngineTypeOK, Count, CountedAs, Counters
    <3>4. QED  BY <1>0, <1>c, <2>2, <3>1, <3>2, <3>3, SMTT(30) DEF Counting
  <2>5. QED  BY <2>3, <2>4
<1>3. CASE Classify(t)
  <2>1. t \in Classifying /\ Classifying' = Classifying \ {t} /\ InFlight' = InFlight
    BY <1>3 DEF Classify, EngineTypeOK, Calls, Uncounted, InFlight, Classifying
  <2>2. Cardinality(Classifying') = Cardinality(Classifying) - 1
    BY <2>1, <1>0, OneThread
  <2>3. /\ UNCHANGED <<metrics.requests, metrics.succeeded, metrics.failed>>
        /\ metrics'.deadline_exceeded + metrics'.cancelled
              \in {metrics.deadline_exceeded + metrics.cancelled,
                   metrics.deadline_exceeded + metrics.cancelled + 1}
    <3>1. CASE call[t].code = "deadline_exceeded"
      BY <1>3, <1>c, <3>1, Bumped, SMTT(30) DEF EngineTypeOK, Classify, Counters
    <3>2. CASE call[t].code = "cancelled"
      BY <1>3, <1>c, <3>2, Bumped, SMTT(30) DEF EngineTypeOK, Classify, Counters
    <3>3. CASE call[t].code \notin {"deadline_exceeded", "cancelled"}
      BY <1>3, <3>3 DEF Classify
    <3>4. QED  BY <3>1, <3>2, <3>3
  <2>c. metrics'.deadline_exceeded \in Int /\ metrics'.cancelled \in Int
    <3>1. metrics' \in Metrics
      BY <1>3, Bumped DEF EngineTypeOK, Classify, Counters
    <3>2. QED  BY <3>1, CounterTypes, SMTT(30)
  <2>4. QED  BY <1>0, <1>c, <2>1, <2>2, <2>3, <2>c, SMTT(30) DEF Counting
<1>4. CASE \/ CheckCancellation(t) \/ CheckDeadline(t) \/ Lock(t)
           \/ Observe(t) \/ BackendStart(t) \/ BackendReturn(t) \/ Act(t)
  <2>1. InFlight' = InFlight /\ Classifying' = Classifying /\ metrics' = metrics
    BY <1>4, SMTT(30) DEF CheckCancellation, CheckDeadline, Lock, Observe, BackendStart, BackendReturn, Act,
                finish_error, Expired, Continue, RunProcessors, Polled, Sited, EngineTypeOK, Calls,
                Uncounted, InFlight, Classifying
  <2>2. QED  BY <2>1, Uncounting DEF CallCounters
<1>5. CASE LoadMaximum(t) \/ SwapMaximum(t) \/ Return(t)
  <2>1. InFlight' = InFlight /\ Classifying' = Classifying
    <3> USE DEF EngineTypeOK, Calls, Uncounted, InFlight, Classifying
    <3>1. CASE LoadMaximum(t)  BY <3>1, SMTT(30) DEF LoadMaximum
    <3>2. CASE SwapMaximum(t)  BY <3>2, SMTT(30) DEF SwapMaximum
    <3>3. CASE Return(t)  BY <3>3 DEF Return, Idle
    <3>4. QED  BY <1>5, <3>1, <3>2, <3>3
  <2>2. \/ metrics' = metrics
        \/ metrics' = [metrics EXCEPT !.maximum_latency_us = call[t].elapsed]
    BY <1>5 DEF LoadMaximum, SwapMaximum, Return
  <2>3. UNCHANGED CallCounters
    BY <2>2, NewMaximum DEF EngineTypeOK, Calls, CallCounters
  <2>4. QED  BY <2>1, <2>3, Uncounting
<1>6. QED  BY <1>1, <1>2, <1>3, <1>4, <1>5 DEF InferStep

LEMMA ResetCounting ==
    ASSUME EngineTypeOK, Sited, Counting, NEW t \in Threads, ResetStep(t)
    PROVE  Counting'
<1>1. InFlight' = InFlight /\ Classifying' = Classifying /\ metrics' = metrics
  BY SMTT(30) DEF ResetStep, ResetLock, ResetStage, ResetReturn, StageResets, StageFails, EngineTypeOK,
     Calls,
         Uncounted, InFlight, Classifying
<1>2. QED  BY <1>1, Uncounting DEF CallCounters

\* What is not a step inside infer() or reset(): a call, its return to the caller,
\* the environment, and the drop counter.
EngineOther ==
    \/ \E t \in Threads : (\E r \in Requests : Call(t, r)) \/ Collect(t) \/ CallReset(t)
    \/ \E r \in Requests : request_cancellation(r) \/ Expire(r)
    \/ \E n \in Nat : record_dropped(n) /\ UNCHANGED <<call, backend_mutex_, tokens, dirty, recorded>>

LEMMA OtherStep ==
    ASSUME EngineInv, EngineOther
    PROVE  EngineInv'
<1> USE DEF EngineInv
<1>1. CASE \E t \in Threads : (\E r \in Requests : Call(t, r)) \/ Collect(t) \/ CallReset(t)
  <2>1. PICK t \in Threads : (\E r \in Requests : Call(t, r)) \/ Collect(t) \/ CallReset(t)
    BY <1>1
  <2>2. /\ call' = [call EXCEPT ![t] = call'[t]]
        /\ call[t].pc \in {"idle", "returned"}
        /\ UNCHANGED <<backend_mutex_, metrics, tokens, dirty, recorded>>
    BY <2>1 DEF EngineTypeOK, Call, Collect, CallReset
  <2>3. call'[t] \in Calls /\ call'[t].pc \in {"enter", "idle", "reset_lock"} /\ ~ call'[t].late
        /\ (call'[t].pc = "idle" => call'[t] = Idle)
    <3>1. CASE \E r \in Requests : Call(t, r)
      <4>1. ~ call[t].late  BY <3>1, SMTT(30) DEF Sited, Call, Idle
      <4>2. PICK r \in Requests : call'[t] = [call[t] EXCEPT !.pc = "enter", !.job = r]
        BY <3>1 DEF EngineTypeOK, Call
      <4>3. call[t] \in Calls  BY DEF EngineTypeOK
      <4>4. call'[t] \in Calls /\ call'[t].pc = "enter"  BY <4>2, <4>3 DEF Calls
      <4>5. ~ call'[t].late  BY <4>1, <4>2, <4>3 DEF Calls
      <4>6. QED  BY <4>4, <4>5
    <3>2. CASE Collect(t)
      BY <3>2 DEF EngineTypeOK, Calls, EngineCodes, Collect, Idle
    <3>3. CASE CallReset(t)
      BY <3>3, SMTT(30) DEF EngineTypeOK, Calls, Sited, CallReset, Idle
    <3>4. QED  BY <2>1, <3>1, <3>2, <3>3
  <2>4. EngineTypeOK'  BY <2>2, <2>3, OneCall DEF EngineTypeOK
  <2>5. Sited'  BY <2>2, <2>3 DEF EngineTypeOK, Sited
  <2>6. Exclusive'  BY <2>2, <2>3 DEF EngineTypeOK, Exclusive, Inside
  <2>7. LateStops'  BY <2>2, <2>3 DEF EngineTypeOK, LateStops
  <2>8. (ResetProgress /\ ResetLeavesNothingDirty)'
    BY <2>2, <2>3 DEF EngineTypeOK, ResetProgress, ResetLeavesNothingDirty
  <2>9. (MaximumGrows /\ MaximumLatencyKept)'
    BY <2>2, <2>3 DEF EngineTypeOK, MaximumGrows, MaximumLatencyKept
  <2>10. InFlight' = InFlight /\ Classifying' = Classifying
    BY <2>2, <2>3 DEF EngineTypeOK, InFlight, Classifying, Uncounted
  <2>11. Counting'  BY <2>2, <2>10, Uncounting DEF CallCounters
  <2>12. QED  BY <2>4, <2>5, <2>6, <2>7, <2>8, <2>9, <2>11
<1>2. CASE \E r \in Requests : request_cancellation(r) \/ Expire(r)
  <2>1. /\ cancellation_requested \subseteq cancellation_requested' /\ expired \subseteq expired'
        /\ UNCHANGED <<call, backend_mutex_, metrics, dirty, recorded>>
    BY <1>2 DEF request_cancellation, Expire
  <2>2. LateStops'  BY <2>1 DEF LateStops
  <2>3. QED
    BY <2>1, <2>2 DEF EngineTypeOK, Sited, Exclusive, Inside, ResetProgress,
       ResetLeavesNothingDirty,
       Counting, InFlight, Classifying, MaximumGrows, MaximumLatencyKept
<1>3. CASE \E n \in Nat : /\ record_dropped(n)
                          /\ UNCHANGED <<call, backend_mutex_, tokens, dirty, recorded>>
  <2>1. metrics' \in Metrics /\ UNCHANGED <<CallCounters, metrics.maximum_latency_us>>
    BY <1>3, Dropped DEF EngineTypeOK
  <2>2. Counting'
    BY <1>3, <2>1, Uncounting DEF InFlight, Classifying
  <2>3. QED
    BY <1>3, <2>1, <2>2, SMTT(30) DEF EngineTypeOK, Sited, Exclusive, Inside, LateStops, ResetProgress,
       ResetLeavesNothingDirty, MaximumGrows, MaximumLatencyKept
<1>4. QED  BY <1>1, <1>2, <1>3 DEF EngineOther

LEMMA EngineInductive == EngineInv /\ [EngineNext]_engineVars => EngineInv'
<1> SUFFICES ASSUME EngineInv, [EngineNext]_engineVars PROVE EngineInv'  OBVIOUS
<1>1. ASSUME NEW t \in Threads, InferStep(t) PROVE EngineInv'
  BY <1>1, InferType, InferSited, InferExclusive, InferLate, InferMax, InferReset, InferCounting
  DEF EngineInv
<1>2. ASSUME NEW t \in Threads, ResetStep(t) PROVE EngineInv'
  BY <1>2, ResetType, ResetExclusive, ResetLate, ResetMax, ResetReset, ResetCounting
  DEF EngineInv
<1>3. CASE EngineOther  BY <1>3, OtherStep
<1>4. CASE UNCHANGED engineVars
  <2>1. UNCHANGED <<call, backend_mutex_, metrics, cancellation_requested, expired, dirty, recorded>>
    BY <1>4 DEF engineVars
  <2>2. Counting'
    BY <2>1, Uncounting DEF EngineInv, InFlight, Classifying, CallCounters
  <2>3. QED
    BY <2>1, <2>2 DEF EngineInv, EngineTypeOK, Sited, Exclusive, Inside, LateStops, ResetProgress,
       ResetLeavesNothingDirty, MaximumGrows, MaximumLatencyKept
<1>5. QED  BY <1>1, <1>2, <1>3, <1>4 DEF EngineNext, EngineOther

LEMMA EngineStarts == EngineInit => EngineInv
<1> SUFFICES ASSUME EngineInit PROVE EngineInv  OBVIOUS
<1>1. Counting
  <2>1. InFlight = {} /\ Classifying = {}
    BY DEF EngineInit, Idle, InFlight, Classifying, Uncounted
  <2>2. Cardinality(InFlight) = 0 /\ Cardinality(Classifying) = 0
    BY <2>1, FS_EmptySet
  <2>3. QED  BY <2>2, SMTT(30) DEF EngineInit, Counting
<1>2. EngineTypeOK
  <2>1. metrics \in Metrics  BY SMTT(30) DEF EngineInit, Metrics, Counters
  <2>2. QED  BY <2>1 DEF EngineInit, EngineTypeOK, Calls, Idle, EngineCodes
<1>3. QED
  BY <1>1, <1>2, EngineAssumption DEF EngineInit, EngineInv, Idle, Sited, Exclusive, Inside,
     LateStops, ResetProgress,
              ResetLeavesNothingDirty, Counting, MaximumGrows, MaximumLatencyKept

-----------------------------------------------------------------------------
(* The engine's properties *)

LEMMA EngineAlways == EngineSpec => []EngineInv
<1>1. QED  BY EngineStarts, EngineInductive, PTL DEF EngineSpec

LEMMA EngineInvImplies ==
    EngineInv => /\ LateNeverReachesBackend /\ ResetLeavesNothingDirty
                 /\ EveryCallCounted /\ MaximumLatencyKept
<1> SUFFICES ASSUME EngineInv
             PROVE  /\ LateNeverReachesBackend /\ ResetLeavesNothingDirty
                    /\ EveryCallCounted /\ MaximumLatencyKept
  OBVIOUS
<1>1. LateNeverReachesBackend
  BY DEF EngineInv, LateStops, LateNeverReachesBackend, Recording, At
<1>2. EveryCallCounted
  <2>1. /\ InFlight \in SUBSET Threads /\ Classifying \in SUBSET Threads
        /\ metrics.failed \in Nat /\ metrics.deadline_exceeded \in Nat /\ metrics.cancelled \in Nat
    BY CounterTypes DEF EngineInv, EngineTypeOK, InFlight, Classifying
  <2>2. Cardinality(Classifying) \in Nat
    BY <2>1, EngineAssumption, FS_Subset, FS_CardinalityType
  <2>3. metrics.deadline_exceeded + metrics.cancelled <= metrics.failed
    BY <2>1, <2>2, SMTT(30) DEF EngineInv, Counting
  <2>4. QED  BY <2>3 DEF EngineInv, Counting, EveryCallCounted, InFlight
<1>3. QED  BY <1>1, <1>2 DEF EngineInv

\* Called by any threads at any time: a request that was cancelled or expired while it
\* waited for backend_mutex_ never reaches backend_->infer; reset() returns ok only when
\* every stage was reset; record_result counts every call exactly once; and its
\* compare-exchange loop never loses a maximum.
THEOREM EngineIsCorrect ==
    EngineSpec => [](/\ LateNeverReachesBackend /\ ResetLeavesNothingDirty
                     /\ EveryCallCounted /\ MaximumLatencyKept)
<1>1. QED  BY EngineInvImplies, EngineAlways, PTL

-----------------------------------------------------------------------------
(* The action processors *)

\* std::clamp for numbers.
LEMMA ClampIsNearest ==
    ASSUME NaN \notin Int, NEW value \in Int, NEW low \in Int, NEW high \in Int, low <= high
    PROVE  /\ clamp(value, low, high) \in low..high
           /\ value \in low..high => clamp(value, low, high) = value
           /\ value < low => clamp(value, low, high) = low
           /\ value > high => clamp(value, low, high) = high
<1>1. NaN \notin {value, low} /\ NaN \notin {high, value}
  OBVIOUS
<1> QED BY <1>1, SMTT(30) DEF clamp, Less

\* What ActionSafetyFilter does to a coordinate (processors.cpp), whatever the model wants:
\* the result is within the bounds; where the bounds and the rate limit can both be met it
\* meets both, and no position that does is closer to what the model wants; where they
\* cannot, it is the bound nearest to where the robot was; and a value that is not a number
\* holds a robot that is within the bounds where it is.
THEOREM LimitedIsSafe ==
    ASSUME NaN \notin Int, NEW config, NEW d, NEW previous \in Int, NEW value \in Int \cup {NaN},
           lower(config, d) \in Int, upper(config, d) \in Int, delta(config, d) \in Nat,
           lower(config, d) <= upper(config, d)
    PROVE  LET now == Limited(config, d, value, previous)
               bounds == lower(config, d)..upper(config, d)
               near == (previous - delta(config, d))..(previous + delta(config, d))
           IN /\ now \in bounds
              /\ bounds \cap near # {} => now \in near
              /\ bounds \cap near # {} /\ value \in Int =>
                    \A p \in bounds \cap near : \/ value <= now /\ now <= p
                                                \/ p <= now /\ now <= value
              /\ previous < lower(config, d) - delta(config, d) => now = lower(config, d)
              /\ previous > upper(config, d) + delta(config, d) => now = upper(config, d)
              /\ value = NaN /\ previous \in bounds => now = previous
<1> DEFINE low == lower(config, d)
           high == upper(config, d)
           rate == delta(config, d)
           finite == IF value = NaN THEN previous ELSE value
           bounded == clamp(finite, low, high)
           least == previous - rate
           most == previous + rate
           near == clamp(bounded, least, most)
           now == clamp(near, low, high)
<1>1. /\ low \in Int /\ high \in Int /\ rate \in Nat /\ low <= high /\ finite \in Int
      /\ least \in Int /\ most \in Int /\ least <= most
  BY SMTT(30)
<1>2. Plus(previous, -rate) = least /\ Plus(previous, rate) = most
  BY <1>1, SMTT(30) DEF Plus
<1>3. Limited(config, d, value, previous) = now
  BY <1>2 DEF Limited
<1>4. /\ bounded \in low..high
      /\ finite \in low..high => bounded = finite
      /\ finite < low => bounded = low
      /\ finite > high => bounded = high
  <2> HIDE DEF low, high, finite
  <2> QED BY <1>1, ClampIsNearest
<1>5. /\ near \in least..most
      /\ bounded \in least..most => near = bounded
      /\ bounded < least => near = least
      /\ bounded > most => near = most
  <2> HIDE DEF least, most, bounded, low, high
  <2>1. bounded \in Int
    BY <1>1, <1>4, SMTT(30)
  <2> QED BY <1>1, <2>1, ClampIsNearest
<1>6. /\ now \in low..high
      /\ near \in low..high => now = near
      /\ near < low => now = low
      /\ near > high => now = high
  <2> HIDE DEF near, low, high, least, most
  <2>1. near \in Int
    BY <1>1, <1>5, SMTT(30)
  <2> QED BY <1>1, <2>1, ClampIsNearest
<1>7. value = NaN => finite = previous
  OBVIOUS
<1>8. value \in Int => finite = value
  OBVIOUS
<1>9. least = previous - rate /\ most = previous + rate
  OBVIOUS
<1> HIDE DEF low, high, rate, finite, bounded, least, most, near, now
<1>10. (low..high) \cap (least..most) # {} => now \in least..most
  BY <1>1, <1>4, <1>5, <1>6, SMTT(30)
<1>11. ASSUME value \in Int, NEW p \in (low..high) \cap (least..most)
       PROVE  \/ value <= now /\ now <= p
              \/ p <= now /\ now <= value
  BY <1>1, <1>4, <1>5, <1>6, <1>8, <1>11, SMTT(30)
<1>12. /\ previous < low - rate => now = low
       /\ previous > high + rate => now = high
  BY <1>1, <1>4, <1>5, <1>6, <1>9, SMTT(30)
<1>13. value = NaN /\ previous \in low..high => now = previous
  BY <1>1, <1>4, <1>5, <1>6, <1>7, <1>9, SMTT(30)
<1> QED BY <1>3, <1>6, <1>9, <1>10, <1>11, <1>12, <1>13 DEF low, high, rate

-----------------------------------------------------------------------------
(* Sequences *)

\* Each element of a sequence over S is one of S.
LEMMA SeqElement ==
    ASSUME NEW S, NEW s \in Seq(S), NEW i \in 1..Len(s)
    PROVE  s[i] \in S
BY SMTT(30)

\* A sequence is a function on 1..Len(s).
LEMMA SeqLen ==
    ASSUME NEW S, NEW s \in Seq(S)
    PROVE  Len(s) \in Nat /\ s \in [1..Len(s) -> S] /\ DOMAIN s = 1..Len(s)
BY SMTT(30)

\* Only the empty sequence has no element.
LEMMA SeqEmpty ==
    ASSUME NEW S
    PROVE  /\ <<>> \in Seq(S) /\ Len(<<>>) = 0
           /\ \A s \in Seq(S) : s # <<>> => Len(s) \in Nat \ {0}
BY SMTT(30)

\* Taking the head off a sequence that has one shifts the rest.
LEMMA SeqHeadTail ==
    ASSUME NEW S, NEW s \in Seq(S), s # <<>>
    PROVE  /\ Head(s) \in S /\ Tail(s) \in Seq(S) /\ Len(Tail(s)) = Len(s) - 1
           /\ \A i \in 1..Len(Tail(s)) : Tail(s)[i] = s[i + 1]
BY SMTT(30)

\* Append adds one element at the end and moves none.
LEMMA SeqAppend ==
    ASSUME NEW S, NEW s \in Seq(S), NEW e \in S
    PROVE  /\ Append(s, e) \in Seq(S) /\ Append(s, e) # <<>> /\ Len(Append(s, e)) = Len(s) + 1
           /\ \A i \in 1..Len(s) : Append(s, e)[i] = s[i]
           /\ Append(s, e)[Len(s) + 1] = e
BY SMTT(30)

\* A subsequence holds the elements of its interval, shifted.
LEMMA SeqSub ==
    ASSUME NEW S, NEW s, NEW m \in Int, NEW n \in Int, \A i \in m..n : s[i] \in S
    PROVE  /\ SubSeq(s, m, n) \in Seq(S)
           /\ Len(SubSeq(s, m, n)) = IF m <= n THEN n - m + 1 ELSE 0
           /\ \A i \in 1..n - m + 1 : SubSeq(s, m, n)[i] = s[m + i - 1]
BY SMTT(30)

-----------------------------------------------------------------------------
(* The scheduler *)

\* The worker is in infer() exactly while the engine has its call, and never resets.
WorkerCalls ==
    /\ worker = "inferring" <=> ~ At(Worker, "idle")
    /\ ~ At(Worker, "idle") => call[Worker].job \in Requests
    /\ call[Worker].pc \notin {"reset_lock", "reset_stage", "reset_return"}

Distinct == \A i, j \in 1..Len(queue_) : queue_[i] = queue_[j] => i = j

Owned ==
    /\ \A r \in Requests : outcome[r] = "pending" <=> r \in Queued \cup {call[Worker].job}
    /\ call[Worker].job \notin Queued

SchedulerTypeOK ==
    /\ queue_ \in Seq(Requests) /\ accepted \in Seq(Requests) /\ taken \in Seq(Requests)
    /\ closed_ \in BOOLEAN
    /\ outcome \in [Requests -> Outcomes \cup {"unsubmitted", "pending"}]
    /\ worker \in {"check", "waiting", "inferring", "exited"}
    /\ closer \in [Closers -> {"idle", "notify", "join", "returned", "skipped"}]

Among(s, a) == \E k \in 1..Len(s) : s[k] = a
Earlier(s, a, b) == \E k, l \in 1..Len(s) : k < l /\ s[k] = a /\ s[l] = b

\* What was taken and then what is queued are in the order of acceptance.
InOrder ==
    /\ \A i \in 1..Len(taken) : Among(accepted, taken[i])
    /\ \A i \in 1..Len(queue_) : Among(accepted, queue_[i])
    /\ \A i, j \in 1..Len(taken) : i < j => Earlier(accepted, taken[i], taken[j])
    /\ \A i, j \in 1..Len(queue_) : i < j => Earlier(accepted, queue_[i], queue_[j])
    /\ \A i \in 1..Len(taken), j \in 1..Len(queue_) : Earlier(accepted, taken[i], queue_[j])

\* While the scheduler is open the newest accepted request has not been dropped.
NewestKept ==
    ~ closed_ /\ accepted # <<>> =>
        outcome[accepted[Len(accepted)]] \in {"pending"} \cup EngineCodes

\* Nothing is queued after the close, and the worker ends only then.
Closing ==
    /\ closed_ => queue_ = <<>>
    /\ \A c \in Closers : closer[c] # "idle" => closed_
    /\ \A c \in Closers : closer[c] = "returned" => worker = "exited"
    /\ worker = "exited" => closed_

SchedulerInv ==
    /\ SchedulerTypeOK /\ WorkerCalls /\ Distinct /\ Owned /\ InOrder /\ NewestKept /\ Closing

-----------------------------------------------------------------------------
(* The scheduler: its use of the engine *)

LEMMA IdleCall == Idle.pc = "idle" /\ Idle.job = None
BY DEF Idle

\* The scheduler uses the engine only through its operations.
LEMMA StepUsesEngine ==
    ASSUME queue_ \in Seq(Requests), [Next]_vars
    PROVE  [EngineNext]_engineVars
<1>1. ASSUME NEW r \in Requests, submit(r) PROVE [EngineNext]_engineVars
  <2>1. Overflow \in Nat
    BY SchedulerAssumption, SeqLen, SMTT(30) DEF Overflow, Full
  <2>2. UNCHANGED metrics \/ \E n \in Nat : record_dropped(n)
    BY <1>1, <2>1 DEF submit, SubmitClosed, SubmitRejected, SubmitAccepted
  <2>3. UNCHANGED <<call, backend_mutex_, tokens, dirty, recorded>>
    BY <1>1 DEF submit
  <2>4. QED  BY <2>2, <2>3 DEF EngineNext, engineVars
<1>2. CASE Take
  <2>1. Head(queue_) \in Requests
    BY <1>2, SeqHeadTail DEF Take
  <2>2. QED  BY <1>2, <2>1, SchedulerAssumption DEF Take, EngineNext
<1>3. CASE Deliver
  BY <1>3, SchedulerAssumption DEF Deliver, EngineNext
<1>4. ASSUME NEW t \in Threads, EngineStep(t) \/ EngineReset(t) \/ EngineCollect(t)
      PROVE  [EngineNext]_engineVars
  BY <1>4 DEF EngineStep, EngineReset, EngineCollect, EngineNext
<1>5. CASE Environment
  BY <1>5 DEF Environment, EngineNext
<1>6. CASE \/ Wait \/ Exit \/ SpuriousWakeup \/ UNCHANGED vars
           \/ \E r \in Requests : NotifyOne(r)
           \/ \E c \in Closers : Close(c) \/ AlreadyClosed(c) \/ CloserStep(c)
  BY <1>6 DEF Wait, Exit, SpuriousWakeup, vars, NotifyOne, Close, AlreadyClosed, CloserStep,
              NotifyAll, Join
<1>7. QED
  BY <1>1, <1>2, <1>3, <1>4, <1>5, <1>6, SchedulerAssumption DEF Next, WorkerStep
-----------------------------------------------------------------------------
(* The scheduler: what the worker's call does *)

ResetLabels == {"reset_lock", "reset_stage", "reset_return"}

LEMMA InferFrame ==
    ASSUME EngineTypeOK, Sited, NEW t \in Threads, InferStep(t)
    PROVE  /\ \A u \in Threads \ {t} : call'[u] = call[u]
           /\ call[t].pc # "idle" /\ call'[t].pc \notin ResetLabels \cup {"idle"}
           /\ call'[t].job = call[t].job
<1> USE DEF EngineTypeOK, Calls, ResetLabels, At
<1>1. CASE Enter(t) \/ BackendStart(t) \/ Count(t) \/ Classify(t)
  BY <1>1, SMTT(30) DEF Enter, BackendStart, Count, Classify
<1>2. CASE CheckCancellation(t)  BY <1>2, SMTT(30) DEF CheckCancellation, finish_error
<1>3. CASE CheckDeadline(t)
  BY <1>3, SMTT(30) DEF CheckDeadline, finish_error, Continue, Sited, Checking
<1>4. CASE Lock(t)  BY <1>4 DEF Lock
<1>5. CASE Observe(t) \/ Act(t)
  BY <1>5, SMTT(30) DEF Observe, Act, RunProcessors, finish_error
<1>6. CASE BackendReturn(t)  BY <1>6, SMTT(30) DEF BackendReturn, Polled, finish_error
<1>7. CASE LoadMaximum(t)  BY <1>7, SMTT(30) DEF LoadMaximum
<1>8. CASE SwapMaximum(t)  BY <1>8 DEF SwapMaximum
<1>9. CASE Return(t)  BY <1>9 DEF Return, Idle
<1>10. QED
  BY <1>1, <1>2, <1>3, <1>4, <1>5, <1>6, <1>7, <1>8, <1>9 DEF InferStep

\* Steps inside the engine that leave the worker where it is.
WorkerStays ==
    /\ At(Worker, "idle")' <=> At(Worker, "idle")
    /\ call'[Worker].job = call[Worker].job
    /\ call'[Worker].pc \notin ResetLabels

LEMMA EngineKeepsWorker ==
    ASSUME EngineTypeOK, Sited, WorkerCalls, NEW t \in Threads,
           EngineStep(t) \/ (t # Worker /\ (EngineReset(t) \/ EngineCollect(t)))
    PROVE  WorkerStays
<1> USE SchedulerAssumption DEF EngineTypeOK, At
<1>1. CASE t # Worker
  <2>1. call'[Worker] = call[Worker]
    <3>1. CASE InferStep(t)  BY <3>1, <1>1, InferFrame
    <3>2. CASE ResetStep(t)
      BY <3>2, <1>1 DEF ResetStep, ResetLock, ResetStage, ResetReturn, StageResets, StageFails
    <3>3. CASE EngineReset(t) \/ EngineCollect(t)
      BY <3>3, <1>1 DEF EngineReset, EngineCollect, CallReset, Collect
    <3>4. QED  BY <3>1, <3>2, <3>3 DEF EngineStep
  <2>2. QED  BY <2>1 DEF WorkerStays, WorkerCalls, ResetLabels
<1>2. CASE t = Worker
  <2>1. ~ ResetStep(t)
    BY <1>2 DEF WorkerCalls, ResetStep, ResetLock, ResetStage, ResetReturn
  <2>2. InferStep(t)  BY <1>2, <2>1 DEF EngineStep
  <2>3. QED  BY <1>2, <2>2, InferFrame DEF WorkerStays
<1>3. QED  BY <1>1, <1>2

-----------------------------------------------------------------------------
(* The scheduler: sequences *)

LEMMA Shifted ==
    ASSUME NEW q \in Seq(Requests), NEW k \in 0..Len(q), NEW r \in Requests,
           NEW n, n = Append(SubSeq(q, k + 1, Len(q)), r)
    PROVE  /\ n \in Seq(Requests) /\ Len(n) = Len(q) - k + 1
           /\ \A i \in 1..(Len(q) - k) : n[i] = q[i + k]
           /\ n[Len(q) - k + 1] = r
<1> DEFINE m == SubSeq(q, k + 1, Len(q))
<1>0. Len(q) \in Nat /\ k \in Nat /\ k <= Len(q)  BY SeqLen, SMTT(30)
<1>1. m \in Seq(Requests) /\ Len(m) = Len(q) - k /\ \A i \in 1..(Len(q) - k) : m[i] = q[i + k]
  <2>1. \A i \in (k + 1)..Len(q) : q[i] \in Requests
    BY <1>0, SeqElement, SMTT(30)
  <2>2. /\ m \in Seq(Requests)
        /\ Len(m) = IF k + 1 <= Len(q) THEN Len(q) - (k + 1) + 1 ELSE 0
        /\ \A i \in 1 .. (Len(q) - (k + 1) + 1) : m[i] = q[(k + 1) + i - 1]
    BY <1>0, <2>1, SeqSub, SMTT(30)
  <2>3. QED  BY <1>0, <2>2, SMTT(30)
<1> HIDE DEF m
<1>2. n = Append(m, r)  BY DEF m
<1>3. n \in Seq(Requests) /\ Len(n) = Len(m) + 1 /\ n[Len(m) + 1] = r
      /\ \A i \in 1..Len(m) : n[i] = m[i]
  <2>1. m \in Seq(Requests)  BY <1>1
  <2>2. /\ Append(m, r) \in Seq(Requests) /\ Len(Append(m, r)) = Len(m) + 1
        /\ \A i \in 1..Len(m) : Append(m, r)[i] = m[i]
        /\ Append(m, r)[Len(m) + 1] = r
    BY <2>1, SeqAppend, SMTT(30)
  <2>3. QED  BY <1>2, <2>2
<1>4. QED  BY <1>0, <1>1, <1>3

LEMMA AcceptedGrows ==
    ASSUME accepted \in Seq(Requests), NEW r \in Requests, accepted' = Append(accepted, r)
    PROVE  /\ accepted' \in Seq(Requests) /\ accepted' # <<>> /\ accepted'[Len(accepted')] = r
           /\ Among(accepted', r)
           /\ \A a : Among(accepted, a) => Among(accepted', a) /\ Earlier(accepted', a, r)
           /\ \A a, b : Earlier(accepted, a, b) => Earlier(accepted', a, b)
<1>1. /\ accepted' \in Seq(Requests) /\ Len(accepted') = Len(accepted) + 1
      /\ \A i \in 1..Len(accepted) : accepted'[i] = accepted[i]
      /\ accepted'[Len(accepted) + 1] = r
      /\ Len(accepted) \in Nat /\ accepted' # <<>>
  BY SeqAppend, SeqLen, SMTT(30)
<1>2. QED  BY <1>1, SMTT(30) DEF Among, Earlier

-----------------------------------------------------------------------------
(* The scheduler: one lemma per operation *)

Kept == SchedulerTypeOK /\ WorkerCalls /\ Distinct /\ Owned /\ InOrder /\ NewestKept

LEMMA Quiet ==
    ASSUME Kept, WorkerStays, UNCHANGED <<queue_, closed_, outcome, accepted, taken>>,
           worker' \in {"check", "waiting", "inferring", "exited"},
           worker' = "inferring" <=> worker = "inferring",
           closer' \in [Closers -> {"idle", "notify", "join", "returned", "skipped"}]
    PROVE  Kept'
<1> USE DEF Kept
<1>1. SchedulerTypeOK'  BY DEF SchedulerTypeOK
<1>2. WorkerCalls'  BY DEF WorkerCalls, WorkerStays, ResetLabels, At
<1>3. Queued' = Queued  BY DEF Queued
<1>4. Owned'  BY <1>3 DEF Owned, WorkerStays
<1>5. InOrder'  BY DEF InOrder
<1>6. QED  BY <1>1, <1>2, <1>4, <1>5 DEF Distinct, NewestKept

LEMMA SubmitKeeps ==
    ASSUME SchedulerInv, NEW r \in Requests, submit(r)
    PROVE  SchedulerInv'
<1> USE DEF SchedulerInv
<1>0. /\ outcome[r] = "unsubmitted" /\ r \notin Queued /\ r # call[Worker].job
      /\ UNCHANGED <<call, closed_, worker, closer, taken>>
  BY DEF submit, Owned
<1>a. \A c : accepted # <<>> /\ ~ closed_ => accepted[Len(accepted)] # r /\ accepted[Len(accepted)] \in Requests
  <2>1. accepted # <<>> => Len(accepted) \in 1..Len(accepted)
    BY SeqEmpty, SeqLen, SMTT(30) DEF SchedulerTypeOK
  <2>2. QED  BY <1>0, <2>1, SeqElement DEF SchedulerTypeOK, NewestKept, EngineCodes
<1>1. CASE SubmitClosed(r) \/ SubmitRejected(r)
  <2>1. /\ UNCHANGED <<queue_, accepted>>
        /\ \E o \in {"shut_down", "queue_full"} : outcome' = Settled({r}, o)
    BY <1>1 DEF SubmitClosed, SubmitRejected
  <2>2. /\ outcome'[r] \in {"shut_down", "queue_full"}
        /\ \A q \in Requests \ {r} : outcome'[q] = outcome[q]
        /\ outcome' \in [Requests -> Outcomes \cup {"unsubmitted", "pending"}]
    BY <2>1 DEF Settled, SchedulerTypeOK, Outcomes
  <2>3. SchedulerTypeOK'  BY <1>0, <2>1, <2>2 DEF SchedulerTypeOK
  <2>4. WorkerCalls' /\ Distinct' /\ Closing'
    BY <1>0, <2>1 DEF WorkerCalls, Distinct, Closing, At
  <2>5. Owned'
    <3>1. Queued' = Queued  BY <2>1 DEF Queued
    <3>2. QED  BY <1>0, <2>2, <3>1 DEF Owned
  <2>6. InOrder'  BY <1>0, <2>1 DEF InOrder
  <2>7. NewestKept'  BY <1>0, <1>a, <2>1, <2>2 DEF NewestKept
  <2>8. QED  BY <2>3, <2>4, <2>5, <2>6, <2>7
<1>2. CASE SubmitAccepted(r)
  <2> DEFINE k == Overflow
             superseded == {queue_[i] : i \in 1..k}
  <2>1. k \in 0..Len(queue_) /\ Len(queue_) \in Nat
    BY SchedulerAssumption, SeqLen, SMTT(30) DEF Overflow, Full, SchedulerTypeOK
  <2>2. /\ ~ closed_
        /\ outcome' = [Settled(superseded, "superseded") EXCEPT ![r] = "pending"]
        /\ queue_' = Append(SubSeq(queue_, k + 1, Len(queue_)), r)
        /\ accepted' = Append(accepted, r)
    BY <1>2 DEF SubmitAccepted
  <2> HIDE DEF k
  <2>3. /\ queue_' \in Seq(Requests) /\ Len(queue_') = Len(queue_) - k + 1
        /\ \A i \in 1..(Len(queue_) - k) : queue_'[i] = queue_[i + k]
        /\ queue_'[Len(queue_) - k + 1] = r
    BY <2>1, <2>2, Shifted, SMTT(30) DEF SchedulerTypeOK
  <2>a. /\ \A i \in 1..Len(queue_') : i \in 1..(Len(queue_) - k) \/ i = Len(queue_) - k + 1
        /\ \A i \in 1..(Len(queue_) - k) : i \in 1..Len(queue_')
        /\ Len(queue_) - k + 1 \in 1..Len(queue_')
    <3>1. Len(queue_') = Len(queue_) - k + 1  BY <2>3
    <3>2. QED  BY <2>1, <3>1, SMTT(30)
  <2>4. /\ outcome'[r] = "pending"
        /\ \A q \in Requests \ {r} : outcome'[q] = IF q \in superseded THEN "superseded" ELSE outcome[q]
        /\ outcome' \in [Requests -> Outcomes \cup {"unsubmitted", "pending"}]
    BY <2>2 DEF Settled, SchedulerTypeOK, Outcomes
  <2> HIDE DEF superseded
  <2>5. SchedulerTypeOK' /\ WorkerCalls' /\ Closing'
    BY <1>0, <2>2, <2>3, <2>4, AcceptedGrows DEF SchedulerTypeOK, WorkerCalls, Closing, At
  <2>6. Distinct'
    <3>1. \A i \in 1..(Len(queue_) - k) : queue_'[i] # r
      <4>1. \A i \in 1..(Len(queue_) - k) : i + k \in 1..Len(queue_)  BY <2>1, SMTT(30)
      <4>2. \A j \in 1..Len(queue_) : queue_[j] # r  BY <1>0 DEF Queued
      <4>3. QED  BY <2>3, <4>1, <4>2
    <3>2. \A i, j \in 1..(Len(queue_) - k) : queue_'[i] = queue_'[j] => i = j
      <4> SUFFICES ASSUME NEW i \in 1..(Len(queue_) - k), NEW j \in 1..(Len(queue_) - k),
                          queue_'[i] = queue_'[j]
                   PROVE  i = j
        OBVIOUS
      <4>1. i + k \in 1..Len(queue_) /\ j + k \in 1..Len(queue_)  BY <2>1, SMTT(30)
      <4>2. i + k = j + k  BY <2>3, <4>1 DEF Distinct
      <4>3. QED  BY <2>1, <4>2, SMTT(30)
    <3>3. QED  BY <2>3, <2>a, <3>1, <3>2 DEF Distinct
  <2>7. Owned'
    <3>1. Queued' = (Queued \ superseded) \cup {r}
      <4>1. \A q : q \in Queued' <=> q = r \/ \E i \in 1..(Len(queue_) - k) : q = queue_[i + k]
        <5>1. \A q : q \in Queued' <=> \E i \in 1..Len(queue_') : q = queue_'[i]
          BY DEF Queued
        <5>2. \A i \in 1..Len(queue_') :
                 \/ queue_'[i] = r
                 \/ i \in 1..(Len(queue_) - k) /\ queue_'[i] = queue_[i + k]
          BY <2>3, <2>a
        <5>3. ASSUME NEW q, q \in Queued'
              PROVE  q = r \/ \E i \in 1..(Len(queue_) - k) : q = queue_[i + k]
          BY <5>1, <5>2, <5>3
        <5>4. r \in Queued'
          BY <2>3, <2>a, <5>1
        <5>5. ASSUME NEW i \in 1..(Len(queue_) - k)
              PROVE  queue_[i + k] \in Queued'
          BY <2>3, <2>a, <5>1
        <5>6. QED  BY <5>3, <5>4, <5>5
      <4>2. \A q : (\E i \in 1..(Len(queue_) - k) : q = queue_[i + k])
                       <=> \E j \in (k + 1)..Len(queue_) : q = queue_[j]
        <5>1. \A j \in (k + 1)..Len(queue_) : j - k \in 1..(Len(queue_) - k) /\ (j - k) + k = j
          BY <2>1, SMTT(30)
        <5>2. \A i \in 1..(Len(queue_) - k) : i + k \in (k + 1)..Len(queue_)
          BY <2>1, SMTT(30)
        <5>3. QED  BY <5>1, <5>2
      <4>3. \A q : (\E j \in (k + 1)..Len(queue_) : q = queue_[j]) <=> q \in Queued \ superseded
        <5>1. \A j \in (k + 1)..Len(queue_), i \in 1..k : queue_[j] # queue_[i]
          BY <2>1, SMTT(30) DEF Distinct
        <5>2. \A j \in 1..Len(queue_) : j \in 1..k \/ j \in (k + 1)..Len(queue_)
          BY <2>1, SMTT(30)
        <5>3. QED  BY <2>1, <5>1, <5>2, SMTT(30) DEF Queued, superseded
      <4>4. QED  BY <4>1, <4>2, <4>3
    <3>2. superseded \subseteq Queued  BY <2>1, SMTT(30) DEF Queued, superseded
    <3>3. QED  BY <1>0, <2>4, <3>1, <3>2 DEF Owned
  <2>8. InOrder'
    <3>1. /\ Among(accepted', r)
          /\ \A a : Among(accepted, a) => Among(accepted', a) /\ Earlier(accepted', a, r)
          /\ \A a, b : Earlier(accepted, a, b) => Earlier(accepted', a, b)
      BY <2>2, AcceptedGrows DEF SchedulerTypeOK
    <3>2. \A i \in 1..Len(queue_') : \/ i \in 1..(Len(queue_) - k) /\ i + k \in 1..Len(queue_)
                                     \/ i = Len(queue_) - k + 1
      BY <2>1, <2>3, SMTT(30)
    <3>3. \A i \in 1..Len(queue_') : Among(accepted', queue_'[i])
      BY <2>3, <3>1, <3>2 DEF InOrder
    <3>4. \A i, j \in 1..Len(queue_') : i < j => Earlier(accepted', queue_'[i], queue_'[j])
      <4> SUFFICES ASSUME NEW i \in 1..Len(queue_'), NEW j \in 1..Len(queue_'), i < j
                   PROVE  Earlier(accepted', queue_'[i], queue_'[j])
        OBVIOUS
      <4>1. i \in 1..(Len(queue_) - k) /\ i + k \in 1..Len(queue_)
        BY <2>1, <2>3, SMTT(30)
      <4>2. CASE j = Len(queue_) - k + 1
        BY <2>3, <3>1, <4>1, <4>2 DEF InOrder
      <4>3. CASE j \in 1..(Len(queue_) - k) /\ j + k \in 1..Len(queue_)
        <5>1. i + k < j + k  BY <2>1, SMTT(30)
        <5>2. QED  BY <2>3, <3>1, <4>1, <4>3, <5>1 DEF InOrder
      <4>4. QED  BY <3>2, <4>2, <4>3
    <3>5. \A i \in 1..Len(taken), j \in 1..Len(queue_') : Earlier(accepted', taken[i], queue_'[j])
      BY <2>3, <3>1, <3>2 DEF InOrder
    <3>6. QED  BY <1>0, <3>1, <3>3, <3>4, <3>5 DEF InOrder
  <2>9. NewestKept'
    BY <2>2, <2>4, AcceptedGrows DEF NewestKept, SchedulerTypeOK
  <2>10. QED  BY <2>5, <2>6, <2>7, <2>8, <2>9
<1>3. QED  BY <1>1, <1>2 DEF submit

LEMMA TakeKeeps ==
    ASSUME SchedulerInv, EngineTypeOK, Sited, Take
    PROVE  SchedulerInv'
<1> USE DEF SchedulerInv
<1>1. /\ queue_ # <<>> /\ worker = "check" /\ worker' = "inferring"
      /\ queue_' = Tail(queue_) /\ taken' = Append(taken, Head(queue_))
      /\ UNCHANGED <<closed_, outcome, closer, accepted>>
      /\ At(Worker, "idle")
      /\ call' = [call EXCEPT ![Worker].pc = "enter", ![Worker].job = Head(queue_)]
  BY DEF Take, Call
<1>2. /\ Head(queue_) = queue_[1] /\ queue_[1] \in Requests
      /\ queue_' \in Seq(Requests) /\ Len(queue_') = Len(queue_) - 1
      /\ \A i \in 1..Len(queue_') : queue_'[i] = queue_[i + 1]
      /\ Len(queue_) \in Nat \ {0}
  <2>1. Len(queue_) \in Nat \ {0}
    BY <1>1, SeqLen, SeqEmpty DEF SchedulerTypeOK
  <2>2. /\ Head(queue_) \in Requests /\ Tail(queue_) \in Seq(Requests)
        /\ Len(Tail(queue_)) = Len(queue_) - 1
        /\ \A i \in 1 .. Len(Tail(queue_)) : Tail(queue_)[i] = queue_[i + 1]
    BY <1>1, SeqHeadTail DEF SchedulerTypeOK
  <2>3. Head(queue_) = queue_[1]
    BY <1>1, SMTT(30) DEF SchedulerTypeOK
  <2>4. QED  BY <1>1, <2>1, <2>2, <2>3
<1>3. /\ taken' \in Seq(Requests) /\ Len(taken') = Len(taken) + 1 /\ Len(taken) \in Nat
      /\ \A i \in 1..Len(taken) : taken'[i] = taken[i]
      /\ taken'[Len(taken) + 1] = queue_[1]
  BY <1>1, <1>2, SeqAppend, SeqLen, SMTT(30) DEF SchedulerTypeOK
<1>4. call'[Worker].pc = "enter" /\ call'[Worker].job = queue_[1]
  BY <1>1, <1>2, SchedulerAssumption DEF EngineTypeOK, Calls
<1>5. SchedulerTypeOK' /\ Closing'
  BY <1>1, <1>2, <1>3 DEF SchedulerTypeOK, Closing
<1>6. WorkerCalls'
  BY <1>1, <1>2, <1>4 DEF WorkerCalls, At
<1>7. Distinct'
  BY <1>2, SMTT(30) DEF Distinct
<1>8. Owned'
  <2>1. call[Worker].job = None
    BY <1>1, SchedulerAssumption, SMTT(30) DEF Sited, Idle
  <2>2. Queued = Queued' \cup {queue_[1]} /\ queue_[1] \notin Queued'
    <3>1. \A j \in 1..Len(queue_) : j = 1 \/ (j - 1 \in 1..Len(queue_') /\ (j - 1) + 1 = j)
      BY <1>2, SMTT(30)
    <3>2. \A i \in 1..Len(queue_') : i + 1 \in 1..Len(queue_) /\ i + 1 # 1
      BY <1>2, SMTT(30)
    <3>3. 1 \in 1..Len(queue_)  BY <1>2, SMTT(30)
    <3>4. \A a : a \in Queued' <=> \E i \in 1..Len(queue_') : a = queue_'[i]
      BY DEF Queued
    <3>5. \A a : a \in Queued <=> \E i \in 1..Len(queue_) : a = queue_[i]
      BY DEF Queued
    <3>6. queue_[1] \notin Queued'
      <4>1. \A j \in 1..Len(queue_) : queue_[1] = queue_[j] => j = 1
        BY <3>3 DEF Distinct
      <4>2. \A i \in 1..Len(queue_') : queue_[1] # queue_'[i]
        BY <1>2, <3>2, <4>1
      <4>3. QED  BY <3>4, <4>2
    <3>7. \A a : a \in Queued <=> a \in Queued' \/ a = queue_[1]
      <4>1. \A j \in 1..Len(queue_) : queue_[j] = queue_[1] \/ queue_[j] \in Queued'
        BY <1>2, <3>1, <3>4
      <4>2. \A i \in 1..Len(queue_') : queue_'[i] \in Queued
        BY <1>2, <3>2, <3>5
      <4>3. QED  BY <3>3, <3>4, <3>5, <4>1, <4>2
    <3>8. QED  BY <3>6, <3>7
  <2>3. QED  BY <1>1, <1>4, <2>1, <2>2, EngineAssumption DEF Owned
<1>9. InOrder'
  <2>1. \A i \in 1..Len(queue_') : i + 1 \in 1..Len(queue_) /\ 1 < i + 1
    BY <1>2, SMTT(30)
  <2>2. 1 \in 1..Len(queue_)  BY <1>2, SMTT(30)
  <2>3. \A i \in 1..Len(taken') : i \in 1..Len(taken) \/ i = Len(taken) + 1
    BY <1>3, SMTT(30)
  <2>4. \A i \in 1..Len(taken') : Among(accepted, taken'[i])
    BY <1>3, <2>2, <2>3 DEF InOrder
  <2>5. \A i, j \in 1..Len(taken') : i < j => Earlier(accepted, taken'[i], taken'[j])
    <3> SUFFICES ASSUME NEW i \in 1..Len(taken'), NEW j \in 1..Len(taken'), i < j
                 PROVE  Earlier(accepted, taken'[i], taken'[j])
      OBVIOUS
    <3>1. i \in 1..Len(taken)  BY <1>3, SMTT(30)
    <3>2. QED  BY <1>3, <2>2, <2>3, <3>1 DEF InOrder
  <2>6. \A i, j \in 1..Len(queue_') : i < j => Earlier(accepted, queue_'[i], queue_'[j])
    <3> SUFFICES ASSUME NEW i \in 1..Len(queue_'), NEW j \in 1..Len(queue_'), i < j
                 PROVE  Earlier(accepted, queue_'[i], queue_'[j])
      OBVIOUS
    <3>1. i + 1 < j + 1  BY <1>2, SMTT(30)
    <3>2. QED  BY <1>2, <2>1, <3>1 DEF InOrder
  <2>7. \A i \in 1..Len(taken'), j \in 1..Len(queue_') : Earlier(accepted, taken'[i], queue_'[j])
    BY <1>2, <1>3, <2>1, <2>2, <2>3 DEF InOrder
  <2>8. \A i \in 1..Len(queue_') : Among(accepted, queue_'[i])
    BY <1>2, <2>1 DEF InOrder
  <2>9. QED  BY <1>1, <2>4, <2>5, <2>6, <2>7, <2>8 DEF InOrder
<1>10. QED  BY <1>1, <1>5, <1>6, <1>7, <1>8, <1>9 DEF NewestKept

LEMMA DeliverKeeps ==
    ASSUME SchedulerInv, EngineTypeOK, Sited, Deliver
    PROVE  SchedulerInv'
<1> USE DEF SchedulerInv
<1>1. /\ worker = "inferring" /\ worker' = "check"
      /\ outcome' = Settled({call[Worker].job}, call[Worker].code)
      /\ UNCHANGED <<queue_, closed_, closer, accepted, taken>>
      /\ call'[Worker] = Idle
      /\ ~ At(Worker, "idle")
  BY SchedulerAssumption DEF Deliver, Collect, EngineTypeOK, At
<1>2. call[Worker].job \in Requests /\ call[Worker].code \in EngineCodes
  BY <1>1, SchedulerAssumption DEF WorkerCalls, EngineTypeOK, Calls
<1>3. /\ outcome'[call[Worker].job] \in EngineCodes
      /\ \A q \in Requests \ {call[Worker].job} : outcome'[q] = outcome[q]
      /\ outcome' \in [Requests -> Outcomes \cup {"unsubmitted", "pending"}]
  BY <1>1, <1>2 DEF Settled, SchedulerTypeOK, Outcomes
<1>4. SchedulerTypeOK' /\ Closing'
  BY <1>1, <1>3 DEF SchedulerTypeOK, Closing
<1>5. WorkerCalls' /\ Distinct'
  <2>1. call'[Worker].pc = "idle"  BY <1>1, IdleCall
  <2>2. WorkerCalls'  BY <1>1, <2>1 DEF WorkerCalls, At
  <2>3. QED  BY <1>1, <2>2 DEF Distinct
<1>6. Owned'
  <2>1. Queued' = Queued  BY <1>1 DEF Queued
  <2>2. call'[Worker].job = None  BY <1>1, IdleCall
  <2>3. None \notin Queued
    <3>1. Queued \subseteq Requests  BY SeqElement DEF Queued, SchedulerTypeOK
    <3>2. QED  BY <3>1, EngineAssumption
  <2>4. outcome'[call[Worker].job] # "pending"  BY <1>3 DEF EngineCodes
  <2>5. QED  BY <1>2, <1>3, <2>1, <2>2, <2>3, <2>4, EngineAssumption DEF Owned
<1>7. InOrder'  BY <1>1 DEF InOrder
<1>8. NewestKept'
  <2>1. accepted # <<>> => accepted[Len(accepted)] \in Requests
    BY SeqEmpty, SeqLen, SeqElement, SMTT(30) DEF SchedulerTypeOK
  <2>2. QED  BY <1>1, <1>3, <2>1 DEF NewestKept
<1>9. QED  BY <1>4, <1>5, <1>6, <1>7, <1>8

LEMMA CloseKeeps ==
    ASSUME SchedulerInv, EngineTypeOK, Sited, NEW c \in Closers, Close(c)
    PROVE  SchedulerInv'
<1> USE DEF SchedulerInv
<1>1. /\ ~ closed_ /\ closed_' = TRUE /\ queue_' = <<>>
      /\ outcome' = Settled(Queued, "shut_down")
      /\ closer' = [closer EXCEPT ![c] = "notify"]
      /\ UNCHANGED <<call, worker, accepted, taken>>
  BY DEF Close, ClearedQueue, engineVars
<1>2. /\ \A q \in Requests : outcome'[q] = IF q \in Queued THEN "shut_down" ELSE outcome[q]
      /\ outcome' \in [Requests -> Outcomes \cup {"unsubmitted", "pending"}]
  BY <1>1 DEF Settled, SchedulerTypeOK, Outcomes
<1>3. Len(queue_') = 0 /\ queue_' \in Seq(Requests)
  BY <1>1, SeqEmpty
<1>4. Queued' = {}
  BY <1>3, SMTT(30) DEF Queued
<1>5. SchedulerTypeOK'
  BY <1>1, <1>2, <1>3 DEF SchedulerTypeOK
<1>6. Closing'
  BY <1>1 DEF Closing, SchedulerTypeOK
<1>7. WorkerCalls' /\ Distinct' /\ NewestKept'
  BY <1>1, <1>3, SMTT(30) DEF WorkerCalls, Distinct, NewestKept, At
<1>8. Owned'
  BY <1>1, <1>2, <1>4 DEF Owned
<1>9. InOrder'
  BY <1>1, <1>3, SMTT(30) DEF InOrder
<1>10. QED  BY <1>5, <1>6, <1>7, <1>8, <1>9

LEMMA SchedulerInductive ==
    ASSUME SchedulerInv, EngineTypeOK, Sited, [Next]_vars
    PROVE  SchedulerInv'
<1>k. Kept /\ Closing  BY DEF SchedulerInv, Kept
<1>s. UNCHANGED call => WorkerStays
  BY <1>k DEF WorkerStays, Kept, WorkerCalls, ResetLabels, At
<1>t. /\ worker \in {"check", "waiting", "inferring", "exited"}
      /\ closer \in [Closers -> {"idle", "notify", "join", "returned", "skipped"}]
  BY <1>k DEF Kept, SchedulerTypeOK
<1>q. ASSUME Kept', Closing' PROVE SchedulerInv'
  BY <1>q DEF SchedulerInv, Kept
<1>1. ASSUME NEW r \in Requests, submit(r) PROVE SchedulerInv'
  BY <1>1, SubmitKeeps
<1>2. CASE Take  BY <1>2, TakeKeeps
<1>3. CASE Deliver  BY <1>3, DeliverKeeps
<1>4. ASSUME NEW c \in Closers, Close(c) PROVE SchedulerInv'
  BY <1>4, CloseKeeps
<1>5. ASSUME NEW t \in Threads, EngineStep(t) \/ (t # Worker /\ (EngineReset(t) \/ EngineCollect(t)))
      PROVE  SchedulerInv'
  <2>1. WorkerStays  BY <1>5, <1>k, EngineKeepsWorker DEF Kept
  <2>2. UNCHANGED <<queue_, closed_, outcome, accepted, taken, worker, closer>>
    BY <1>5 DEF EngineStep, EngineReset, EngineCollect, schedulerVars
  <2>3. Kept'  BY <1>k, <1>t, <2>1, <2>2, Quiet
  <2>4. Closing'  BY <1>k, <2>2 DEF Closing
  <2>5. QED  BY <1>q, <2>3, <2>4
<1>6. CASE Environment \/ UNCHANGED vars
  <2>1. UNCHANGED <<call, queue_, closed_, outcome, accepted, taken, worker, closer>>
    BY <1>6 DEF Environment, request_cancellation, Expire, schedulerVars, vars, engineVars
  <2>2. Kept'  BY <1>k, <1>s, <1>t, <2>1, Quiet
  <2>3. Closing'  BY <1>k, <2>1 DEF Closing
  <2>4. QED  BY <1>q, <2>2, <2>3
<1>7. CASE Wait \/ Exit \/ SpuriousWakeup \/ \E r \in Requests : NotifyOne(r)
  <2>1. UNCHANGED <<call, queue_, closed_, outcome, accepted, taken, closer>>
    BY <1>7 DEF Wait, Exit, SpuriousWakeup, NotifyOne, engineVars
  <2>2. /\ worker' \in {"check", "waiting", "inferring", "exited"}
        /\ worker' = "inferring" <=> worker = "inferring"
        /\ worker' = "exited" => worker = "exited" \/ closed_
        /\ worker = "exited" => worker' = "exited"
    BY <1>7, <1>t DEF Wait, Exit, SpuriousWakeup, NotifyOne, Wake
  <2>3. Kept'  BY <1>k, <1>s, <1>t, <2>1, <2>2, Quiet
  <2>4. Closing'  BY <1>k, <2>1, <2>2 DEF Closing
  <2>5. QED  BY <1>q, <2>3, <2>4
<1>8. ASSUME NEW c \in Closers, AlreadyClosed(c) \/ NotifyAll(c) \/ Join(c)
      PROVE  SchedulerInv'
  <2>1. UNCHANGED <<call, queue_, closed_, outcome, accepted, taken>>
    BY <1>8 DEF AlreadyClosed, NotifyAll, Join, engineVars
  <2>2. /\ worker' \in {"check", "waiting", "inferring", "exited"}
        /\ worker' = "inferring" <=> worker = "inferring"
        /\ worker' = "exited" <=> worker = "exited"
    BY <1>8, <1>t DEF AlreadyClosed, NotifyAll, Join, Wake
  <2>3. /\ closer' \in [Closers -> {"idle", "notify", "join", "returned", "skipped"}]
        /\ \A d \in Closers \ {c} : closer'[d] = closer[d]
        /\ closer[c] # "idle" \/ closed_
        /\ closer'[c] = "returned" => worker = "exited"
    BY <1>8, <1>t DEF AlreadyClosed, NotifyAll, Join, Joinable
  <2>4. Kept'  BY <1>k, <1>s, <2>1, <2>2, <2>3, Quiet
  <2>5. Closing'  BY <1>k, <2>1, <2>2, <2>3 DEF Closing
  <2>6. QED  BY <1>q, <2>4, <2>5
<1>9. QED
  BY <1>1, <1>2, <1>3, <1>4, <1>5, <1>6, <1>7, <1>8, SchedulerAssumption DEF Next,
     WorkerStep, CloserStep
-----------------------------------------------------------------------------
(* What the scheduler guarantees *)

Inv == EngineInv /\ SchedulerInv

LEMMA SchedulerStarts == Init => Inv
<1> SUFFICES ASSUME Init PROVE Inv  OBVIOUS
<1>1. EngineInv  BY EngineStarts DEF Init
<1>2. Len(<<>>) = 0 /\ <<>> \in Seq(Requests)  BY SeqEmpty
<1>3. /\ queue_ = <<>> /\ accepted = <<>> /\ taken = <<>> /\ closed_ = FALSE /\ worker = "check"
      /\ outcome = [r \in Requests |-> "unsubmitted"] /\ closer = [c \in Closers |-> "idle"]
      /\ call[Worker] = Idle
  BY SchedulerAssumption DEF Init, EngineInit
<1>4. Queued = {}  BY <1>2, <1>3, SMTT(30) DEF Queued
<1>5. SchedulerTypeOK  BY <1>2, <1>3 DEF SchedulerTypeOK
<1>6. WorkerCalls
  <2>1. call[Worker].pc = "idle"  BY <1>3, IdleCall
  <2>2. QED  BY <1>3, <2>1 DEF WorkerCalls, At
<1>7. Owned  BY <1>3, <1>4, EngineAssumption, SMTT(30) DEF Owned, Idle
<1>8. Distinct /\ InOrder /\ NewestKept /\ Closing
  BY <1>2, <1>3, SMTT(30) DEF Distinct, InOrder, NewestKept, Closing
<1>9. QED  BY <1>1, <1>5, <1>6, <1>7, <1>8 DEF Inv, SchedulerInv

LEMMA SchedulerStep == Inv /\ [Next]_vars => Inv'
<1> SUFFICES ASSUME Inv, [Next]_vars PROVE Inv'  OBVIOUS
<1>1. [EngineNext]_engineVars
  BY StepUsesEngine DEF Inv, SchedulerInv, SchedulerTypeOK
<1>2. EngineInv'  BY <1>1, EngineInductive DEF Inv
<1>3. SchedulerInv'  BY SchedulerInductive DEF Inv, EngineInv
<1>4. QED  BY <1>2, <1>3 DEF Inv

LEMMA SchedulerAlways == Spec => []Inv
<1>1. QED  BY SchedulerStarts, SchedulerStep, PTL DEF Spec

\* A request whose token was cancelled or whose deadline passed while its thread
\* waited for backend_mutex_ never reaches backend_->infer, whatever the threads do.
THEOREM LateCallsStop == Spec => []LateNeverReachesBackend
<1>1. Inv => LateNeverReachesBackend  BY EngineInvImplies DEF Inv
<1>2. QED  BY <1>1, SchedulerAlways, PTL

\* Engine::reset returns ok only after every processor and the backend were reset,
\* with no inference between.
THEOREM ResetIsComplete == Spec => []ResetLeavesNothingDirty
<1>1. Inv => ResetLeavesNothingDirty  BY EngineInvImplies DEF Inv
<1>2. QED  BY <1>1, SchedulerAlways, PTL

\* record_result counts every call exactly once for any number of threads.
THEOREM NoCallIsLost == Spec => []EveryCallCounted
<1>1. Inv => EveryCallCounted  BY EngineInvImplies DEF Inv
<1>2. QED  BY <1>1, SchedulerAlways, PTL

\* The compare-exchange loop of record_result never loses a maximum.
THEOREM MaximumIsKept == Spec => []MaximumLatencyKept
<1>1. Inv => MaximumLatencyKept  BY EngineInvImplies DEF Inv
<1>2. QED  BY <1>1, SchedulerAlways, PTL

\* Every promise that is not yet set belongs to one queued task or to the worker.
THEOREM PromisesAreOwned == Spec => []PendingIsOwned
<1>1. ASSUME Inv PROVE PendingIsOwned
  <2>1. queue_ \in Seq(Requests) /\ Distinct /\ Owned
    BY <1>1 DEF Inv, SchedulerInv, SchedulerTypeOK
  <2>2. Len(queue_) \in Nat /\ queue_ \in [1..Len(queue_) -> Requests]
    BY <2>1, SeqLen
  <2>3. queue_ \in Bijection(1..Len(queue_), Queued)
    BY <2>1, <2>2 DEF Bijection, Injection, Surjection, IsInjective, Distinct, Queued
  <2>4. IsFiniteSet(1..Len(queue_)) /\ Cardinality(1..Len(queue_)) = Len(queue_)
    <3>1. Len(queue_) < 1 => Len(queue_) = 0  BY <2>2, SMTT(30)
    <3>2. QED  BY <2>2, <3>1, FS_Interval, SMTT(30)
  <2>5. Cardinality(Queued) = Len(queue_)
    BY <2>3, <2>4, FS_Bijection DEF ExistsBijection
  <2>6. QED  BY <2>1, <2>5 DEF Owned, PendingIsOwned
<1>2. QED  BY <1>1, SchedulerAlways, PTL

\* Superseding takes the oldest task: the newest accepted one is never dropped while the
\* scheduler is open, and worker_loop starts tasks in the order of submission.
THEOREM NewestIsKept == Spec => []NewestWins
<1>1. Inv => NewestWins
  BY DEF Inv, SchedulerInv, NewestKept, InOrder, Earlier, NewestWins
<1>2. QED  BY <1>1, SchedulerAlways, PTL

\* shutdown() returns from its join only with the worker gone and every promise set.
THEOREM ShutdownEndsAll == Spec => []ShutdownIsFinal
<1>1. ASSUME Inv PROVE ShutdownIsFinal
  <2> SUFFICES ASSUME NEW c \in Closers, closer[c] = "returned"
               PROVE  /\ worker = "exited" /\ At(Worker, "idle")
                      /\ \A r \in Requests : outcome[r] # "pending"
    BY DEF ShutdownIsFinal
  <2>1. worker = "exited" /\ closed_ /\ queue_ = <<>>
    BY <1>1 DEF Inv, SchedulerInv, Closing
  <2>2. At(Worker, "idle")
    BY <1>1, <2>1 DEF Inv, SchedulerInv, WorkerCalls
  <2>3. call[Worker].job = None
    <3>1. Sited  BY <1>1 DEF Inv, EngineInv
    <3>2. call[Worker] = Idle  BY <2>2, <3>1, SchedulerAssumption DEF Sited
    <3>3. QED  BY <3>2, IdleCall
  <2>4. Queued = {}  BY <2>1, SeqEmpty, SMTT(30) DEF Queued
  <2>5. QED
    BY <1>1, <2>1, <2>2, <2>3, <2>4, EngineAssumption DEF Inv, SchedulerInv, Owned
<1>2. QED  BY <1>1, SchedulerAlways, PTL

LEMMA StepKeepsLedger ==
    ASSUME Inv, [Next]_vars
    PROVE  [Ledger!Next]_outcome
<1>0. /\ outcome \in [Requests -> Outcomes \cup {"unsubmitted", "pending"}]
      /\ Owned /\ SchedulerTypeOK /\ EngineTypeOK /\ WorkerCalls
  BY DEF Inv, SchedulerInv, EngineInv, SchedulerTypeOK
<1>1. ASSUME NEW r \in Requests, submit(r) PROVE Ledger!Next
  <2>0. outcome[r] = "unsubmitted"  BY <1>1 DEF submit
  <2>1. CASE SubmitClosed(r) \/ SubmitRejected(r)
    <3>1. PICK o \in {"shut_down", "queue_full"} : outcome' = Settled({r}, o)
      BY <2>1 DEF SubmitClosed, SubmitRejected
    <3>2. outcome' = [outcome EXCEPT ![r] = o]
      BY <1>0, <3>1 DEF Settled
    <3>3. o \in Outcomes \cup {"pending"}  BY DEF Outcomes
    <3>4. Ledger!Submit(r)  BY <2>0, <3>2, <3>3 DEF Ledger!Submit
    <3>5. QED  BY <3>4 DEF Ledger!Next
  <2>2. CASE SubmitAccepted(r)
    <3> DEFINE gone == {queue_[i] : i \in 1..Overflow}
    <3>1. gone \in SUBSET {q \in Requests : outcome[q] = "pending"}
      <4>1. Overflow \in Nat /\ Overflow <= Len(queue_) /\ Len(queue_) \in Nat
        BY <1>0, SchedulerAssumption, SeqLen, SMTT(30) DEF Overflow, Full, SchedulerTypeOK
      <4>2. \A i \in 1..Overflow : i \in 1..Len(queue_)  BY <4>1, SMTT(30)
      <4>3. \A i \in 1..Len(queue_) : queue_[i] \in Requests /\ queue_[i] \in Queued
        BY <1>0, SeqElement DEF SchedulerTypeOK, Queued
      <4>4. QED  BY <1>0, <4>2, <4>3 DEF Owned
    <3>2. outcome' = [Settled(gone, "superseded") EXCEPT ![r] = "pending"]
      BY <2>2 DEF SubmitAccepted
    <3> HIDE DEF gone
    <3>3. outcome' = [q \in Requests |-> IF q = r THEN "pending"
                                         ELSE IF q \in gone THEN "superseded" ELSE outcome[q]]
      BY <3>2 DEF Settled
    <3>4. "superseded" \in Outcomes  BY DEF Outcomes
    <3>5. Ledger!SubmitReplacing(r)  BY <2>0, <3>1, <3>3, <3>4 DEF Ledger!SubmitReplacing
    <3>6. QED  BY <3>5 DEF Ledger!Next
  <2>3. QED  BY <1>1, <2>1, <2>2 DEF submit
<1>2. CASE Deliver
  <2>1. /\ outcome' = Settled({call[Worker].job}, call[Worker].code)
        /\ call[Worker].job \in Requests /\ call[Worker].code \in Outcomes
    BY <1>0, <1>2, SchedulerAssumption DEF Deliver, Collect, WorkerCalls,
       EngineTypeOK, Calls, Outcomes, At
  <2>2. {call[Worker].job} \in SUBSET {q \in Requests : outcome[q] = "pending"}
    BY <1>0, <2>1 DEF Owned
  <2>3. Ledger!Settle  BY <2>1, <2>2 DEF Ledger!Settle, Settled
  <2>4. QED  BY <2>3 DEF Ledger!Next
<1>3. ASSUME NEW c \in Closers, Close(c) PROVE Ledger!Next
  <2>1. outcome' = Settled(Queued, "shut_down") /\ "shut_down" \in Outcomes
    BY <1>3 DEF Close, Outcomes
  <2>2. Queued \in SUBSET {q \in Requests : outcome[q] = "pending"}
    <3>1. Queued \subseteq Requests  BY <1>0, SeqElement DEF Queued, SchedulerTypeOK
    <3>2. QED  BY <1>0, <3>1 DEF Owned
  <2>3. Ledger!Settle  BY <2>1, <2>2 DEF Ledger!Settle, Settled
  <2>4. QED  BY <2>3 DEF Ledger!Next
<1>4. CASE \/ Wait \/ Exit \/ SpuriousWakeup \/ Take \/ Environment \/ UNCHANGED vars
           \/ \E r \in Requests : NotifyOne(r)
           \/ \E c \in Closers : AlreadyClosed(c) \/ CloserStep(c)
           \/ \E t \in Threads : EngineStep(t) \/ EngineReset(t) \/ EngineCollect(t)
  BY <1>4 DEF Wait, Exit, SpuriousWakeup, Take, Environment, vars, schedulerVars,
     NotifyOne,
              AlreadyClosed, CloserStep, NotifyAll, Join, EngineStep, EngineReset, EngineCollect
<1>5. QED
  BY <1>1, <1>2, <1>3, <1>4, SchedulerAssumption DEF Next, WorkerStep

\* Superseding, rejecting, delivering and shutting down never set a promise twice nor
\* change one that was set: the scheduler implements the safety part of the ledger.
THEOREM PromisesAreSetOnce == Spec => Ledger!Safe
<1>1. Init => Ledger!Init  BY DEF Init, Ledger!Init
<1>2. QED  BY <1>1, SchedulerAlways, StepKeepsLedger, PTL DEF Spec, Ledger!Safe
=============================================================================
