--------------------------- MODULE MCPythonFutures --------------------------
(* The three Python components that hand out concurrent.futures futures: the  *)
(* request scheduler, the vision batcher and the micro pipeline.  A behaviour *)
(* is one of them, chosen at the start, with a holder that may cancel.        *)
EXTENDS InferenceScheduler, TLC

CONSTANTS Odd, Stages, MaxInFlight, None

VARIABLES chosen, batcher, pipeline

MCWorkers == {<<1, 1>>, <<2, 1>>}

Batcher == INSTANCE VisionBatcher
Pipeline == INSTANCE MicroPipeline WITH Workers <- MCWorkers

vars == <<chosen, schedulerVars, batcher, pipeline>>
schedulerOnly == <<queue, stop, stats, submitting, worker, lists, closer, late>>

Init ==
    /\ chosen \in {"scheduler", "batcher", "pipeline"}
    /\ SchedulerInit /\ Batcher!BatcherInit /\ Pipeline!PipelineInit

SchedulerNext ==
    \/ \E r \in Requests : submit(r) \/ CountSubmitted(r)
    \/ WorkerStep
    \/ \E c \in Closers : CloserStep(c)

Next ==
    \/ /\ chosen = "scheduler"
       /\ SchedulerNext
       /\ UNCHANGED <<chosen, batcher, pipeline>>
    \/ chosen = "batcher" /\ Batcher!Next /\ UNCHANGED <<chosen, schedulerOnly, pipeline>>
    \/ chosen = "pipeline" /\ Pipeline!Next /\ UNCHANGED <<chosen, schedulerOnly, expired, batcher>>
    \/ \E r \in Requests : Cancel(r) /\ UNCHANGED <<chosen, batcher, pipeline>>
    \/ \E r \in Requests : /\ outcome[r] \in {"unsubmitted", "pending"}
                           /\ chosen # "pipeline"
                           /\ Expire(r) /\ UNCHANGED <<chosen, batcher, pipeline>>

Spec == Init /\ [][Next]_vars

\* Nobody who waits is forgotten: PendingIsHeld of the request scheduler
\* (core/scheduler.py), BatcherHoldsPending of the vision batcher (_worker in
\* models/pi05/vision_batch.py).
WaitersAreHeld ==
    /\ chosen = "scheduler" => PendingIsHeld
    /\ chosen = "batcher" => Batcher!BatcherHoldsPending

\* StatsAgree of the request scheduler.
SchedulerStatsAgree == chosen = "scheduler" => StatsAgree

\* InFlightAgrees of the micro pipeline (_stage_worker in plugins/micro_pipeline.py).
InFlightAgrees == chosen = "pipeline" => Pipeline!InFlightAgrees

Symmetric == Permutations(Requests \ Odd)
=============================================================================
