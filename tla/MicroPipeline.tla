--------------------------- MODULE MicroPipeline ----------------------------
(***************************************************************************)
(* MicroPipelinePlugin (plugins/micro_pipeline.py) in native mode: stages  *)
(* joined by bounded queues, each with its worker threads.  An item        *)
(* carries its future through the stages; the value it carries is left out.*)
(* A worker's loop test, its get, its stage, its put and each Future       *)
(* operation are steps of their own.                                       *)
(***************************************************************************)
EXTENDS Integers, Sequences, FiniteSets

CONSTANTS
    Requests,
    Stages,                  \* the number of stages
    MaxInFlight,             \* config.max_in_flight, the size of each queue
    Workers,                 \* worker threads: <<stage, number>>
    None

VARIABLES
    outcome,                 \* the state of each request's Future
    pipeline                 \* the queues, _stop, the counters, the threads in submit()
                             \* and where each worker is and with which item

PipelineInit ==
    pipeline = [queues |-> [i \in 1..Stages |-> <<>>], stop |-> FALSE, open |-> TRUE,
                submitted |-> 0, processed |-> 0,
                counted |-> {}, putting |-> {},
                worker |-> [w \in Workers |-> [at |-> "loop", item |-> None]]]

Becomes(r, o) == outcome' = [outcome EXCEPT ![r] = o]
Room(i) == Len(pipeline.queues[i]) < MaxInFlight

\* submit() counts the request, then looks up the first queue and blocks in its put().
submit(r) ==
    /\ outcome[r] = "unsubmitted" /\ r \notin pipeline.counted \cup pipeline.putting
    /\ pipeline' = [pipeline EXCEPT !.submitted = @ + 1, !.counted = @ \cup {r}]
    /\ UNCHANGED outcome

\* Once close() has forgotten the queues, _queues[0] raises IndexError.
SubmitLookup(r) ==
    /\ r \in pipeline.counted
    /\ IF pipeline.open
       THEN /\ pipeline' = [pipeline EXCEPT !.counted = @ \ {r}, !.putting = @ \cup {r}]
            /\ UNCHANGED outcome
       ELSE pipeline' = [pipeline EXCEPT !.counted = @ \ {r}] /\ Becomes(r, "error")

\* A put() that finds the queue full after close() stays blocked.
SubmitPut(r) ==
    /\ r \in pipeline.putting
    /\ Room(1)
    /\ Becomes(r, "pending")
    /\ pipeline' = [pipeline EXCEPT !.putting = @ \ {r}, !.queues[1] = Append(@, r)]

Worker(w) == pipeline.worker[w]
Moves(w, at, item) == pipeline' = [pipeline EXCEPT !.worker[w] = [at |-> at, item |-> item]]

LoopTest(w) ==
    /\ Worker(w).at = "loop"
    /\ Moves(w, IF pipeline.stop THEN "exited" ELSE "get", None)
    /\ UNCHANGED outcome

Get(w) ==
    /\ Worker(w).at = "get"
    /\ LET queue == pipeline.queues[w[1]]
       IN pipeline' = IF queue = <<>> THEN [pipeline EXCEPT !.worker[w].at = "loop"]
                      ELSE [pipeline EXCEPT !.queues[w[1]] = Tail(@),
                              !.worker[w] = [at |-> "check", item |-> Head(queue)]]
    /\ UNCHANGED outcome

CheckCancelled(w) ==
    /\ Worker(w).at = "check"
    /\ Moves(w, IF outcome[Worker(w).item] = "cancelled" THEN "mark" ELSE "run", Worker(w).item)
    /\ UNCHANGED outcome

Last(w) == w[1] = Stages

\* The stage returns or raises.
Stage(w) ==
    /\ Worker(w).at = "run"
    /\ \E at \in {IF Last(w) THEN "result" ELSE "put", "error"} : Moves(w, at, Worker(w).item)
    /\ UNCHANGED outcome

\* Mutant of Settled: setting a result does not count the item as processed.
SettledUncounted(w) == "loop"

Settled(w) == "mark"

\* set_result or set_exception; a future cancelled since the check ends the thread.
Settle(w) ==
    /\ Worker(w).at \in {"result", "error"}
    /\ LET r == Worker(w).item
       IN IF outcome[r] = "pending"
          THEN Becomes(r, Worker(w).at) /\ Moves(w, Settled(w), r)
          ELSE Moves(w, "dead", r) /\ UNCHANGED outcome

mark_processed(w) ==
    /\ Worker(w).at = "mark"
    /\ pipeline' = [pipeline EXCEPT !.processed = @ + 1,
                                    !.worker[w] = [at |-> "loop", item |-> None]]
    /\ UNCHANGED outcome

\* put() to the next stage is retried until there is room or _stop is set; the item of a
\* worker that stops here is dropped.
Put(w) ==
    /\ Worker(w).at = "put"
    /\ \/ /\ pipeline.stop
          /\ Moves(w, "loop", None)
       \/ /\ Room(w[1] + 1)
          /\ pipeline' = [pipeline EXCEPT !.queues[w[1] + 1] = Append(@, Worker(w).item),
                                          !.worker[w] = [at |-> "loop", item |-> None]]
    /\ UNCHANGED outcome

WorkerStep(w) ==
    LoopTest(w) \/ Get(w) \/ CheckCancelled(w) \/ Stage(w) \/ Settle(w) \/ mark_processed(w) \/ Put(w)

CloseSet ==
    /\ ~pipeline.stop
    /\ pipeline' = [pipeline EXCEPT !.stop = TRUE]
    /\ UNCHANGED outcome

\* After the joins, which have a timeout, the queues are forgotten; a worker that is still
\* running keeps its own references to them.
CloseClear ==
    /\ pipeline.stop /\ pipeline.open
    /\ pipeline' = [pipeline EXCEPT !.open = FALSE]
    /\ UNCHANGED outcome

Next ==
    \/ \E r \in Requests : submit(r) \/ SubmitLookup(r) \/ SubmitPut(r)
    \/ \E w \in Workers : WorkerStep(w)
    \/ CloseSet \/ CloseClear

Quiet == ~pipeline.stop /\ \A w \in Workers : Worker(w).at # "dead"

Queued == UNION {{pipeline.queues[i][j] : j \in DOMAIN pipeline.queues[i]} : i \in 1..Stages}
InHand == {Worker(w).item : w \in Workers} \ {None}

\* Until close(), and as long as no future was cancelled under a worker that was about to
\* settle it, a pending request is in a queue or with a worker, and metadata()'s in_flight
\* is the number of requests that are being put, queued or in a worker's hands: a stage that
\* raises, a cancelled item and a full queue lose nobody and count everybody once.
InFlightAgrees ==
    Quiet =>
        /\ {r \in Requests : outcome[r] = "pending"} \subseteq Queued \cup InHand
        /\ pipeline.submitted - pipeline.processed
             = Cardinality(pipeline.counted \cup pipeline.putting \cup Queued \cup InHand)
=============================================================================
