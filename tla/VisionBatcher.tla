--------------------------- MODULE VisionBatcher ----------------------------
(***************************************************************************)
(* ViTContinuousBatcher (models/pi05/vision_batch.py) as VisionBatchPlugin *)
(* (plugins/vision_batch.py) owns it when it has an encoder: callers put   *)
(* images into a bounded queue, one thread gathers what arrives within a   *)
(* window, drops what was cancelled or is late, and encodes the rest in    *)
(* one call.  Queue, Event and Future operations are atomic.               *)
(***************************************************************************)
EXTENDS Integers, Sequences, FiniteSets

CONSTANTS
    Requests,
    Odd,                     \* requests whose images have another shape than the others'
    MaxBatchSize, MaxQueueSize,
    Sentinel                 \* the None that close() puts into the queue

VARIABLES
    outcome,                 \* the state of each request's Future
    expired,                 \* requests whose deadline has passed
    batcher                  \* _queue, _stop, close()'s place and the worker's locals

BatcherInit ==
    batcher = [queue |-> <<>>, stop |-> FALSE, closing |-> FALSE, at |-> "loop",
               batch |-> <<>>, valid |-> <<>>, index |-> 1]

Becomes(r, o) == outcome' = [outcome EXCEPT ![r] = o]
Moves(at) == batcher' = [batcher EXCEPT !.at = at]
Full == Len(batcher.queue) >= MaxQueueSize

\* submit(): put_nowait succeeds or the future fails, closed or not.
submit(r) ==
    /\ outcome[r] = "unsubmitted"
    /\ IF Full THEN Becomes(r, "overflow") /\ UNCHANGED batcher
       ELSE /\ Becomes(r, "pending")
            /\ batcher' = [batcher EXCEPT !.queue = Append(@, r)]
    /\ UNCHANGED expired

LoopTest ==
    /\ batcher.at = "loop"
    /\ Moves(IF batcher.stop THEN "exited" ELSE "get")
    /\ UNCHANGED <<outcome, expired>>

Get ==
    /\ batcher.at = "get"
    /\ batcher' = IF batcher.queue = <<>> THEN [batcher EXCEPT !.at = "loop"]
                  ELSE IF Head(batcher.queue) = Sentinel
                  THEN [batcher EXCEPT !.at = "exited", !.queue = Tail(@)]
                  ELSE [batcher EXCEPT !.at = "gather", !.queue = Tail(@),
                                       !.batch = <<Head(batcher.queue)>>]
    /\ UNCHANGED <<outcome, expired>>

\* Another request joins, or the sentinel ends the batch and the worker.
Gather ==
    /\ batcher.at = "gather" /\ batcher.queue # <<>> /\ Len(batcher.batch) < MaxBatchSize
    /\ batcher' = IF Head(batcher.queue) = Sentinel
                  THEN [batcher EXCEPT !.at = "filter", !.queue = Tail(@), !.stop = TRUE]
                  ELSE [batcher EXCEPT !.queue = Tail(@), !.batch = Append(@, Head(batcher.queue))]
    /\ UNCHANGED <<outcome, expired>>

\* The batch is full or the window closes.
GatherEnds == batcher.at = "gather" /\ Moves("filter") /\ UNCHANGED <<outcome, expired>>

FilterOne ==
    /\ batcher.at = "filter" /\ batcher.index <= Len(batcher.batch)
    /\ LET r == batcher.batch[batcher.index]
       IN batcher' = IF outcome[r] = "cancelled" THEN [batcher EXCEPT !.index = @ + 1]
                     ELSE IF r \in expired THEN [batcher EXCEPT !.at = "expire"]
                     ELSE [batcher EXCEPT !.index = @ + 1, !.valid = Append(@, r)]
    /\ UNCHANGED <<outcome, expired>>

\* set_result and set_exception raise on a future that is not pending any more.
Settle(r, o, next, failing) ==
    IF outcome[r] = "pending"
    THEN Becomes(r, o) /\ batcher' = [batcher EXCEPT !.at = next, !.index = @ + 1]
    ELSE batcher' = [batcher EXCEPT !.at = failing, !.index = 1] /\ UNCHANGED outcome

ExpireOne ==
    /\ batcher.at = "expire"
    /\ Settle(batcher.batch[batcher.index], "timeout", "filter", "dead")
    /\ UNCHANGED expired

Filtered(valid) == IF valid = <<>> THEN "loop" ELSE "encode"

FilterEnds ==
    /\ batcher.at = "filter" /\ batcher.index > Len(batcher.batch)
    /\ batcher' = [batcher EXCEPT !.at = Filtered(batcher.valid), !.batch = <<>>, !.index = 1]
    /\ UNCHANGED <<outcome, expired>>

\* Images of two shapes cannot be stacked: everybody in the batch fails.
Mixed(valid) ==
    LET members == {valid[i] : i \in DOMAIN valid}
    IN members \cap Odd # {} /\ members \ Odd # {}

\* The encoder returns one output per request, or raises or returns another number.
Encode ==
    /\ batcher.at = "encode"
    /\ \E at \in {"deliver", "fail"} : Moves(at) /\ (at = "fail" \/ ~Mixed(batcher.valid))
    /\ UNCHANGED <<outcome, expired>>

\* A future that was cancelled meanwhile raises into the handler, which starts over.
DeliverOne ==
    /\ batcher.at = "deliver" /\ batcher.index <= Len(batcher.valid)
    /\ Settle(batcher.valid[batcher.index], "result", "deliver", "fail")
    /\ UNCHANGED expired

\* The handler fails every request; one that is settled already ends the thread.
FailOne ==
    /\ batcher.at = "fail" /\ batcher.index <= Len(batcher.valid)
    /\ Settle(batcher.valid[batcher.index], "error", "fail", "dead")
    /\ UNCHANGED expired

BatchEnds ==
    /\ batcher.at \in {"deliver", "fail"} /\ batcher.index > Len(batcher.valid)
    /\ batcher' = [batcher EXCEPT !.at = "loop", !.valid = <<>>, !.index = 1]
    /\ UNCHANGED <<outcome, expired>>

WorkerStep ==
    \/ LoopTest \/ Get \/ Gather \/ GatherEnds \/ FilterOne \/ ExpireOne \/ FilterEnds
    \/ Encode \/ DeliverOne \/ FailOne \/ BatchEnds

\* close() sets _stop, then offers the sentinel; a full queue swallows it.  The join has a
\* timeout, so close() returns whatever the worker does.
CloseSet ==
    /\ ~batcher.stop
    /\ batcher' = [batcher EXCEPT !.stop = TRUE, !.closing = TRUE]
    /\ UNCHANGED <<outcome, expired>>

ClosePut ==
    /\ batcher.closing
    /\ batcher' = [batcher EXCEPT !.closing = FALSE,
                                  !.queue = IF Full THEN @ ELSE Append(@, Sentinel)]
    /\ UNCHANGED <<outcome, expired>>

Next == (\E r \in Requests : submit(r)) \/ WorkerStep \/ CloseSet \/ ClosePut

\* What still owes an outcome: the queue, the batch and the valid requests.
Held ==
    SelectSeq(batcher.queue, LAMBDA r : r # Sentinel)
        \o SubSeq(batcher.batch, batcher.index, Len(batcher.batch))
        \o (IF batcher.at \in {"deliver", "fail"}
            THEN SubSeq(batcher.valid, batcher.index, Len(batcher.valid)) ELSE batcher.valid)

\* While the batcher's thread lives, every pending future is in its queue or in the batch it
\* is working on, once; a mixed batch, an encoder that raises and late requests included.
BatcherHoldsPending ==
    batcher.at \notin {"exited", "dead"} =>
        LET held == {Held[i] : i \in DOMAIN Held}
        IN /\ {r \in Requests : outcome[r] = "pending"} \subseteq held
           /\ Cardinality(held) = Len(Held)
=============================================================================
