------------------------- MODULE InferenceScheduler -------------------------
(***************************************************************************)
(* The request scheduler of the Python service (core/scheduler.py): any    *)
(* thread submits, one daemon thread gathers batches from a bounded        *)
(* queue.Queue, drops what was cancelled or has expired, and hands the     *)
(* rest to the model runner.  queue.Queue, Event and Future operations are *)
(* atomic; everything between two of them can be interleaved.              *)
(***************************************************************************)
EXTENDS Integers, FiniteSets, Sequences

CONSTANTS
    Requests,
    Deadlined,               \* requests whose deadline may pass
    Cancelled,               \* requests whose holder may cancel the future
    Closers,                 \* threads that may call close()
    MaxBatchSize, MaxQueueSize,
    Sentinel                 \* the None that close() puts into the queue

ASSUME SchedulerAssumption ==
    /\ MaxBatchSize \in Nat \ {0} /\ MaxQueueSize \in Nat \ {0}
    /\ Deadlined \subseteq Requests /\ Cancelled \subseteq Requests
    /\ Sentinel \notin Requests /\ IsFiniteSet(Requests)

VARIABLES
    queue, stop,             \* _queue, _stop
    stats,                   \* _submitted, _completed, _failed, _expired
    outcome,                 \* the state of each request's Future
    submitting,              \* submitters that have yet to count their request
    expired,                 \* requests whose deadline has passed
    worker,                  \* where _worker is
    batch, valid,            \* its lists
    index,                   \* the element its loop is at
    closer,                  \* where each call of close() is
    late                     \* history: requests that had expired when they were dequeued

futures == <<outcome, expired>>
lists == <<batch, valid, index>>
schedulerVars == <<queue, stop, stats, futures, submitting, worker, lists, closer, late>>

Counters == {"submitted", "completed", "failed", "expired"}
Outcomes == {"result", "error", "timeout", "overflow", "cancelled"}

SchedulerInit ==
    /\ queue = <<>>
    /\ stop = FALSE
    /\ stats = [k \in Counters |-> 0]
    /\ outcome = [r \in Requests |-> "unsubmitted"]
    /\ submitting = {}
    /\ expired = {}
    /\ worker = "loop"
    /\ batch = <<>> /\ valid = <<>> /\ index = 1
    /\ closer = [c \in Closers |-> "idle"]
    /\ late = {}

Add(counter, n) == stats' = [stats EXCEPT ![counter] = @ + n]
Becomes(r, o) == outcome' = [outcome EXCEPT ![r] = o]

-----------------------------------------------------------------------------
(* submit() and what the holder of a future may do *)

QueueFull == Len(queue) >= MaxQueueSize

SubmitFull(r) ==
    /\ QueueFull
    /\ Becomes(r, "overflow")
    /\ Add("failed", 1)
    /\ UNCHANGED <<queue, submitting>>

\* The request is visible to the worker before it is counted.
SubmitQueued(r) ==
    /\ ~ QueueFull
    /\ queue' = Append(queue, r)
    /\ Becomes(r, "pending")
    /\ submitting' = submitting \cup {r}
    /\ UNCHANGED stats

submit(r) ==
    /\ outcome[r] = "unsubmitted"
    /\ SubmitFull(r) \/ SubmitQueued(r)
    /\ UNCHANGED <<stop, expired, worker, lists, closer, late>>

CountSubmitted(r) ==
    /\ r \in submitting
    /\ submitting' = submitting \ {r}
    /\ Add("submitted", 1)
    /\ UNCHANGED <<queue, stop, futures, worker, lists, closer, late>>

\* Future.cancel() succeeds while the future is pending: the worker never marks
\* one as running.
Cancel(r) ==
    /\ r \in Cancelled \ submitting /\ outcome[r] = "pending"
    /\ Becomes(r, "cancelled")
    /\ UNCHANGED <<queue, stop, stats, submitting, expired, worker, lists, closer, late>>

Expire(r) ==
    /\ r \in Deadlined \ expired
    /\ expired' = expired \cup {r}
    /\ UNCHANGED <<queue, stop, stats, outcome, submitting, worker, lists, closer, late>>

-----------------------------------------------------------------------------
(* _worker() *)

LoopTest ==
    /\ worker = "loop"
    /\ worker' = IF stop THEN "exited" ELSE "get"
    /\ UNCHANGED <<queue, stop, stats, futures, submitting, lists, closer, late>>

GetTimesOut ==
    /\ worker = "get" /\ queue = <<>>
    /\ worker' = "loop"
    /\ UNCHANGED <<queue, stop, stats, futures, submitting, lists, closer, late>>

Get ==
    /\ worker = "get" /\ queue # <<>>
    /\ queue' = Tail(queue)
    /\ IF Head(queue) = Sentinel
       THEN worker' = "exited" /\ UNCHANGED batch
       ELSE worker' = "gather" /\ batch' = <<Head(queue)>>
    /\ late' = late \cup ({Head(queue)} \cap expired)
    /\ UNCHANGED <<stop, stats, futures, submitting, valid, index, closer>>

BatchHasRoom == Len(batch) < MaxBatchSize

\* Mutant of Gathered: a request that joins replaces the ones before it.
GatheredAlone(r) == <<r>>

Gathered(r) == Append(batch, r)

Gather ==
    /\ worker = "gather" /\ BatchHasRoom /\ queue # <<>>
    /\ queue' = Tail(queue)
    /\ IF Head(queue) = Sentinel
       THEN stop' = TRUE /\ worker' = "filter" /\ UNCHANGED batch
       ELSE batch' = Gathered(Head(queue)) /\ UNCHANGED <<stop, worker>>
    /\ late' = late \cup ({Head(queue)} \cap expired)
    /\ UNCHANGED <<stats, futures, submitting, valid, index, closer>>

\* The batch is full, or the wait window closes at whatever moment.
GatherEnds ==
    /\ worker = "gather"
    /\ worker' = "filter"
    /\ UNCHANGED <<queue, stop, stats, futures, submitting, lists, closer, late>>

\* Mutant of HasExpired: the deadline is not looked at in the queue.
NeverExpires(r) == FALSE

HasExpired(r) == r \in expired

\* The loop that separates what is cancelled, what has expired and what is valid.
FilterOne ==
    /\ worker = "filter" /\ index <= Len(batch)
    /\ LET r == batch[index]
       IN IF outcome[r] = "cancelled"
          THEN index' = index + 1 /\ UNCHANGED <<worker, valid>>
          ELSE IF HasExpired(r)
          THEN worker' = "expire" /\ UNCHANGED <<index, valid>>
          ELSE index' = index + 1 /\ valid' = Append(valid, r) /\ UNCHANGED worker
    /\ UNCHANGED <<queue, stop, stats, futures, submitting, batch, closer, late>>

\* Mutant of Set: a cancelled future is overwritten.
SetAnyway(r, o, next) == Becomes(r, o) /\ worker' = next /\ index' = index + 1

\* set_result and set_exception raise InvalidStateError on a future that was
\* cancelled since the loop looked at it; nothing catches that, and the thread dies.
Set(r, o, next) ==
    \/ outcome[r] # "cancelled" /\ Becomes(r, o) /\ worker' = next /\ index' = index + 1
    \/ outcome[r] = "cancelled" /\ worker' = "dead" /\ UNCHANGED <<outcome, index>>

ExpireOne ==
    /\ worker = "expire"
    /\ Set(batch[index], "timeout", "count")
    /\ UNCHANGED <<queue, stop, stats, expired, submitting, batch, valid, closer, late>>

\* The counter follows the future, under a lock of its own.
CountExpired ==
    /\ worker = "count"
    /\ Add("expired", 1)
    /\ worker' = "filter"
    /\ UNCHANGED <<queue, stop, futures, submitting, lists, closer, late>>

FilterEnds ==
    /\ worker = "filter" /\ index > Len(batch)
    /\ worker' = IF valid = <<>> THEN "loop" ELSE "execute"
    /\ batch' = <<>> /\ index' = 1
    /\ UNCHANGED <<queue, stop, stats, futures, submitting, valid, closer, late>>

\* The runner returns one output per request, or raises (a wrong number of
\* outputs is turned into an exception).
Execute ==
    /\ worker = "execute"
    /\ worker' \in {"deliver", "fail"}
    /\ UNCHANGED <<queue, stop, stats, futures, submitting, lists, closer, late>>

SetOne(phase, o) ==
    /\ worker = phase /\ index <= Len(valid)
    /\ Set(valid[index], o, phase)
    /\ UNCHANGED <<queue, stop, stats, expired, submitting, batch, valid, closer, late>>

\* Mutant of Counted: a batch counts as one request.
CountedOnce == 1

Counted == Len(valid)

\* Completed or failed requests are counted together, after the futures are set.
SetEnds(phase, counter) ==
    /\ worker = phase /\ index > Len(valid)
    /\ Add(counter, Counted)
    /\ worker' = "loop" /\ valid' = <<>> /\ index' = 1
    /\ UNCHANGED <<queue, stop, futures, submitting, batch, closer, late>>

Deliver == SetOne("deliver", "result") \/ SetEnds("deliver", "completed")
Fail == SetOne("fail", "error") \/ SetEnds("fail", "failed")

-----------------------------------------------------------------------------
(* close() *)

CloseTest(c) ==
    /\ closer[c] = "idle"
    /\ closer' = [closer EXCEPT ![c] = IF stop THEN "returned" ELSE "set"]
    /\ UNCHANGED <<queue, stop, stats, futures, submitting, worker, lists, late>>

CloseSet(c) ==
    /\ closer[c] = "set"
    /\ stop' = TRUE
    /\ closer' = [closer EXCEPT ![c] = "put"]
    /\ UNCHANGED <<queue, stats, futures, submitting, worker, lists, late>>

\* A full queue swallows the sentinel; _stop alone then ends the worker.
ClosePut(c) ==
    /\ closer[c] = "put"
    /\ queue' = IF QueueFull THEN queue ELSE Append(queue, Sentinel)
    /\ closer' = [closer EXCEPT ![c] = "join"]
    /\ UNCHANGED <<stop, stats, futures, submitting, worker, lists, late>>

\* join(timeout): the worker has ended, or the time is up.
CloseJoin(c) ==
    /\ closer[c] = "join"
    /\ closer' = [closer EXCEPT ![c] = "returned"]
    /\ UNCHANGED <<queue, stop, stats, futures, submitting, worker, lists, late>>

-----------------------------------------------------------------------------

WorkerStep ==
    \/ LoopTest \/ GetTimesOut \/ Get \/ Gather \/ GatherEnds
    \/ FilterOne \/ ExpireOne \/ CountExpired \/ FilterEnds \/ Execute \/ Deliver \/ Fail

CloserStep(c) == CloseTest(c) \/ CloseSet(c) \/ ClosePut(c) \/ CloseJoin(c)

\* What a list holds from an index on.
Rest(s, first) == {s[i] : i \in first..Len(s)}

\* What the queue and the worker's lists still owe an outcome.
FirstUnset == IF worker \in {"deliver", "fail"} THEN index ELSE 1
InQueue == Rest(queue, 1) \ {Sentinel}
InBatch == Rest(batch, index)
InValid == Rest(valid, FirstUnset)

Once(s, first) == \A i, j \in first..Len(s) : s[i] = s[j] => i = j \/ s[i] = Sentinel

\* Nobody is forgotten and nobody is served twice unless the worker dies: what is
\* pending is in the queue, in the batch being sorted or in the one being executed,
\* and a request is in only one of them, once.
PendingIsHeld ==
    worker # "dead" =>
        /\ {r \in Requests : outcome[r] = "pending"} \subseteq InQueue \cup InBatch \cup InValid
        /\ InQueue \cap InBatch = {} /\ InQueue \cap InValid = {} /\ InBatch \cap InValid = {}
        /\ Once(queue, 1) /\ Once(batch, index) /\ Once(valid, FirstUnset)

\* A request that was late when the worker took it never reaches the model.
LateNeverExecuted ==
    \A r \in late : outcome[r] # "result" /\ r \notin Rest(valid, 1)

\* The counters agree with the futures: whoever reads stats() when nothing is in
\* flight sees every request that was accepted exactly once.
StatsAgree ==
    LET ended(os) == Cardinality({r \in Requests : outcome[r] \in os})
    IN worker = "loop" =>
          /\ stats["completed"] = ended({"result"})
          /\ stats["failed"] = ended({"error", "overflow"})
          /\ stats["expired"] = ended({"timeout"})
          /\ stats["submitted"] + Cardinality(submitting)
                = Cardinality({r \in Requests : outcome[r] \notin {"unsubmitted", "overflow"}})

\* The scheduler keeps the ledger of futures: each is completed at most once.
Ledger == INSTANCE FutureLedger
LedgerSafe == Ledger!Safe
=============================================================================
