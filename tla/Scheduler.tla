----------------------------- MODULE Scheduler ------------------------------
(***************************************************************************)
(* The bounded request queue in front of the engine (src/scheduler.cpp):   *)
(* threads submit observations, one worker thread hands them to            *)
(* Engine::infer, shutdown() cancels what is queued and joins the worker.  *)
(* Each critical section of mutex_ is one action; what happens outside it  *)
(* (the notifications, the inference, setting the worker's promise, the    *)
(* join) is a step of its own.  A thread in condition_.wait is only woken  *)
(* by a notification that arrives while it waits, or spuriously.           *)
(***************************************************************************)
EXTENDS Engine, Sequences

CONSTANTS
    Worker,                  \* worker_, one of Threads
    Closers,                 \* threads that call shutdown()
    QueueCapacity,           \* config_.queue_capacity
    OverflowPolicies,        \* the values config_.overflow_policy may have
    MaxResets                \* bound on the calls of Engine::reset by other threads

ASSUME SchedulerAssumption ==
    /\ Worker \in Threads
    /\ QueueCapacity \in Nat \ {0}           \* the constructor throws on zero
    /\ OverflowPolicies \subseteq {"keep_latest", "reject_newest"}
    /\ MaxResets \in Nat

VARIABLES
    queue_, closed_,
    outcome,                 \* the promise of each request
    worker,                  \* where worker_loop is
    notifying,               \* submitters between their unlock and notify_one()
    closer,                  \* where each call of shutdown() is
    accepted,                \* history: requests that entered the queue, in order
    taken,                   \* history: requests the worker took, in order
    resets,                  \* how often the engine was reset
    overflow_policy          \* config_.overflow_policy, fixed by the constructor

schedulerVars == <<queue_, closed_, outcome, worker, notifying, closer, accepted, taken>>
vars == <<engineVars, schedulerVars, resets, overflow_policy>>

Outcomes == EngineCodes \cup {"superseded", "queue_full", "shut_down"}

Init ==
    /\ EngineInit
    /\ queue_ = <<>>
    /\ closed_ = FALSE
    /\ outcome = [r \in Requests |-> "unsubmitted"]
    /\ worker = "check"
    /\ notifying = {}
    /\ closer = [c \in Closers |-> "idle"]
    /\ accepted = <<>>
    /\ taken = <<>>
    /\ resets = 0
    /\ overflow_policy \in OverflowPolicies

Queued == {queue_[i] : i \in 1..Len(queue_)}

\* promise.set_value for every request of a set.
Settled(rs, o) == [r \in Requests |-> IF r \in rs THEN o ELSE outcome[r]]

-----------------------------------------------------------------------------
(* submit() *)

SubmitClosed(r) ==
    /\ closed_
    /\ outcome' = Settled({r}, "shut_down")
    /\ UNCHANGED <<metrics, queue_, notifying, accepted>>

Full == Len(queue_) >= QueueCapacity

\* record_dropped() follows the promise inside the same critical section.
SubmitRejected(r) ==
    /\ ~ closed_ /\ Full /\ overflow_policy = "reject_newest"
    /\ outcome' = Settled({r}, "queue_full")
    /\ record_dropped(1)
    /\ UNCHANGED <<queue_, notifying, accepted>>

\* How many requests at the front the keep_latest loop has to supersede.
Overflow == IF Full THEN Len(queue_) - QueueCapacity + 1 ELSE 0

\* Mutant of SubmitAccepted: a full queue drops the newcomer instead of the oldest.
SubmitDroppingNewest(r) ==
    /\ ~ closed_ /\ (Full => overflow_policy = "keep_latest")
    /\ outcome' = Settled({r}, IF Full THEN "superseded" ELSE "pending")
    /\ queue_' = IF Full THEN queue_ ELSE Append(queue_, r)
    /\ record_dropped(Overflow)
    /\ notifying' = notifying \cup {r}
    /\ accepted' = Append(accepted, r)

SubmitAccepted(r) ==
    LET superseded == {queue_[i] : i \in 1..Overflow}
    IN /\ ~ closed_ /\ (Full => overflow_policy = "keep_latest")
       /\ outcome' = [Settled(superseded, "superseded") EXCEPT ![r] = "pending"]
       /\ queue_' = Append(SubSeq(queue_, Overflow + 1, Len(queue_)), r)
       /\ record_dropped(Overflow)
       /\ notifying' = notifying \cup {r}
       /\ accepted' = Append(accepted, r)

submit(r) ==
    /\ outcome[r] = "unsubmitted"
    /\ SubmitClosed(r) \/ SubmitRejected(r) \/ SubmitAccepted(r)
    /\ UNCHANGED <<call, backend_mutex_, tokens, dirty, recorded, closed_, worker, closer,
                   taken, resets, overflow_policy>>

\* Mutant of Wake: the notification wakes nobody.
WakeNobody == worker

\* The worker is the only thread that ever waits on condition_.
Wake == IF worker = "waiting" THEN "check" ELSE worker

NotifyOne(r) ==
    /\ r \in notifying
    /\ notifying' = notifying \ {r}
    /\ worker' = Wake
    /\ UNCHANGED <<engineVars, queue_, closed_, outcome, closer, accepted, taken, resets,
                   overflow_policy>>

-----------------------------------------------------------------------------
(* worker_loop() *)

Wait ==
    /\ worker = "check" /\ ~ closed_ /\ queue_ = <<>>
    /\ worker' = "waiting"
    /\ UNCHANGED <<engineVars, queue_, closed_, outcome, notifying, closer, accepted, taken,
                   resets, overflow_policy>>

SpuriousWakeup ==
    /\ worker = "waiting"
    /\ worker' = "check"
    /\ UNCHANGED <<engineVars, queue_, closed_, outcome, notifying, closer, accepted, taken,
                   resets, overflow_policy>>

Exit ==
    /\ worker = "check" /\ closed_ /\ queue_ = <<>>
    /\ worker' = "exited"
    /\ UNCHANGED <<engineVars, queue_, closed_, outcome, notifying, closer, accepted, taken,
                   resets, overflow_policy>>

\* The oldest queued request goes to Engine::infer.
Take ==
    /\ worker = "check" /\ queue_ # <<>>
    /\ Call(Worker, Head(queue_))
    /\ queue_' = Tail(queue_)
    /\ worker' = "inferring"
    /\ taken' = Append(taken, Head(queue_))
    /\ UNCHANGED <<closed_, outcome, notifying, closer, accepted, resets, overflow_policy>>

\* infer() has returned: its result becomes the value of the request's promise.
Deliver ==
    /\ worker = "inferring"
    /\ Collect(Worker)
    /\ outcome' = Settled({call[Worker].job}, call[Worker].code)
    /\ worker' = "check"
    /\ UNCHANGED <<queue_, closed_, notifying, closer, accepted, taken, resets, overflow_policy>>

-----------------------------------------------------------------------------
(* shutdown() *)

\* Mutant of ClearedQueue: the cancelled tasks stay queued.
KeptQueue == queue_

ClearedQueue == <<>>

Close(c) ==
    /\ closer[c] = "idle" /\ ~ closed_
    /\ closed_' = TRUE
    /\ outcome' = Settled(Queued, "shut_down")
    /\ queue_' = ClearedQueue
    /\ closer' = [closer EXCEPT ![c] = "notify"]
    /\ UNCHANGED <<engineVars, worker, notifying, accepted, taken, resets, overflow_policy>>

\* Only the first call joins; a later one returns while the worker may still run.
AlreadyClosed(c) ==
    /\ closer[c] = "idle" /\ closed_
    /\ closer' = [closer EXCEPT ![c] = "skipped"]
    /\ UNCHANGED <<engineVars, queue_, closed_, outcome, worker, notifying, accepted, taken,
                   resets, overflow_policy>>

NotifyAll(c) ==
    /\ closer[c] = "notify"
    /\ closer' = [closer EXCEPT ![c] = "join"]
    /\ worker' = Wake
    /\ UNCHANGED <<engineVars, queue_, closed_, outcome, notifying, accepted, taken, resets,
                   overflow_policy>>

\* Mutant of Joinable: the worker is detached instead of joined.
Detached == TRUE

Joinable == worker = "exited"

Join(c) ==
    /\ closer[c] = "join" /\ Joinable
    /\ closer' = [closer EXCEPT ![c] = "returned"]
    /\ UNCHANGED <<engineVars, queue_, closed_, outcome, worker, notifying, accepted, taken,
                   resets, overflow_policy>>

-----------------------------------------------------------------------------

\* A thread beside the worker that resets the engine between episodes.
EngineReset(t) ==
    /\ t # Worker /\ resets < MaxResets
    /\ CallReset(t)
    /\ resets' = resets + 1
    /\ UNCHANGED <<schedulerVars, overflow_policy>>

EngineCollect(t) == t # Worker /\ Collect(t) /\ UNCHANGED <<schedulerVars, resets, overflow_policy>>
EngineStep(t) == (InferStep(t) \/ ResetStep(t)) /\ UNCHANGED <<schedulerVars, resets,
                                                               overflow_policy>>

\* A token or a deadline matters until the request's future is ready.
Environment ==
    /\ \E r \in Requests : /\ outcome[r] \in {"unsubmitted", "pending"}
                           /\ request_cancellation(r) \/ Expire(r)
    /\ UNCHANGED <<schedulerVars, resets, overflow_policy>>

WorkerStep == Wait \/ Exit \/ Take \/ Deliver \/ EngineStep(Worker)
CloserStep(c) == NotifyAll(c) \/ Join(c)

Next ==
    \/ \E r \in Requests : submit(r) \/ NotifyOne(r)
    \/ WorkerStep \/ SpuriousWakeup
    \/ \E c \in Closers : Close(c) \/ AlreadyClosed(c) \/ CloserStep(c)
    \/ \E t \in Threads \ {Worker} : EngineReset(t) \/ EngineCollect(t) \/ EngineStep(t)
    \/ Environment

\* Threads inside the library keep running; nobody has to submit, to shut down,
\* to cancel or to wake spuriously.
Fairness ==
    /\ WF_vars(WorkerStep)
    /\ \A r \in Requests : WF_vars(NotifyOne(r))
    /\ \A c \in Closers : WF_vars(CloserStep(c))
    /\ \A t \in Threads \ {Worker} : WF_vars(EngineCollect(t) \/ EngineStep(t))

Spec == Init /\ [][Next]_vars /\ Fairness

-----------------------------------------------------------------------------

\* Each promise is set exactly once and every accepted request is waited for by
\* somebody: a pending request is in the queue (once) or with the worker, and
\* nowhere else, so that neither superseding, nor the worker, nor shutdown can
\* set a promise twice or forget one.
PendingIsOwned ==
    /\ \A r \in Requests :
          outcome[r] = "pending" <=> r \in Queued \cup {call[Worker].job}
    /\ Cardinality(Queued) = Len(queue_)
    /\ call[Worker].job \notin Queued

\* The scheduler keeps the ledger of futures its interface promises: each promise is
\* set once, and every future becomes ready although notifications may find nobody
\* waiting, calls may be cancelled and the engine may be reset or fail meanwhile.
Ledger == INSTANCE FutureLedger
ImplementsLedger == Ledger!Spec

\* Newest observation wins: while the scheduler is open, the last request that
\* was accepted is never superseded or refused later on, and the worker starts
\* requests in the order in which they were submitted.
NewestWins ==
    /\ ~ closed_ /\ accepted # <<>> =>
          outcome[accepted[Len(accepted)]] \in {"pending"} \cup EngineCodes
    /\ \A i, j \in 1..Len(taken) : i < j =>
          \E k, l \in 1..Len(accepted) :
             k < l /\ accepted[k] = taken[i] /\ accepted[l] = taken[j]

\* When the call of shutdown() that closed the scheduler returns, the worker has
\* exited, no inference of its is running and every future is ready.
ShutdownIsFinal ==
    (\E c \in Closers : closer[c] = "returned") =>
        /\ worker = "exited" /\ At(Worker, "idle")
        /\ \A r \in Requests : outcome[r] # "pending"

=============================================================================
