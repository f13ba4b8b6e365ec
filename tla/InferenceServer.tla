-------------------------- MODULE InferenceServer ---------------------------
(***************************************************************************)
(* The WebSocket service (server.py): one thread per connection runs       *)
(* handler(), which answers the messages of its connection one by one.     *)
(* Inference goes through the request scheduler, or straight to the        *)
(* backend under _backend_lock; reset always goes straight to the backend. *)
(***************************************************************************)
EXTENDS InferenceScheduler

CONSTANTS
    Handlers,                \* connection threads
    Schedulers,              \* {TRUE} with request_batching, {FALSE} without, or both
    SupportsConcurrentInfer, \* backend.supports_concurrent_infer
    SharedBackend,           \* the runner is SequentialModelRunner(model_backend)
    ResultTimeoutCode,       \* how future.result's timeout is reported
    MaxResets,               \* bound on the reset messages
    None

Codes == {"action", "deadline_exceeded", "backend_error", "invalid_request"}

ASSUME ServerAssumption ==
    /\ Schedulers \cup {SupportsConcurrentInfer, SharedBackend} \subseteq BOOLEAN
    \* concurrent.futures.TimeoutError is the builtin one from Python 3.11 on
    /\ ResultTimeoutCode \in {"deadline_exceeded", "backend_error"}
    /\ MaxResets \in Nat
    /\ None \notin Requests \cup Handlers \cup Codes \cup {"reset_ok"}

VARIABLES
    conn,                    \* per handler: pc, the request it serves, the reply it holds
    _backend_lock,
    served,                  \* _requests_total and _requests_failed
    reply,                   \* what was decided for each request
    resets,
    batching                 \* self.scheduler is not None, fixed by the constructor

serverVars == <<conn, _backend_lock, served, reply, resets, batching>>
vars == <<schedulerVars, serverVars>>

Idle == [pc |-> "idle", job |-> None, code |-> None]

Init ==
    /\ SchedulerInit
    /\ conn = [h \in Handlers |-> Idle]
    /\ _backend_lock = None
    /\ served = [total |-> 0, failed |-> 0]
    /\ reply = [r \in Requests |-> None]
    /\ resets = 0
    /\ batching \in Schedulers

Goto(h, pc) == conn' = [conn EXCEPT ![h].pc = pc]
At(h, pc) == conn[h].pc = pc

\* The response is made and counted; send follows.
Respond(h, r, code) ==
    /\ conn' = [conn EXCEPT ![h] = [pc |-> "send", job |-> r, code |-> code]]
    /\ served' = IF code \in {"action", "reset_ok"}
                 THEN [served EXCEPT !.total = @ + (IF code = "action" THEN 1 ELSE 0)]
                 ELSE [served EXCEPT !.failed = @ + 1]
    /\ reply' = IF r = None THEN reply ELSE [reply EXCEPT ![r] = code]

-----------------------------------------------------------------------------

\* A message arrives that decodes and parses to an inference request, or does not:
\* most defects are a ProtocolError, a request_id that is no number is not.
Receive(h, r) ==
    /\ At(h, "idle") /\ reply[r] = None /\ \A g \in Handlers : conn[g].job # r
    /\ \/ /\ conn' = [conn EXCEPT ![h] = [pc |-> IF batching THEN "remaining" ELSE "acquire",
                                          job |-> r, code |-> None]]
          /\ UNCHANGED <<served, reply>>
       \/ \E code \in {"invalid_request", "backend_error"} : Respond(h, r, code)
    /\ UNCHANGED <<schedulerVars, _backend_lock, resets, batching>>

\* The deadline may pass from the moment the request was parsed.
DeadlinePasses(h) ==
    /\ conn[h].job # None /\ ~ At(h, "send")
    /\ Expire(conn[h].job)
    /\ UNCHANGED serverVars

\* The scheduler's path: remaining time, submit(), future.result(timeout).
CheckRemaining(h) ==
    /\ At(h, "remaining")
    /\ \/ conn[h].job \in expired /\ Respond(h, conn[h].job, "deadline_exceeded")
       \/ conn[h].job \notin expired /\ Goto(h, "submit") /\ UNCHANGED <<served, reply>>
    /\ UNCHANGED <<schedulerVars, _backend_lock, resets, batching>>

Submit(h) ==
    /\ At(h, "submit")
    /\ submit(conn[h].job)
    /\ \/ /\ outcome'[conn[h].job] = "overflow"
          /\ Respond(h, conn[h].job, "backend_error")
       \/ /\ outcome'[conn[h].job] = "pending"
          /\ Goto(h, "submitted") /\ UNCHANGED <<served, reply>>
    /\ UNCHANGED <<_backend_lock, resets, batching>>

Submitted(h) ==
    /\ At(h, "submitted")
    /\ CountSubmitted(conn[h].job)
    /\ Goto(h, "wait")
    /\ UNCHANGED <<_backend_lock, served, reply, resets, batching>>

\* Mutant of TimedOut: the handler waits for the future however long it takes.
WaitsForever(r) == FALSE

TimedOut(r) == outcome[r] = "pending" /\ r \in expired

\* Mutant of FutureReply: every exception of the future is taken for a timeout.
FutureReplyTimeout == [error |-> "deadline_exceeded", timeout |-> "deadline_exceeded"]

\* Which except clause catches what the future raises.
FutureReply == [error |-> "backend_error", timeout |-> "deadline_exceeded"]

AwaitFuture(h) ==
    /\ At(h, "wait")
    /\ LET r == conn[h].job
       IN \/ outcome[r] = "result" /\ Goto(h, "check") /\ UNCHANGED <<served, reply>>
          \/ outcome[r] \in DOMAIN FutureReply /\ Respond(h, r, FutureReply[outcome[r]])
          \/ TimedOut(r) /\ Respond(h, r, ResultTimeoutCode)
    /\ UNCHANGED <<schedulerVars, _backend_lock, resets, batching>>

\* Mutant of MayEnter: nobody asks for the lock.
MayAlwaysEnter(h) == TRUE

MayEnter(h) == SupportsConcurrentInfer \/ _backend_lock = None

Guard(h) == IF SupportsConcurrentInfer THEN _backend_lock ELSE h
Unguard == IF SupportsConcurrentInfer THEN _backend_lock ELSE None

\* The direct path: infer_guard, the deadline once more, backend.infer.
Acquire(h) ==
    /\ At(h, "acquire") /\ MayEnter(h)
    /\ _backend_lock' = Guard(h)
    /\ Goto(h, "guarded")
    /\ UNCHANGED <<schedulerVars, served, reply, resets, batching>>

StartInfer(h) ==
    /\ At(h, "guarded")
    /\ \/ /\ conn[h].job \in expired
          /\ Respond(h, conn[h].job, "deadline_exceeded")
          /\ _backend_lock' = Unguard
       \/ /\ conn[h].job \notin expired
          /\ Goto(h, "inferring") /\ UNCHANGED <<_backend_lock, served, reply>>
    /\ UNCHANGED <<schedulerVars, resets, batching>>

EndInfer(h) ==
    /\ At(h, "inferring")
    /\ \/ Goto(h, "check") /\ UNCHANGED <<served, reply>>
       \/ Respond(h, conn[h].job, "backend_error")
    /\ _backend_lock' = Unguard
    /\ UNCHANGED <<schedulerVars, resets, batching>>

\* Both paths: the deadline after the inference, then the actions.  A wrong shape is
\* a RuntimeError; make_action_response raises ProtocolError for what is not finite.
CheckResult(h) ==
    /\ At(h, "check")
    /\ LET r == conn[h].job
       IN \/ r \in expired /\ Respond(h, r, "deadline_exceeded")
          \/ r \notin expired /\ \E code \in {"action", "backend_error", "invalid_request"} :
                                  Respond(h, r, code)
    /\ UNCHANGED <<schedulerVars, _backend_lock, resets, batching>>

-----------------------------------------------------------------------------

ReceiveReset(h) ==
    /\ At(h, "idle") /\ resets < MaxResets
    /\ Goto(h, "reset")
    /\ resets' = resets + 1
    /\ UNCHANGED <<schedulerVars, _backend_lock, served, reply, batching>>

Reset(h) ==
    /\ At(h, "reset") /\ _backend_lock = None
    /\ _backend_lock' = h
    /\ Goto(h, "resetting")
    /\ UNCHANGED <<schedulerVars, served, reply, resets, batching>>

EndReset(h) ==
    /\ At(h, "resetting")
    /\ _backend_lock' = None
    /\ \E code \in {"reset_ok", "backend_error"} : Respond(h, None, code)
    /\ UNCHANGED <<schedulerVars, resets, batching>>

Send(h) ==
    /\ At(h, "send")
    /\ conn' = [conn EXCEPT ![h] = Idle]
    /\ UNCHANGED <<schedulerVars, _backend_lock, served, reply, resets, batching>>

\* send raises on a closed connection and ends the handler; for reset_ok that
\* happens inside the try, which counts a failure before the second send raises.
\* The client connects again: the next handler sends hello and waits.
SendFails(h) ==
    /\ At(h, "send")
    /\ conn' = [conn EXCEPT ![h] = Idle]
    /\ served' = IF conn[h].code = "reset_ok" THEN [served EXCEPT !.failed = @ + 1] ELSE served
    /\ UNCHANGED <<schedulerVars, _backend_lock, reply, resets, batching>>

-----------------------------------------------------------------------------

HandlerStep(h) ==
    \/ CheckRemaining(h) \/ Submit(h) \/ Submitted(h) \/ AwaitFuture(h)
    \/ Acquire(h) \/ StartInfer(h) \/ EndInfer(h) \/ CheckResult(h)
    \/ Reset(h) \/ EndReset(h) \/ Send(h) \/ SendFails(h)

ServerWorker == batching /\ WorkerStep /\ UNCHANGED serverVars

Next ==
    \/ \E h \in Handlers : \/ HandlerStep(h) \/ ReceiveReset(h) \/ DeadlinePasses(h)
                           \/ \E r \in Requests : Receive(h, r)
    \/ ServerWorker

\* Connection threads keep running and time passes.  The model runner may hang.
Spec ==
    /\ Init /\ [][Next]_vars
    /\ \A h \in Handlers : WF_vars(HandlerStep(h)) /\ WF_vars(DeadlinePasses(h))

-----------------------------------------------------------------------------

\* The threads that are inside backend.infer or backend.reset.
InBackend ==
    {h \in Handlers : conn[h].pc \in {"inferring", "resetting"}}
        \cup (IF SharedBackend /\ worker = "execute" THEN {"worker"} ELSE {})

\* Without the scheduler, a backend that does not support concurrent inference
\* is used by one thread at a time, whatever deadlines, errors and resets do.
BackendExclusive == ~ batching /\ ~ SupportsConcurrentInfer => Cardinality(InBackend) <= 1

\* A reply tells what became of the request: an action only when the model ran and
\* the scheduler delivered its result to this request, deadline_exceeded only after
\* the deadline, invalid_request never for what waited in vain or failed in the model.
ReplyIsTrue ==
    \A r \in Requests :
        /\ reply[r] = "action" => (batching => outcome[r] = "result")
        /\ reply[r] = "deadline_exceeded" => r \in expired
        /\ reply[r] = "invalid_request" => outcome[r] \in {"unsubmitted", "result"}
        /\ outcome[r] = "overflow" => reply[r] = "backend_error"

\* A client is answered although the scheduler's runner may hang: the deadline ends
\* the wait for the future.  Without the scheduler the handler waits for the backend
\* lock, which every way out of an inference or a reset gives back.
RequestsAnswered ==
    \A r \in Requests : (\E h \in Handlers : conn[h].job = r) ~> reply[r] # None

\* As the service uses the scheduler (it neither cancels nor closes), every accepted
\* request gets an outcome as long as the worker's calls of the runner return.
SchedulerAnswers == WF_vars(ServerWorker) => Ledger!AllSettle

\* "The worker is deliberately the only path that touches a non-reentrant model
\* runner": while the worker executes a batch, no other thread is in the backend.
WorkerIsOnlyPath == "worker" \in InBackend => InBackend = {"worker"}
=============================================================================
