------------------------ MODULE InferenceServerProofs -----------------------
(* For any number of connections and requests, with and without the request   *)
(* scheduler: that the service replies truthfully, executes nothing late and  *)
(* uses a backend that is not concurrent from one thread at a time.           *)
EXTENDS InferenceServer, RequestSchedulerProofs

\* Zenon by default, with time for a busy machine; a leaf that needs arithmetic cites SMTT.
USE ZenonT(60)

-----------------------------------------------------------------------------
(* The server *)

Busy == {"remaining", "submit", "submitted", "wait", "acquire", "guarded", "inferring", "check"}
Labels == Busy \cup {"idle", "send", "reset", "resetting"}

ServerTypeOK ==
    /\ conn \in [Handlers -> [pc : Labels, job : Requests \cup {None},
                              code : Codes \cup {None, "reset_ok"}]]
    /\ reply \in [Requests -> Codes \cup {None}]
    /\ batching \in BOOLEAN

\* A request is served by one connection, and has its reply when that is sent.
Serving ==
    /\ \A h \in Handlers :
          /\ conn[h].pc \in Busy => conn[h].job \in Requests /\ reply[conn[h].job] = None
          /\ conn[h].pc \in {"idle", "reset", "resetting"} => conn[h].job = None
          /\ conn[h].pc = "send" /\ conn[h].job # None => reply[conn[h].job] # None
    /\ \A h, g \in Handlers : conn[h].job # None /\ conn[g].job = conn[h].job => h = g

\* Which way a request goes, and how far it is in the scheduler.
PathOf(h) ==
    /\ conn[h].pc \in {"remaining", "submit", "submitted", "wait"} => batching
    /\ conn[h].pc \in {"acquire", "guarded", "inferring"} => ~ batching
    /\ conn[h].pc \in {"remaining", "submit"} => outcome[conn[h].job] = "unsubmitted"
    /\ conn[h].pc \in {"submitted", "wait"} =>
          outcome[conn[h].job] \in {"pending", "result", "error", "timeout"}
    /\ conn[h].pc = "check" /\ batching => outcome[conn[h].job] = "result"

Path ==
    /\ \A h \in Handlers : PathOf(h)
    /\ \A r \in Requests :
          reply[r] = None /\ (\A h \in Handlers : conn[h].job # r) => outcome[r] = "unsubmitted"
    /\ \A r \in Requests : outcome[r] # "cancelled" /\ (~ batching => outcome[r] = "unsubmitted")
    /\ ~ batching => worker = "loop"

\* A backend that does not support concurrent inference is entered with the lock.
Inside == {"guarded", "inferring", "resetting"}
LockHeld ==
    ~ SupportsConcurrentInfer =>
        \A h \in Handlers : _backend_lock = h <=> conn[h].pc \in Inside

ServerInv == ServerTypeOK /\ Serving /\ Path /\ ReplyIsTrue /\ LockHeld

Inv == SchedulerInv /\ ServerInv

-----------------------------------------------------------------------------
(* One step of a connection *)

LEMMA GotoMoves ==
    ASSUME ServerTypeOK, NEW h \in Handlers, NEW pc \in Labels, Goto(h, pc)
    PROVE  /\ conn' \in [Handlers -> [pc : Labels, job : Requests \cup {None},
                                      code : Codes \cup {None, "reset_ok"}]]
           /\ conn'[h].pc = pc /\ conn'[h].job = conn[h].job
           /\ \A g \in Handlers \ {h} : conn'[g] = conn[g]
BY DEF ServerTypeOK, Goto

\* A handler goes on with its request.
LEMMA MoveKeeps ==
    ASSUME SchedulerTypeOK, ServerTypeOK, Serving, Path, ReplyIsTrue,
           NEW h \in Handlers, NEW pc \in Busy, conn[h].pc \in Busy, Goto(h, pc),
           UNCHANGED <<reply, batching, worker, expired>>,
           \A q \in Requests \ {conn[h].job} : outcome'[q] = outcome[q],
           outcome'[conn[h].job] \notin {"cancelled", "overflow"},
           ~ batching => outcome'[conn[h].job] = "unsubmitted",
           PathOf(h)'
    PROVE  (ServerTypeOK /\ Serving /\ Path /\ ReplyIsTrue)'
<1> DEFINE r == conn[h].job
<1>1. /\ conn' \in [Handlers -> [pc : Labels, job : Requests \cup {None},
                                 code : Codes \cup {None, "reset_ok"}]]
      /\ conn'[h].pc = pc /\ conn'[h].job = r /\ \A g \in Handlers \ {h} : conn'[g] = conn[g]
  BY GotoMoves DEF Labels
<1>2. r \in Requests /\ reply[r] = None /\ \A g \in Handlers \ {h} : conn[g].job # r
  BY ServerAssumption DEF Serving
<1>3. ServerTypeOK'  BY <1>1 DEF ServerTypeOK
<1>4. Serving'
  <2>1. \A g \in Handlers : conn'[g].job = conn[g].job  BY <1>1
  <2>2. \A g \in Handlers : g # h => conn'[g].pc = conn[g].pc  BY <1>1
  <2>3. conn'[h].pc \notin {"idle", "reset", "resetting", "send"}  BY <1>1 DEF Busy
  <2>4. QED  BY <1>2, <2>1, <2>2, <2>3, SMTT(30) DEF Serving
<1>5. Path'
  <2>1. ASSUME NEW g \in Handlers, g # h PROVE PathOf(g)'
    <3>1. conn'[g] = conn[g] /\ (conn[g].pc \in Busy => conn[g].job \in Requests \ {r})
      BY <1>1, <1>2, <2>1 DEF Serving
    <3>2. QED  BY <3>1, SMTT(30) DEF Path, PathOf, Busy
  <2>2. \A g \in Handlers : conn'[g].job = conn[g].job  BY <1>1
  <2>3. QED  BY <1>2, <2>1, <2>2 DEF Path
<1>6. ReplyIsTrue'
  BY <1>2, ServerAssumption DEF ReplyIsTrue, Codes
<1>7. QED  BY <1>3, <1>4, <1>5, <1>6

LEMMA RespondMoves ==
    ASSUME ServerTypeOK, NEW h \in Handlers, NEW r \in Requests \cup {None},
           NEW code \in Codes \cup {"reset_ok"}, Respond(h, r, code)
    PROVE  /\ conn' \in [Handlers -> [pc : Labels, job : Requests \cup {None},
                                      code : Codes \cup {None, "reset_ok"}]]
           /\ conn'[h].pc = "send" /\ conn'[h].job = r
           /\ \A g \in Handlers \ {h} : conn'[g] = conn[g]
           /\ reply' = IF r = None THEN reply ELSE [reply EXCEPT ![r] = code]
BY DEF ServerTypeOK, Respond, Labels

\* What a reply may say of a request.
Truthful(r, code) ==
    /\ code = "action" => (batching => outcome[r] = "result")
    /\ code = "deadline_exceeded" => r \in expired
    /\ code = "invalid_request" => outcome[r] \in {"unsubmitted", "result"}
    /\ outcome[r] = "overflow" => code = "backend_error"

\* A handler replies to the request it serves, or to one that it has just received.
LEMMA RespondKeeps ==
    ASSUME SchedulerTypeOK, ServerTypeOK, Serving, Path, ReplyIsTrue,
           NEW h \in Handlers, NEW r \in Requests, NEW code \in Codes, Respond(h, r, code),
           \/ conn[h].pc \in Busy /\ r = conn[h].job
           \/ conn[h].pc = "idle" /\ reply[r] = None /\ \A g \in Handlers : conn[g].job # r,
           UNCHANGED <<batching, worker, expired>>,
           \A q \in Requests \ {r} : outcome'[q] = outcome[q],
           outcome'[r] # "cancelled", ~ batching => outcome'[r] = "unsubmitted",
           Truthful(r, code)'
    PROVE  (ServerTypeOK /\ Serving /\ Path /\ ReplyIsTrue)'
<1>1. /\ conn' \in [Handlers -> [pc : Labels, job : Requests \cup {None},
                                 code : Codes \cup {None, "reset_ok"}]]
      /\ conn'[h].pc = "send" /\ conn'[h].job = r /\ \A g \in Handlers \ {h} : conn'[g] = conn[g]
      /\ reply' = [reply EXCEPT ![r] = code]
  BY RespondMoves, ServerAssumption, SMTT(30)
<1>2. reply'[r] = code /\ code # None /\ \A q \in Requests \ {r} : reply'[q] = reply[q]
  BY <1>1, ServerAssumption DEF ServerTypeOK
<1>3. ServerTypeOK'  BY <1>1 DEF ServerTypeOK
<1>4. r # None /\ \A g \in Handlers \ {h} : conn[g].job # r  BY ServerAssumption DEF Serving
<1>5. Serving'
  <2>1. ASSUME NEW g \in Handlers
        PROVE  /\ conn'[g].pc \in Busy => conn'[g].job \in Requests /\ reply'[conn'[g].job] = None
               /\ conn'[g].pc \in {"idle", "reset", "resetting"} => conn'[g].job = None
               /\ conn'[g].pc = "send" /\ conn'[g].job # None => reply'[conn'[g].job] # None
    <3>1. CASE g = h  BY <1>1, <1>2, <3>1 DEF Busy
    <3>2. CASE g # h
      <4>1. conn'[g] = conn[g] /\ conn[g].job # r /\ conn[g].job \in Requests \cup {None}
        BY <1>1, <1>4, <3>2 DEF ServerTypeOK
      <4>2. conn[g].job # None => reply'[conn[g].job] = reply[conn[g].job]  BY <1>2, <4>1
      <4>3. QED  BY <4>1, <4>2, ServerAssumption DEF Serving
    <3>3. QED  BY <3>1, <3>2
  <2>2. \A f, g \in Handlers : conn'[f].job # None /\ conn'[g].job = conn'[f].job => f = g
    BY <1>1, <1>4, SMTT(30) DEF Serving
  <2>3. QED  BY <2>1, <2>2 DEF Serving
<1>6. Path'
  <2>1. ASSUME NEW g \in Handlers PROVE PathOf(g)'
    <3>1. CASE g = h  BY <1>1, <3>1 DEF PathOf
    <3>2. CASE g # h
      <4>1. conn'[g] = conn[g] /\ (conn[g].pc \in Busy => conn[g].job \in Requests \ {r})
        BY <1>1, <1>4, <3>2 DEF Serving
      <4>2. QED  BY <4>1, SMTT(30) DEF Path, PathOf, Busy
    <3>3. QED  BY <3>1, <3>2
  <2>2. ASSUME NEW q \in Requests, reply'[q] = None, \A g \in Handlers : conn'[g].job # q
        PROVE  outcome'[q] = "unsubmitted"
    <3>1. q # r  BY <1>2, <2>2
    <3>2. \A g \in Handlers : conn[g].job # q
      <4>1. conn[h].job # q  BY <3>1, <2>2, ServerAssumption DEF Serving
      <4>2. QED  BY <1>1, <2>2, <4>1
    <3>3. QED  BY <1>2, <2>2, <3>1, <3>2 DEF Path
  <2>3. QED  BY <2>1, <2>2 DEF Path
<1>7. ReplyIsTrue'
  BY <1>2 DEF ReplyIsTrue, Truthful
<1>8. QED  BY <1>3, <1>5, <1>6, <1>7

\* What neither takes nor gives the lock leaves its holders alone.
LEMMA LockStays ==
    ASSUME LockHeld, _backend_lock' = _backend_lock,
           \A g \in Handlers : conn'[g].pc \in Inside <=> conn[g].pc \in Inside
    PROVE  LockHeld'
BY DEF LockHeld

LEMMA LockTaken ==
    ASSUME LockHeld, NEW h \in Handlers, ~ SupportsConcurrentInfer => _backend_lock = None,
           ~ SupportsConcurrentInfer => _backend_lock' = h, conn'[h].pc \in Inside,
           \A g \in Handlers \ {h} : conn'[g] = conn[g]
    PROVE  LockHeld'
BY ServerAssumption DEF LockHeld

LEMMA LockGiven ==
    ASSUME LockHeld, NEW h \in Handlers, conn[h].pc \in Inside,
           ~ SupportsConcurrentInfer => _backend_lock' = None, conn'[h].pc \notin Inside,
           \A g \in Handlers \ {h} : conn'[g] = conn[g]
    PROVE  LockHeld'
BY ServerAssumption DEF LockHeld

-----------------------------------------------------------------------------
(* One step of the service *)

Settling == {"result", "error", "timeout"}

\* The worker gives outcomes to pending futures only, and cancels none.
LEMMA WorkerOutcome ==
    ASSUME SchedulerInv, WorkerStep
    PROVE  /\ expired' = expired
           /\ \A q \in Requests : \/ outcome'[q] = outcome[q]
                                  \/ outcome[q] = "pending" /\ outcome'[q] \in Settling
<1>1. CASE \/ LoopTest \/ GetTimesOut \/ Get \/ Gather \/ GatherEnds \/ FilterOne \/ CountExpired
           \/ FilterEnds \/ Execute \/ SetEnds("deliver", "completed") \/ SetEnds("fail", "failed")
  BY <1>1 DEF LoopTest, GetTimesOut, Get, Gather, GatherEnds, FilterOne, CountExpired, FilterEnds,
              Execute, SetEnds, futures
<1>2. ASSUME NEW o \in Settling, NEW next, SetStep(o, next)
      PROVE  /\ expired' = expired
             /\ \A q \in Requests : \/ outcome'[q] = outcome[q]
                                    \/ outcome[q] = "pending" /\ outcome'[q] \in Settling
  <2>1. Target \in Requests /\ outcome[Target] = "pending"  BY <1>2, TargetIsOpen
  <2>2. Becomes(Target, o) /\ expired' = expired  BY <1>2 DEF SetStep
  <2>3. QED  BY <2>1, <2>2 DEF Becomes, SchedulerInv, SchedulerTypeOK
<1>3. CASE ExpireOne \/ SetOne("deliver", "result") \/ SetOne("fail", "error")
  BY <1>2, <1>3, SettingSteps DEF Dies, Settling
<1>4. QED  BY <1>1, <1>3 DEF WorkerStep, Deliver, Fail

\* The scheduler's worker and the passing of deadlines leave the connections alone.
LEMMA BackgroundKeeps ==
    ASSUME SchedulerInv, ServerInv,
           ServerWorker \/ \E h \in Handlers : DeadlinePasses(h)
    PROVE  ServerInv'
<1> USE DEF ServerInv
<1>1. /\ UNCHANGED <<conn, reply, batching, _backend_lock>> /\ expired \subseteq expired'
      /\ \A q \in Requests : \/ outcome'[q] = outcome[q]
                             \/ outcome[q] = "pending" /\ outcome'[q] \in Settling
      /\ ~ batching => worker' = worker /\ \A q \in Requests : outcome'[q] = outcome[q]
  <2>1. CASE ServerWorker
    BY <2>1, WorkerOutcome DEF ServerWorker, serverVars
  <2>2. CASE \E h \in Handlers : DeadlinePasses(h)
    BY <2>2 DEF DeadlinePasses, Expire, serverVars
  <2>3. QED  BY <2>1, <2>2
<1>2. ServerTypeOK' /\ Serving'  BY <1>1 DEF ServerTypeOK, Serving
<1>3. Path'
  <2>1. ASSUME NEW h \in Handlers PROVE PathOf(h)'
    <3>1. conn[h].pc \in Busy => conn[h].job \in Requests  BY DEF Serving
    <3>2. QED  BY <1>1, <3>1, SMTT(30) DEF Path, PathOf, Busy, Settling
  <2>2. QED  BY <1>1, <2>1 DEF Path, Settling
<1>4. ReplyIsTrue'  BY <1>1 DEF ReplyIsTrue, Settling
<1>5. LockHeld'  BY <1>1 DEF LockHeld
<1>6. QED  BY <1>2, <1>3, <1>4, <1>5

\* A message arrives; a reset is asked for; the reply is sent.
LEMMA EdgeKeeps ==
    ASSUME SchedulerInv, ServerInv, NEW h \in Handlers,
           Send(h) \/ SendFails(h) \/ ReceiveReset(h) \/ Reset(h) \/ EndReset(h)
    PROVE  ServerInv'
<1> USE DEF ServerInv
<1>1. /\ UNCHANGED <<outcome, expired, worker, reply, batching>>
      /\ \A g \in Handlers \ {h} : conn'[g] = conn[g]
      /\ conn' \in [Handlers -> [pc : Labels, job : Requests \cup {None},
                                 code : Codes \cup {None, "reset_ok"}]]
      /\ \/ /\ conn[h].pc = "send" /\ conn'[h].pc = "idle" /\ _backend_lock' = _backend_lock
         \/ /\ conn[h].pc = "idle" /\ conn'[h].pc = "reset" /\ _backend_lock' = _backend_lock
         \/ /\ conn[h].pc = "reset" /\ conn'[h].pc = "resetting"
            /\ _backend_lock = None /\ _backend_lock' = h
         \/ /\ conn[h].pc = "resetting" /\ conn'[h].pc = "send" /\ _backend_lock' = None
      /\ conn'[h].job = None
  <2>1. CASE Send(h) \/ SendFails(h)
    BY <2>1, SMTT(30) DEF Send, SendFails, At, Idle, ServerTypeOK, Labels, schedulerVars, futures
  <2>2. CASE ReceiveReset(h)
    <3>1. Goto(h, "reset") /\ "reset" \in Labels  BY <2>2 DEF ReceiveReset, Labels
    <3>2. QED
      BY <2>2, <3>1, GotoMoves DEF ReceiveReset, At, Serving, schedulerVars, futures
  <2>3. CASE Reset(h)
    <3>1. Goto(h, "resetting") /\ "resetting" \in Labels  BY <2>3 DEF Reset, Labels
    <3>2. QED  BY <2>3, <3>1, GotoMoves DEF Reset, At, Serving, schedulerVars, futures
  <2>4. CASE EndReset(h)
    <3>1. PICK code \in {"reset_ok", "backend_error"} : Respond(h, None, code)
      BY <2>4 DEF EndReset
    <3>2. QED  BY <2>4, <3>1, RespondMoves DEF EndReset, At, Codes, schedulerVars, futures
  <2>5. QED  BY <2>1, <2>2, <2>3, <2>4
<1>2. ServerTypeOK'  BY <1>1 DEF ServerTypeOK
<1>3. Serving'  BY <1>1, SMTT(30) DEF Serving, Busy
<1>4. Path'
  <2>1. ASSUME NEW g \in Handlers PROVE PathOf(g)'
    BY <1>1 DEF Path, PathOf
  <2>2. ASSUME NEW q \in Requests, reply'[q] = None, \A g \in Handlers : conn'[g].job # q
        PROVE  outcome'[q] = "unsubmitted"
    <3>1. conn[h].job # q  BY <1>1, <2>2, ServerAssumption DEF Serving
    <3>2. QED  BY <1>1, <2>2, <3>1 DEF Path
  <2>3. QED  BY <1>1, <2>1, <2>2 DEF Path
<1>5. ReplyIsTrue'  BY <1>1 DEF ReplyIsTrue
<1>6. LockHeld'
  <2>1. CASE _backend_lock' = _backend_lock /\ conn[h].pc \notin Inside /\ conn'[h].pc \notin Inside
    BY <1>1, <2>1, LockStays
  <2>2. CASE _backend_lock = None /\ _backend_lock' = h /\ conn'[h].pc \in Inside
    BY <1>1, <2>2, LockTaken
  <2>3. CASE _backend_lock' = None /\ conn[h].pc \in Inside /\ conn'[h].pc \notin Inside
    BY <1>1, <2>3, LockGiven
  <2>4. QED  BY <1>1, <2>1, <2>2, <2>3 DEF Inside
<1>7. QED  BY <1>2, <1>3, <1>4, <1>5, <1>6

\* The steps of handler() with a request leave the others' requests alone.
LEMMA ReceiveKeeps ==
    ASSUME SchedulerInv, ServerInv, NEW h \in Handlers, NEW r \in Requests, Receive(h, r)
    PROVE  ServerInv'
<1> USE DEF ServerInv
<1>1. /\ conn[h].pc = "idle" /\ reply[r] = None /\ \A g \in Handlers : conn[g].job # r
      /\ UNCHANGED <<outcome, expired, worker, batching, _backend_lock>>
      /\ outcome[r] = "unsubmitted"
  BY DEF Receive, At, schedulerVars, futures, Path
<1>2. CASE \E code \in {"invalid_request", "backend_error"} : Respond(h, r, code)
  <2>1. PICK code \in {"invalid_request", "backend_error"} : Respond(h, r, code)  BY <1>2
  <2>2. code \in Codes /\ Truthful(r, code)'  BY <1>1 DEF Codes, Truthful
  <2>3. (ServerTypeOK /\ Serving /\ Path /\ ReplyIsTrue)'
    BY <1>1, <2>1, <2>2, RespondKeeps DEF SchedulerInv
  <2>4. conn'[h].pc = "send" /\ \A g \in Handlers \ {h} : conn'[g] = conn[g]
    BY <2>1, <2>2, RespondMoves
  <2>5. LockHeld'  BY <1>1, <2>4, LockStays DEF Inside
  <2>6. QED  BY <2>3, <2>5
<1>3. CASE /\ conn' = [conn EXCEPT ![h] = [pc |-> IF batching THEN "remaining" ELSE "acquire",
                                           job |-> r, code |-> None]]
           /\ UNCHANGED <<served, reply>>
  <2>1. /\ conn'[h].pc = (IF batching THEN "remaining" ELSE "acquire") /\ conn'[h].job = r
        /\ \A g \in Handlers \ {h} : conn'[g] = conn[g]
        /\ conn' \in [Handlers -> [pc : Labels, job : Requests \cup {None},
                                   code : Codes \cup {None, "reset_ok"}]]
    BY <1>3 DEF ServerTypeOK, Labels, Busy
  <2>2. ServerTypeOK'  BY <1>1, <1>3, <2>1 DEF ServerTypeOK
  <2>3. Serving'  BY <1>1, <1>3, <2>1, SMTT(30) DEF Serving, Busy
  <2>4. Path'
    <3>1. ASSUME NEW g \in Handlers PROVE PathOf(g)'
      <4>1. CASE g = h
        BY <1>1, <2>1, <4>1 DEF PathOf
      <4>2. CASE g # h
        <5>1. conn'[g] = conn[g] /\ PathOf(g)  BY <2>1, <4>2 DEF Path
        <5>2. QED  BY <1>1, <5>1 DEF PathOf
      <4>3. QED  BY <4>1, <4>2
    <3>2. ASSUME NEW q \in Requests, reply'[q] = None, \A g \in Handlers : conn'[g].job # q
          PROVE  outcome'[q] = "unsubmitted"
      <4>1. conn[h].job # q  BY <1>1, ServerAssumption DEF Serving
      <4>2. QED  BY <1>1, <1>3, <2>1, <3>2, <4>1, SMTT(30) DEF Path
    <3>3. QED  BY <1>1, <3>1, <3>2 DEF Path
  <2>5. ReplyIsTrue'  BY <1>1, <1>3 DEF ReplyIsTrue
  <2>6. LockHeld'  BY <1>1, <2>1, LockStays DEF Inside
  <2>7. QED  BY <2>2, <2>3, <2>4, <2>5, <2>6
<1>4. QED  BY <1>2, <1>3 DEF Receive

\* A request that is being served is one, goes its way and has not been given up.
LEMMA BusyServes ==
    ASSUME SchedulerInv, ServerInv, NEW h \in Handlers, conn[h].pc \in Busy
    PROVE  /\ conn[h].job \in Requests /\ PathOf(h) /\ SchedulerTypeOK
           /\ outcome[conn[h].job] \notin {"cancelled", "overflow"}
           /\ ~ batching => outcome[conn[h].job] = "unsubmitted"
<1>1. /\ conn[h].job \in Requests /\ reply[conn[h].job] = None /\ PathOf(h)
      /\ outcome[conn[h].job] # "cancelled" /\ (~ batching => outcome[conn[h].job] = "unsubmitted")
      /\ outcome[conn[h].job] = "overflow" => reply[conn[h].job] = "backend_error"
  BY DEF ServerInv, Serving, Path, ReplyIsTrue
<1>2. outcome[conn[h].job] # "overflow"
  BY <1>1, ServerAssumption DEF Codes
<1>3. QED  BY <1>1, <1>2 DEF SchedulerInv

\* The scheduler's path: nothing of it touches the lock.  A handler on it replies,
LEMMA ScheduledReplies ==
    ASSUME SchedulerInv, ServerInv, NEW h \in Handlers, conn[h].pc \in Busy \ Inside,
           NEW r, r = conn[h].job, NEW code \in Codes, Respond(h, r, code), outcome' = outcome,
           UNCHANGED <<expired, worker, batching, _backend_lock>>, Truthful(r, code)
    PROVE  ServerInv'
<1>1. Truthful(r, code)'  BY DEF Truthful
<1>2. /\ ServerTypeOK /\ Serving /\ Path /\ ReplyIsTrue /\ LockHeld /\ SchedulerTypeOK
      /\ r \in Requests /\ outcome[r] # "cancelled"
      /\ ~ batching => outcome[r] = "unsubmitted"
  BY BusyServes DEF ServerInv
<1>3. (ServerTypeOK /\ Serving /\ Path /\ ReplyIsTrue)'
  BY <1>1, <1>2, RespondKeeps
<1>4. conn'[h].pc = "send" /\ \A g \in Handlers \ {h} : conn'[g] = conn[g]
  BY <1>2, RespondMoves
<1>5. LockHeld'  BY <1>2, <1>4, LockStays DEF Inside
<1>6. QED  BY <1>3, <1>5 DEF ServerInv

\* or goes on.
LEMMA ScheduledMoves ==
    ASSUME SchedulerInv, ServerInv, NEW h \in Handlers, conn[h].pc \in Busy \ Inside,
           NEW pc \in {"submit", "submitted", "wait", "check"}, Goto(h, pc),
           UNCHANGED <<reply, expired, worker, batching, _backend_lock>>,
           \A q \in Requests \ {conn[h].job} : outcome'[q] = outcome[q],
           outcome'[conn[h].job] \notin {"cancelled", "overflow"},
           ~ batching => outcome'[conn[h].job] = "unsubmitted",
           pc # "check" => batching,
           pc = "submit" => outcome'[conn[h].job] = "unsubmitted",
           pc \in {"submitted", "wait"} =>
              outcome'[conn[h].job] \in {"pending", "result", "error", "timeout"},
           pc = "check" /\ batching => outcome'[conn[h].job] = "result"
    PROVE  ServerInv'
<1>1. pc \in Busy /\ pc \in Labels /\ pc \notin Inside  BY DEF Busy, Labels, Inside
<1>2. ServerTypeOK /\ Serving /\ Path /\ ReplyIsTrue /\ LockHeld /\ SchedulerTypeOK
  BY BusyServes DEF ServerInv
<1>3. /\ conn'[h].pc = pc /\ conn'[h].job = conn[h].job
      /\ \A g \in Handlers \ {h} : conn'[g] = conn[g]
  BY <1>1, <1>2, GotoMoves
<1>4. PathOf(h)'  BY <1>3 DEF PathOf
<1>5. (ServerTypeOK /\ Serving /\ Path /\ ReplyIsTrue)'
  BY <1>1, <1>2, <1>4, MoveKeeps
<1>6. LockHeld'  BY <1>1, <1>2, <1>3, LockStays
<1>7. QED  BY <1>5, <1>6 DEF ServerInv

LEMMA CheckRemainingKeeps ==
    ASSUME SchedulerInv, ServerInv, NEW h \in Handlers, CheckRemaining(h)
    PROVE  ServerInv'
<1>1. /\ conn[h].pc = "remaining" /\ UNCHANGED <<outcome, expired, worker, batching, _backend_lock>>
  BY DEF CheckRemaining, At, schedulerVars, futures
<1>2. conn[h].pc \in Busy \ Inside  BY <1>1 DEF Busy, Inside
<1>3. batching /\ outcome[conn[h].job] = "unsubmitted"  BY <1>1, <1>2, BusyServes DEF PathOf
<1>4. CASE conn[h].job \in expired /\ Respond(h, conn[h].job, "deadline_exceeded")
  BY <1>1, <1>2, <1>3, <1>4, ScheduledReplies DEF Truthful, Codes
<1>5. CASE conn[h].job \notin expired /\ Goto(h, "submit") /\ UNCHANGED <<served, reply>>
  BY <1>1, <1>2, <1>3, <1>5, ScheduledMoves
<1>6. QED  BY <1>4, <1>5 DEF CheckRemaining

LEMMA ServiceSubmitKeeps ==
    ASSUME SchedulerInv, ServerInv, NEW h \in Handlers, Submit(h),
           NEW r, r = conn[h].job
    PROVE  ServerInv'
<1>1. /\ conn[h].pc = "submit" /\ submit(r)
      /\ UNCHANGED <<expired, worker, batching, _backend_lock>>
  BY DEF Submit, At, submit
<1>2. conn[h].pc \in Busy \ Inside  BY <1>1 DEF Busy, Inside
<1>3. /\ batching /\ r \in Requests /\ SchedulerTypeOK
      /\ ServerTypeOK /\ Serving /\ Path /\ ReplyIsTrue /\ LockHeld
  BY <1>1, <1>2, BusyServes DEF PathOf, ServerInv
<1>4. \A q \in Requests \ {r} : outcome'[q] = outcome[q]
  BY <1>1, <1>3 DEF submit, SubmitFull, SubmitQueued, Becomes, SchedulerTypeOK
<1>5. CASE outcome'[r] = "overflow" /\ Respond(h, r, "backend_error")
  <2>1. Truthful(r, "backend_error")' /\ "backend_error" \in Codes  BY DEF Truthful, Codes
  <2>2. (ServerTypeOK /\ Serving /\ Path /\ ReplyIsTrue)'
    BY <1>1, <1>2, <1>3, <1>4, <1>5, <2>1, RespondKeeps
  <2>3. conn'[h].pc = "send" /\ \A g \in Handlers \ {h} : conn'[g] = conn[g]
    BY <1>3, <1>5, <2>1, RespondMoves
  <2>4. LockHeld'  BY <1>1, <1>2, <1>3, <2>3, LockStays DEF Inside
  <2>5. QED  BY <2>2, <2>4 DEF ServerInv
<1>6. CASE outcome'[r] = "pending" /\ Goto(h, "submitted") /\ UNCHANGED <<served, reply>>
  BY <1>1, <1>2, <1>3, <1>4, <1>6, ScheduledMoves
<1>7. QED  BY <1>5, <1>6 DEF Submit

LEMMA SubmittedKeeps ==
    ASSUME SchedulerInv, ServerInv, NEW h \in Handlers, Submitted(h)
    PROVE  ServerInv'
<1>1. /\ conn[h].pc = "submitted" /\ Goto(h, "wait")
      /\ UNCHANGED <<outcome, reply, expired, worker, batching, _backend_lock>>
  BY DEF Submitted, At, CountSubmitted, futures
<1>2. conn[h].pc \in Busy \ Inside  BY <1>1 DEF Busy, Inside
<1>3. batching /\ outcome[conn[h].job] \in {"pending", "result", "error", "timeout"}
  BY <1>1, <1>2, BusyServes DEF PathOf
<1>4. QED  BY <1>1, <1>2, <1>3, ScheduledMoves

\* What result() raises is what the reply says.
LEMMA FutureReplies ==
    ASSUME NEW h, NEW r, outcome[r] \in DOMAIN FutureReply, Respond(h, r, FutureReply[outcome[r]])
    PROVE  \/ outcome[r] = "error" /\ Respond(h, r, "backend_error")
           \/ outcome[r] = "timeout" /\ Respond(h, r, "deadline_exceeded")
BY SMTT(30) DEF FutureReply

LEMMA AwaitFutureKeeps ==
    ASSUME SchedulerInv, ServerInv, NEW h \in Handlers, AwaitFuture(h)
    PROVE  ServerInv'
<1>1. /\ conn[h].pc = "wait" /\ UNCHANGED <<outcome, expired, worker, batching, _backend_lock>>
  BY DEF AwaitFuture, At, schedulerVars, futures
<1>2. conn[h].pc \in Busy \ Inside  BY <1>1 DEF Busy, Inside
<1>3. batching /\ conn[h].job \in Requests  BY <1>1, <1>2, BusyServes DEF PathOf
<1>4. CASE outcome[conn[h].job] = "result" /\ Goto(h, "check") /\ UNCHANGED <<served, reply>>
  BY <1>1, <1>2, <1>3, <1>4, ScheduledMoves
<1>5. CASE /\ outcome[conn[h].job] \in DOMAIN FutureReply
           /\ Respond(h, conn[h].job, FutureReply[outcome[conn[h].job]])
  <2>1. \/ outcome[conn[h].job] = "error" /\ Respond(h, conn[h].job, "backend_error")
        \/ outcome[conn[h].job] = "timeout" /\ Respond(h, conn[h].job, "deadline_exceeded")
    BY <1>5, FutureReplies
  <2>2. outcome[conn[h].job] = "timeout" => conn[h].job \in expired
    BY <1>3 DEF SchedulerInv, TimeoutIsTrue
  <2>3. QED  BY <1>1, <1>2, <2>1, <2>2, ScheduledReplies DEF Truthful, Codes
<1>6. CASE TimedOut(conn[h].job) /\ Respond(h, conn[h].job, ResultTimeoutCode)
  <2>1. /\ outcome[conn[h].job] = "pending" /\ conn[h].job \in expired
        /\ ResultTimeoutCode \in {"deadline_exceeded", "backend_error"}
    BY <1>6, ServerAssumption DEF TimedOut
  <2>2. QED  BY <1>1, <1>2, <1>6, <2>1, ScheduledReplies DEF Truthful, Codes
<1>7. QED  BY <1>4, <1>5, <1>6 DEF AwaitFuture

LEMMA CheckResultKeeps ==
    ASSUME SchedulerInv, ServerInv, NEW h \in Handlers, CheckResult(h)
    PROVE  ServerInv'
<1>1. /\ conn[h].pc = "check" /\ UNCHANGED <<outcome, expired, worker, batching, _backend_lock>>
  BY DEF CheckResult, At, schedulerVars, futures
<1>2. conn[h].pc \in Busy \ Inside  BY <1>1 DEF Busy, Inside
<1>3. /\ outcome[conn[h].job] \in {"unsubmitted", "result"}
      /\ batching => outcome[conn[h].job] = "result"
  BY <1>1, <1>2, BusyServes DEF PathOf
<1>4. PICK code \in Codes : /\ Respond(h, conn[h].job, code)
                            /\ code = "deadline_exceeded" => conn[h].job \in expired
  BY DEF CheckResult, Codes
<1>5. QED  BY <1>1, <1>2, <1>3, <1>4, ScheduledReplies DEF Truthful

\* The direct path: every way out of the backend gives the lock back.
LEMMA DirectKeeps ==
    ASSUME SchedulerInv, ServerInv, NEW h \in Handlers, NEW r, r = conn[h].job,
           Acquire(h) \/ StartInfer(h) \/ EndInfer(h)
    PROVE  ServerInv'
<1> USE DEF ServerInv
<1>1. /\ conn[h].pc \in {"acquire", "guarded", "inferring"}
      /\ UNCHANGED <<outcome, expired, worker, batching>>
  BY DEF Acquire, StartInfer, EndInfer, At, schedulerVars, futures
<1>2. /\ conn[h].pc \in Busy /\ r \in Requests /\ ~ batching /\ SchedulerTypeOK
      /\ outcome[r] = "unsubmitted"
  BY <1>1 DEF Busy, Serving, Path, PathOf, SchedulerInv
<1>3. ASSUME NEW code \in {"deadline_exceeded", "backend_error"}, Respond(h, r, code),
             code = "deadline_exceeded" => r \in expired,
             conn[h].pc \in Inside, _backend_lock' = Unguard
      PROVE  ServerInv'
  <2>1. Truthful(r, code)' /\ code \in Codes  BY <1>1, <1>2, <1>3 DEF Truthful, Codes
  <2>2. (ServerTypeOK /\ Serving /\ Path /\ ReplyIsTrue)'
    BY <1>1, <1>2, <1>3, <2>1, RespondKeeps
  <2>3. conn'[h].pc = "send" /\ \A g \in Handlers \ {h} : conn'[g] = conn[g]
    BY <1>2, <1>3, <2>1, RespondMoves
  <2>4. LockHeld'  BY <1>3, <2>3, LockGiven DEF Inside, Unguard
  <2>5. QED  BY <2>2, <2>4
<1>4. ASSUME NEW pc \in {"guarded", "inferring", "check"}, Goto(h, pc), reply' = reply
      PROVE  /\ (ServerTypeOK /\ Serving /\ Path /\ ReplyIsTrue)'
             /\ conn'[h].pc = pc /\ \A g \in Handlers \ {h} : conn'[g] = conn[g]
  <2>1. pc \in Busy /\ pc \in Labels  BY DEF Busy, Labels
  <2>2. conn'[h].pc = pc /\ conn'[h].job = r /\ \A g \in Handlers \ {h} : conn'[g] = conn[g]
    BY <1>4, <2>1, GotoMoves
  <2>3. PathOf(h)'  BY <1>1, <1>2, <1>4, <2>2 DEF PathOf
  <2>4. QED  BY <1>1, <1>2, <1>4, <2>1, <2>2, <2>3, MoveKeeps
<1>5. CASE Acquire(h)
  <2>1. /\ Goto(h, "guarded") /\ reply' = reply /\ _backend_lock' = Guard(h) /\ MayEnter(h)
    BY <1>5 DEF Acquire
  <2>2. LockHeld'  BY <1>4, <2>1, LockTaken DEF Guard, MayEnter, Inside
  <2>3. QED  BY <1>4, <2>1, <2>2
<1>6. CASE StartInfer(h)
  <2>1. conn[h].pc = "guarded"  BY <1>6 DEF StartInfer, At
  <2>2. CASE r \in expired /\ Respond(h, r, "deadline_exceeded") /\ _backend_lock' = Unguard
    BY <1>3, <2>1, <2>2 DEF Inside
  <2>3. CASE r \notin expired /\ Goto(h, "inferring") /\ UNCHANGED <<_backend_lock, served, reply>>
    <3>1. LockHeld'  BY <1>4, <2>1, <2>3, LockStays DEF Inside
    <3>2. QED  BY <1>4, <2>3, <3>1
  <2>4. QED  BY <1>6, <2>2, <2>3 DEF StartInfer
<1>7. CASE EndInfer(h)
  <2>1. conn[h].pc = "inferring" /\ _backend_lock' = Unguard  BY <1>7 DEF EndInfer, At
  <2>2. CASE Respond(h, r, "backend_error")  BY <1>3, <2>1, <2>2 DEF Inside
  <2>3. CASE Goto(h, "check") /\ UNCHANGED <<served, reply>>
    <3>1. LockHeld'  BY <1>4, <2>1, <2>3, LockGiven DEF Inside, Unguard
    <3>2. QED  BY <1>4, <2>3, <3>1
  <2>4. QED  BY <1>7, <2>2, <2>3 DEF EndInfer
<1>8. QED  BY <1>5, <1>6, <1>7

\* The service uses the scheduler only through its operations.
LEMMA ServiceUsesScheduler ==
    ASSUME ServerInv, [Next]_vars
    PROVE  [SchedulerNext]_schedulerVars
<1> USE DEF ServerInv
<1>1. ASSUME NEW h \in Handlers, Submit(h) \/ Submitted(h) \/ DeadlinePasses(h)
      PROVE  SchedulerNext
  <2>1. conn[h].job \in Requests
    <3>1. conn[h].pc \in Busy \/ conn[h].job # None
      BY <1>1 DEF Submit, Submitted, DeadlinePasses, At, Busy
    <3>2. QED  BY <3>1 DEF Serving, ServerTypeOK
  <2>2. submit(conn[h].job) \/ CountSubmitted(conn[h].job) \/ Expire(conn[h].job)
    BY <1>1 DEF Submit, Submitted, DeadlinePasses
  <2>3. QED  BY <2>1, <2>2 DEF SchedulerNext
<1>2. CASE ServerWorker  BY <1>2 DEF ServerWorker, SchedulerNext
<1>3. ASSUME NEW h \in Handlers,
             \/ CheckRemaining(h) \/ AwaitFuture(h) \/ Acquire(h) \/ StartInfer(h) \/ EndInfer(h)
             \/ CheckResult(h) \/ Reset(h) \/ EndReset(h) \/ Send(h) \/ SendFails(h)
             \/ ReceiveReset(h) \/ \E r \in Requests : Receive(h, r)
      PROVE  UNCHANGED schedulerVars
  BY <1>3 DEF CheckRemaining, AwaitFuture, Acquire, StartInfer, EndInfer, CheckResult, Reset,
              EndReset, Send, SendFails, ReceiveReset, Receive
<1>4. CASE UNCHANGED vars  BY <1>4 DEF vars
<1>5. QED  BY <1>1, <1>2, <1>3, <1>4 DEF Next, HandlerStep

\* The invariant reads only these variables.
LEMMA ServerStutters ==
    ASSUME ServerInv, UNCHANGED <<conn, reply, batching, _backend_lock, outcome, expired, worker>>
    PROVE  ServerInv'
<1>1. ServerTypeOK' /\ Serving' /\ LockHeld'  BY DEF ServerInv, ServerTypeOK, Serving, LockHeld
<1>2. Path'  BY DEF ServerInv, Path, PathOf
<1>3. ReplyIsTrue'  BY DEF ServerInv, ReplyIsTrue
<1>4. QED  BY <1>1, <1>2, <1>3 DEF ServerInv

LEMMA ServerInductive ==
    ASSUME Inv, [Next]_vars
    PROVE  Inv'
<1> USE DEF Inv
<1>1. SchedulerInv'  BY ServiceUsesScheduler, SchedulerInductive
<1>2. ServerInv'
  <2>1. CASE UNCHANGED vars
    BY <2>1, ServerStutters DEF vars, schedulerVars, futures, serverVars
  <2>2. ASSUME NEW h \in Handlers, HandlerStep(h) \/ ReceiveReset(h) PROVE ServerInv'
    BY <2>2, CheckRemainingKeeps, ServiceSubmitKeeps, SubmittedKeeps, AwaitFutureKeeps, CheckResultKeeps,
       DirectKeeps, EdgeKeeps DEF HandlerStep
  <2>3. ASSUME NEW h \in Handlers, NEW r \in Requests, Receive(h, r) PROVE ServerInv'
    BY <2>3, ReceiveKeeps
  <2>4. CASE ServerWorker \/ \E h \in Handlers : DeadlinePasses(h)
    BY <2>4, BackgroundKeeps
  <2>5. QED  BY <2>1, <2>2, <2>3, <2>4 DEF Next
<1>3. QED  BY <1>1, <1>2

LEMMA ServerStarts ==
    ASSUME Init
    PROVE  Inv
<1>1. SchedulerInv  BY SchedulerStarts DEF Init
<1>2. /\ outcome = [r \in Requests |-> "unsubmitted"] /\ expired = {} /\ worker = "loop"
      /\ reply = [r \in Requests |-> None] /\ _backend_lock = None /\ batching \in BOOLEAN
      /\ conn = [h \in Handlers |-> [pc |-> "idle", job |-> None, code |-> None]]
  BY ServerAssumption DEF Init, SchedulerInit, Idle
<1>3. ServerTypeOK  BY <1>2 DEF ServerTypeOK, Labels
<1>4. Serving  BY <1>2 DEF Serving, Busy
<1>5. Path  BY <1>2 DEF Path, PathOf
<1>6. ReplyIsTrue  BY <1>2, ServerAssumption DEF ReplyIsTrue, Codes
<1>7. LockHeld  BY <1>2, ServerAssumption DEF LockHeld, Inside
<1>8. QED  BY <1>1, <1>3, <1>4, <1>5, <1>6, <1>7 DEF Inv, ServerInv

LEMMA ServerAlways == Spec => []Inv
BY ServerStarts, ServerInductive, PTL DEF Spec

\* For any number of connections and requests, with or without the scheduler: an
\* action is the reply only to a request whose result the scheduler delivered,
\* deadline_exceeded only after the deadline, invalid_request never for what the
\* model failed, and a full queue is always reported (handler, _worker).
THEOREM RepliesAreTrue == Spec => []ReplyIsTrue
<1>1. Inv => ReplyIsTrue  BY DEF Inv, ServerInv
<1>2. QED  BY <1>1, ServerAlways, PTL

\* For any number of connections and requests: what had expired when _worker
\* dequeued it is not executed by the service's model runner.
THEOREM ServiceSkipsLate == Spec => []LateNeverExecuted
<1>1. Inv => LateNeverExecuted  BY DEF Inv, SchedulerInv
<1>2. QED  BY <1>1, ServerAlways, PTL

\* For any number of connections: without the scheduler, infer_guard and reset keep
\* a backend that does not support concurrent inference to one thread at a time.
THEOREM BackendIsExclusive == Spec => []BackendExclusive
<1>1. Inv => BackendExclusive
  <2>1. SUFFICES ASSUME Inv, ~ batching, ~ SupportsConcurrentInfer
                 PROVE  Cardinality(InBackend) <= 1
    BY DEF BackendExclusive
  <2>2. worker = "loop" /\ \A h \in Handlers : conn[h].pc \in Inside => _backend_lock = h
    BY <2>1 DEF Inv, ServerInv, Path, LockHeld
  <2>3. InBackend \subseteq {_backend_lock}  BY <2>2 DEF InBackend, Inside
  <2>4. InBackend = {} \/ InBackend = {_backend_lock}  BY <2>3
  <2>5. Cardinality({}) = 0 /\ \A x : Cardinality({x}) = 1  BY FS_EmptySet, FS_Singleton
  <2>6. QED  BY <2>4, <2>5, SMTT(30)
<1>2. QED  BY <1>1, ServerAlways, PTL

\* For any number of connections: behind the service, too, every future is completed
\* at most once and nobody who waits for one is forgotten while the worker lives.
THEOREM ServiceKeepsFutures == Spec => LedgerSafe /\ []PendingIsHeld /\ []StatsAgree
<1>1. Init => SchedulerInit  BY DEF Init
<1>2. Inv /\ [Next]_vars => [SchedulerNext]_schedulerVars  BY ServiceUsesScheduler DEF Inv
<1>3. Spec => SchedulerSpec  BY <1>1, <1>2, ServerAlways, PTL DEF Spec, SchedulerSpec
<1>4. QED  BY <1>3, FuturesAreSetOnce, RequestSchedulerIsCorrect, PTL
=============================================================================
