---------------------------- MODULE SplitPolicy -----------------------------
(***************************************************************************)
(* The split TurboVLA policy (models/turbovla/split_tensorrt.py) with its  *)
(* four plugins, as the server reaches it: threads of connections call     *)
(* TurboVlaTensorRtBackend.infer, which calls predict_timed, with no lock  *)
(* around it (supports_concurrent_infer); or the request scheduler's one   *)
(* worker calls TurboVlaSplitRunner.execute with a batch.  Vision runs     *)
(* unlocked, text, fusion and action under _continuation_lock.  An action  *)
(* chunk is named by what it was computed from.                            *)
(***************************************************************************)
EXTENDS DynamicEngine

CONSTANTS
    Threads,
    Requests,                \* [frame, state, prompt] records
    PluginSets,              \* the sets of plugins a configuration may enable
    PrefixEntries, CameraEntries, RefreshSteps, FullScore, DifficultyThreshold,
    Key(_),                  \* whitespace normalization of a prompt
    MaxCalls,                \* bound on the calls made
    MaxFailures,             \* bound on the engine failures
    None

VARIABLES
    path,                    \* "timed": backend.infer; "runner": execute
    plugins,                 \* the plugins enabled by the configuration
    prefix, tokencache, throttle, cascade,
    last_state, last_actions,
    lock,                    \* the owner of _continuation_lock
    call,                    \* where each thread is and its local variables
    calls, failures,
    overlapped               \* history: two calls were in the policy at once

Batch(S) == UNION {[1..n -> S] : n \in 1..MaxBatch}

\* What the memory of a buffer may hold, and the tokens read from it.
Contents == {r.frame : r \in Requests} \cup {Garbage}
VisionTokens == [frames : Batch(Contents), step : Nat]

\* The ranges the plugins' configurations check, and constants that stand for no value.
ASSUME SplitAssumption ==
    /\ \A r \in Requests : r.state \in Int
    /\ {MaxBatch, PrefixEntries, CameraEntries, RefreshSteps} \subseteq Nat \ {0}
    /\ FullScore \in Nat /\ DifficultyThreshold \in 0..FullScore
    /\ None \notin Threads \cup {<<>>} /\ None \notin VisionTokens
    /\ None \notin Batch(Contents) /\ Unallocated \notin Batch(Contents)

config == <<path, plugins>>
caches == <<prefix, tokencache, throttle, cascade>>
memory == <<last_state, last_actions>>
counts == <<calls, failures, overlapped>>
vars == <<engineVars, config, caches, memory, counts, lock, call>>

TimedRefresh == TRUE

Prefix == INSTANCE PrefixCache WITH MaxEntries <- PrefixEntries
Tokens == INSTANCE VisionTokenCache WITH MaxEntries <- CameraEntries
Throttle == INSTANCE PerceptionThrottle
Cascaded == INSTANCE Cascade

\* A call's locals: the batch, the frames being encoded, the samples encoded one by one
\* (None unless the batch was refused), the tokens, the text and the answers so far.
Idle == [at |-> "idle", batch |-> <<>>, feed |-> <<>>, output |-> 0, samples |-> None,
         tokens |-> None, text |-> None, route |-> "heavy", answer |-> <<>>, raised |-> FALSE]

Init ==
    /\ EngineInit
    /\ path \in {"timed", "runner"}
    /\ plugins \in PluginSets
    /\ Prefix!Init /\ Tokens!Init /\ Throttle!Init /\ Cascaded!Init
    /\ last_state = None /\ last_actions = None /\ lock = None
    /\ call = [t \in Threads |-> Idle]
    /\ calls = 0 /\ failures = 0 /\ overlapped = FALSE

FramesOf(batch) == [i \in DOMAIN batch |-> batch[i].frame]
Request(t) == call[t].batch[Len(call[t].answer) + 1]

Begin(t, batch, at, route) ==
    /\ call[t].at = "idle"
    /\ calls < MaxCalls
    /\ calls' = calls + 1
    /\ overlapped' = (overlapped \/ \E u \in Threads : call[u].at # "idle")
    /\ call' = [call EXCEPT ![t] = [Idle EXCEPT !.at = at, !.batch = batch, !.route = route,
                                                 !.feed = FramesOf(batch)]]

Moved(t, at) == call' = [call EXCEPT ![t].at = at]

\* An exception leaves the call; the with statement gives the lock back.
Raised(t) == [call EXCEPT ![t] = [Idle EXCEPT !.batch = call[t].batch, !.raised = TRUE]]

Returned(t, answer) ==
    [call EXCEPT ![t] = [Idle EXCEPT !.batch = call[t].batch, !.route = call[t].route,
                                     !.answer = answer]]

Distance(a, b) == IF a > b THEN a - b ELSE b - a

\* _difficulty: the distance to the last state, clipped to [0, 1].
Difficulty(state) ==
    IF last_state = None THEN FullScore
    ELSE LET delta == Distance(state, last_state) IN IF delta > FullScore THEN FullScore ELSE delta

\* predict_timed up to the routing decision.
predict_timed(t, r) ==
    /\ path = "timed"
    /\ IF "cascade" \in plugins
       THEN \/ Cascaded!RouteLight(Difficulty(r.state)) /\ Begin(t, <<r>>, "light", "light")
            \/ Cascaded!RouteHeavy(Difficulty(r.state)) /\ Begin(t, <<r>>, "encode", "heavy")
       ELSE Begin(t, <<r>>, "encode", "heavy") /\ UNCHANGED cascade
    /\ UNCHANGED <<engineVars, config, memory, prefix, tokencache, throttle, lock, failures>>

\* The light path repeats the last actions, if there are any.
TakeLight(t) ==
    /\ call[t].at = "light"
    /\ call' = IF last_actions # None
               THEN Returned(t, <<last_actions>>)
               ELSE [call EXCEPT ![t].at = "encode", ![t].route = "heavy"]
    /\ UNCHANGED <<engineVars, config, caches, memory, counts, lock>>

\* TurboVlaSplitRunner.execute, on the scheduler's only worker thread.
execute(t, batch) ==
    /\ path = "runner"
    /\ \A u \in Threads \ {t} : call[u] = Idle
    /\ Begin(t, batch, "encode", "heavy")
    /\ UNCHANGED <<engineVars, config, caches, memory, lock, failures>>

Encoded(t, tokens) == call' = [call EXCEPT ![t].at = "encoded", ![t].tokens = tokens]

\* encode_vision: the throttle decides first, then the token cache, else the engine runs.
encode_vision(t) ==
    /\ call[t].at = "encode"
    /\ LET feed == call[t].feed
       IN IF "throttle" \in plugins
          THEN /\ \/ Throttle!Refresh /\ Moved(t, "shape")
                  \/ Throttle!Reuse /\ Encoded(t, throttle.cached)
               /\ UNCHANGED tokencache
          ELSE IF "tokens" \in plugins
          THEN /\ \/ Tokens!Hit("scene", feed) /\ Encoded(t, Tokens!Lookup("scene"))
                  \/ Tokens!Miss("scene", feed) /\ Moved(t, "shape")
               /\ UNCHANGED throttle
          ELSE Moved(t, "shape") /\ UNCHANGED <<tokencache, throttle>>
    /\ UNCHANGED <<engineVars, config, memory, counts, prefix, cascade, lock>>

VisionShape(t) ==
    /\ call[t].at = "shape"
    /\ SetShape(call[t].feed)
    /\ Moved(t, "bind")
    /\ UNCHANGED <<config, caches, memory, counts, lock>>

VisionBind(t) ==
    /\ call[t].at = "bind"
    /\ EnsureBuffers(call[t].feed)
    /\ call' = [call EXCEPT ![t].at = "copy", ![t].output = shape]
    /\ UNCHANGED <<config, caches, memory, counts, lock>>

VisionCopy(t) ==
    /\ call[t].at = "copy"
    /\ CopyIn(call[t].feed)
    /\ Moved(t, "run")
    /\ UNCHANGED <<config, caches, memory, counts, lock>>

VisionRun(t) ==
    /\ call[t].at = "run"
    /\ Execute
    /\ Moved(t, "return")
    /\ UNCHANGED <<config, caches, memory, counts, lock>>

\* The frames the tokens encode and the control step that computed them.
VisionReturn(t) ==
    /\ call[t].at = "return"
    /\ LET tokens == [frames |-> Output(call[t].output), step |-> Throttle!Step]
       IN IF plugins \cap {"throttle", "tokens"} = {} THEN Encoded(t, tokens)
          ELSE call' = [call EXCEPT ![t].at = "store", ![t].tokens = tokens]
    /\ UNCHANGED <<engineVars, config, caches, memory, counts, lock>>

\* The fallback of execute() encodes a refused batch sample by sample.
Refused(t) ==
    IF path = "runner" /\ Len(call[t].feed) > 1
    THEN [call EXCEPT ![t].at = "encode", ![t].samples = <<>>,
                      ![t].feed = <<call[t].batch[1].frame>>]
    ELSE Raised(t)

\* The copy of a batch an engine with a fixed shape refuses, or an execution that fails.
VisionRaises(t) ==
    /\ \/ call[t].at = "copy" /\ ~Fits(call[t].feed) /\ UNCHANGED failures
       \/ call[t].at = "run" /\ failures < MaxFailures /\ failures' = failures + 1
    /\ call' = Refused(t)
    /\ UNCHANGED <<engineVars, config, caches, memory, lock, calls, overlapped>>

StoreTokens(t) ==
    /\ call[t].at = "store"
    /\ IF "throttle" \in plugins
       THEN Throttle!Store(call[t].tokens) /\ UNCHANGED tokencache
       ELSE Tokens!Store("scene", call[t].feed, call[t].tokens) /\ UNCHANGED throttle
    /\ Moved(t, "encoded")
    /\ UNCHANGED <<engineVars, config, memory, counts, prefix, cascade, lock>>

\* After encode_vision: the next sample of a refused batch, or the check of the number of
\* tokens against the number of requests.  A perception that is None has no shape.
Continue(t) ==
    LET tokens == call[t].tokens
        samples == Append(call[t].samples, tokens.frames[1])
        batch == call[t].batch
    IN IF tokens = None THEN IF path = "timed" THEN [call EXCEPT ![t].at = "continue"] ELSE Raised(t)
       ELSE IF call[t].samples # None
       THEN IF Len(samples) < Len(batch)
            THEN [call EXCEPT ![t].at = "encode", ![t].samples = samples,
                              ![t].feed = <<batch[Len(samples) + 1].frame>>]
            ELSE [call EXCEPT ![t].at = "continue", ![t].tokens.frames = samples]
       ELSE IF path = "runner" /\ Len(tokens.frames) # Len(batch) THEN Raised(t)
       ELSE [call EXCEPT ![t].at = "continue"]

CheckTokens(t) ==
    /\ call[t].at = "encoded"
    /\ call' = Continue(t)
    /\ UNCHANGED <<engineVars, config, caches, memory, counts, lock>>

\* Mutant of Acquire: the continuation takes no lock.
AcquireNothing(t) == lock' = lock

Acquire(t) == lock = None /\ lock' = t

\* predict_from_vision: the prefix cache is asked under the lock.
predict_from_vision(t) ==
    /\ call[t].at = "continue"
    /\ Acquire(t)
    /\ LET prompt == Request(t).prompt
       IN IF "prefix" \in plugins
          THEN \/ /\ Prefix!Hit(prompt)
                  /\ call' = [call EXCEPT ![t].at = "fuse", ![t].text = Prefix!Lookup(prompt)]
               \/ Prefix!Miss(prompt) /\ Moved(t, "text")
          ELSE Moved(t, "text") /\ UNCHANGED prefix
    /\ UNCHANGED <<engineVars, config, memory, counts, tokencache, throttle, cascade>>

\* _encode_text, of the prompt as it was sent, and the second half of get_or_compute.
EncodeText(t) ==
    /\ call[t].at = "text"
    /\ LET prompt == Request(t).prompt
       IN /\ IF "prefix" \in plugins THEN Prefix!Store(prompt, prompt) ELSE UNCHANGED prefix
          /\ call' = [call EXCEPT ![t].at = "fuse", ![t].text = prompt]
    /\ UNCHANGED <<engineVars, config, memory, counts, tokencache, throttle, cascade, lock>>

\* The actions are computed from the sample of this request, its state and its text.
Actions(t) ==
    [frame |-> call[t].tokens.frames[IF path = "timed" THEN 1 ELSE Len(call[t].answer) + 1],
     state |-> Request(t).state, text |-> call[t].text]

\* Fusion and action expert.  One sample's tokens are reshaped to [1, 588, 256], so tokens
\* that are None, or of a larger batch, raise.
Fuse(t) ==
    /\ call[t].at = "fuse"
    /\ lock' = None
    /\ LET tokens == call[t].tokens
           answer == Append(call[t].answer, Actions(t))
       IN call' = IF tokens = None \/ (path = "timed" /\ Len(tokens.frames) # 1) THEN Raised(t)
                  ELSE IF path = "runner" /\ Len(answer) = Len(call[t].batch) THEN Returned(t, answer)
                  ELSE [call EXCEPT ![t].answer = answer, ![t].text = None,
                                    ![t].at = IF path = "timed" THEN "remember" ELSE "continue"]
    /\ UNCHANGED <<engineVars, config, caches, memory, counts>>

\* The text, fusion or action engine raises, or its output is not finite.
ContinuationRaises(t) ==
    /\ call[t].at \in {"text", "fuse"}
    /\ failures < MaxFailures
    /\ failures' = failures + 1
    /\ call' = Raised(t)
    /\ lock' = None
    /\ UNCHANGED <<engineVars, config, caches, memory, calls, overlapped>>

\* predict_timed keeps the state and the actions in two assignments.
RememberState(t) ==
    /\ call[t].at = "remember"
    /\ last_state' = call[t].batch[1].state
    /\ Moved(t, "remembered")
    /\ UNCHANGED <<engineVars, config, caches, counts, last_actions, lock>>

RememberActions(t) ==
    /\ call[t].at = "remembered"
    /\ last_actions' = call[t].answer[1]
    /\ call' = Returned(t, call[t].answer)
    /\ UNCHANGED <<engineVars, config, caches, counts, last_state, lock>>

Elapse ==
    /\ "throttle" \in plugins
    /\ Throttle!Elapse
    /\ UNCHANGED <<engineVars, config, memory, counts, prefix, tokencache, cascade, lock, call>>

Step(t) ==
    \/ TakeLight(t) \/ encode_vision(t)
    \/ VisionShape(t) \/ VisionBind(t) \/ VisionCopy(t) \/ VisionRun(t) \/ VisionReturn(t)
    \/ VisionRaises(t) \/ StoreTokens(t) \/ CheckTokens(t)
    \/ predict_from_vision(t) \/ EncodeText(t) \/ Fuse(t) \/ ContinuationRaises(t)
    \/ RememberState(t) \/ RememberActions(t)

Next ==
    \/ \E t \in Threads : \/ \E r \in Requests : predict_timed(t, r)
                          \/ \E batch \in Batch(Requests) : execute(t, batch)
                          \/ Step(t)
    \/ Elapse

Spec == Init /\ [][Next]_vars

-----------------------------------------------------------------------------
Heavy(t) == call[t].at = "idle" /\ call[t].route = "heavy"

\* One batch size was ever encoded.
OneShape ==
    \A m, n \in 1..MaxBatch :
        device["images"][m] # Unallocated /\ device["images"][n] # Unallocated => m = n

\* An answer that runs the model (predict_timed's heavy path, execute) is computed from the
\* request's own state and from the text of its own normalized prompt, whatever other
\* threads do.  Its frame is its own too when no two calls were in the policy at once, the
\* Vision engine met one shape only and perception is not throttled: infer() of the engine
\* is not locked, and it does not bind the buffers of a shape it has met before.
AnswersAreOwn ==
    \A t \in Threads : Heavy(t) =>
        \A i \in DOMAIN call[t].answer :
            LET a == call[t].answer[i]
                r == call[t].batch[i]
            IN /\ a.state = r.state
               /\ Key(a.text) = Key(r.prompt)
               /\ ~overlapped /\ OneShape /\ "throttle" \notin plugins => a.frame = r.frame

\* Calls that follow one another take the light path (predict_timed) only for a state
\* nearer than the threshold to the one the repeated actions were computed for: repeating
\* an answer does not move the state it is compared with.
LightIsNear ==
    \A t \in Threads :
        call[t].at = "idle" /\ call[t].route = "light" /\ ~overlapped =>
            Distance(call[t].answer[1].state, call[t].batch[1].state) < DifficultyThreshold

\* Calls that follow one another and whose engines neither fail nor refuse a batch never see
\* a perception (PerceptionThrottlePlugin.get) that is refresh_steps control steps old, or
\* none at all.  An engine of a fixed shape is out: the refresh of a batch it refuses counts
\* although it stored nothing, so what is replayed after it may be older.
ReuseIsRecent ==
    \A t \in Threads :
        (/\ call[t].at = "continue" /\ "throttle" \in plugins
         /\ ~overlapped /\ failures = 0 /\ (dynamic \/ path = "timed")) =>
            call[t].tokens # None /\ Throttle!Step - call[t].tokens.step < RefreshSteps

\* _continuation_lock makes the prefix cache single-flight: the text engine never runs for
\* an instruction whose prefix is cached.  The thread in the text, fusion and action
\* engines is the one that holds the lock, and an engine that raises does not leave it held.
PrefixSingleFlight ==
    \A t \in Threads :
        /\ lock = t <=> call[t].at \in {"text", "fuse"}
        /\ call[t].at = "text" /\ "prefix" \in plugins => ~Prefix!Cached(Request(t).prompt)

\* What encode_vision says it returns, the tokens of the batch it is given, for the one
\* worker of the request scheduler and without the plugins that replay tokens.
TokensOfTheBatch ==
    \A t \in Threads :
        path = "runner" /\ plugins \cap {"throttle", "tokens"} = {} /\ call[t].at = "encoded" =>
            call[t].tokens.frames = call[t].feed
=============================================================================
