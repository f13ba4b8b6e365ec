------------------------- MODULE SplitPolicyProofs --------------------------
(***************************************************************************)
(* The split TurboVLA policy keeps its promises for every number of        *)
(* threads, calls and failures, every set of plugins, cache size, batch    *)
(* size, refresh period and threshold.                                     *)
(***************************************************************************)
EXTENDS SplitVisionProofs

\* Zenon by default, with time for a busy machine; a leaf that needs arithmetic cites SMTT.
USE ZenonT(60)

-----------------------------------------------------------------------------
(* encode_vision                                                           *)

\* Whatever a plugin decides, the call goes to the engine or has its tokens.
LEMMA EncodeMoves ==
    ASSUME Inv, NEW t \in Threads, NEW c \in Calls, call' = [call EXCEPT ![t] = c],
           UNCHANGED <<engineVars, config, memory, counts, prefix, cascade, lock>>,
           call[t].at = "encode", c.at \in {"shape", "encoded"},
           c.batch = call[t].batch, c.feed = call[t].feed, c.samples = call[t].samples,
           c.answer = call[t].answer, c.route = call[t].route,
           PluginsTypeOK', ThrottleInv', FrameInv'
    PROVE  Inv'
<1>1. TypeOK /\ EngineTypeOK /\ CallOK(call[t])
  BY DEF Inv, TypeOK
<1>2. EngineTypeOK' /\ EngineGrows
  BY <1>1, EngineRests
<1>3. CallOK(c)'
  BY <1>1 DEF CallOK, config, InVision, Waiting, InContinuation, Remembering
<1>4. TypeOK'
  BY <1>1, <1>2, <1>3, CallsKept DEF TypeOK, config, memory, counts
<1>5. LockInv' /\ OwnInv' /\ AloneInv' /\ LightInv'
  BY VisionRests DEF counts, InVision
<1> QED BY <1>4, <1>5 DEF Inv

\* Without the throttle, a call that goes to the engine has only its feed.
LEMMA FramesToEngine ==
    ASSUME Inv, NEW t \in Threads, NEW c \in Calls, call' = [call EXCEPT ![t] = c],
           UNCHANGED <<engineVars, plugins, overlapped>>, tokencache'.cache = tokencache.cache,
           call[t].at = "encode", c.batch = call[t].batch, c.feed = call[t].feed,
           c.samples = call[t].samples, c.answer = call[t].answer,
           \/ c.at = "shape"
           \/ c.at = "encoded" /\ (CacheFollows => c.tokens # None /\ c.tokens.frames = c.feed)
    PROVE  FrameInv'
<1>1. TypeOK /\ EngineTypeOK /\ CallOK(call[t]) /\ AloneInv /\ FrameInv
  BY DEF Inv, TypeOK
<1>2. EngineGrows
  BY <1>1, EngineRests
<1>3. ASSUME Plain PROVE (EngineFollows /\ CacheFollows /\ CallFollows(c))'
  <2>1. EngineFollows /\ CacheFollows /\ CallFollows(call[t])
    BY <1>1, <1>3 DEF FrameInv
  <2>2. Feeding(call[t]) /\ c.answer = <<>>
    BY <1>1, <2>1 DEF CallFollows, CallOK, Waiting
  <2>3. EngineFollows' /\ CacheFollows' /\ Feeding(c)'
    BY <2>1, <2>2 DEF EngineFollows, CacheFollows, engineVars, Feeding
  <2> QED BY <2>1, <2>2, <2>3 DEF CallFollows, InVision, InContinuation
<1> QED BY <1>1, <1>2, <1>3, FramesOfOne

\* PerceptionThrottlePlugin.get: the step refreshes.
LEMMA ThrottleRefreshes ==
    ASSUME Inv, NEW t \in Threads, NEW c \in Calls, call' = [call EXCEPT ![t] = c],
           UNCHANGED <<dynamic, config, counts>>, Throttle!Refresh,
           call[t].at = "encode", c.at = "shape", c.samples = call[t].samples
    PROVE  ThrottleInv'
<1>1. TypeOK /\ AloneInv /\ ThrottleInv
  BY DEF Inv
<1>2. throttle'.refreshes = throttle.refreshes + 1 /\ throttle'.calls_since_refresh = 0
  BY <1>1 DEF Throttle!Refresh, TypeOK, PluginsTypeOK
<1>3. throttle'.refreshes > 0
  BY <1>1, <1>2, StepType, SMTT(30)
<1>4. Perceives(call[t]) => Perceives(c)'
  BY <1>2, <1>3 DEF Perceives, InContinuation
<1>5. c.at \in InVision
  BY DEF InVision
<1> QED BY <1>1, <1>4, <1>5, ThrottleOfOne DEF config, counts

\* PerceptionThrottlePlugin.get: the step replays what is cached.
LEMMA ThrottleReplays ==
    ASSUME Inv, NEW t \in Threads, NEW c \in Calls, call' = [call EXCEPT ![t] = c],
           UNCHANGED <<dynamic, config, counts>>, Throttle!Reuse,
           call[t].at = "encode", c.at = "encoded", c.samples = call[t].samples,
           c.tokens = throttle.cached
    PROVE  ThrottleInv'
<1>1. TypeOK /\ AloneInv /\ ThrottleInv
  BY DEF Inv
<1>2. /\ throttle'.refreshes = throttle.refreshes /\ throttle'.cached = throttle.cached
      /\ throttle'.reuses = throttle.reuses + 1
      /\ throttle'.calls_since_refresh = throttle.calls_since_refresh + 1
      /\ throttle.refreshes # 0 /\ ~(throttle.calls_since_refresh + 1 >= RefreshSteps)
  BY <1>1 DEF Throttle!Reuse, Throttle!Due, Throttle!Calls, TypeOK, PluginsTypeOK
<1>3. /\ throttle.refreshes \in Nat /\ throttle.reuses \in Nat /\ RefreshSteps \in Nat
      /\ throttle.calls_since_refresh \in Nat /\ Throttle!Step \in Nat
      /\ Throttle!Step' = Throttle!Step + 1
  <2>1. /\ throttle.refreshes \in Nat /\ throttle.reuses \in Nat /\ RefreshSteps \in Nat
        /\ throttle.calls_since_refresh \in Nat /\ Throttle!Step \in Nat
    BY <1>1, StepType, SplitAssumption
  <2> QED BY <1>2, <2>1, SMTT(30) DEF Throttle!Step
<1>4. ASSUME Steady PROVE CachedIsRecent
  <2>1. \A u \in Threads : call[u].at \notin InVision \cup {"store"}
    BY <1>1, <1>4 DEF AloneInv, Steady, InVision
  <2> QED BY <1>1, <1>4, <2>1 DEF ThrottleInv
<1>5. ASSUME Steady PROVE CachedIsRecent' /\ (Perceives(call[t]) => Perceives(c)')
  <2>1. /\ throttle.cached # None
        /\ throttle.cached.step = Throttle!Step - throttle.calls_since_refresh
    BY <1>2, <1>3, <1>4, <1>5, SMTT(30) DEF CachedIsRecent
  <2>2. throttle.cached.step = Throttle!Step' - throttle'.calls_since_refresh
    BY <1>2, <1>3, <2>1, SMTT(30)
  <2>3. Throttle!Step' - c.tokens.step < RefreshSteps
    BY <1>2, <1>3, <2>1, SMTT(30)
  <2>4. CachedIsRecent'
    BY <1>2, <2>1, <2>2 DEF CachedIsRecent
  <2> QED BY <2>1, <2>3, <2>4 DEF Perceives, InVision
<1> QED BY <1>1, <1>5, ThrottleOfOne DEF config, counts

\* VisionTokenCachePlugin.get: a hit returns the tokens of the frame that is asked for.
LEMMA TokensFound ==
    ASSUME TypeOK, NEW feed, Tokens!Reusable("scene", feed)
    PROVE  /\ Tokens!Lookup("scene") \in VisionTokens
           /\ CacheFollows => Tokens!Lookup("scene").frames = feed
<1>1. PICK d : d = tokencache.cache
  OBVIOUS
<1>2. d \in Seq(TokenEntry)
  BY <1>1 DEF TypeOK, PluginsTypeOK
<1>3. PICK p : p = Tokens!Position(d, "scene")
  OBVIOUS
<1>4. p \in DOMAIN d
  BY <1>1, <1>3 DEF Tokens!Reusable, Tokens!Keys, Tokens!Position
<1>5. d[p] \in TokenEntry
  BY <1>2, <1>4, SMTT(30)
<1>6. Tokens!Lookup("scene") = d[p].value.tokens /\ d[p].value.fingerprint = feed
  BY <1>1, <1>3 DEF Tokens!Lookup, Tokens!Reusable, Tokens!Value
<1>7. d[p].value.tokens \in VisionTokens
  BY <1>5 DEF TokenEntry
<1>8. CacheFollows => d[p].value.tokens.frames = feed
  BY <1>1, <1>4, <1>6 DEF CacheFollows
<1> QED BY <1>6, <1>7, <1>8

\* A call that is given its tokens without the engine.
LEMMA EncodedCall ==
    ASSUME TypeOK, NEW t \in Threads, NEW tokens \in VisionTokens \cup {None}, Encoded(t, tokens)
    PROVE  \E c \in Calls :
              /\ call' = [call EXCEPT ![t] = c]
              /\ c.at = "encoded" /\ c.batch = call[t].batch /\ c.feed = call[t].feed
              /\ c.samples = call[t].samples /\ c.tokens = tokens
              /\ c.answer = call[t].answer /\ c.route = call[t].route
<1>1. call[t] \in Calls /\ call \in [Threads -> Calls]
  BY DEF TypeOK
<1>2. PICK c : c = [call[t] EXCEPT !.at = "encoded", !.tokens = tokens]
  OBVIOUS
<1>3. call' = [call EXCEPT ![t] = c]
  BY <1>1, <1>2 DEF Encoded
<1>4. /\ c \in Calls /\ c.at = "encoded" /\ c.batch = call[t].batch /\ c.feed = call[t].feed
      /\ c.samples = call[t].samples /\ c.tokens = tokens
      /\ c.answer = call[t].answer /\ c.route = call[t].route
  <2>1. "encoded" \in Places
    BY DEF Places
  <2> QED BY <1>1, <1>2, <2>1 DEF Calls
<1> QED BY <1>3, <1>4

LEMMA EncodeKeeps ==
    ASSUME Inv, NEW t \in Threads, encode_vision(t)
    PROVE  Inv'
<1>1. /\ call[t].at = "encode"
      /\ UNCHANGED <<engineVars, config, memory, counts, prefix, cascade, lock>>
  BY DEF encode_vision
<1>2. TypeOK /\ PluginsTypeOK /\ "shape" \in Places
  BY DEF Inv, TypeOK, Places, InVision
<1>3. CASE "throttle" \in plugins /\ Throttle!Refresh /\ Moved(t, "shape") /\ UNCHANGED tokencache
  <2>1. PICK c \in Calls :
              /\ call' = [call EXCEPT ![t] = c]
              /\ c.at = "shape" /\ c.batch = call[t].batch /\ c.feed = call[t].feed
              /\ c.samples = call[t].samples /\ c.tokens = call[t].tokens /\ c.text = call[t].text
              /\ c.answer = call[t].answer /\ c.output = call[t].output /\ c.route = call[t].route
    <3>1. TypeOK /\ "shape" \in Places /\ Moved(t, "shape")
      BY <1>2, <1>3
    <3> QED BY <3>1, MovedCall
  <2>2. PluginsTypeOK'
    <3>1. PICK n \in Nat : n = throttle.refreshes + 1
      BY <1>2, StepType, SMTT(30)
    <3>2. throttle' = [throttle EXCEPT !.refreshes = n, !.calls_since_refresh = 0, !.overdue = FALSE]
      BY <1>2, <1>3, <3>1 DEF Throttle!Refresh, PluginsTypeOK
    <3>3. 0 \in Nat
      OBVIOUS
    <3> QED BY <1>1, <1>2, <1>3, <3>2, <3>3 DEF PluginsTypeOK
  <2>3. ThrottleInv'
    BY <1>1, <1>3, <2>1, ThrottleRefreshes DEF engineVars
  <2>4. FrameInv'
    BY <1>1, <1>3 DEF FrameInv, Plain, config
  <2> QED BY <1>1, <2>1, <2>2, <2>3, <2>4, EncodeMoves
<1>4. CASE /\ "throttle" \in plugins /\ Throttle!Reuse /\ Encoded(t, throttle.cached)
           /\ UNCHANGED tokencache
  <2>0. PICK tokens \in VisionTokens \cup {None} : tokens = throttle.cached
    BY <1>2 DEF PluginsTypeOK
  <2>1. PICK c \in Calls :
              /\ call' = [call EXCEPT ![t] = c]
              /\ c.at = "encoded" /\ c.batch = call[t].batch /\ c.feed = call[t].feed
              /\ c.samples = call[t].samples /\ c.tokens = tokens
              /\ c.answer = call[t].answer /\ c.route = call[t].route
    BY <1>2, <1>4, <2>0, EncodedCall
  <2>2. PluginsTypeOK'
    <3>1. PICK n \in Nat : n = throttle.reuses + 1
      BY <1>2, StepType, SMTT(30)
    <3>2. PICK m \in Nat : m = throttle.calls_since_refresh + 1
      BY <1>2, StepType, SMTT(30)
    <3>3. throttle' = [throttle EXCEPT !.reuses = n, !.calls_since_refresh = m]
      BY <1>2, <1>4, <3>1, <3>2 DEF Throttle!Reuse, Throttle!Calls, PluginsTypeOK
    <3> QED BY <1>1, <1>2, <1>4, <3>3 DEF PluginsTypeOK
  <2>3. ThrottleInv'
    BY <1>1, <1>4, <2>0, <2>1, ThrottleReplays DEF engineVars
  <2>4. FrameInv'
    BY <1>1, <1>4 DEF FrameInv, Plain, config
  <2> QED BY <1>1, <2>1, <2>2, <2>3, <2>4, EncodeMoves
<1>5. CASE /\ "throttle" \notin plugins /\ Tokens!Hit("scene", call[t].feed)
           /\ Encoded(t, Tokens!Lookup("scene")) /\ UNCHANGED throttle
  <2>0. PICK tokens : tokens = Tokens!Lookup("scene")
    OBVIOUS
  <2>1. /\ tokens \in VisionTokens /\ tokens # None
        /\ CacheFollows => tokens.frames = call[t].feed
    BY <1>2, <1>5, <2>0, TokensFound, SplitAssumption DEF Tokens!Hit
  <2>2. PICK c \in Calls :
              /\ call' = [call EXCEPT ![t] = c]
              /\ c.at = "encoded" /\ c.batch = call[t].batch /\ c.feed = call[t].feed
              /\ c.samples = call[t].samples /\ c.tokens = tokens
              /\ c.answer = call[t].answer /\ c.route = call[t].route
    <3>1. Encoded(t, tokens) /\ tokens \in VisionTokens \cup {None}
      BY <1>5, <2>0, <2>1
    <3> QED BY <1>2, <3>1, EncodedCall
  <2>3. PluginsTypeOK' /\ tokencache'.cache = tokencache.cache
    <3>1. PICK n \in Nat : n = tokencache.hits + 1
      <4>1. tokencache.hits \in Nat
        BY <1>2 DEF PluginsTypeOK
      <4> QED BY <4>1, SMTT(30)
    <3>2. tokencache' = [tokencache EXCEPT !.hits = n]
      BY <1>5, <3>1 DEF Tokens!Hit
    <3> QED BY <1>1, <1>2, <1>5, <3>2 DEF PluginsTypeOK
  <2>4. ThrottleInv'
    BY <1>1, <1>5 DEF ThrottleInv, Steady, config
  <2>5. FrameInv'
    BY <1>1, <2>1, <2>2, <2>3, FramesToEngine DEF config, counts
  <2> QED BY <1>1, <2>2, <2>3, <2>4, <2>5, EncodeMoves
<1>6. CASE "throttle" \notin plugins /\ Moved(t, "shape") /\ UNCHANGED <<tokencache, throttle>>
  <2>1. PICK c \in Calls :
              /\ call' = [call EXCEPT ![t] = c]
              /\ c.at = "shape" /\ c.batch = call[t].batch /\ c.feed = call[t].feed
              /\ c.samples = call[t].samples /\ c.tokens = call[t].tokens /\ c.text = call[t].text
              /\ c.answer = call[t].answer /\ c.output = call[t].output /\ c.route = call[t].route
    <3>1. TypeOK /\ "shape" \in Places /\ Moved(t, "shape")
      BY <1>2, <1>6
    <3> QED BY <3>1, MovedCall
  <2>2. PluginsTypeOK'
    BY <1>1, <1>2, <1>6 DEF PluginsTypeOK
  <2>3. ThrottleInv'
    BY <1>1, <1>6 DEF ThrottleInv, Steady, config
  <2>4. FrameInv'
    BY <1>1, <1>6, <2>1, FramesToEngine DEF config, counts
  <2> QED BY <1>1, <2>1, <2>2, <2>3, <2>4, EncodeMoves
<1> QED BY <1>3, <1>4, <1>5, <1>6 DEF encode_vision, Tokens!Miss

-----------------------------------------------------------------------------
(* predict_from_vision and the engines under _continuation_lock            *)

\* The request a continuation answers next.
LEMMA RequestIsMade ==
    ASSUME TypeOK, NEW t \in Threads, call[t].at \in InContinuation
    PROVE  /\ Request(t) \in Requests /\ Request(t).prompt \in Prompts
           /\ Len(call[t].answer) \in Nat /\ Len(call[t].answer) + 1 \in 1..Len(call[t].batch)
<1>1. call[t] \in Calls /\ CallOK(call[t]) /\ call[t].at # "idle"
  BY DEF TypeOK, InContinuation
<1>2. call[t].batch \in Seq(Requests)
  <2>1. call[t].batch \in Batch(Requests)
    BY <1>1 DEF CallOK, Calls
  <2> QED BY <2>1, BatchIsSeq
<1>3. call[t].answer \in Seq(Answer)
  <2>1. call[t].answer \in Batch(Answer) \cup {<<>>}
    BY <1>1 DEF Calls
  <2>2. call[t].answer \in Batch(Answer) => call[t].answer \in Seq(Answer)
    BY BatchIsSeq
  <2>3. <<>> \in Seq(Answer)
    BY SMTT(30)
  <2> QED BY <2>1, <2>2, <2>3
<1>4. Len(call[t].answer) < Len(call[t].batch)
  BY <1>1 DEF CallOK
<1>5. Len(call[t].answer) \in Nat /\ Len(call[t].answer) + 1 \in 1..Len(call[t].batch)
  BY <1>2, <1>3, <1>4, SMTT(30)
<1>6. Request(t) \in Requests
  BY <1>2, <1>5, SMTT(30) DEF Request
<1> QED BY <1>5, <1>6 DEF Prompts

\* The thread that has the lock, or takes it when no one has it.
LEMMA LockHeld ==
    ASSUME TypeOK, LockInv, NEW t \in Threads, NEW c \in Calls, call' = [call EXCEPT ![t] = c],
           lock \in {None, t}, lock' = t, c.at \in {"text", "fuse"},
           c.at = "text" /\ "prefix" \in plugins' => ~(Prefix!Cached(Request(t).prompt))'
    PROVE  LockInv'
<1>1. /\ call'[t] = c
      /\ \A u \in Threads \ {t} : call'[u] = call[u]
  BY OneCall DEF TypeOK
<1>2. None \notin Threads
  BY SplitAssumption
<1>3. ASSUME NEW u \in Threads \ {t} PROVE lock' # u /\ call'[u].at \notin {"text", "fuse"}
  BY <1>1, <1>2, <1>3 DEF LockInv, PrefixSingleFlight
<1> QED BY <1>1, <1>3 DEF LockInv, PrefixSingleFlight

\* A continuation that goes on under the lock.
LEMMA ContinuationMoves ==
    ASSUME Inv, NEW t \in Threads, NEW c \in Calls, call' = [call EXCEPT ![t] = c],
           UNCHANGED <<engineVars, config, memory, counts, tokencache, throttle, cascade>>,
           call[t].at \in {"continue", "text"}, c.at \in {"text", "fuse"},
           c.batch = call[t].batch, c.feed = call[t].feed, c.samples = call[t].samples,
           c.tokens = call[t].tokens, c.answer = call[t].answer, c.route = call[t].route,
           c.at = "fuse" => c.text \in Prompts /\ Key(c.text) = Key(Request(t).prompt),
           prefix' \in [cache : Seq(PrefixEntry), hits : Nat, misses : Nat],
           lock \in {None, t}, lock' = t,
           c.at = "text" /\ "prefix" \in plugins' => ~(Prefix!Cached(Request(t).prompt))'
    PROVE  Inv'
<1>1. TypeOK /\ LockInv /\ OwnInv /\ ThrottleInv /\ CallOK(call[t]) /\ failures' \in Nat
  BY DEF Inv, TypeOK, counts
<1>2. CallOK(c)'
  BY <1>1 DEF CallOK, config, InVision, Waiting, InContinuation, Remembering
<1>3. call[t].at \in InContinuation /\ c.at \in InContinuation /\ lock' \in Threads \cup {None}
  BY DEF InContinuation
<1>4. TypeOK' /\ AloneInv' /\ LightInv' /\ FrameInv' /\ (c.at # "fuse" => OwnInv')
  BY <1>1, <1>2, <1>3, LeavingKeeps DEF counts
<1>5. LockInv'
  BY <1>1, LockHeld
<1>6. ASSUME c.at = "fuse" PROVE OwnInv'
  <2>1. Owned(call[t]) /\ call[t].at # "idle"
    BY <1>1 DEF OwnInv
  <2>2. \A i \in DOMAIN c.answer : /\ i \in DOMAIN c.batch
                                   /\ c.answer[i].state = c.batch[i].state
                                   /\ Key(c.answer[i].text) = Key(c.batch[i].prompt)
    BY <2>1 DEF Owned
  <2>3. c.text \in Prompts /\ Key(c.text) = Key(c.batch[Len(c.answer) + 1].prompt)
    BY <1>6 DEF Request
  <2>4. Owned(c)
    BY <2>2, <2>3 DEF Owned
  <2> QED BY <1>1, <2>4, OwnStep
<1>7. ThrottleInv'
  <2>1. call[t].at \notin InVision \cup {"store"} /\ c.at \notin InVision \cup {"store"}
    BY DEF InVision
  <2> QED BY <1>1, <1>3, <2>1, ThrottleRests DEF config, counts, engineVars
<1> QED BY <1>4, <1>5, <1>6, <1>7 DEF Inv

\* PrefixCachePlugin: the text that is found is one of the prompt's key.
LEMMA PrefixFound ==
    ASSUME TypeOK, NEW prompt, Prefix!Cached(prompt)
    PROVE  /\ Prefix!Lookup(prompt) \in Prompts /\ Key(Prefix!Lookup(prompt)) = Key(prompt)
           /\ Prefix!Touch(prefix.cache, Key(prompt)) \in Seq(PrefixEntry)
<1>1. PICK d : d = prefix.cache
  OBVIOUS
<1>2. d \in Seq(PrefixEntry)
  BY <1>1 DEF TypeOK, PluginsTypeOK
<1>3. PICK p : p = Prefix!Position(d, Key(prompt))
  OBVIOUS
<1>4. p \in DOMAIN d /\ d[p].key = Key(prompt)
  BY <1>1, <1>3 DEF Prefix!Cached, Prefix!Keys, Prefix!Position
<1>5. d[p] \in PrefixEntry
  BY <1>2, <1>4, SMTT(30)
<1>6. /\ d[p].value \in Prompts /\ Key(d[p].value) = Key(prompt)
      /\ d[p] = [key |-> Key(prompt), value |-> d[p].value]
  BY <1>4, <1>5 DEF PrefixEntry
<1>7. Prefix!Touch(d, Key(prompt)) \in Seq(PrefixEntry)
  <2>1. PICK v : v = d[p].value
    OBVIOUS
  <2>2. Prefix!Touch(d, Key(prompt)) = Prefix!PutLast(d, Key(prompt), v)
    BY <1>3, <2>1 DEF Prefix!Touch, Prefix!Value
  <2>3. [key |-> Key(prompt), value |-> v] \in PrefixEntry
    BY <1>5, <1>6, <2>1
  <2> QED BY <1>2, <2>2, <2>3, PrefixPut
<1> QED BY <1>1, <1>3, <1>6, <1>7 DEF Prefix!Lookup, Prefix!Value

\* A call that has its text.
Texted(t, text) == call' = [call EXCEPT ![t].at = "fuse", ![t].text = text]

LEMMA TextCall ==
    ASSUME TypeOK, NEW t \in Threads, NEW text \in Prompts, Texted(t, text)
    PROVE  \E c \in Calls :
              /\ call' = [call EXCEPT ![t] = c]
              /\ c.at = "fuse" /\ c.batch = call[t].batch /\ c.feed = call[t].feed
              /\ c.samples = call[t].samples /\ c.tokens = call[t].tokens /\ c.text = text
              /\ c.answer = call[t].answer /\ c.route = call[t].route
<1>1. call[t] \in Calls /\ call \in [Threads -> Calls] /\ "fuse" \in Places
  BY DEF TypeOK, Places, InContinuation
<1>2. PICK c : c = [call[t] EXCEPT !.at = "fuse", !.text = text]
  OBVIOUS
<1>3. call' = [call EXCEPT ![t] = c]
  BY <1>1, <1>2 DEF Texted
<1>4. /\ c \in Calls /\ c.at = "fuse" /\ c.batch = call[t].batch /\ c.feed = call[t].feed
      /\ c.samples = call[t].samples /\ c.tokens = call[t].tokens /\ c.text = text
      /\ c.answer = call[t].answer /\ c.route = call[t].route
  BY <1>1, <1>2 DEF Calls
<1> QED BY <1>3, <1>4

LEMMA PredictFromVisionKeeps ==
    ASSUME Inv, NEW t \in Threads, predict_from_vision(t)
    PROVE  Inv'
<1>0. PICK prompt : prompt = Request(t).prompt
  OBVIOUS
<1>1. /\ call[t].at = "continue" /\ lock \in {None, t} /\ lock' = t
      /\ UNCHANGED <<engineVars, config, memory, counts, tokencache, throttle, cascade>>
  BY DEF predict_from_vision, Acquire
<1>2. TypeOK /\ "text" \in Places /\ prefix \in [cache : Seq(PrefixEntry), hits : Nat, misses : Nat]
  BY DEF Inv, TypeOK, PluginsTypeOK, Places, InContinuation
<1>3. CASE /\ Prefix!Hit(prompt)
           /\ call' = [call EXCEPT ![t].at = "fuse", ![t].text = Prefix!Lookup(prompt)]
  <2>1. PICK text : text = Prefix!Lookup(prompt)
    OBVIOUS
  <2>2. /\ text \in Prompts /\ Key(text) = Key(prompt)
        /\ Prefix!Touch(prefix.cache, Key(prompt)) \in Seq(PrefixEntry)
    BY <1>2, <1>3, <2>1, PrefixFound DEF Prefix!Hit
  <2>3. PICK c \in Calls :
              /\ call' = [call EXCEPT ![t] = c]
              /\ c.at = "fuse" /\ c.batch = call[t].batch /\ c.feed = call[t].feed
              /\ c.samples = call[t].samples /\ c.tokens = call[t].tokens /\ c.text = text
              /\ c.answer = call[t].answer /\ c.route = call[t].route
    <3>1. Texted(t, text)
      BY <1>3, <2>1 DEF Texted
    <3>2. TypeOK /\ text \in Prompts
      BY <1>2, <2>2
    <3> QED BY <3>1, <3>2, TextCall
  <2>4. prefix' \in [cache : Seq(PrefixEntry), hits : Nat, misses : Nat]
    <3>1. PICK s \in Seq(PrefixEntry) : s = Prefix!Touch(prefix.cache, Key(prompt))
      BY <2>2
    <3>2. prefix' = [prefix EXCEPT !.hits = @ + 1, !.cache = s]
      BY <1>2, <1>3, <3>1 DEF Prefix!Hit
    <3>3. PICK n \in Nat : n = prefix.hits + 1
      BY <1>2, SMTT(30)
    <3> QED BY <1>2, <3>2, <3>3
  <2>5. Key(c.text) = Key(Request(t).prompt) /\ c.text \in Prompts /\ c.at # "text"
    BY <1>0, <2>2, <2>3
  <2> QED BY <1>1, <2>3, <2>4, <2>5, ContinuationMoves
<1>4. CASE Moved(t, "text") /\ UNCHANGED prefix /\ ("prefix" \in plugins => Prefix!Miss(prompt))
  <2>1. PICK c \in Calls :
              /\ call' = [call EXCEPT ![t] = c]
              /\ c.at = "text" /\ c.batch = call[t].batch /\ c.feed = call[t].feed
              /\ c.samples = call[t].samples /\ c.tokens = call[t].tokens /\ c.text = call[t].text
              /\ c.answer = call[t].answer /\ c.output = call[t].output /\ c.route = call[t].route
    <3>1. TypeOK /\ "text" \in Places /\ Moved(t, "text")
      BY <1>2, <1>4
    <3> QED BY <3>1, MovedCall
  <2>2. prefix' \in [cache : Seq(PrefixEntry), hits : Nat, misses : Nat]
    BY <1>2, <1>4
  <2>3. Request(t)' = Request(t)
    <3>1. call'[t] = c
      BY <1>2, <2>1, OneCall DEF TypeOK
    <3> QED BY <2>1, <3>1 DEF Request
  <2>4. "prefix" \in plugins' => ~(Prefix!Cached(Request(t).prompt))'
    BY <1>0, <1>1, <1>4, <2>3 DEF config, Prefix!Miss, Prefix!Cached
  <2> QED BY <1>1, <2>1, <2>2, <2>4, ContinuationMoves
<1> QED BY <1>0, <1>3, <1>4 DEF predict_from_vision, Prefix!Miss

LEMMA EncodeTextKeeps ==
    ASSUME Inv, NEW t \in Threads, EncodeText(t)
    PROVE  Inv'
<1>0. PICK prompt : prompt = Request(t).prompt
  OBVIOUS
<1>1. /\ call[t].at = "text"
      /\ UNCHANGED <<engineVars, config, memory, counts, tokencache, throttle, cascade, lock>>
      /\ IF "prefix" \in plugins THEN Prefix!Store(prompt, prompt) ELSE UNCHANGED prefix
      /\ Texted(t, prompt)
  BY <1>0 DEF EncodeText, Texted
<1>2. /\ TypeOK /\ LockInv /\ call[t].at \in InContinuation
      /\ prefix \in [cache : Seq(PrefixEntry), hits : Nat, misses : Nat]
  BY <1>1 DEF Inv, TypeOK, PluginsTypeOK, InContinuation
<1>3. lock = t /\ prompt \in Prompts
  BY <1>0, <1>1, <1>2, RequestIsMade DEF LockInv, PrefixSingleFlight
<1>4. PICK c \in Calls :
            /\ call' = [call EXCEPT ![t] = c]
            /\ c.at = "fuse" /\ c.batch = call[t].batch /\ c.feed = call[t].feed
            /\ c.samples = call[t].samples /\ c.tokens = call[t].tokens /\ c.text = prompt
            /\ c.answer = call[t].answer /\ c.route = call[t].route
  BY <1>1, <1>2, <1>3, TextCall
<1>5. prefix' \in [cache : Seq(PrefixEntry), hits : Nat, misses : Nat]
  <2>1. PICK k : k = Key(prompt)
    OBVIOUS
  <2>2. [key |-> k, value |-> prompt] \in PrefixEntry
    BY <1>3, <2>1 DEF PrefixEntry
  <2>3. PICK d \in Seq(PrefixEntry) : d = prefix.cache
    BY <1>2
  <2>4. PICK s \in Seq(PrefixEntry) : s = Prefix!Trim(Prefix!PutLast(d, k, prompt), PrefixEntries)
    BY <2>2, <2>3, PrefixPut
  <2>5. Prefix!Store(prompt, prompt) => prefix' = [prefix EXCEPT !.misses = @ + 1, !.cache = s]
    BY <1>2, <2>1, <2>3, <2>4 DEF Prefix!Store, Prefix!Stored
  <2>6. PICK n \in Nat : n = prefix.misses + 1
    BY <1>2, SMTT(30)
  <2> QED BY <1>1, <1>2, <2>5, <2>6
<1>6. /\ c.at = "fuse" => c.text \in Prompts /\ Key(c.text) = Key(Request(t).prompt)
      /\ lock \in {None, t} /\ lock' = t /\ c.at # "text"
  BY <1>0, <1>1, <1>3, <1>4
<1> QED BY <1>1, <1>4, <1>5, <1>6, ContinuationMoves

LEMMA ContinuationRaisesKeeps ==
    ASSUME Inv, NEW t \in Threads, ContinuationRaises(t)
    PROVE  Inv'
<1>1. /\ call[t].at \in {"text", "fuse"} /\ call' = Raised(t) /\ lock' = None
      /\ failures' = failures + 1
      /\ UNCHANGED <<engineVars, config, caches, memory, overlapped>>
  BY DEF ContinuationRaises
<1>2. failures' \in Nat /\ failures' # 0
  BY <1>1, SMTT(30) DEF Inv, TypeOK
<1>3. ThrottleInv'
  BY <1>2 DEF ThrottleInv, Steady
<1> QED BY <1>1, <1>2, <1>3, RaisingKeeps

\* One more answer, of the next request of the batch.
LEMMA ActionsMade ==
    ASSUME Inv, NEW t \in Threads, call[t].at = "fuse", call[t].tokens # None,
           path = "timed" => Len(call[t].tokens.frames) = 1,
           NEW answer, answer = Append(call[t].answer, Actions(t))
    PROVE  /\ answer \in Batch(Answer) /\ DOMAIN answer = 1..Len(answer) /\ Len(answer) \in Nat
           /\ call[t].answer \in Seq(Answer) /\ call[t].batch \in Seq(Requests)
           /\ Len(answer) = Len(call[t].answer) + 1 /\ Len(answer) <= Len(call[t].batch)
           /\ path = "timed" => Len(answer) = 1
           /\ \A i \in 1..Len(call[t].answer) : answer[i] = call[t].answer[i]
           /\ answer[Len(answer)].frame = call[t].tokens.frames[Len(answer)]
           /\ answer[Len(answer)].state = call[t].batch[Len(answer)].state
           /\ Key(answer[Len(answer)].text) = Key(call[t].batch[Len(answer)].prompt)
<1>1. /\ TypeOK /\ OwnInv /\ call[t] \in Calls /\ CallOK(call[t]) /\ MaxBatch \in Nat \ {0}
      /\ call[t].at \in InContinuation /\ path \in {"timed", "runner"}
  BY SplitAssumption DEF Inv, TypeOK, InContinuation
<1>2. PICK n : n = Len(call[t].answer)
  OBVIOUS
<1>3. /\ Request(t) \in Requests /\ Request(t).prompt \in Prompts
      /\ n \in Nat /\ n + 1 \in 1..Len(call[t].batch)
  BY <1>1, <1>2, RequestIsMade
<1>4. call[t].batch \in Seq(Requests) /\ Len(call[t].batch) \in 1..MaxBatch
  <2>1. call[t].batch \in Batch(Requests)
    BY <1>1 DEF CallOK, Calls
  <2> QED BY <2>1, BatchIsSeq
<1>5. call[t].answer \in Seq(Answer)
  <2>1. call[t].answer \in Batch(Answer) \cup {<<>>}
    BY <1>1 DEF Calls
  <2>2. call[t].answer \in Batch(Answer) => call[t].answer \in Seq(Answer)
    BY BatchIsSeq
  <2>3. <<>> \in Seq(Answer)
    BY SMTT(30)
  <2> QED BY <2>1, <2>2, <2>3
<1>6. path = "timed" => n = 0
  BY <1>1, <1>3, <1>4, SMTT(30) DEF CallOK
<1>7. PICK frames : frames = call[t].tokens.frames
  OBVIOUS
<1>8. frames \in Seq(Contents) /\ n + 1 \in 1..Len(frames)
  <2>1. frames \in Batch(Contents)
    <3>1. call[t].tokens \in VisionTokens
      BY <1>1 DEF Calls
    <3> QED BY <1>7, <3>1 DEF VisionTokens
  <2>2. frames \in Seq(Contents)
    BY <2>1, BatchIsSeq
  <2>3. path = "runner" => Len(frames) = Len(call[t].batch)
    BY <1>1, <1>7 DEF CallOK
  <2>4. CASE path = "timed"
    <3>1. Len(frames) = 1
      BY <1>7, <2>4
    <3> QED BY <1>3, <1>6, <2>2, <2>4, <3>1, SMTT(30)
  <2>5. CASE path = "runner"
    BY <1>3, <2>2, <2>3, <2>5
  <2> QED BY <1>1, <2>4, <2>5
<1>9. PICK a : a = Actions(t)
  OBVIOUS
<1>10. a = [frame |-> frames[n + 1], state |-> Request(t).state, text |-> call[t].text]
  <2>1. (IF path = "timed" THEN 1 ELSE n + 1) = n + 1
    BY <1>1, <1>3, <1>6, SMTT(30)
  <2> QED BY <1>2, <1>7, <1>9, <2>1 DEF Actions
<1>11. call[t].text \in Prompts /\ Key(call[t].text) = Key(Request(t).prompt)
  BY <1>1 DEF OwnInv, Owned, Request
<1>12. a \in Answer
  <2>1. frames[n + 1] \in Contents
    BY <1>8, SMTT(30)
  <2>2. Request(t).state \in {r.state : r \in Requests}
    BY <1>3
  <2> QED BY <1>10, <1>11, <2>1, <2>2 DEF Answer
<1>13. answer = Append(call[t].answer, a)
  BY <1>9
<1>14. /\ answer \in Seq(Answer) /\ Len(answer) = n + 1 /\ answer[n + 1] = a
       /\ \A i \in 1..n : answer[i] = call[t].answer[i]
  BY <1>2, <1>3, <1>5, <1>12, <1>13, SMTT(30)
<1>15. Len(answer) \in 1..MaxBatch /\ Len(answer) <= Len(call[t].batch)
  <2>1. MaxBatch \in Nat
    BY SplitAssumption
  <2> QED BY <1>3, <1>4, <1>14, <2>1, SMTT(30)
<1>16. answer \in Batch(Answer)
  BY <1>14, <1>15, BatchIsSeq
<1>17. /\ answer[Len(answer)].frame = call[t].tokens.frames[Len(answer)]
       /\ answer[Len(answer)].state = call[t].batch[Len(answer)].state
       /\ Key(answer[Len(answer)].text) = Key(call[t].batch[Len(answer)].prompt)
  <2>1. a.frame = frames[n + 1] /\ a.state = Request(t).state /\ a.text = call[t].text
    BY <1>10
  <2>2. Request(t) = call[t].batch[n + 1]
    BY <1>2 DEF Request
  <2> QED BY <1>7, <1>11, <1>14, <2>1, <2>2
<1>18. Len(answer) = Len(call[t].answer) + 1 /\ (path = "timed" => Len(answer) = 1)
  BY <1>2, <1>3, <1>6, <1>14, SMTT(30)
<1>19. DOMAIN answer = 1..Len(answer) /\ Len(answer) \in Nat
  BY <1>14, SMTT(30)
<1> QED BY <1>2, <1>4, <1>5, <1>14, <1>15, <1>16, <1>17, <1>18, <1>19

\* The action expert has answered one request: the call returns, or goes on.
LEMMA AnsweredKeeps ==
    ASSUME Inv, NEW t \in Threads, NEW c \in Calls, call' = [call EXCEPT ![t] = c],
           UNCHANGED <<engineVars, config, caches, memory, counts>>, lock' = None,
           call[t].at = "fuse", call[t].tokens # None,
           path = "timed" => Len(call[t].tokens.frames) = 1,
           c.at \in {"idle", "remember", "continue"}, c.route = "heavy",
           c.batch = call[t].batch, c.answer = Append(call[t].answer, Actions(t)),
           c.samples \in {None, call[t].samples},
           c.at = "continue" => c.tokens = call[t].tokens, CallOK(c)'
    PROVE  Inv'
<1>1. /\ TypeOK /\ EngineTypeOK /\ LockInv /\ OwnInv /\ AloneInv /\ LightInv /\ ThrottleInv
      /\ FrameInv
  BY DEF Inv, TypeOK
<1>2. /\ call'[t] = c
      /\ \A u \in Threads \ {t} : call'[u] = call[u]
  BY <1>1, OneCall DEF TypeOK
<1>3. PICK answer : answer = c.answer
  OBVIOUS
<1>4. /\ DOMAIN answer = 1..Len(answer) /\ Len(answer) \in Nat
      /\ call[t].answer \in Seq(Answer) /\ call[t].batch \in Seq(Requests)
      /\ Len(answer) = Len(call[t].answer) + 1 /\ Len(answer) <= Len(call[t].batch)
      /\ \A i \in 1..Len(call[t].answer) : answer[i] = call[t].answer[i]
      /\ answer[Len(answer)].frame = call[t].tokens.frames[Len(answer)]
      /\ answer[Len(answer)].state = call[t].batch[Len(answer)].state
      /\ Key(answer[Len(answer)].text) = Key(call[t].batch[Len(answer)].prompt)
  BY <1>3, ActionsMade
<1>5. EngineTypeOK' /\ EngineGrows
  BY <1>1, EngineRests
<1>6. TypeOK'
  BY <1>1, <1>5, CallsKept DEF TypeOK, PluginsTypeOK, config, caches, memory, counts
<1>7. LockInv'
  <2>1. c.at \notin {"text", "fuse"}
    OBVIOUS
  <2> QED BY <1>1, <2>1, LockReturned
<1>8. AloneInv'
  BY <1>1, AloneRests DEF counts
<1>9. LightInv'
  <2>1. call[t].at # "remembered" /\ c.at \notin {"light", "remembered"}
    OBVIOUS
  <2> QED BY <1>1, <2>1, LightRests DEF counts
<1>10. ThrottleInv'
  <2>1. /\ call[t].at \notin InVision \cup {"store"} /\ c.at \notin InVision \cup {"store"}
        /\ c.at \in InContinuation \cup {"encoded"} =>
              call[t].at \in InContinuation \cup {"encoded"} /\ c.tokens = call[t].tokens
    BY DEF InVision, InContinuation
  <2> QED BY <1>1, <2>1, ThrottleRests DEF config, counts, caches, engineVars
<1>11. ASSUME NEW i \in DOMAIN answer PROVE i = Len(answer) \/ i \in DOMAIN call[t].answer
  BY <1>4, <1>11, SMTT(30)
<1>12. OwnInv'
  <2>1. ASSUME NEW i \in DOMAIN c.answer
        PROVE  /\ i \in DOMAIN c.batch
               /\ c.answer[i].state = c.batch[i].state
               /\ Key(c.answer[i].text) = Key(c.batch[i].prompt)
    <3>1. CASE i = Len(answer)
      <4>1. i \in DOMAIN c.batch
        BY <1>4, <3>1, SMTT(30)
      <4> QED BY <1>3, <1>4, <3>1, <4>1
    <3>2. CASE i \in DOMAIN call[t].answer
      <4>1. i \in 1..Len(call[t].answer)
        BY <1>4, <3>2, SMTT(30)
      <4> QED BY <1>1, <1>3, <1>4, <3>2, <4>1 DEF OwnInv, Owned
    <3> QED BY <1>3, <1>11, <2>1, <3>1, <3>2
  <2>2. Owned(c)
    BY <2>1 DEF Owned
  <2> QED BY <1>1, <2>2, OwnStep
<1>13. ASSUME Plain PROVE (EngineFollows /\ CacheFollows /\ CallFollows(c))'
  <2>1. EngineFollows /\ CacheFollows /\ CallFollows(call[t])
    BY <1>1, <1>13 DEF FrameInv
  <2>2. /\ call[t].tokens.frames = FramesOf(call[t].batch)
        /\ \A i \in DOMAIN call[t].answer : call[t].answer[i].frame = call[t].batch[i].frame
    BY <2>1 DEF CallFollows, InContinuation
  <2>3. EngineFollows' /\ CacheFollows'
    BY <2>1 DEF EngineFollows, CacheFollows, engineVars, caches
  <2>4. ASSUME NEW i \in DOMAIN c.answer PROVE c.answer[i].frame = c.batch[i].frame
    <3>1. CASE i = Len(answer)
      <4>1. i \in DOMAIN call[t].batch
        BY <1>4, <3>1, SMTT(30)
      <4>2. FramesOf(call[t].batch)[i] = call[t].batch[i].frame
        BY <4>1 DEF FramesOf
      <4> QED BY <1>3, <1>4, <2>2, <3>1, <4>2
    <3>2. CASE i \in DOMAIN call[t].answer
      <4>1. i \in 1..Len(call[t].answer)
        BY <1>4, <3>2, SMTT(30)
      <4> QED BY <1>3, <1>4, <2>2, <3>2, <4>1
    <3> QED BY <1>3, <1>11, <2>4, <3>1, <3>2
  <2>5. /\ c.at \notin Waiting \cup InVision \cup {"store", "encoded"}
        /\ c.at \in InContinuation => c.tokens = call[t].tokens
        /\ c.at \notin {"copy", "run", "return"}
    BY DEF Waiting, InVision, InContinuation
  <2> QED BY <2>2, <2>3, <2>4, <2>5 DEF CallFollows
<1>14. FrameInv'
  BY <1>1, <1>5, <1>13, FramesOfOne DEF config, counts
<1> QED BY <1>6, <1>7, <1>8, <1>9, <1>10, <1>12, <1>14 DEF Inv

\* A call that goes on after an answer.
Answered(t, answer, at) ==
    call' = [call EXCEPT ![t].answer = answer, ![t].text = None, ![t].at = at]

LEMMA AnsweredCall ==
    ASSUME TypeOK, NEW t \in Threads, NEW answer \in Batch(Answer), NEW at \in Places,
           Answered(t, answer, at)
    PROVE  \E c \in Calls :
              /\ call' = [call EXCEPT ![t] = c]
              /\ c.at = at /\ c.batch = call[t].batch /\ c.feed = call[t].feed
              /\ c.samples = call[t].samples /\ c.tokens = call[t].tokens
              /\ c.answer = answer /\ c.route = call[t].route
<1>1. call[t] \in Calls /\ call \in [Threads -> Calls]
  BY DEF TypeOK
<1>2. PICK c : c = [call[t] EXCEPT !.answer = answer, !.text = None, !.at = at]
  OBVIOUS
<1>3. call' = [call EXCEPT ![t] = c]
  BY <1>1, <1>2 DEF Answered
<1>4. /\ c \in Calls /\ c.at = at /\ c.batch = call[t].batch /\ c.feed = call[t].feed
      /\ c.samples = call[t].samples /\ c.tokens = call[t].tokens
      /\ c.answer = answer /\ c.route = call[t].route
  BY <1>1, <1>2 DEF Calls
<1> QED BY <1>3, <1>4

\* A call that returns its answers.
LEMMA ReturnedCall ==
    ASSUME TypeOK, NEW t \in Threads, call[t].at # "idle", NEW answer \in Batch(Answer),
           call' = Returned(t, answer), path' = path
    PROVE  \E c \in Calls :
              /\ call' = [call EXCEPT ![t] = c]
              /\ c.at = "idle" /\ c.batch = call[t].batch /\ c.samples = None /\ c.tokens = None
              /\ c.answer = answer /\ c.route = call[t].route /\ CallOK(c)'
<1>1. call[t] \in Calls /\ CallOK(call[t]) /\ MaxBatch \in Nat \ {0}
  BY SplitAssumption DEF TypeOK
<1>2. PICK c : c = [Idle EXCEPT !.batch = call[t].batch, !.route = call[t].route,
                                 !.answer = answer]
  OBVIOUS
<1>3. /\ c.at = "idle" /\ c.route = call[t].route /\ c.answer = answer /\ c.feed = <<>>
      /\ c.output = 0 /\ c.batch = call[t].batch /\ c.samples = None /\ c.tokens = None
  BY <1>2 DEF Idle
<1>4. c \in Calls
  <2>1. call[t].batch \in Batch(Requests) \cup {<<>>} /\ call[t].route \in {"light", "heavy"}
    BY <1>1 DEF Calls
  <2> QED BY <1>2, <2>1, IdleIsCall DEF Calls
<1>5. CallOK(c)'
  BY <1>1, <1>3, SMTT(30) DEF CallOK, InVision, Waiting, InContinuation, Remembering
<1>6. call' = [call EXCEPT ![t] = c]
  BY <1>2 DEF Returned
<1> QED BY <1>3, <1>4, <1>5, <1>6

LEMMA FuseKeeps ==
    ASSUME Inv, NEW t \in Threads, Fuse(t)
    PROVE  Inv'
<1>1. /\ call[t].at = "fuse" /\ lock' = None
      /\ UNCHANGED <<engineVars, config, caches, memory, counts>>
  BY DEF Fuse
<1>2. /\ TypeOK /\ ThrottleInv /\ path \in {"timed", "runner"} /\ CallOK(call[t])
      /\ call[t] \in Calls /\ path' = path
  BY <1>1 DEF Inv, TypeOK, config
<1>3. CASE call' = Raised(t)
  <2>1. PICK c : c = [Idle EXCEPT !.batch = call[t].batch, !.raised = TRUE]
    OBVIOUS
  <2>2. /\ c \in Calls /\ c.at = "idle" /\ c.samples = None /\ call' = [call EXCEPT ![t] = c]
    BY <1>1, <1>2, <1>3, <2>1, RaisedCall
  <2>3. /\ call[t].at \notin InVision \cup {"store"} /\ c.at \notin InVision \cup {"store"}
        /\ c.at \notin InContinuation \cup {"encoded"}
    BY <1>1, <2>2 DEF InVision, InContinuation
  <2>4. ThrottleInv'
    BY <1>1, <1>2, <2>2, <2>3, ThrottleRests DEF config, counts, caches, engineVars
  <2>5. failures' \in Nat
    BY <1>1, <1>2 DEF TypeOK, counts
  <2> QED BY <1>1, <1>3, <2>4, <2>5, RaisingKeeps DEF counts
<1>4. PICK answer : answer = Append(call[t].answer, Actions(t))
  OBVIOUS
<1>5. ASSUME call[t].tokens # None, path = "timed" => Len(call[t].tokens.frames) = 1
      PROVE  /\ answer \in Batch(Answer) /\ Len(answer) \in Nat
             /\ call[t].batch \in Seq(Requests)
             /\ Len(answer) <= Len(call[t].batch) /\ (path = "timed" => Len(answer) = 1)
             /\ call[t].route = "heavy"
  <2>1. call[t].route = "heavy"
    BY <1>1, <1>2 DEF CallOK, Calls
  <2> QED BY <1>1, <1>4, <1>5, <2>1, ActionsMade
<1>6. CASE /\ call[t].tokens # None /\ (path = "timed" => Len(call[t].tokens.frames) = 1)
           /\ call' = Returned(t, answer)
  <2>1. PICK c \in Calls :
              /\ call' = [call EXCEPT ![t] = c]
              /\ c.at = "idle" /\ c.batch = call[t].batch /\ c.samples = None /\ c.tokens = None
              /\ c.answer = answer /\ c.route = call[t].route /\ CallOK(c)'
    <3>1. call[t].at # "idle"
      BY <1>1
    <3> QED BY <1>2, <1>5, <1>6, <3>1, ReturnedCall
  <2> QED BY <1>1, <1>4, <1>5, <1>6, <2>1, AnsweredKeeps
<1>7. ASSUME call[t].tokens # None, path = "timed" => Len(call[t].tokens.frames) = 1,
             NEW at \in {"remember", "continue"}, Answered(t, answer, at),
             at = "remember" <=> path = "timed",
             path = "runner" => Len(answer) # Len(call[t].batch)
      PROVE  Inv'
  <2>1. at \in Places
    BY <1>7 DEF Places, InContinuation, Remembering
  <2>2. PICK c \in Calls :
              /\ call' = [call EXCEPT ![t] = c]
              /\ c.at = at /\ c.batch = call[t].batch /\ c.feed = call[t].feed
              /\ c.samples = call[t].samples /\ c.tokens = call[t].tokens
              /\ c.answer = answer /\ c.route = call[t].route
    <3>1. TypeOK /\ answer \in Batch(Answer) /\ Answered(t, answer, at)
      BY <1>2, <1>5, <1>7
    <3> QED BY <2>1, <3>1, AnsweredCall, SMTT(30)
  <2>3. path = "runner" => Len(c.answer) < Len(c.batch)
    BY <1>5, <1>7, <2>2, SMTT(30)
  <2>4. CallOK(c)'
    BY <1>1, <1>2, <1>5, <1>7, <2>2, <2>3
       DEF CallOK, InVision, Waiting, InContinuation, Remembering
  <2> QED BY <1>1, <1>4, <1>5, <1>7, <2>2, <2>4, AnsweredKeeps
<1> QED
  <2>1. CASE call[t].tokens = None \/ (path = "timed" /\ Len(call[t].tokens.frames) # 1)
    BY <1>3, <2>1 DEF Fuse
  <2>2. CASE /\ call[t].tokens # None /\ (path = "timed" => Len(call[t].tokens.frames) = 1)
             /\ path = "runner" /\ Len(answer) = Len(call[t].batch)
    BY <1>4, <1>6, <2>2 DEF Fuse
  <2>3. CASE /\ call[t].tokens # None /\ (path = "timed" => Len(call[t].tokens.frames) = 1)
             /\ ~(path = "runner" /\ Len(answer) = Len(call[t].batch))
    <3>1. PICK at : at = IF path = "timed" THEN "remember" ELSE "continue"
      OBVIOUS
    <3>2. Answered(t, answer, at)
      BY <1>4, <2>3, <3>1 DEF Fuse, Answered
    <3>3. at \in {"remember", "continue"} /\ (at = "remember" <=> path = "timed")
      BY <3>1
    <3> QED BY <1>7, <2>3, <3>2, <3>3
  <2> QED BY <2>1, <2>2, <2>3

-----------------------------------------------------------------------------
(* The cascade: remembering, and the light path                            *)

\* The steps in which predict_timed remembers an answer.
LEMMA RememberMoves ==
    ASSUME Inv, NEW t \in Threads, NEW c \in Calls, call' = [call EXCEPT ![t] = c],
           UNCHANGED <<engineVars, config, caches, counts, lock>>,
           call[t].at \in Remembering, c.at \in {"remembered", "idle"},
           c.batch = call[t].batch, c.answer = call[t].answer, c.samples \in {None, call[t].samples},
           CallOK(c)', last_state' \in {r.state : r \in Requests} \cup {None},
           last_actions' \in Answer \cup {None}, LightInv'
    PROVE  Inv'
<1>1. /\ TypeOK /\ EngineTypeOK /\ LockInv /\ OwnInv /\ AloneInv /\ ThrottleInv /\ FrameInv
  BY DEF Inv, TypeOK
<1>2. EngineTypeOK' /\ EngineGrows
  BY <1>1, EngineRests
<1>3. TypeOK'
  BY <1>1, <1>2, CallsKept DEF TypeOK, PluginsTypeOK, config, caches, counts
<1>4. /\ call[t].at \notin {"text", "fuse", "idle"} /\ c.at \notin {"text", "fuse"}
      /\ call[t].at \notin InVision \cup {"store"} /\ c.at \notin InVision \cup {"store"}
      /\ c.at \in {"idle"} \cup InContinuation \cup Remembering
      /\ c.at \notin InContinuation /\ c.at \notin InContinuation \cup {"encoded"}
  BY DEF Remembering, InVision, InContinuation
<1>5. LockInv'
  BY <1>1, <1>4, LockRests DEF config, caches
<1>6. OwnInv' /\ AloneInv'
  BY <1>1, <1>4, OwnRests, AloneRests DEF counts
<1>7. ThrottleInv'
  BY <1>1, <1>4, ThrottleRests DEF config, counts, caches, engineVars
<1>8. FrameInv'
  BY <1>1, <1>4, FramesRest DEF config, counts, caches
<1> QED BY <1>3, <1>5, <1>6, <1>7, <1>8 DEF Inv

\* A call that remembers has one request and its answer.
LEMMA RememberedCall ==
    ASSUME Inv, NEW t \in Threads, call[t].at \in Remembering
    PROVE  /\ call[t].batch[1] \in Requests /\ call[t].answer[1] \in Answer
           /\ call[t].answer \in Batch(Answer) /\ call[t].route = "heavy"
           /\ call[t].answer[1].state = call[t].batch[1].state
<1>1. call[t] \in Calls /\ CallOK(call[t]) /\ OwnInv /\ call[t].at # "idle"
  BY DEF Inv, TypeOK, Remembering
<1>2. call[t].batch \in Batch(Requests) /\ Len(call[t].answer) = 1
  BY <1>1 DEF CallOK, Calls
<1>3. call[t].batch \in Seq(Requests) /\ Len(call[t].batch) \in 1..MaxBatch /\ MaxBatch \in Nat
  BY <1>2, BatchIsSeq, SplitAssumption
<1>4. call[t].answer \in Batch(Answer)
  <2>1. Len(<<>>) # 1
    BY SMTT(30)
  <2> QED BY <1>1, <1>2, <2>1 DEF Calls
<1>5. call[t].answer \in Seq(Answer)
  BY <1>4, BatchIsSeq
<1>6. call[t].batch[1] \in Requests
  <2>1. 1 \in 1..Len(call[t].batch)
    BY <1>3, SMTT(30)
  <2> QED BY <1>3, <2>1, SMTT(30)
<1>7. call[t].answer[1] \in Answer /\ 1 \in DOMAIN call[t].answer
  <2>1. 1 \in 1..Len(call[t].answer)
    BY <1>2, SMTT(30)
  <2> QED BY <1>5, <2>1, SMTT(30)
<1>8. call[t].answer[1].state = call[t].batch[1].state
  BY <1>1, <1>7 DEF OwnInv, Owned
<1>9. call[t].route = "heavy"
  BY <1>1 DEF CallOK, Calls, Remembering
<1> QED BY <1>4, <1>6, <1>7, <1>8, <1>9

LEMMA RememberStateKeeps ==
    ASSUME Inv, NEW t \in Threads, RememberState(t)
    PROVE  Inv'
<1>1. /\ call[t].at = "remember" /\ last_state' = call[t].batch[1].state /\ Moved(t, "remembered")
      /\ UNCHANGED <<engineVars, config, caches, counts, last_actions, lock>>
  BY DEF RememberState
<1>2. /\ TypeOK /\ AloneInv /\ LightInv /\ call[t] \in Calls /\ CallOK(call[t])
      /\ call[t].at \in Remembering /\ "remembered" \in Places
  BY <1>1 DEF Inv, TypeOK, Remembering, Places
<1>3. PICK c \in Calls :
              /\ call' = [call EXCEPT ![t] = c]
              /\ c.at = "remembered" /\ c.batch = call[t].batch /\ c.feed = call[t].feed
              /\ c.samples = call[t].samples /\ c.tokens = call[t].tokens /\ c.text = call[t].text
              /\ c.answer = call[t].answer /\ c.output = call[t].output /\ c.route = call[t].route
  <2>1. TypeOK /\ "remembered" \in Places /\ Moved(t, "remembered")
    BY <1>1, <1>2
  <2> QED BY <2>1, MovedCall
<1>4. CallOK(c)'
  BY <1>1, <1>2, <1>3 DEF CallOK, config, InVision, Waiting, InContinuation, Remembering
<1>5. /\ call'[t] = c
      /\ \A u \in Threads \ {t} : call'[u] = call[u]
  BY <1>2, <1>3, OneCall DEF TypeOK
<1>6. LightInv'
  <2>1. ASSUME ~overlapped PROVE \A u \in Threads \ {t} : call'[u].at = "idle"
    BY <1>1, <1>2, <1>5, <2>1 DEF AloneInv
  <2>2. overlapped' = overlapped
    BY <1>1 DEF counts
  <2>3. call'[t].at = "remembered" /\ last_state' = call'[t].batch[1].state
    BY <1>1, <1>3, <1>5
  <2> QED BY <1>2, <1>5, <2>1, <2>2, <2>3 DEF LightInv, Near, Distance
<1>7. /\ last_state' \in {r.state : r \in Requests} \cup {None}
      /\ last_actions' \in Answer \cup {None}
  BY <1>1, <1>2, RememberedCall DEF TypeOK
<1> QED BY <1>1, <1>2, <1>3, <1>4, <1>6, <1>7, RememberMoves

LEMMA RememberActionsKeeps ==
    ASSUME Inv, NEW t \in Threads, RememberActions(t)
    PROVE  Inv'
<1>1. /\ call[t].at = "remembered" /\ last_actions' = call[t].answer[1]
      /\ call' = Returned(t, call[t].answer)
      /\ UNCHANGED <<engineVars, config, caches, counts, last_state, lock>>
  BY DEF RememberActions
<1>2. /\ TypeOK /\ AloneInv /\ LightInv /\ call[t].at \in Remembering /\ call[t].at # "idle"
      /\ path' = path
  BY <1>1 DEF Inv, TypeOK, Remembering, config
<1>3. /\ call[t].answer[1] \in Answer /\ call[t].answer \in Batch(Answer)
      /\ call[t].route = "heavy" /\ call[t].answer[1].state = call[t].batch[1].state
  BY <1>2, RememberedCall
<1>4. PICK c \in Calls :
            /\ call' = [call EXCEPT ![t] = c]
            /\ c.at = "idle" /\ c.batch = call[t].batch /\ c.samples = None
            /\ c.answer = call[t].answer /\ c.route = call[t].route /\ CallOK(c)'
  BY <1>1, <1>2, <1>3, ReturnedCall
<1>5. /\ call'[t] = c
      /\ \A u \in Threads \ {t} : call'[u] = call[u]
  BY <1>2, <1>4, OneCall DEF TypeOK
<1>6. LightInv'
  <2>1. ASSUME ~overlapped PROVE \A u \in Threads \ {t} : call'[u].at = "idle"
    BY <1>1, <1>2, <1>5, <2>1 DEF AloneInv
  <2>2. overlapped' = overlapped
    BY <1>1 DEF counts
  <2>3. call'[t].at = "idle" /\ call'[t].route = "heavy"
    BY <1>3, <1>4, <1>5
  <2>4. ~overlapped => last_actions'.state = last_state'
    BY <1>1, <1>2, <1>3 DEF LightInv
  <2> QED BY <1>2, <1>5, <2>1, <2>2, <2>3, <2>4 DEF LightInv, Near, Distance
<1>7. /\ last_state' \in {r.state : r \in Requests} \cup {None}
      /\ last_actions' \in Answer \cup {None}
  BY <1>1, <1>2, <1>3 DEF TypeOK
<1> QED BY <1>1, <1>2, <1>4, <1>6, <1>7, RememberMoves

\* The steps that end the light path.
LEMMA LightMoves ==
    ASSUME Inv, NEW t \in Threads, NEW c \in Calls, call' = [call EXCEPT ![t] = c],
           UNCHANGED <<engineVars, config, caches, memory, counts, lock>>,
           call[t].at = "light", c.at \in {"encode", "idle"}, c.samples \in {None, call[t].samples},
           CallOK(c)', OwnInv', LightInv', FrameInv'
    PROVE  Inv'
<1>1. /\ TypeOK /\ EngineTypeOK /\ LockInv /\ AloneInv /\ ThrottleInv
  BY DEF Inv, TypeOK
<1>2. EngineTypeOK' /\ EngineGrows
  BY <1>1, EngineRests
<1>3. TypeOK'
  BY <1>1, <1>2, CallsKept DEF TypeOK, PluginsTypeOK, config, caches, counts, memory
<1>4. /\ call[t].at \notin {"text", "fuse", "idle"} /\ c.at \notin {"text", "fuse"}
      /\ call[t].at \notin InVision \cup {"store"} /\ c.at \notin InVision \cup {"store"}
      /\ c.at \notin InContinuation \cup {"encoded"}
  BY DEF InVision, InContinuation
<1>5. LockInv'
  BY <1>1, <1>4, LockRests DEF config, caches
<1>6. AloneInv'
  BY <1>1, <1>4, AloneRests DEF counts
<1>7. ThrottleInv'
  BY <1>1, <1>4, ThrottleRests DEF config, counts, caches, engineVars
<1> QED BY <1>3, <1>5, <1>6, <1>7 DEF Inv

\* The light path has no actions to repeat.
Fallback(t) == call' = [call EXCEPT ![t].at = "encode", ![t].route = "heavy"]

LEMMA FallbackKeeps ==
    ASSUME Inv, NEW t \in Threads, call[t].at = "light", Fallback(t),
           UNCHANGED <<engineVars, config, caches, memory, counts, lock>>
    PROVE  Inv'
<1>1. /\ TypeOK /\ EngineTypeOK /\ OwnInv /\ AloneInv /\ LightInv /\ FrameInv
      /\ call[t] \in Calls /\ CallOK(call[t]) /\ call \in [Threads -> Calls]
  BY DEF Inv, TypeOK
<1>2. PICK c : c = [call[t] EXCEPT !.at = "encode", !.route = "heavy"]
  OBVIOUS
<1>3. call' = [call EXCEPT ![t] = c]
  BY <1>1, <1>2 DEF Fallback
<1>4. /\ c \in Calls /\ c.at = "encode" /\ c.route = "heavy" /\ c.batch = call[t].batch
      /\ c.feed = call[t].feed /\ c.samples = call[t].samples /\ c.answer = call[t].answer
  <2>1. "encode" \in Places
    BY DEF Places, Waiting
  <2> QED BY <1>1, <1>2, <2>1 DEF Calls
<1>5. CallOK(c)'
  BY <1>1, <1>4 DEF CallOK, config, InVision, Waiting, InContinuation, Remembering
<1>6. OwnInv'
  BY <1>1, <1>3, <1>4, OwnRests
<1>7. LightInv'
  BY <1>1, <1>3, <1>4, LightRests DEF counts
<1>8. FrameInv'
  <2>1. EngineGrows
    BY <1>1, EngineRests
  <2>2. ASSUME Plain PROVE (EngineFollows /\ CacheFollows /\ CallFollows(c))'
    <3>1. EngineFollows /\ CacheFollows /\ CallFollows(call[t])
      BY <1>1, <2>2 DEF FrameInv
    <3>2. Feeding(call[t]) /\ c.answer = <<>>
      BY <1>1, <1>4, <3>1 DEF CallFollows, CallOK, Waiting
    <3>3. EngineFollows' /\ CacheFollows' /\ Feeding(c)'
      BY <1>4, <3>1, <3>2 DEF EngineFollows, CacheFollows, engineVars, caches, Feeding
    <3> QED BY <1>4, <3>2, <3>3, SMTT(30) DEF CallFollows, InVision, InContinuation
  <2> QED BY <1>1, <1>3, <1>4, <2>1, <2>2, FramesOfOne DEF config, counts
<1> QED BY <1>3, <1>4, <1>5, <1>6, <1>7, <1>8, LightMoves

LEMMA TakeLightKeeps ==
    ASSUME Inv, NEW t \in Threads, TakeLight(t)
    PROVE  Inv'
<1>1. /\ call[t].at = "light" /\ UNCHANGED <<engineVars, config, caches, memory, counts, lock>>
  BY DEF TakeLight
<1>2. /\ TypeOK /\ EngineTypeOK /\ OwnInv /\ AloneInv /\ LightInv /\ FrameInv
      /\ call[t] \in Calls /\ CallOK(call[t]) /\ call[t].at # "idle" /\ path' = path
  BY <1>1 DEF Inv, TypeOK, config
<1>3. CASE Fallback(t)
  BY <1>1, <1>3, FallbackKeeps
<1>4. CASE last_actions # None /\ call' = Returned(t, <<last_actions>>)
  <2>1. last_actions \in Answer
    BY <1>2, <1>4 DEF TypeOK
  <2>2. PICK answer : answer = <<last_actions>>
    OBVIOUS
  <2>3. /\ answer \in Batch(Answer) /\ answer[1] = last_actions /\ 1 \in DOMAIN answer
    <3>1. answer \in Seq(Answer) /\ Len(answer) = 1 /\ 1 \in 1..MaxBatch
      BY <2>1, <2>2, SplitAssumption, SMTT(30)
    <3>2. answer[1] = last_actions /\ 1 \in DOMAIN answer
      BY <2>2, SMTT(30)
    <3> QED BY <3>1, <3>2, BatchIsSeq
  <2>4. call[t].route = "light"
    BY <1>1, <1>2 DEF CallOK
  <2>5. PICK c \in Calls :
            /\ call' = [call EXCEPT ![t] = c]
            /\ c.at = "idle" /\ c.batch = call[t].batch /\ c.samples = None
            /\ c.answer = answer /\ c.route = call[t].route /\ CallOK(c)'
    BY <1>2, <1>4, <2>2, <2>3, ReturnedCall
  <2>6. /\ call'[t] = c
        /\ \A u \in Threads \ {t} : call'[u] = call[u]
    BY <1>2, <2>5, OneCall DEF TypeOK
  <2>7. OwnInv'
    <3>1. Owned(c)
      BY <2>4, <2>5 DEF Owned
    <3> QED BY <1>2, <2>5, <3>1, OwnStep
  <2>8. LightInv'
    <3>1. ASSUME ~overlapped PROVE \A u \in Threads \ {t} : call[u].at = "idle"
      BY <1>1, <1>2, <3>1 DEF AloneInv
    <3>2. ASSUME ~overlapped PROVE Near(c.answer[1].state, c.batch[1].state)
      <4>1. last_state \in Int /\ Near(call[t].batch[1].state, last_state)
        BY <1>1, <1>2, <3>2 DEF LightInv
      <4>2. last_actions.state = last_state
        BY <1>1, <1>2, <1>4, <3>1, <3>2 DEF LightInv
      <4>3. call[t].batch[1].state \in Int
        <5>1. call[t].batch \in Batch(Requests)
          BY <1>2 DEF CallOK, Calls
        <5>2. call[t].batch \in Seq(Requests) /\ Len(call[t].batch) \in 1..MaxBatch
          BY <5>1, BatchIsSeq
        <5>3. MaxBatch \in Nat /\ \A r \in Requests : r.state \in Int
          BY SplitAssumption
        <5>4. 1 \in 1..Len(call[t].batch)
          BY <5>2, <5>3, SMTT(30)
        <5> QED BY <5>2, <5>3, <5>4, SMTT(30)
      <4>4. \A a, b \in Int : Near(a, b) => Near(b, a)
        BY SMTT(30) DEF Near, Distance
      <4> QED BY <2>3, <2>5, <4>1, <4>2, <4>3, <4>4
    <3>3. overlapped' = overlapped /\ last_state' = last_state /\ last_actions' = last_actions
      BY <1>1 DEF counts, memory
    <3> QED BY <1>1, <1>2, <2>3, <2>5, <2>6, <3>1, <3>2, <3>3 DEF LightInv, Near
  <2>9. FrameInv'
    <3>1. EngineGrows
      BY <1>1, <1>2, EngineRests
    <3>2. ASSUME Plain PROVE (EngineFollows /\ CacheFollows /\ CallFollows(c))'
      <4>1. EngineFollows /\ CacheFollows
        BY <1>2, <3>2 DEF FrameInv
      <4>2. EngineFollows' /\ CacheFollows'
        BY <1>1, <4>1 DEF EngineFollows, CacheFollows, engineVars, caches
      <4> QED BY <2>4, <2>5, <4>2 DEF CallFollows, InVision, InContinuation, Waiting
    <3> QED BY <1>1, <1>2, <2>5, <3>1, <3>2, FramesOfOne DEF config, counts
  <2> QED BY <1>1, <2>5, <2>7, <2>8, <2>9, LightMoves
<1> QED BY <1>3, <1>4 DEF TakeLight, Fallback

-----------------------------------------------------------------------------
(* predict_timed and execute                                               *)

\* A call that begins: where it goes depends on the route.
LEMMA BegunCall ==
    ASSUME TypeOK, NEW t \in Threads, NEW batch \in Batch(Requests), NEW at \in Waiting,
           NEW route \in {"light", "heavy"}, route = "light" <=> at = "light",
           Begin(t, batch, at, route), path' = path,
           path = "timed" => Len(batch) = 1, path = "runner" => at # "light"
    PROVE  \E c \in Calls :
              /\ call' = [call EXCEPT ![t] = c]
              /\ c.at = at /\ c.batch = batch /\ c.feed = FramesOf(batch) /\ c.samples = None
              /\ c.answer = <<>> /\ CallOK(c)'
<1>1. PICK feed : feed = FramesOf(batch)
  OBVIOUS
<1>2. /\ batch \in Seq(Requests) /\ Len(batch) \in 1..MaxBatch /\ batch # <<>>
      /\ MaxBatch \in Nat \ {0}
  BY BatchIsSeq, SplitAssumption
<1>3. feed \in Seq(Contents) /\ Len(feed) = Len(batch)
  BY <1>1, <1>2, SMTT(30) DEF FramesOf, Contents
<1>4. feed \in Batch(Contents) /\ feed # <<>>
  BY <1>2, <1>3, BatchIsSeq
<1>5. PICK c : c = [Idle EXCEPT !.at = at, !.batch = batch, !.route = route, !.feed = feed]
  OBVIOUS
<1>6. /\ c.at = at /\ c.batch = batch /\ c.feed = feed /\ c.samples = None /\ c.tokens = None
      /\ c.answer = <<>> /\ c.route = route
  BY <1>5 DEF Idle
<1>7. c \in Calls
  <2>1. at \in Places
    BY DEF Places
  <2> QED BY <1>4, <1>5, <2>1, IdleIsCall DEF Calls
<1>8. call' = [call EXCEPT ![t] = c]
  BY <1>1, <1>5 DEF Begin
<1>9. at \in {"light", "encode"}
  BY DEF Waiting
<1>10. CallOK(c)'
  <2>1. path = "timed" => Len(c.batch) <= 1 /\ Len(c.feed) <= 1
    BY <1>3, <1>6, SMTT(30)
  <2> QED
    BY <1>2, <1>4, <1>6, <1>9, <2>1 DEF CallOK, InVision, Waiting, InContinuation, Remembering
<1> QED BY <1>1, <1>6, <1>7, <1>8, <1>10

\* A call that begins disturbs no other one: it has no answer, and its frames are its batch's.
LEMMA BeginKeeps ==
    ASSUME Inv, NEW t \in Threads, NEW batch \in Batch(Requests), NEW at \in Waiting,
           NEW route \in {"light", "heavy"}, route = "light" <=> at = "light",
           Begin(t, batch, at, route),
           path = "timed" => Len(batch) = 1, path = "runner" => at # "light",
           at = "light" => last_state \in Int /\ Near(batch[1].state, last_state),
           UNCHANGED <<engineVars, config, memory, prefix, tokencache, throttle, lock, failures>>
    PROVE  Inv'
<1>1. /\ TypeOK /\ EngineTypeOK /\ LockInv /\ OwnInv /\ AloneInv /\ LightInv /\ ThrottleInv
      /\ FrameInv /\ path' = path
  BY DEF Inv, TypeOK, config
<1>2. PICK c \in Calls :
              /\ call' = [call EXCEPT ![t] = c]
              /\ c.at = at /\ c.batch = batch /\ c.feed = FramesOf(batch) /\ c.samples = None
              /\ c.answer = <<>> /\ CallOK(c)'
  BY <1>1, BegunCall, SMTT(30)
<1>3. /\ call'[t] = c
      /\ \A u \in Threads \ {t} : call'[u] = call[u]
  BY <1>1, <1>2, OneCall DEF TypeOK
<1>4. /\ call[t].at = "idle"
      /\ ~overlapped' => ~overlapped /\ \A u \in Threads : call[u].at = "idle"
  BY DEF Begin
<1>5. at \in {"light", "encode"} /\ overlapped' \in BOOLEAN
  BY <1>1 DEF Waiting, Begin, TypeOK
<1>6. EngineTypeOK' /\ EngineGrows
  BY <1>1, EngineRests
<1>7. TypeOK'
  BY <1>1, <1>2, <1>5, <1>6, CallsKept DEF TypeOK, PluginsTypeOK, config, memory
<1>8. LockInv'
  <2>1. call[t].at \notin {"text", "fuse"} /\ c.at \notin {"text", "fuse"}
    BY <1>2, <1>4, <1>5
  <2> QED BY <1>1, <1>2, <2>1, LockRests DEF config
<1>9. OwnInv'
  <2>1. DOMAIN c.answer = {} /\ c.at # "fuse"
    BY <1>2, <1>5, SMTT(30)
  <2>2. Owned(c)
    BY <2>1 DEF Owned
  <2> QED BY <1>1, <1>2, <2>2, OwnStep
<1>10. AloneInv'
  BY <1>3, <1>4 DEF AloneInv
<1>11. LightInv'
  <2>1. last_state' = last_state /\ last_actions' = last_actions
    BY DEF memory
  <2>2. c.at # "remembered" /\ c.at # "idle"
    BY <1>2, <1>5
  <2> QED BY <1>1, <1>2, <1>3, <1>4, <2>1, <2>2 DEF LightInv, Near
<1>12. ThrottleInv'
  <2>1. Steady' => Steady /\ (Throttle!Step)' = Throttle!Step
    BY <1>4 DEF Steady, Throttle!Step, config, engineVars
  <2>2. Perceives(c)' /\ c.at \notin InVision \cup {"store"}
    BY <1>2, <1>5 DEF Perceives, InVision, InContinuation
  <2>3. ASSUME Steady' PROVE CachedIsRecent'
    <3>1. \A u \in Threads : call[u].at \notin InVision \cup {"store"}
      BY <1>4, <2>3 DEF Steady, InVision
    <3>2. CachedIsRecent
      BY <1>1, <2>1, <2>3, <3>1 DEF ThrottleInv
    <3> QED BY <2>1, <2>3, <3>2 DEF CachedIsRecent
  <2>4. ASSUME Steady', NEW u \in Threads PROVE Perceives(call[u])'
    <3>1. CASE u = t
      BY <1>3, <2>2, <3>1
    <3>2. CASE u # t
      <4>1. call'[u] = call[u] /\ Perceives(call[u])
        BY <1>1, <1>3, <2>1, <2>4, <3>2 DEF ThrottleInv
      <4> QED BY <2>1, <2>4, <4>1 DEF Perceives
    <3> QED BY <3>1, <3>2
  <2> QED BY <2>3, <2>4 DEF ThrottleInv
<1>13. FrameInv'
  <2>1. Plain' => Plain
    BY <1>4 DEF Plain, OneShape, config, engineVars
  <2>2. ASSUME Plain PROVE EngineFollows' /\ CacheFollows'
    BY <1>1, <2>2 DEF FrameInv, EngineFollows, CacheFollows, engineVars
  <2>3. CallFollows(c)'
    <3>1. DOMAIN c.answer = {}
      BY <1>2, SMTT(30)
    <3> QED BY <1>2, <1>5, <3>1 DEF CallFollows, Feeding, InVision, InContinuation
  <2>4. ASSUME Plain, NEW u \in Threads PROVE CallFollows(call[u])'
    <3>1. CASE u = t
      BY <1>3, <2>3, <3>1
    <3>2. CASE u # t
      <4>1. call'[u] = call[u] /\ CallFollows(call[u])
        BY <1>1, <1>3, <2>4, <3>2 DEF FrameInv
      <4> QED BY <4>1 DEF CallFollows, Feeding, engineVars, InputShape
    <3> QED BY <3>1, <3>2
  <2> QED BY <2>1, <2>2, <2>4 DEF FrameInv
<1> QED BY <1>7, <1>8, <1>9, <1>10, <1>11, <1>12, <1>13 DEF Inv

LEMMA PredictTimedKeeps ==
    ASSUME Inv, NEW t \in Threads, NEW r \in Requests, predict_timed(t, r)
    PROVE  Inv'
<1>1. /\ path = "timed"
      /\ UNCHANGED <<engineVars, config, memory, prefix, tokencache, throttle, lock, failures>>
  BY DEF predict_timed
<1>2. PICK batch : batch = <<r>>
  OBVIOUS
<1>3. batch \in Batch(Requests) /\ Len(batch) = 1 /\ batch[1] = r
  <2>1. batch \in Seq(Requests) /\ Len(batch) = 1 /\ 1 \in 1..MaxBatch
    BY <1>2, SplitAssumption, SMTT(30)
  <2>2. batch[1] = r
    BY <1>2
  <2> QED BY <2>1, <2>2, BatchIsSeq
<1>4. CASE Cascaded!RouteLight(Difficulty(r.state)) /\ Begin(t, batch, "light", "light")
  <2>1. Difficulty(r.state) < DifficultyThreshold
    BY <1>4 DEF Cascaded!RouteLight, Cascaded!Easy
  <2>2. last_state # None
    BY <2>1, SplitAssumption, SMTT(30) DEF Difficulty
  <2>3. last_state \in Int /\ r.state \in Int
    <3>1. \A q \in Requests : q.state \in Int
      BY SplitAssumption
    <3> QED BY <2>2, <3>1 DEF Inv, TypeOK
  <2>4. Near(batch[1].state, last_state)
    BY <1>3, <2>1, <2>2, <2>3, SplitAssumption, SMTT(30) DEF Difficulty, Near, Distance
  <2>5. "light" \in Waiting /\ path # "runner"
    BY <1>1 DEF Waiting
  <2> QED BY <1>1, <1>3, <1>4, <2>3, <2>4, <2>5, BeginKeeps
<1>5. CASE Begin(t, batch, "encode", "heavy")
  <2>1. "encode" \in Waiting
    BY DEF Waiting
  <2> QED BY <1>1, <1>3, <1>5, <2>1, BeginKeeps
<1> QED BY <1>2, <1>4, <1>5 DEF predict_timed

LEMMA ExecuteKeeps ==
    ASSUME Inv, NEW t \in Threads, NEW batch \in Batch(Requests), execute(t, batch)
    PROVE  Inv'
<1>1. /\ path = "runner" /\ Begin(t, batch, "encode", "heavy") /\ "encode" \in Waiting
      /\ UNCHANGED <<engineVars, config, memory, prefix, tokencache, throttle, lock, failures>>
  BY DEF execute, Waiting, caches
<1>2. path # "timed"
  BY <1>1
<1> QED BY <1>1, <1>2, BeginKeeps

-----------------------------------------------------------------------------
(* Time, stuttering and the initial states                                 *)

\* No step but one of the throttle and one of a call has an effect on the invariant.
LEMMA PolicyRests ==
    ASSUME Inv, PluginsTypeOK',
           UNCHANGED <<engineVars, config, memory, counts, prefix, tokencache, lock, call>>,
           UNCHANGED <<throttle.cached, throttle.refreshes, throttle.reuses,
                       throttle.calls_since_refresh>>
    PROVE  Inv'
<1>1. /\ TypeOK /\ EngineTypeOK /\ LockInv /\ OwnInv /\ AloneInv /\ LightInv /\ ThrottleInv
      /\ FrameInv
  BY DEF Inv, TypeOK
<1>2. EngineTypeOK' /\ EngineGrows
  BY <1>1, EngineRests
<1>3. \A t \in Threads : CallOK(call[t])'
  BY <1>1 DEF TypeOK, CallOK, engineVars, config
<1>4. TypeOK'
  BY <1>1, <1>2, <1>3 DEF TypeOK, config, memory, counts
<1>5. LockInv' /\ OwnInv'
  BY <1>1 DEF LockInv, PrefixSingleFlight, OwnInv, Request, Prefix!Cached, config
<1>6. AloneInv' /\ LightInv'
  BY <1>1 DEF AloneInv, LightInv, Near, counts, memory
<1>7. ThrottleInv'
  <2>1. Steady' = Steady /\ (Throttle!Step)' = Throttle!Step
    BY DEF Steady, Throttle!Step, counts, config, engineVars
  <2> QED BY <1>1, <2>1 DEF ThrottleInv, Perceives, CachedIsRecent
<1>8. FrameInv'
  <2>1. Plain' => Plain
    BY DEF Plain, OneShape, engineVars, config, counts
  <2>2. EngineFollows => EngineFollows'
    BY DEF EngineFollows, engineVars
  <2>3. CacheFollows => CacheFollows'
    BY DEF CacheFollows
  <2>4. ASSUME NEW t \in Threads, CallFollows(call[t])
        PROVE  CallFollows(call[t])'
    BY <2>4 DEF CallFollows, Feeding, InputShape, engineVars
  <2> QED BY <1>1, <2>1, <2>2, <2>3, <2>4 DEF FrameInv
<1> QED BY <1>4, <1>5, <1>6, <1>7, <1>8 DEF Inv

LEMMA ElapseKeeps ==
    ASSUME Inv, Elapse
    PROVE  Inv'
<1>1. /\ throttle' = [throttle EXCEPT !.overdue = TRUE]
      /\ UNCHANGED <<engineVars, config, memory, counts, prefix, tokencache, lock, call>>
  BY DEF Elapse, Throttle!Elapse
<1>2. PluginsTypeOK
  BY DEF Inv, TypeOK
<1>3. PluginsTypeOK'
  BY <1>1, <1>2 DEF PluginsTypeOK
<1>4. UNCHANGED <<throttle.cached, throttle.refreshes, throttle.reuses,
                  throttle.calls_since_refresh>>
  BY <1>1, <1>2 DEF PluginsTypeOK
<1> QED BY <1>1, <1>3, <1>4, PolicyRests

LEMMA PolicyStutters ==
    ASSUME Inv, UNCHANGED vars
    PROVE  Inv'
<1>1. /\ UNCHANGED <<engineVars, config, memory, counts, prefix, tokencache, lock, call>>
      /\ throttle' = throttle
  BY DEF vars, caches
<1>2. PluginsTypeOK'
  BY <1>1 DEF Inv, TypeOK, PluginsTypeOK
<1>3. UNCHANGED <<throttle.cached, throttle.refreshes, throttle.reuses,
                  throttle.calls_since_refresh>>
  BY <1>1
<1> QED BY <1>1, <1>2, <1>3, PolicyRests

LEMMA InitIsSafe == Init => Inv
<1> SUFFICES ASSUME Init PROVE Inv
  OBVIOUS
<1>1. /\ MaxBatch \in Nat \ {0} /\ RefreshSteps \in Nat /\ None \notin Threads \cup {<<>>}
      /\ Idle \in Calls
  BY SplitAssumption, IdleIsCall
<1>2. EngineTypeOK
  BY <1>1, SMTT(30) DEF Init, EngineInit, EngineTypeOK
<1>3. PluginsTypeOK
  <2>1. <<>> \in Seq(PrefixEntry) /\ <<>> \in Seq(TokenEntry) /\ 0 \in Nat
    BY SMTT(30)
  <2> QED
    BY <1>1, <2>1 DEF Init, PluginsTypeOK, Prefix!Init, Tokens!Init, Throttle!Init
<1>4. /\ call = [t \in Threads |-> Idle]
      /\ \A t \in Threads : /\ call[t] = Idle /\ call[t].at = "idle" /\ call[t].route = "heavy"
                            /\ call[t].answer = <<>> /\ call[t].batch = <<>> /\ call[t].feed = <<>>
                            /\ call[t].samples = None
  BY DEF Init, Idle
<1>5. \A t \in Threads : CallOK(call[t])
  BY <1>4, SMTT(30) DEF CallOK, Waiting, InVision, InContinuation, Remembering
<1>6. TypeOK
  BY <1>1, <1>2, <1>3, <1>4, <1>5 DEF Init, TypeOK
<1>7. LockInv /\ OwnInv /\ AloneInv /\ LightInv
  <2>1. lock = None /\ last_actions = None
    BY DEF Init
  <2> QED BY <1>1, <1>4, <2>1, SMTT(30) DEF LockInv, PrefixSingleFlight, OwnInv, Owned, AloneInv, LightInv
<1>8. ThrottleInv
  <2>1. ~(throttle.refreshes > 0)
    BY SMTT(30) DEF Init, Throttle!Init
  <2> QED BY <1>4, <2>1 DEF ThrottleInv, Perceives, CachedIsRecent, InVision, InContinuation
<1>9. FrameInv
  <2>1. EngineFollows
    BY DEF EngineFollows, Init, EngineInit, Tensors
  <2>2. CacheFollows
    BY SMTT(30) DEF CacheFollows, Init, Tokens!Init
  <2>3. \A t \in Threads : CallFollows(call[t])
    BY <1>4 DEF CallFollows, Waiting, InVision, InContinuation
  <2> QED BY <2>1, <2>2, <2>3 DEF FrameInv
<1> QED BY <1>6, <1>7, <1>8, <1>9 DEF Inv

LEMMA PolicyKeeps ==
    ASSUME Inv, [Next]_vars
    PROVE  Inv'
<1>1. ASSUME NEW t \in Threads, Step(t) PROVE Inv'
  <2>1. CASE TakeLight(t) \/ encode_vision(t)
    BY <2>1, TakeLightKeeps, EncodeKeeps
  <2>2. CASE VisionShape(t) \/ VisionBind(t) \/ VisionCopy(t) \/ VisionRun(t) \/ VisionReturn(t)
    BY <2>2, VisionShapeKeeps, VisionBindKeeps, VisionCopyKeeps, VisionRunKeeps, VisionReturnKeeps
  <2>3. CASE VisionRaises(t) \/ StoreTokens(t) \/ CheckTokens(t)
    BY <2>3, VisionRaisesKeeps, StoreTokensKeeps, CheckTokensKeeps
  <2>4. CASE predict_from_vision(t) \/ EncodeText(t) \/ Fuse(t) \/ ContinuationRaises(t)
    BY <2>4, PredictFromVisionKeeps, EncodeTextKeeps, FuseKeeps, ContinuationRaisesKeeps
  <2>5. CASE RememberState(t) \/ RememberActions(t)
    BY <2>5, RememberStateKeeps, RememberActionsKeeps
  <2> QED BY <1>1, <2>1, <2>2, <2>3, <2>4, <2>5 DEF Step
<1>2. ASSUME NEW t \in Threads, NEW r \in Requests, predict_timed(t, r) PROVE Inv'
  BY <1>2, PredictTimedKeeps
<1>3. ASSUME NEW t \in Threads, NEW batch \in Batch(Requests), execute(t, batch) PROVE Inv'
  BY <1>3, ExecuteKeeps
<1> QED BY <1>1, <1>2, <1>3, ElapseKeeps, PolicyStutters DEF Next

-----------------------------------------------------------------------------
(* The properties                                                          *)

\* The inductive invariant holds in every state the policy reaches.
THEOREM PolicyIsSafe == Spec => []Inv
<1>1. Inv /\ [Next]_vars => Inv'
  BY PolicyKeeps
<1> QED BY <1>1, InitIsSafe, PTL DEF Spec

\* predict_from_vision: _continuation_lock is held by exactly the thread that is in the text,
\* fusion or action engine, it is not left held by one that raises, and the text engine never
\* runs for an instruction whose prefix is cached, for any number of threads.
THEOREM PrefixIsSingleFlight == Spec => []PrefixSingleFlight
<1>1. Inv => PrefixSingleFlight
  BY DEF Inv, LockInv
<1> QED BY <1>1, PolicyIsSafe, PTL

\* predict_timed and execute: an answer that runs the model is computed from its own request's
\* state and from text with its own prompt's key, whatever plugins are enabled and however the
\* threads interleave; and from its own frame while no two calls overlap, the Vision engine has
\* met one shape and perception is not throttled.
THEOREM EveryAnswerIsOwn == Spec => []AnswersAreOwn
<1>1. ASSUME Inv PROVE AnswersAreOwn
  <2>1. SUFFICES ASSUME NEW t \in Threads, Heavy(t), NEW i \in DOMAIN call[t].answer
                 PROVE  /\ call[t].answer[i].state = call[t].batch[i].state
                        /\ Key(call[t].answer[i].text) = Key(call[t].batch[i].prompt)
                        /\ ~overlapped /\ OneShape /\ "throttle" \notin plugins =>
                              call[t].answer[i].frame = call[t].batch[i].frame
    BY DEF AnswersAreOwn
  <2>2. OwnInv /\ FrameInv /\ call[t].route = "heavy"
    BY <1>1, <2>1 DEF Inv, Heavy
  <2>3. /\ call[t].answer[i].state = call[t].batch[i].state
        /\ Key(call[t].answer[i].text) = Key(call[t].batch[i].prompt)
    BY <2>1, <2>2 DEF OwnInv, Owned
  <2>4. ASSUME Plain PROVE call[t].answer[i].frame = call[t].batch[i].frame
    BY <2>1, <2>2, <2>4 DEF FrameInv, CallFollows
  <2> QED BY <2>3, <2>4 DEF Plain
<1>2. Inv => AnswersAreOwn
  BY <1>1
<1> QED BY <1>2, PolicyIsSafe, PTL

\* predict_timed: as long as calls follow one another, the actions the light path repeats were
\* computed for a state nearer than difficulty_threshold to the one they are repeated for,
\* however many answers in a row were repeated.
THEOREM LightPathIsNear == Spec => []LightIsNear
<1>1. Inv => LightIsNear
  BY DEF Inv, LightInv, LightIsNear, Near
<1> QED BY <1>1, PolicyIsSafe, PTL

\* PerceptionThrottlePlugin.get: calls that follow one another, with engines that neither fail
\* nor refuse a batch, never go on with a perception refresh_steps control steps old, or with
\* none, for every refresh_steps and however the interval elapses.
THEOREM PerceptionIsRecent == Spec => []ReuseIsRecent
<1>1. ASSUME Inv, NEW t \in Threads, call[t].at = "continue", Steady
      PROVE  call[t].tokens # None /\ Throttle!Step - call[t].tokens.step < RefreshSteps
  BY <1>1 DEF Inv, ThrottleInv, Perceives, InContinuation
<1>2. Inv => ReuseIsRecent
  BY <1>1 DEF ReuseIsRecent, Steady
<1> QED BY <1>2, PolicyIsSafe, PTL
=============================================================================
