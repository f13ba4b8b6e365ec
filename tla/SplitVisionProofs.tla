------------------------- MODULE SplitVisionProofs --------------------------
(***************************************************************************)
(* The inductive invariant of the split TurboVLA policy, and the steps     *)
(* from the Vision engine to the tokens of a batch, which preserve it.     *)
(***************************************************************************)
EXTENDS SplitPolicy, TLAPS

\* Zenon by default, with time for a busy machine; a leaf that needs arithmetic cites SMTT.
USE ZenonT(60)

-----------------------------------------------------------------------------
(* The state space                                                         *)

Prompts == {r.prompt : r \in Requests}

\* The entries of the prefix cache: the text is one of the key's.
PrefixEntry == {e \in [key : {Key(p) : p \in Prompts}, value : Prompts] : Key(e.value) = e.key}

TokenEntry ==
    [key : {"scene"}, value : [fingerprint : Batch(Contents), tokens : VisionTokens]]

Answer == [frame : Contents, state : {r.state : r \in Requests}, text : Prompts]

Waiting == {"light", "encode"}
InVision == {"shape", "bind", "copy", "run", "return"}
InContinuation == {"continue", "text", "fuse"}
Remembering == {"remember", "remembered"}
Places == {"idle", "store", "encoded"} \cup Waiting \cup InVision \cup InContinuation \cup Remembering

Calls ==
    [at : Places, batch : Batch(Requests) \cup {<<>>}, feed : Batch(Contents) \cup {<<>>},
     output : 0..MaxBatch, samples : Batch(Contents) \cup {<<>>, None},
     tokens : VisionTokens \cup {None}, text : Prompts \cup {None},
     route : {"light", "heavy"}, answer : Batch(Answer) \cup {<<>>}, raised : BOOLEAN]

\* The buffers of each tensor and shape, and what the context is bound to.
EngineTypeOK ==
    /\ dynamic \in BOOLEAN
    /\ shape \in 1..MaxBatch /\ (dynamic \/ shape = 1)
    /\ address \in [Tensors -> 0..MaxBatch]
    /\ device \in [Tensors -> [1..MaxBatch -> Batch(Contents) \cup {Unallocated}]]
    /\ \A name \in Tensors, n \in 1..MaxBatch :
          device[name][n] # Unallocated => Len(device[name][n]) = n /\ address[name] # 0
    /\ \A name \in Tensors :
          address[name] # 0 => device[name][address[name]] # Unallocated

PluginsTypeOK ==
    /\ prefix \in [cache : Seq(PrefixEntry), hits : Nat, misses : Nat]
    /\ tokencache \in [cache : Seq(TokenEntry), hits : Nat, misses : Nat]
    /\ throttle \in [cached : VisionTokens \cup {None}, refreshes : Nat, reuses : Nat,
                     calls_since_refresh : Nat, overdue : BOOLEAN]

\* A call that is being made has a batch; the engine runs for the feed, into a buffer that
\* exists; predict_timed has one request and nothing to fall back to.
CallOK(c) ==
    /\ c.at # "idle" => c.batch # <<>> /\ c.feed # <<>>
    /\ c.at \in {"copy", "run", "return"} =>
          c.output \in 1..MaxBatch /\ device["visual_tokens"][c.output] # Unallocated
    /\ c.at \in {"copy", "run", "return"} => address["images"] # 0
    /\ c.at = "store" => c.tokens # None
    /\ c.samples # None =>
          /\ path = "runner"
          /\ c.at \in {"encode", "store", "encoded"} \cup InVision =>
                Len(c.samples) < Len(c.batch) /\ Len(c.feed) = 1
    /\ path = "timed" => Len(c.batch) <= 1 /\ Len(c.feed) <= 1
    /\ c.at \in Waiting \cup InVision \cup {"store", "encoded"} => c.answer = <<>>
    /\ c.at \in InContinuation => Len(c.answer) < Len(c.batch)
    /\ path = "runner" => c.at \notin Remembering \cup {"light"}
    /\ path = "runner" /\ c.at \in InContinuation =>
          c.tokens # None /\ Len(c.tokens.frames) = Len(c.batch)
    /\ c.at \in Remembering => Len(c.answer) = 1
    /\ c.at # "idle" => (c.route = "light" <=> c.at = "light")

TypeOK ==
    /\ path \in {"timed", "runner"}
    /\ EngineTypeOK /\ PluginsTypeOK
    /\ failures \in Nat /\ overlapped \in BOOLEAN
    /\ last_state \in {r.state : r \in Requests} \cup {None} /\ last_actions \in Answer \cup {None}
    /\ lock \in Threads \cup {None}
    /\ call \in [Threads -> Calls]
    /\ \A t \in Threads : CallOK(call[t])

-----------------------------------------------------------------------------
(* What the four properties rest on                                        *)

\* The lock and the text engine.
LockInv == PrefixSingleFlight

\* An answer, made or being made, is of its own request, up to the frame.
Owned(c) ==
    /\ c.at # "idle" \/ c.route = "heavy" =>
          \A i \in DOMAIN c.answer :
              /\ i \in DOMAIN c.batch
              /\ c.answer[i].state = c.batch[i].state
              /\ Key(c.answer[i].text) = Key(c.batch[i].prompt)
    /\ c.at = "fuse" =>
          c.text \in Prompts /\ Key(c.text) = Key(c.batch[Len(c.answer) + 1].prompt)

OwnInv == \A t \in Threads : Owned(call[t])

\* Until two calls meet, at most one is being made.
AloneInv ==
    ~overlapped =>
        \A t, u \in Threads : call[t].at # "idle" /\ call[u].at # "idle" => t = u

Near(a, b) == Distance(a, b) < DifficultyThreshold

\* The remembered actions are the ones of the remembered state, except between the two
\* assignments, and the light path was chosen for a state near it.
LightInv ==
    ~overlapped =>
        /\ \A t \in Threads :
              LET c == call[t]
              IN /\ c.at = "light" => last_state \in Int /\ Near(c.batch[1].state, last_state)
                 /\ c.at = "remembered" => last_state = c.batch[1].state
                 /\ c.at = "idle" /\ c.route = "light" =>
                       1 \in DOMAIN c.answer /\ Near(c.answer[1].state, c.batch[1].state)
        /\ (\A t \in Threads : call[t].at # "remembered") /\ last_actions # None =>
              last_actions.state = last_state

Steady == ~overlapped /\ failures = 0 /\ (dynamic \/ path = "timed") /\ "throttle" \in plugins

\* A call in the Vision engine has just been counted as a refresh; one that is past it sees
\* a perception that is recent.
Perceives(c) ==
    /\ c.samples = None
    /\ c.at \in InVision \cup {"store"} =>
          throttle.refreshes > 0 /\ throttle.calls_since_refresh = 0
    /\ c.at = "store" => c.tokens.step = Throttle!Step
    /\ c.at \in InContinuation \cup {"encoded"} =>
          c.tokens # None /\ Throttle!Step - c.tokens.step < RefreshSteps

\* What is cached is calls_since_refresh steps old.
CachedIsRecent ==
    throttle.refreshes > 0 =>
        throttle.cached # None /\ throttle.cached.step = Throttle!Step - throttle.calls_since_refresh

\* The cached perception is not recent only while it is being replaced.
ThrottleInv ==
    Steady =>
        /\ \A t \in Threads : Perceives(call[t])
        /\ (\A t \in Threads : call[t].at \notin InVision \cup {"store"}) => CachedIsRecent

Plain == ~overlapped /\ OneShape /\ "throttle" \notin plugins

\* How far a call has come with the frames of its batch.
Feeding(c) ==
    \/ c.samples = None /\ c.feed = FramesOf(c.batch)
    \/ /\ c.samples # None
       /\ \A i \in DOMAIN c.samples : c.samples[i] = c.batch[i].frame
       /\ c.feed = <<c.batch[Len(c.samples) + 1].frame>>

\* The context is bound to the buffers of the one shape.
EngineFollows ==
    \A n \in 1..MaxBatch :
        /\ device["images"][n] # Unallocated <=> device["visual_tokens"][n] # Unallocated
        /\ device["images"][n] # Unallocated => \A name \in Tensors : address[name] = n

CacheFollows ==
    \A i \in DOMAIN tokencache.cache :
        LET entry == tokencache.cache[i].value
        IN entry.tokens.frames = entry.fingerprint

\* What a call puts into the engine comes out of it, down to its answers.
CallFollows(c) ==
    /\ c.at \in Waiting \cup InVision \cup {"store", "encoded"} => Feeding(c)
    /\ c.at \in InVision \ {"shape"} => shape = InputShape(c.feed)
    /\ c.at \in {"copy", "run", "return"} =>
          device["images"][shape] # Unallocated /\ c.output = shape
    /\ c.at \in {"run", "return"} => Len(c.feed) = shape /\ device["images"][shape] = c.feed
    /\ c.at = "return" => device["visual_tokens"][shape] = c.feed
    /\ c.at \in {"store", "encoded"} => c.tokens # None /\ c.tokens.frames = c.feed
    /\ c.at \in InContinuation => c.tokens # None /\ c.tokens.frames = FramesOf(c.batch)
    /\ c.at # "idle" \/ c.route = "heavy" =>
          \A i \in DOMAIN c.answer : c.answer[i].frame = c.batch[i].frame

\* One call at a time and one shape, without the throttle.
FrameInv == Plain => EngineFollows /\ CacheFollows /\ \A t \in Threads : CallFollows(call[t])

Inv == TypeOK /\ LockInv /\ OwnInv /\ AloneInv /\ LightInv /\ ThrottleInv /\ FrameInv

-----------------------------------------------------------------------------
(* Batches, records and the one call a step changes                        *)

\* A batch is a nonempty sequence of at most MaxBatch elements.
LEMMA BatchIsSeq ==
    ASSUME NEW S, NEW s
    PROVE  /\ s \in Batch(S) <=> s \in Seq(S) /\ Len(s) \in 1..MaxBatch
           /\ s \in Batch(S) => s # <<>>
<1>1. MaxBatch \in Nat \ {0}
  BY SplitAssumption
<1>2. ASSUME s \in Batch(S) PROVE s \in Seq(S) /\ Len(s) \in 1..MaxBatch
  <2>1. PICK n \in 1..MaxBatch : s \in [1..n -> S]
    BY <1>2 DEF Batch
  <2> QED BY <1>1, <2>1, SMTT(30)
<1>3. ASSUME s \in Seq(S), Len(s) \in 1..MaxBatch PROVE s \in Batch(S)
  BY <1>3, SMTT(30) DEF Batch
<1> QED BY <1>1, <1>2, <1>3, SMTT(30)

\* A step changes the call of one thread.
LEMMA OneCall ==
    ASSUME NEW t \in Threads, NEW c \in Calls, call \in [Threads -> Calls],
           call' = [call EXCEPT ![t] = c]
    PROVE  /\ call' \in [Threads -> Calls]
           /\ call'[t] = c
           /\ \A u \in Threads \ {t} : call'[u] = call[u]
  OBVIOUS

\* Buffers are kept, and a tensor that was bound stays bound.
EngineGrows ==
    \A name \in Tensors :
        /\ address[name] # 0 => address'[name] # 0
        /\ \A n \in 1..MaxBatch :
              device[name][n] # Unallocated => device'[name][n] # Unallocated

LEMMA EngineRests ==
    ASSUME EngineTypeOK, UNCHANGED engineVars
    PROVE  EngineTypeOK' /\ EngineGrows
  BY DEF EngineTypeOK, EngineGrows, engineVars

\* The calls of the other threads stay well-formed.
LEMMA CallsKept ==
    ASSUME TypeOK, NEW t \in Threads, NEW c \in Calls, call' = [call EXCEPT ![t] = c],
           path' = path, EngineGrows, CallOK(c)'
    PROVE  /\ call' \in [Threads -> Calls]
           /\ \A u \in Threads : CallOK(call[u])'
<1>1. /\ call' \in [Threads -> Calls]
      /\ call'[t] = c
      /\ \A u \in Threads \ {t} : call'[u] = call[u]
  BY OneCall DEF TypeOK
<1>2. ASSUME NEW u \in Threads \ {t} PROVE CallOK(call[u])'
  <2>1. CallOK(call[u]) /\ call'[u] = call[u] /\ call[u].output \in 0..MaxBatch
    BY <1>1 DEF TypeOK, Calls
  <2> QED BY <2>1 DEF CallOK, EngineGrows, Tensors
<1>3. CallOK(call[t])'
  BY <1>1
<1> QED BY <1>1, <1>2, <1>3

\* Steps outside the text, fusion and action engines leave the lock and the cache alone.
LEMMA LockRests ==
    ASSUME TypeOK, LockInv, NEW t \in Threads, NEW c \in Calls, call' = [call EXCEPT ![t] = c],
           UNCHANGED <<lock, prefix, plugins>>,
           call[t].at \notin {"text", "fuse"}, c.at \notin {"text", "fuse"}
    PROVE  LockInv'
<1>1. /\ call'[t] = c
      /\ \A u \in Threads \ {t} : call'[u] = call[u]
  BY OneCall DEF TypeOK
<1> QED BY <1>1 DEF LockInv, PrefixSingleFlight, Request, Prefix!Cached

LEMMA OwnStep ==
    ASSUME TypeOK, OwnInv, NEW t \in Threads, NEW c \in Calls, call' = [call EXCEPT ![t] = c],
           Owned(c)
    PROVE  OwnInv'
<1>1. /\ call'[t] = c
      /\ \A u \in Threads \ {t} : call'[u] = call[u]
  BY OneCall DEF TypeOK
<1> QED BY <1>1 DEF OwnInv

LEMMA OwnRests ==
    ASSUME TypeOK, OwnInv, NEW t \in Threads, NEW c \in Calls, call' = [call EXCEPT ![t] = c],
           call[t].at # "idle", c.at # "fuse", c.batch = call[t].batch,
           c.answer \in {<<>>, call[t].answer}
    PROVE  OwnInv'
<1>1. DOMAIN <<>> = {} /\ Owned(call[t])
  BY SMTT(30) DEF OwnInv
<1>2. Owned(c)
  BY <1>1 DEF Owned
<1> QED BY <1>2, OwnStep

LEMMA AloneRests ==
    ASSUME TypeOK, AloneInv, NEW t \in Threads, NEW c \in Calls, call' = [call EXCEPT ![t] = c],
           call[t].at # "idle", overlapped' = overlapped
    PROVE  AloneInv'
<1>1. /\ call'[t] = c
      /\ \A u \in Threads \ {t} : call'[u] = call[u]
  BY OneCall DEF TypeOK
<1> QED BY <1>1 DEF AloneInv

LEMMA LightRests ==
    ASSUME TypeOK, LightInv, NEW t \in Threads, NEW c \in Calls, call' = [call EXCEPT ![t] = c],
           UNCHANGED memory, overlapped' = overlapped,
           call[t].at # "remembered", c.at \notin {"light", "remembered"},
           c.at = "idle" => c.route = "heavy"
    PROVE  LightInv'
<1>1. /\ call'[t] = c
      /\ \A u \in Threads \ {t} : call'[u] = call[u]
  BY OneCall DEF TypeOK
<1> QED BY <1>1 DEF LightInv, memory, Near, Distance

LEMMA ThrottleRests ==
    ASSUME TypeOK, ThrottleInv, NEW t \in Threads, NEW c \in Calls, call' = [call EXCEPT ![t] = c],
           UNCHANGED <<throttle, dynamic, path, plugins, failures, overlapped>>,
           call[t].at \notin InVision \cup {"store"}, c.at \notin InVision \cup {"store"},
           c.samples \in {None, call[t].samples},
           c.at \in InContinuation \cup {"encoded"} =>
              call[t].at \in InContinuation \cup {"encoded"} /\ c.tokens = call[t].tokens
    PROVE  ThrottleInv'
<1>1. /\ call'[t] = c
      /\ \A u \in Threads \ {t} : call'[u] = call[u]
  BY OneCall DEF TypeOK
<1>2. Steady' = Steady /\ (Throttle!Step)' = Throttle!Step
  BY DEF Steady, Throttle!Step
<1> QED BY <1>1, <1>2 DEF ThrottleInv, Perceives, CachedIsRecent

\* Past the Vision engine no step changes the frames.
LEMMA FramesRest ==
    ASSUME TypeOK, FrameInv, NEW t \in Threads, NEW c \in Calls, call' = [call EXCEPT ![t] = c],
           UNCHANGED <<engineVars, tokencache, plugins, overlapped>>,
           call[t].at # "idle", c.at \in {"idle"} \cup InContinuation \cup Remembering,
           c.batch = call[t].batch, c.answer \in {<<>>, call[t].answer},
           c.at \in InContinuation => call[t].at \in InContinuation /\ c.tokens = call[t].tokens
    PROVE  FrameInv'
<1>1. /\ call'[t] = c
      /\ \A u \in Threads \ {t} : call'[u] = call[u]
  BY OneCall DEF TypeOK
<1>2. Plain' = Plain
  BY DEF Plain, OneShape, engineVars
<1>3. c.at \notin Waiting \cup InVision \cup {"store", "encoded"}
  BY DEF Waiting, InVision, InContinuation, Remembering
<1> QED
  BY <1>1, <1>2, <1>3, SMTT(30) DEF FrameInv, EngineFollows, CacheFollows, CallFollows, engineVars, InVision,
     Feeding, InputShape

-----------------------------------------------------------------------------
(* The Vision engine                                                       *)

LEMMA FreshBuffer ==
    ASSUME NEW n \in 1..MaxBatch
    PROVE  /\ [i \in 1..n |-> Garbage] \in Batch(Contents)
           /\ Len([i \in 1..n |-> Garbage]) = n
           /\ [i \in 1..n |-> Garbage] # Unallocated
<1>1. MaxBatch \in Nat \ {0} /\ Unallocated \notin Batch(Contents)
  BY SplitAssumption
<1>2. [i \in 1..n |-> Garbage] \in Seq(Contents) /\ Len([i \in 1..n |-> Garbage]) = n
  BY <1>1, SMTT(30) DEF Contents
<1>3. [i \in 1..n |-> Garbage] \in Batch(Contents)
  BY <1>2, BatchIsSeq
<1> QED BY <1>1, <1>2, <1>3

\* _ensure_buffer: afterwards the buffers that infer() needs exist, and the context is bound.
LEMMA BuffersEnsured ==
    ASSUME EngineTypeOK, NEW feed, Len(feed) \in 1..MaxBatch, EnsureBuffers(feed)
    PROVE  /\ EngineTypeOK' /\ EngineGrows
           /\ \A name \in Tensors : address'[name] # 0
           /\ device'["visual_tokens"][shape] # Unallocated
<1> DEFINE key == [name \in Tensors |-> IF name = "images" THEN InputShape(feed) ELSE shape]
<1>1. \A name \in Tensors : key[name] \in 1..MaxBatch
  BY DEF EngineTypeOK, InputShape
<1>2. MaxBatch \in Nat \ {0}
  BY SplitAssumption
<1>3. key["visual_tokens"] = shape
  BY DEF Tensors
<1>4. /\ address' = [name \in Tensors |-> IF New(name, key[name]) THEN key[name] ELSE address[name]]
      /\ device' = [name \in Tensors |->
                      IF New(name, key[name])
                      THEN [device[name] EXCEPT ![key[name]] = [i \in 1..key[name] |-> Garbage]]
                      ELSE device[name]]
      /\ UNCHANGED <<dynamic, shape>>
  BY DEF EnsureBuffers
<1> HIDE DEF key
<1>5. ASSUME NEW name \in Tensors
      PROVE  /\ address'[name] \in 1..MaxBatch
             /\ device'[name] \in [1..MaxBatch -> Batch(Contents) \cup {Unallocated}]
             /\ device'[name][key[name]] # Unallocated
             /\ device'[name][address'[name]] # Unallocated
             /\ \A n \in 1..MaxBatch :
                   /\ device[name][n] # Unallocated => device'[name][n] # Unallocated
                   /\ device'[name][n] # Unallocated => Len(device'[name][n]) = n
  <2>1. key[name] \in 1..MaxBatch
    BY <1>1
  <2>2. CASE New(name, key[name])
    <3>1. PICK fresh : fresh = [i \in 1..key[name] |-> Garbage]
      OBVIOUS
    <3>2. fresh \in Batch(Contents) /\ Len(fresh) = key[name] /\ fresh # Unallocated
      BY <2>1, <3>1, FreshBuffer
    <3>3. address'[name] = key[name] /\ device'[name] = [device[name] EXCEPT ![key[name]] = fresh]
      BY <1>4, <2>2, <3>1
    <3>4. device[name] \in [1..MaxBatch -> Batch(Contents) \cup {Unallocated}]
      BY DEF EngineTypeOK
    <3>5. \A n \in 1..MaxBatch :
             device'[name][n] = IF n = key[name] THEN fresh ELSE device[name][n]
      BY <2>1, <3>3, <3>4
    <3>6. \A n \in 1..MaxBatch : device[name][n] # Unallocated => Len(device[name][n]) = n
      BY DEF EngineTypeOK
    <3>7. device'[name] \in [1..MaxBatch -> Batch(Contents) \cup {Unallocated}]
      BY <3>2, <3>3, <3>4
    <3> QED BY <2>1, <3>2, <3>3, <3>5, <3>6, <3>7
  <2>3. CASE ~ New(name, key[name])
    <3>1. address'[name] = address[name] /\ device'[name] = device[name]
      BY <1>4, <2>3
    <3>2. device[name][key[name]] # Unallocated /\ address[name] # 0
      BY <2>1, <2>3 DEF New, EngineTypeOK
    <3> QED BY <1>2, <2>1, <3>1, <3>2, SMTT(30) DEF EngineTypeOK
  <2> QED BY <2>2, <2>3
<1>6. address' \in [Tensors -> 0..MaxBatch]
  <2>1. \A name \in Tensors : address'[name] \in 0..MaxBatch
    BY <1>2, <1>5, SMTT(30)
  <2> QED BY <1>4, <2>1
<1>7. device' \in [Tensors -> [1..MaxBatch -> Batch(Contents) \cup {Unallocated}]]
  <2>1. \A name \in Tensors :
           device'[name] \in [1..MaxBatch -> Batch(Contents) \cup {Unallocated}]
    BY <1>5
  <2> QED BY <1>4, <2>1
<1>8. EngineTypeOK'
  <2>1. \A name \in Tensors, n \in 1..MaxBatch :
           device'[name][n] # Unallocated => Len(device'[name][n]) = n /\ address'[name] # 0
    BY <1>2, <1>5, SMTT(30)
  <2>2. \A name \in Tensors : device'[name][address'[name]] # Unallocated
    BY <1>5
  <2>3. /\ dynamic' \in BOOLEAN
        /\ shape' \in 1..MaxBatch /\ (dynamic' \/ shape' = 1)
    BY <1>4 DEF EngineTypeOK
  <2> QED BY <1>6, <1>7, <2>1, <2>2, <2>3 DEF EngineTypeOK
<1>9. EngineGrows
  BY <1>2, <1>5, SMTT(30) DEF EngineGrows
<1> QED BY <1>2, <1>3, <1>5, <1>8, <1>9, SMTT(30) DEF Tensors

LEMMA BatchCopied ==
    ASSUME EngineTypeOK, NEW feed \in Batch(Contents), CopyIn(feed), address["images"] # 0
    PROVE  EngineTypeOK' /\ EngineGrows
<1>1. /\ MaxBatch \in Nat \ {0} /\ Len(feed) \in 1..MaxBatch
      /\ feed # Unallocated
  BY SplitAssumption, BatchIsSeq
<1>2. /\ device' = [device EXCEPT !["images"] = [device["images"] EXCEPT ![Len(feed)] = feed]]
      /\ UNCHANGED <<dynamic, shape, address>>
  BY <1>1 DEF CopyIn, EngineTypeOK, Tensors
<1>3. /\ device'["visual_tokens"] = device["visual_tokens"]
      /\ device'["images"] = [device["images"] EXCEPT ![Len(feed)] = feed]
      /\ device' \in [Tensors -> [1..MaxBatch -> Batch(Contents) \cup {Unallocated}]]
  BY <1>1, <1>2 DEF EngineTypeOK, Tensors
<1> QED BY <1>1, <1>2, <1>3, SMTT(30) DEF EngineTypeOK, EngineGrows, Tensors

LEMMA EngineExecuted ==
    ASSUME EngineTypeOK, Execute, \A name \in Tensors : address[name] # 0
    PROVE  EngineTypeOK' /\ EngineGrows
<1>1. MaxBatch \in Nat \ {0} /\ Unallocated \notin Batch(Contents) /\ Garbage \in Contents
  BY SplitAssumption DEF Contents
<1>2. PICK a : a = address["visual_tokens"]
  OBVIOUS
<1>3. PICK old : old = device["visual_tokens"][a]
  OBVIOUS
<1>4. PICK input : input = device["images"][address["images"]]
  OBVIOUS
<1>5. a \in 1..MaxBatch /\ old \in Batch(Contents) /\ Len(old) = a /\ input \in Batch(Contents)
  BY <1>1, <1>2, <1>3, <1>4, SMTT(30) DEF EngineTypeOK, Tensors
<1>6. old \in Seq(Contents) /\ input \in Seq(Contents) /\ DOMAIN old = 1..a
  BY <1>5, BatchIsSeq, SMTT(30)
<1>7. PICK new : new = [i \in DOMAIN old |-> IF i <= shape THEN At(input, i) ELSE old[i]]
  OBVIOUS
<1>8. new \in Batch(Contents) /\ Len(new) = a /\ new # Unallocated
  <2>1. ASSUME NEW i \in 1..a PROVE At(input, i) \in Contents /\ old[i] \in Contents
    <3>1. i \in Nat \ {0} /\ old[i] \in Contents
      BY <1>5, <1>6, SMTT(30)
    <3>2. i <= Len(input) => input[i] \in Contents
      BY <1>6, <3>1, SMTT(30)
    <3> QED BY <1>1, <3>1, <3>2 DEF At
  <2>2. new \in [1..a -> Contents]
    BY <1>6, <1>7, <2>1
  <2>3. new \in Seq(Contents) /\ Len(new) = a
    BY <1>5, <2>2, SMTT(30)
  <2> QED BY <1>1, <1>5, <2>3, BatchIsSeq
<1>9. /\ device' = [device EXCEPT !["visual_tokens"] = [device["visual_tokens"] EXCEPT ![a] = new]]
      /\ UNCHANGED <<dynamic, shape, address>>
  BY <1>2, <1>3, <1>4, <1>5, <1>7 DEF Execute, EngineTypeOK, Tensors
<1>10. /\ device'["images"] = device["images"]
       /\ device'["visual_tokens"] = [device["visual_tokens"] EXCEPT ![a] = new]
       /\ device' \in [Tensors -> [1..MaxBatch -> Batch(Contents) \cup {Unallocated}]]
  BY <1>5, <1>8, <1>9 DEF EngineTypeOK, Tensors
<1> QED BY <1>2, <1>5, <1>8, <1>9, <1>10 DEF EngineTypeOK, EngineGrows, Tensors

LEMMA ShapeSet ==
    ASSUME EngineTypeOK, NEW feed, Len(feed) \in 1..MaxBatch, SetShape(feed)
    PROVE  EngineTypeOK' /\ EngineGrows
  BY DEF EngineTypeOK, EngineGrows, SetShape

-----------------------------------------------------------------------------
(* Steps that only change the call, inside the Vision engine               *)

\* A step inside the Vision engine concerns neither the lock, nor the answers, nor what is
\* remembered.
LEMMA VisionRests ==
    ASSUME Inv, NEW t \in Threads, NEW c \in Calls, call' = [call EXCEPT ![t] = c],
           UNCHANGED <<config, memory, overlapped, lock, prefix>>,
           call[t].at \in {"encode", "store", "encoded"} \cup InVision,
           c.at \in {"encode", "store", "encoded", "continue"} \cup InVision,
           c.batch = call[t].batch, c.answer = call[t].answer
    PROVE  LockInv' /\ OwnInv' /\ AloneInv' /\ LightInv'
<1>1. /\ call[t].at \notin {"idle", "text", "fuse", "remembered"}
      /\ c.at \notin {"idle", "light", "text", "fuse", "remembered"}
  BY DEF InVision
<1> QED BY <1>1, LockRests, OwnRests, AloneRests, LightRests DEF Inv, config

LEMMA ThrottleInVision ==
    ASSUME TypeOK, ThrottleInv, NEW t \in Threads, NEW c \in Calls, call' = [call EXCEPT ![t] = c],
           UNCHANGED <<throttle, dynamic, path, plugins, failures, overlapped>>,
           call[t].at \in InVision, c.at \in InVision, c.samples = call[t].samples
    PROVE  ThrottleInv'
<1>1. /\ call'[t] = c
      /\ \A u \in Threads \ {t} : call'[u] = call[u]
  BY OneCall DEF TypeOK
<1>2. Steady' = Steady /\ (Throttle!Step)' = Throttle!Step
  BY DEF Steady, Throttle!Step
<1> QED BY <1>1, <1>2 DEF ThrottleInv, Perceives, CachedIsRecent, InVision, InContinuation

\* As long as one call at a time is made, the frames of that call are all that matters.
LEMMA FramesOfOne ==
    ASSUME TypeOK, AloneInv, FrameInv,
           NEW t \in Threads, NEW c \in Calls, call' = [call EXCEPT ![t] = c],
           UNCHANGED <<plugins, overlapped>>, EngineGrows, call[t].at # "idle",
           Plain /\ Plain' => (EngineFollows /\ CacheFollows /\ CallFollows(c))'
    PROVE  FrameInv'
<1>1. /\ call'[t] = c
      /\ \A u \in Threads \ {t} : call'[u] = call[u]
  BY OneCall DEF TypeOK
<1>2. SUFFICES ASSUME Plain' PROVE (EngineFollows /\ CacheFollows)' /\ \A u \in Threads : CallFollows(call[u])'
  BY DEF FrameInv
<1>3. Plain
  BY <1>2 DEF Plain, OneShape, EngineGrows, Tensors
<1>4. ASSUME NEW u \in Threads \ {t} PROVE CallFollows(call[u])'
  <2>1. call[u].at = "idle" /\ call'[u] = call[u] /\ CallFollows(call[u])
    BY <1>1, <1>3 DEF AloneInv, Plain, FrameInv
  <2> QED BY <2>1 DEF CallFollows, Waiting, InVision, InContinuation
<1>5. CallFollows(call[t])'
  BY <1>1, <1>2, <1>3
<1> QED BY <1>2, <1>3, <1>4, <1>5

\* A line of infer() that changes the engine and the place of its call.
LEMMA VisionMoves ==
    ASSUME Inv, NEW t \in Threads, NEW c \in Calls, call' = [call EXCEPT ![t] = c],
           UNCHANGED <<dynamic, config, caches, memory, counts, lock>>,
           call[t].at \in InVision, c.at \in InVision,
           c.batch = call[t].batch, c.feed = call[t].feed, c.samples = call[t].samples,
           c.answer = call[t].answer,
           EngineTypeOK', EngineGrows, CallOK(c)',
           Plain /\ Plain' => EngineFollows' /\ CallFollows(c)'
    PROVE  Inv'
<1>1. TypeOK /\ ThrottleInv /\ AloneInv /\ FrameInv
  BY DEF Inv
<1>2. TypeOK'
  BY <1>1, CallsKept DEF TypeOK, PluginsTypeOK, config, caches, memory, counts
<1>3. LockInv' /\ OwnInv' /\ AloneInv' /\ LightInv'
  BY VisionRests DEF caches, counts
<1>4. ThrottleInv'
  BY <1>1, ThrottleInVision DEF config, caches, counts
<1>5. Plain => CacheFollows'
  BY <1>1 DEF FrameInv, CacheFollows, caches
<1>6. FrameInv'
  BY <1>1, <1>5, FramesOfOne DEF config, counts, InVision
<1> QED BY <1>2, <1>3, <1>4, <1>6 DEF Inv

LEMMA VisionShapeKeeps ==
    ASSUME Inv, NEW t \in Threads, VisionShape(t)
    PROVE  Inv'
<1>1. PICK c : c = [call[t] EXCEPT !.at = "bind"]
  OBVIOUS
<1>2. TypeOK /\ call[t] \in Calls /\ CallOK(call[t])
  BY DEF Inv, TypeOK
<1>3. call' = [call EXCEPT ![t] = c]
  BY <1>1, <1>2 DEF TypeOK, VisionShape, Moved
<1>4. /\ c \in Calls /\ c.at = "bind"
      /\ c.batch = call[t].batch /\ c.feed = call[t].feed /\ c.samples = call[t].samples
      /\ c.tokens = call[t].tokens /\ c.answer = call[t].answer /\ c.output = call[t].output
      /\ c.route = call[t].route
  BY <1>1, <1>2 DEF Calls, Places, InVision
<1>5. /\ call[t].at = "shape" /\ UNCHANGED <<config, caches, memory, counts, lock>>
      /\ UNCHANGED <<dynamic, address, device>>
      /\ shape' = IF dynamic THEN Len(c.feed) ELSE shape
  BY <1>4 DEF VisionShape, SetShape
<1>6. Len(c.feed) \in 1..MaxBatch
  BY <1>2, <1>4, <1>5, BatchIsSeq DEF Calls, CallOK
<1>7. EngineTypeOK' /\ EngineGrows
  BY <1>2, <1>4, <1>6, ShapeSet DEF TypeOK, VisionShape
<1>8. CallOK(c)'
  BY <1>2, <1>4, <1>5 DEF CallOK, config, InVision, Waiting, InContinuation, Remembering
<1>9. ASSUME Plain PROVE EngineFollows' /\ CallFollows(c)'
  <2>1. EngineFollows /\ CallFollows(call[t])
    BY <1>9 DEF Inv, FrameInv
  <2>2. Feeding(call[t]) /\ c.answer = <<>>
    BY <1>2, <1>4, <1>5, <2>1 DEF CallFollows, CallOK, InVision
  <2>3. Feeding(c)' /\ shape' = InputShape(c.feed)'
    BY <1>4, <1>5, <2>2 DEF Feeding, InputShape
  <2> QED BY <1>4, <1>5, <2>1, <2>2, <2>3 DEF EngineFollows, CallFollows, InContinuation
<1> QED BY <1>3, <1>4, <1>5, <1>7, <1>8, <1>9, VisionMoves DEF InVision

LEMMA VisionBindKeeps ==
    ASSUME Inv, NEW t \in Threads, VisionBind(t)
    PROVE  Inv'
<1>1. PICK c : c = [call[t] EXCEPT !.at = "copy", !.output = shape]
  OBVIOUS
<1>2. /\ TypeOK /\ EngineTypeOK /\ call[t] \in Calls /\ CallOK(call[t])
      /\ MaxBatch \in Nat \ {0} /\ shape \in 1..MaxBatch /\ shape \in 0..MaxBatch
  BY SplitAssumption, SMTT(30) DEF Inv, TypeOK, EngineTypeOK
<1>3. call' = [call EXCEPT ![t] = c]
  BY <1>1, <1>2 DEF TypeOK, VisionBind
<1>4. /\ c \in Calls /\ c.at = "copy" /\ c.output = shape
      /\ c.batch = call[t].batch /\ c.feed = call[t].feed /\ c.samples = call[t].samples
      /\ c.tokens = call[t].tokens /\ c.answer = call[t].answer /\ c.route = call[t].route
  BY <1>1, <1>2 DEF Calls, Places, InVision
<1>5. /\ call[t].at = "bind" /\ UNCHANGED <<config, caches, memory, counts, lock>>
      /\ EnsureBuffers(c.feed) /\ UNCHANGED <<dynamic, shape>>
  BY <1>4 DEF VisionBind, EnsureBuffers
<1>6. Len(c.feed) \in 1..MaxBatch
  BY <1>2, <1>4, <1>5, BatchIsSeq DEF Calls, CallOK
<1>7. /\ EngineTypeOK' /\ EngineGrows
      /\ \A name \in Tensors : address'[name] # 0
      /\ device'["visual_tokens"][shape] # Unallocated
  BY <1>2, <1>5, <1>6, BuffersEnsured
<1>8. CallOK(c)'
  BY <1>2, <1>4, <1>5, <1>7
     DEF CallOK, config, InVision, Waiting, InContinuation, Remembering, Tensors
<1>9. ASSUME Plain, Plain' PROVE EngineFollows' /\ CallFollows(c)'
  <2>1. EngineFollows /\ CallFollows(call[t])
    BY <1>9 DEF Inv, FrameInv
  <2>2. Feeding(call[t]) /\ c.answer = <<>> /\ shape = InputShape(c.feed)
    BY <1>2, <1>4, <1>5, <2>1 DEF CallFollows, CallOK, InVision
  <2>3. Feeding(c)' /\ shape' = InputShape(c.feed)'
    BY <1>4, <1>5, <2>2 DEF Feeding, InputShape
  <2>4. New("images", shape) <=> New("visual_tokens", shape)
    BY <1>2, <2>1 DEF New, EngineFollows
  <2>5. \A name \in Tensors : address'[name] = shape
    BY <1>2, <1>5, <2>1, <2>2, <2>4 DEF EnsureBuffers, Tensors, EngineFollows, New
  <2>6. \A n \in 1..MaxBatch :
           device'["images"][n] # Unallocated <=> device'["visual_tokens"][n] # Unallocated
    BY <1>2, <1>5, <1>7, <2>1, <2>2, <2>4, FreshBuffer
       DEF EnsureBuffers, Tensors, EngineFollows, New, EngineTypeOK
  <2>7. device'["images"][shape] # Unallocated
    BY <1>2, <1>7, <2>6
  <2>8. EngineFollows'
    BY <1>2, <1>9, <2>5, <2>6, <2>7 DEF EngineFollows, Plain, OneShape
  <2> QED BY <1>4, <1>5, <2>2, <2>3, <2>7, <2>8, SMTT(30) DEF CallFollows, InContinuation
<1> QED BY <1>3, <1>4, <1>5, <1>7, <1>8, <1>9, VisionMoves DEF InVision

LEMMA VisionCopyKeeps ==
    ASSUME Inv, NEW t \in Threads, VisionCopy(t)
    PROVE  Inv'
<1>1. PICK c : c = [call[t] EXCEPT !.at = "run"]
  OBVIOUS
<1>2. /\ TypeOK /\ EngineTypeOK /\ call[t] \in Calls /\ CallOK(call[t])
      /\ MaxBatch \in Nat \ {0} /\ Unallocated \notin Batch(Contents)
  BY SplitAssumption DEF Inv, TypeOK
<1>3. call' = [call EXCEPT ![t] = c]
  BY <1>1, <1>2 DEF TypeOK, VisionCopy, Moved
<1>4. /\ c \in Calls /\ c.at = "run"
      /\ c.batch = call[t].batch /\ c.feed = call[t].feed /\ c.samples = call[t].samples
      /\ c.tokens = call[t].tokens /\ c.answer = call[t].answer /\ c.output = call[t].output
      /\ c.route = call[t].route
  BY <1>1, <1>2 DEF Calls, Places, InVision
<1>5. /\ call[t].at = "copy" /\ UNCHANGED <<config, caches, memory, counts, lock>>
      /\ CopyIn(c.feed) /\ Fits(c.feed) /\ UNCHANGED <<dynamic, shape, address>>
      /\ device' = [device EXCEPT !["images"][Len(c.feed)] = c.feed]
  BY <1>4 DEF VisionCopy, CopyIn
<1>6. c.feed \in Batch(Contents) /\ Len(c.feed) \in 1..MaxBatch /\ c.feed # Unallocated
  BY <1>2, <1>4, <1>5, BatchIsSeq DEF Calls, CallOK
<1>7. EngineTypeOK' /\ EngineGrows
  BY <1>2, <1>4, <1>5, <1>6, BatchCopied DEF CallOK
<1>8. CallOK(c)'
  BY <1>2, <1>4, <1>5, <1>7
     DEF CallOK, EngineGrows, config, InVision, Waiting, InContinuation, Remembering, Tensors
<1>9. ASSUME Plain PROVE EngineFollows' /\ CallFollows(c)'
  <2>1. EngineFollows /\ CallFollows(call[t])
    BY <1>9 DEF Inv, FrameInv
  <2>2. /\ Feeding(call[t]) /\ c.answer = <<>> /\ shape = InputShape(c.feed)
        /\ device["images"][shape] # Unallocated /\ c.output = shape
    BY <1>2, <1>4, <1>5, <2>1 DEF CallFollows, CallOK, InVision
  <2>3. Feeding(c)' /\ shape' = InputShape(c.feed)'
    BY <1>4, <1>5, <2>2 DEF Feeding, InputShape
  <2>4. Len(c.feed) = shape
    BY <1>5, <2>2 DEF Fits
  <2>5. /\ device'["visual_tokens"] = device["visual_tokens"]
        /\ \A n \in 1..MaxBatch :
              device'["images"][n] = IF n = shape THEN c.feed ELSE device["images"][n]
    BY <1>2, <1>5, <1>6, <2>4 DEF EngineTypeOK, Tensors
  <2>6. EngineFollows'
    BY <1>5, <1>6, <2>1, <2>2, <2>5, SMTT(30) DEF EngineFollows
  <2>7. device'["images"][shape] = c.feed
    BY <1>6, <2>4, <2>5
  <2> QED BY <1>4, <1>5, <1>6, <2>2, <2>3, <2>4, <2>6, <2>7, SMTT(30) DEF CallFollows, InContinuation
<1> QED BY <1>3, <1>4, <1>5, <1>7, <1>8, <1>9, VisionMoves DEF InVision

LEMMA VisionRunKeeps ==
    ASSUME Inv, NEW t \in Threads, VisionRun(t)
    PROVE  Inv'
<1>1. PICK c : c = [call[t] EXCEPT !.at = "return"]
  OBVIOUS
<1>2. /\ TypeOK /\ EngineTypeOK /\ call[t] \in Calls /\ CallOK(call[t])
      /\ MaxBatch \in Nat \ {0} /\ shape \in 1..MaxBatch
  BY SplitAssumption DEF Inv, TypeOK, EngineTypeOK
<1>3. call' = [call EXCEPT ![t] = c]
  BY <1>1, <1>2 DEF TypeOK, VisionRun, Moved
<1>4. /\ c \in Calls /\ c.at = "return"
      /\ c.batch = call[t].batch /\ c.feed = call[t].feed /\ c.samples = call[t].samples
      /\ c.tokens = call[t].tokens /\ c.answer = call[t].answer /\ c.output = call[t].output
      /\ c.route = call[t].route
  BY <1>1, <1>2 DEF Calls, Places, InVision
<1>5. /\ call[t].at = "run" /\ UNCHANGED <<config, caches, memory, counts, lock>>
      /\ Execute /\ UNCHANGED <<dynamic, shape, address>>
  BY DEF VisionRun, Execute
<1>6. \A name \in Tensors : address[name] # 0
  BY <1>2, <1>5 DEF CallOK, EngineTypeOK, Tensors
<1>7. EngineTypeOK' /\ EngineGrows
  BY <1>2, <1>5, <1>6, EngineExecuted
<1>8. CallOK(c)'
  BY <1>2, <1>4, <1>5, <1>7
     DEF CallOK, EngineGrows, config, InVision, Waiting, InContinuation, Remembering, Tensors
<1>9. ASSUME Plain PROVE EngineFollows' /\ CallFollows(c)'
  <2>1. EngineFollows /\ CallFollows(call[t])
    BY <1>9 DEF Inv, FrameInv
  <2>2. /\ Feeding(call[t]) /\ c.answer = <<>> /\ shape = InputShape(c.feed)
        /\ device["images"][shape] # Unallocated /\ c.output = shape
        /\ Len(c.feed) = shape /\ device["images"][shape] = c.feed
    BY <1>2, <1>4, <1>5, <2>1 DEF CallFollows, CallOK, InVision
  <2>3. Feeding(c)' /\ shape' = InputShape(c.feed)'
    BY <1>4, <1>5, <2>2 DEF Feeding, InputShape
  <2>4. address["images"] = shape /\ address["visual_tokens"] = shape
    BY <1>2, <2>1, <2>2 DEF EngineFollows, Tensors
  <2>5. PICK old : old = device["visual_tokens"][shape]
    OBVIOUS
  <2>6. old # Unallocated /\ old \in Batch(Contents) /\ Len(old) = shape
    BY <1>2, <2>1, <2>2, <2>5 DEF EngineFollows, EngineTypeOK, Tensors
  <2>7. DOMAIN old = 1..shape
    BY <2>6, BatchIsSeq, SMTT(30)
  <2>8. c.feed \in Seq(Contents) /\ DOMAIN c.feed = 1..shape
    BY <1>2, <1>4, <1>5, <2>2, BatchIsSeq, SMTT(30) DEF Calls, CallOK
  <2>9. c.feed = [i \in DOMAIN old |-> IF i <= shape THEN At(c.feed, i) ELSE old[i]]
    BY <1>2, <2>2, <2>7, <2>8, SMTT(30) DEF At
  <2>10. /\ device'["images"] = device["images"]
         /\ device'["visual_tokens"] = [device["visual_tokens"] EXCEPT ![shape] = c.feed]
    <3>1. PICK new : new = [i \in DOMAIN old |-> IF i <= shape THEN At(c.feed, i) ELSE old[i]]
      OBVIOUS
    <3>2. device' = [device EXCEPT !["visual_tokens"] =
                        [device["visual_tokens"] EXCEPT ![shape] = new]]
      BY <1>2, <1>5, <2>2, <2>4, <2>5, <3>1 DEF Execute, EngineTypeOK, Tensors
    <3>3. new = c.feed
      BY <2>9, <3>1
    <3> QED BY <1>2, <3>2, <3>3 DEF EngineTypeOK, Tensors
  <2>11. /\ device'["visual_tokens"][shape] = c.feed
         /\ \A n \in 1..MaxBatch : n # shape =>
               device'["visual_tokens"][n] = device["visual_tokens"][n]
    BY <1>2, <2>10 DEF EngineTypeOK, Tensors
  <2>12. EngineFollows'
    BY <1>5, <1>7, <2>1, <2>2, <2>10, <2>11 DEF EngineFollows
  <2> QED BY <1>4, <1>5, <2>2, <2>3, <2>10, <2>11, <2>12, SMTT(30) DEF CallFollows, InContinuation
<1> QED BY <1>3, <1>4, <1>5, <1>7, <1>8, <1>9, VisionMoves DEF InVision

-----------------------------------------------------------------------------
(* From the Vision engine to the tokens                                    *)

\* As long as one call at a time is made, what that call perceives is all that matters.
LEMMA ThrottleOfOne ==
    ASSUME TypeOK, AloneInv, ThrottleInv,
           NEW t \in Threads, NEW c \in Calls, call' = [call EXCEPT ![t] = c],
           UNCHANGED <<dynamic, path, plugins, overlapped>>, call[t].at # "idle",
           failures' = failures \/ failures' = failures + 1,
           Steady /\ Steady' /\ Perceives(call[t]) =>
              /\ Perceives(c)'
              /\ (call[t].at \in InVision \cup {"store"} \/ CachedIsRecent) =>
                    c.at \in InVision \cup {"store"} \/ CachedIsRecent'
    PROVE  ThrottleInv'
<1>1. /\ call'[t] = c
      /\ \A u \in Threads \ {t} : call'[u] = call[u]
  BY OneCall DEF TypeOK
<1>2. SUFFICES ASSUME Steady'
               PROVE  /\ \A u \in Threads : Perceives(call[u])'
                      /\ (\A u \in Threads : call'[u].at \notin InVision \cup {"store"}) =>
                            CachedIsRecent'
  BY DEF ThrottleInv
<1>3. Steady
  BY <1>2, SMTT(30) DEF Steady, TypeOK
<1>4. \A u \in Threads \ {t} : call[u].at = "idle" /\ Perceives(call[u])
  BY <1>3 DEF AloneInv, ThrottleInv, Steady
<1>5. Perceives(call[t]) /\ (call[t].at \in InVision \cup {"store"} \/ CachedIsRecent)
  BY <1>3, <1>4 DEF ThrottleInv, InVision
<1>6. \A u \in Threads \ {t} : Perceives(call[u])'
  BY <1>1, <1>4 DEF Perceives, InVision, InContinuation
<1> QED BY <1>1, <1>2, <1>3, <1>5, <1>6

\* Control steps are counted.
LEMMA StepType ==
    ASSUME TypeOK
    PROVE  /\ throttle.refreshes \in Nat /\ throttle.reuses \in Nat
           /\ throttle.calls_since_refresh \in Nat /\ Throttle!Step \in Nat
  BY SMTT(30) DEF TypeOK, PluginsTypeOK, Throttle!Step

LEMMA VisionReturnKeeps ==
    ASSUME Inv, NEW t \in Threads, VisionReturn(t)
    PROVE  Inv'
<1>1. PICK tokens : tokens = [frames |-> Output(call[t].output), step |-> Throttle!Step]
  OBVIOUS
<1>2. PICK at : at = IF plugins \cap {"throttle", "tokens"} = {} THEN "encoded" ELSE "store"
  OBVIOUS
<1>3. PICK c : c = [call[t] EXCEPT !.at = at, !.tokens = tokens]
  OBVIOUS
<1>4. /\ TypeOK /\ EngineTypeOK /\ call[t] \in Calls /\ CallOK(call[t]) /\ AloneInv
      /\ ThrottleInv /\ FrameInv
  BY DEF Inv, TypeOK
<1>5. /\ call[t].at = "return" /\ UNCHANGED <<engineVars, config, caches, memory, counts, lock>>
  BY DEF VisionReturn
<1>6. call' = [call EXCEPT ![t] = c]
  BY <1>1, <1>2, <1>3, <1>4 DEF TypeOK, VisionReturn, Encoded
<1>7. tokens \in VisionTokens /\ tokens # None
  <2>1. Output(call[t].output) \in Batch(Contents)
    BY <1>4, <1>5 DEF CallOK, EngineTypeOK, Output, Tensors
  <2> QED BY <1>1, <1>4, <2>1, StepType, SplitAssumption, SMTT(30) DEF VisionTokens
<1>8. /\ c \in Calls /\ c.at = at /\ c.tokens = tokens /\ at \in {"encoded", "store"}
      /\ c.batch = call[t].batch /\ c.feed = call[t].feed /\ c.samples = call[t].samples
      /\ c.answer = call[t].answer /\ c.output = call[t].output /\ c.route = call[t].route
  <2>1. at \in {"encoded", "store"} /\ at \in Places
    BY <1>2 DEF Places
  <2> QED BY <1>3, <1>4, <1>7, <2>1 DEF Calls
<1>9. EngineTypeOK' /\ EngineGrows
  BY <1>4, <1>5, EngineRests
<1>10. CallOK(c)'
  BY <1>4, <1>5, <1>7, <1>8
     DEF CallOK, config, InVision, Waiting, InContinuation, Remembering
<1>11. TypeOK'
  BY <1>4, <1>5, <1>6, <1>8, <1>9, <1>10, CallsKept DEF TypeOK, PluginsTypeOK, config, caches, memory, counts
<1>12. LockInv' /\ OwnInv' /\ AloneInv' /\ LightInv'
  BY <1>5, <1>6, <1>8, VisionRests DEF caches, counts, InVision
<1>13. ThrottleInv'
  <2>1. ASSUME Steady, Perceives(call[t]) PROVE Perceives(c)' /\ c.at \in InVision \cup {"store"}
    <3>1. at = "store" /\ Throttle!Step' = Throttle!Step /\ tokens.step = Throttle!Step
      BY <1>1, <1>2, <1>5, <2>1 DEF Steady, caches, Throttle!Step
    <3> QED BY <1>5, <1>8, <2>1, <3>1 DEF Perceives, caches, InVision, InContinuation
  <2> QED BY <1>4, <1>5, <1>6, <1>8, <2>1, ThrottleOfOne DEF config, counts, engineVars
<1>14. FrameInv'
  <2>1. ASSUME Plain PROVE (EngineFollows /\ CacheFollows /\ CallFollows(c))'
    <3>1. EngineFollows /\ CacheFollows /\ CallFollows(call[t])
      BY <1>4, <2>1 DEF FrameInv
    <3>2. Feeding(call[t]) /\ c.answer = <<>> /\ tokens.frames = c.feed
      BY <1>1, <1>4, <1>5, <1>8, <3>1, SMTT(30) DEF CallFollows, CallOK, InVision, Output
    <3>3. EngineFollows' /\ CacheFollows'
      BY <1>5, <3>1 DEF EngineFollows, CacheFollows, engineVars, caches
    <3>4. Feeding(c)'
      BY <1>8, <3>2 DEF Feeding
    <3> QED BY <1>7, <1>8, <3>2, <3>3, <3>4, SMTT(30) DEF CallFollows, InVision, InContinuation
  <2> QED BY <1>4, <1>5, <1>6, <1>8, <1>9, <2>1, FramesOfOne DEF config, counts
<1> QED BY <1>11, <1>12, <1>13, <1>14 DEF Inv

LEMMA IdleIsCall == Idle \in Calls
<1>1. "idle" \in Places /\ 0 \in 0..MaxBatch
  BY SplitAssumption, SMTT(30) DEF Places
<1> QED BY <1>1 DEF Idle, Calls

\* An exception leaves the call idle and without an answer.
LEMMA RaisedCall ==
    ASSUME TypeOK, NEW t \in Threads, call[t].at # "idle", path' = path, NEW c,
           c = [Idle EXCEPT !.batch = call[t].batch, !.raised = TRUE]
    PROVE  /\ c \in Calls /\ c.at = "idle" /\ c.route = "heavy" /\ c.answer = <<>>
           /\ c.batch = call[t].batch /\ c.samples = None /\ c.tokens = None
           /\ CallOK(c)'
           /\ Raised(t) = [call EXCEPT ![t] = c]
<1>1. call[t] \in Calls /\ CallOK(call[t]) /\ MaxBatch \in Nat \ {0}
  BY SplitAssumption DEF TypeOK
<1>2. /\ c.at = "idle" /\ c.route = "heavy" /\ c.answer = <<>> /\ c.feed = <<>> /\ c.output = 0
      /\ c.batch = call[t].batch /\ c.samples = None /\ c.tokens = None
  BY DEF Idle
<1>3. c \in Calls
  <2>1. call[t].batch \in Batch(Requests) \cup {<<>>}
    BY <1>1 DEF Calls
  <2> QED BY <2>1, IdleIsCall DEF Calls
<1>4. CallOK(c)'
  BY <1>1, <1>2, SMTT(30) DEF CallOK, InVision, Waiting, InContinuation, Remembering
<1> QED BY <1>2, <1>3, <1>4 DEF Raised

\* A call that is left, or goes on past the Vision engine.
LEMMA LeavingKeeps ==
    ASSUME Inv, NEW t \in Threads, NEW c \in Calls, call' = [call EXCEPT ![t] = c], CallOK(c)',
           UNCHANGED <<engineVars, config, tokencache, throttle, memory, overlapped>>,
           prefix' \in [cache : Seq(PrefixEntry), hits : Nat, misses : Nat],
           failures' \in Nat, lock' \in Threads \cup {None},
           call[t].at \notin {"idle", "remembered"},
           c.at \in {"idle", "remember"} \cup InContinuation, c.at = "idle" => c.route = "heavy",
           c.batch = call[t].batch, c.answer \in {<<>>, call[t].answer},
           c.at \in InContinuation => call[t].at \in InContinuation /\ c.tokens = call[t].tokens
    PROVE  TypeOK' /\ AloneInv' /\ LightInv' /\ FrameInv' /\ (c.at # "fuse" => OwnInv')
<1>1. TypeOK /\ EngineTypeOK /\ OwnInv /\ AloneInv /\ LightInv /\ FrameInv
  BY DEF Inv, TypeOK
<1>2. EngineTypeOK' /\ EngineGrows
  BY <1>1, EngineRests
<1>3. TypeOK'
  BY <1>1, <1>2, CallsKept DEF TypeOK, PluginsTypeOK, config, memory
<1>4. c.at # "fuse" => OwnInv'
  BY <1>1, OwnRests
<1>5. AloneInv'
  BY <1>1, AloneRests
<1>6. LightInv'
  <2>1. c.at \notin {"light", "remembered"}
    BY DEF InContinuation
  <2> QED BY <1>1, <2>1, LightRests
<1>7. FrameInv'
  <2>1. c.at \in {"idle"} \cup InContinuation \cup Remembering
    BY DEF Remembering
  <2> QED BY <1>1, <2>1, FramesRest DEF config
<1> QED BY <1>3, <1>4, <1>5, <1>6, <1>7

\* The lock is given back by the thread that holds it.
LEMMA LockReturned ==
    ASSUME TypeOK, LockInv, NEW t \in Threads, NEW c \in Calls, call' = [call EXCEPT ![t] = c],
           call[t].at \in {"text", "fuse"}, c.at \notin {"text", "fuse"}, lock' = None
    PROVE  LockInv'
<1>1. /\ call'[t] = c
      /\ \A u \in Threads \ {t} : call'[u] = call[u]
  BY OneCall DEF TypeOK
<1>2. lock = t /\ None \notin Threads
  BY SplitAssumption DEF LockInv, PrefixSingleFlight
<1>3. \A u \in Threads : call'[u].at \notin {"text", "fuse"}
  BY <1>1, <1>2 DEF LockInv, PrefixSingleFlight
<1> QED BY <1>2, <1>3 DEF LockInv, PrefixSingleFlight

\* An exception leaves the policy as it was, without the lock.
LEMMA RaisingKeeps ==
    ASSUME Inv, NEW t \in Threads, call' = Raised(t), call[t].at \notin {"idle", "remembered"},
           UNCHANGED <<engineVars, config, caches, memory, overlapped>>, failures' \in Nat,
           lock' = IF call[t].at \in {"text", "fuse"} THEN None ELSE lock,
           ThrottleInv'
    PROVE  Inv'
<1>1. TypeOK /\ LockInv /\ path' = path
  BY DEF Inv, config
<1>2. PICK c : c = [Idle EXCEPT !.batch = call[t].batch, !.raised = TRUE]
  OBVIOUS
<1>3. /\ c \in Calls /\ c.at = "idle" /\ c.route = "heavy" /\ c.answer = <<>>
      /\ c.batch = call[t].batch /\ CallOK(c)' /\ call' = [call EXCEPT ![t] = c]
  BY <1>1, <1>2, RaisedCall
<1>4. /\ prefix' \in [cache : Seq(PrefixEntry), hits : Nat, misses : Nat]
      /\ lock' \in Threads \cup {None}
  BY <1>1 DEF TypeOK, PluginsTypeOK, caches
<1>5. c.at \notin InContinuation /\ c.at \notin {"text", "fuse"}
  BY <1>3 DEF InContinuation
<1>6. TypeOK' /\ AloneInv' /\ LightInv' /\ FrameInv' /\ OwnInv'
  BY <1>3, <1>4, <1>5, LeavingKeeps DEF caches
<1>7. LockInv'
  BY <1>1, <1>3, <1>5, LockRests, LockReturned DEF config, caches
<1> QED BY <1>6, <1>7 DEF Inv

\* The fallback of a refused batch starts with its first sample.
LEMMA RefusedCall ==
    ASSUME TypeOK, NEW t \in Threads, call[t].at \in InVision, path' = path, NEW c,
           path = "runner", Len(call[t].feed) > 1,
           c = [call[t] EXCEPT !.at = "encode", !.samples = <<>>,
                               !.feed = <<call[t].batch[1].frame>>]
    PROVE  /\ c \in Calls /\ c.at = "encode" /\ c.batch = call[t].batch /\ c.answer = call[t].answer
           /\ Feeding(c)
           /\ CallOK(c)'
           /\ Refused(t) = [call EXCEPT ![t] = c]
<1>1. /\ call[t] \in Calls /\ CallOK(call[t]) /\ MaxBatch \in Nat \ {0}
      /\ call[t].batch \in Batch(Requests) /\ None # <<>>
  BY SplitAssumption DEF TypeOK, CallOK, InVision, Calls
<1>2. call[t].batch \in Seq(Requests) /\ Len(call[t].batch) \in 1..MaxBatch
  BY <1>1, BatchIsSeq
<1>3. PICK feed : feed = <<call[t].batch[1].frame>>
  OBVIOUS
<1>4. feed \in Batch(Contents) /\ Len(feed) = 1 /\ feed # <<>>
  <2>1. call[t].batch[1].frame \in Contents
    BY <1>1, <1>2, SMTT(30) DEF Contents
  <2>2. feed \in Seq(Contents) /\ Len(feed) = 1
    BY <1>3, <2>1, SMTT(30)
  <2>3. 1 \in 1..MaxBatch
    BY <1>1, SMTT(30)
  <2> QED BY <2>2, <2>3, BatchIsSeq
<1>5. /\ c \in Calls /\ c.at = "encode" /\ c.samples = <<>> /\ c.feed = feed
      /\ c.batch = call[t].batch /\ c.answer = call[t].answer /\ c.route = call[t].route
  <2>1. "encode" \in Places
    BY DEF Places, Waiting
  <2> QED BY <1>1, <1>3, <1>4, <2>1 DEF Calls
<1>6. Feeding(c)
  BY <1>1, <1>3, <1>5, SMTT(30) DEF Feeding
<1>7. CallOK(c)'
  BY <1>1, <1>2, <1>4, <1>5, SMTT(30) DEF CallOK, InVision, Waiting, InContinuation, Remembering
<1>8. Refused(t) = [call EXCEPT ![t] = c]
  BY <1>1 DEF Refused, TypeOK
<1> QED BY <1>5, <1>6, <1>7, <1>8

LEMMA VisionRaisesKeeps ==
    ASSUME Inv, NEW t \in Threads, VisionRaises(t)
    PROVE  Inv'
<1>1. /\ TypeOK /\ EngineTypeOK /\ call[t] \in Calls /\ CallOK(call[t])
      /\ LockInv /\ AloneInv /\ FrameInv /\ failures \in Nat
  BY DEF Inv, TypeOK
<1>2. /\ call[t].at \in {"copy", "run"} /\ call' = Refused(t)
      /\ UNCHANGED <<engineVars, config, caches, memory, lock, calls, overlapped>>
      /\ failures' = failures + 1 \/ (failures' = failures /\ ~Fits(call[t].feed))
  BY DEF VisionRaises
<1>3. failures' \in Nat /\ path' = path
  BY <1>1, <1>2, SMTT(30) DEF config
<1>4. EngineTypeOK' /\ EngineGrows
  BY <1>1, <1>2, EngineRests
<1>5. ThrottleInv'
  <2>1. SUFFICES ASSUME Steady' PROVE FALSE
    BY DEF ThrottleInv
  <2>2. failures' = failures /\ ~Fits(call[t].feed) /\ (dynamic \/ path = "timed")
    BY <1>1, <1>2, <1>3, <2>1, SMTT(30) DEF Steady, engineVars
  <2>3. call[t].feed \in Batch(Contents) /\ (path = "timed" => Len(call[t].feed) <= 1)
    BY <1>1, <1>2 DEF CallOK, Calls
  <2>4. Len(call[t].feed) \in 1..MaxBatch
    BY <2>3, BatchIsSeq
  <2>5. path = "timed" => Len(call[t].feed) = 1
    <3>1. MaxBatch \in Nat
      BY SplitAssumption
    <3>2. PICK n : n = Len(call[t].feed)
      OBVIOUS
    <3>3. n \in 1..MaxBatch /\ (path = "timed" => n <= 1)
      BY <2>3, <2>4, <3>2
    <3>4. path = "timed" => n = 1
      BY <3>1, <3>3, SMTT(30)
    <3> QED BY <3>2, <3>4
  <2>6. dynamic \/ shape = 1
    BY <1>1 DEF EngineTypeOK
  <2> QED BY <2>2, <2>5, <2>6 DEF Fits, InputShape
<1>6. CASE path = "runner" /\ Len(call[t].feed) > 1
  <2>1. PICK c : c = [call[t] EXCEPT !.at = "encode", !.samples = <<>>,
                                     !.feed = <<call[t].batch[1].frame>>]
    OBVIOUS
  <2>2. /\ c \in Calls /\ c.at = "encode" /\ c.batch = call[t].batch /\ c.answer = call[t].answer
        /\ Feeding(c) /\ CallOK(c)' /\ call' = [call EXCEPT ![t] = c]
    BY <1>1, <1>2, <1>3, <1>6, <2>1, RefusedCall DEF InVision
  <2>3. TypeOK'
    BY <1>1, <1>2, <1>3, <1>4, <2>2, CallsKept
       DEF TypeOK, PluginsTypeOK, config, caches, memory
  <2>4. LockInv' /\ OwnInv' /\ AloneInv' /\ LightInv'
    BY <1>2, <2>2, VisionRests DEF caches, InVision
  <2>5. ASSUME Plain PROVE (EngineFollows /\ CacheFollows /\ CallFollows(c))'
    <3>1. EngineFollows /\ CacheFollows /\ c.answer = <<>>
      BY <1>1, <1>2, <2>2, <2>5 DEF FrameInv, CallOK, InVision
    <3>2. EngineFollows' /\ CacheFollows'
      BY <1>2, <3>1 DEF EngineFollows, CacheFollows, engineVars, caches
    <3>3. Feeding(c)'
      BY <2>2 DEF Feeding
    <3> QED BY <2>2, <3>1, <3>2, <3>3, SMTT(30) DEF CallFollows, InVision, InContinuation
  <2>6. FrameInv'
    BY <1>1, <1>2, <1>4, <2>2, <2>5, FramesOfOne DEF config
  <2> QED BY <1>5, <2>3, <2>4, <2>6 DEF Inv
<1>7. CASE ~(path = "runner" /\ Len(call[t].feed) > 1)
  BY <1>2, <1>3, <1>5, <1>7, RaisingKeeps DEF Refused
<1> QED BY <1>6, <1>7

-----------------------------------------------------------------------------
(* The caches of the plugins                                               *)

\* What is kept of a dictionary: without one entry, or only its newest entries.
LEMMA Shortened ==
    ASSUME NEW S, NEW d \in Seq(S), NEW p \in 1..Len(d)
    PROVE  [i \in 1..(Len(d) - 1) |-> IF i < p THEN d[i] ELSE d[i + 1]] \in Seq(S)
<1>1. \A i \in 1..(Len(d) - 1) : d[i] \in S /\ d[i + 1] \in S
  BY SMTT(30)
<1> QED BY <1>1, SMTT(30)

LEMMA Newest ==
    ASSUME NEW S, NEW d \in Seq(S), NEW n \in Nat
    PROVE  (IF Len(d) > n THEN SubSeq(d, Len(d) - n + 1, Len(d)) ELSE d) \in Seq(S)
  BY SMTT(30)

\* The entries of a dictionary after an assignment are old ones and the new one.
LEMMA TokensPut ==
    ASSUME NEW S, NEW d \in Seq(S), NEW k, NEW v, [key |-> k, value |-> v] \in S
    PROVE  Tokens!Trim(Tokens!PutLast(d, k, v), CameraEntries) \in Seq(S)
<1>1. Tokens!Without(d, k) \in Seq(S)
  <2>1. CASE k \in Tokens!Keys(d)
    <3>1. PICK p : p = Tokens!Position(d, k)
      OBVIOUS
    <3>2. p \in 1..Len(d)
      BY <2>1, <3>1, SMTT(30) DEF Tokens!Keys, Tokens!Position
    <3> QED BY <2>1, <3>1, <3>2, Shortened DEF Tokens!Without
  <2> QED BY <2>1 DEF Tokens!Without
<1>2. PICK e : e = [key |-> k, value |-> v]
  OBVIOUS
<1>3. Tokens!PutLast(d, k, v) \in Seq(S)
  BY <1>1, <1>2, SMTT(30) DEF Tokens!PutLast
<1> QED BY <1>3, SplitAssumption, Newest DEF Tokens!Trim

LEMMA PrefixPut ==
    ASSUME NEW S, NEW d \in Seq(S), NEW k, NEW v, [key |-> k, value |-> v] \in S
    PROVE  /\ Prefix!PutLast(d, k, v) \in Seq(S)
           /\ Prefix!Trim(Prefix!PutLast(d, k, v), PrefixEntries) \in Seq(S)
<1>1. Prefix!Without(d, k) \in Seq(S)
  <2>1. CASE k \in Prefix!Keys(d)
    <3>1. PICK p : p = Prefix!Position(d, k)
      OBVIOUS
    <3>2. p \in 1..Len(d)
      BY <2>1, <3>1, SMTT(30) DEF Prefix!Keys, Prefix!Position
    <3> QED BY <2>1, <3>1, <3>2, Shortened DEF Prefix!Without
  <2> QED BY <2>1 DEF Prefix!Without
<1>2. PICK e : e = [key |-> k, value |-> v]
  OBVIOUS
<1>3. Prefix!PutLast(d, k, v) \in Seq(S)
  BY <1>1, <1>2, SMTT(30) DEF Prefix!PutLast
<1> QED BY <1>3, SplitAssumption, Newest DEF Prefix!Trim

\* A call whose place alone changes.
LEMMA MovedCall ==
    ASSUME TypeOK, NEW t \in Threads, NEW at \in Places, Moved(t, at)
    PROVE  \E c \in Calls :
              /\ call' = [call EXCEPT ![t] = c]
              /\ c.at = at /\ c.batch = call[t].batch /\ c.feed = call[t].feed
              /\ c.samples = call[t].samples /\ c.tokens = call[t].tokens /\ c.text = call[t].text
              /\ c.answer = call[t].answer /\ c.output = call[t].output /\ c.route = call[t].route
<1>1. call[t] \in Calls /\ call \in [Threads -> Calls]
  BY DEF TypeOK
<1>2. PICK c : c = [call[t] EXCEPT !.at = at]
  OBVIOUS
<1>3. call' = [call EXCEPT ![t] = c]
  BY <1>1, <1>2 DEF Moved
<1>4. /\ c \in Calls /\ c.at = at /\ c.batch = call[t].batch /\ c.feed = call[t].feed
      /\ c.samples = call[t].samples /\ c.tokens = call[t].tokens /\ c.text = call[t].text
      /\ c.answer = call[t].answer /\ c.output = call[t].output /\ c.route = call[t].route
  BY <1>1, <1>2 DEF Calls
<1> QED BY <1>3, <1>4

LEMMA StoreTokensKeeps ==
    ASSUME Inv, NEW t \in Threads, StoreTokens(t)
    PROVE  Inv'
<1>1. /\ TypeOK /\ EngineTypeOK /\ PluginsTypeOK /\ call[t] \in Calls /\ CallOK(call[t]) /\ AloneInv
      /\ ThrottleInv /\ FrameInv
  BY DEF Inv, TypeOK
<1>2. /\ call[t].at = "store" /\ "encoded" \in Places /\ Moved(t, "encoded")
      /\ UNCHANGED <<engineVars, config, memory, counts, prefix, cascade, lock>>
  BY DEF StoreTokens, Places
<1>3. PICK c \in Calls :
         /\ call' = [call EXCEPT ![t] = c]
         /\ c.at = "encoded" /\ c.batch = call[t].batch /\ c.feed = call[t].feed
         /\ c.samples = call[t].samples /\ c.tokens = call[t].tokens /\ c.text = call[t].text
         /\ c.answer = call[t].answer /\ c.output = call[t].output /\ c.route = call[t].route
  BY <1>1, <1>2, MovedCall
<1>5. c.tokens \in VisionTokens /\ c.feed \in Batch(Contents) /\ c.answer = <<>>
  BY <1>1, <1>2, <1>3 DEF Calls, CallOK
<1>6. EngineTypeOK' /\ EngineGrows
  BY <1>1, <1>2, EngineRests
<1>7. CallOK(c)'
  BY <1>1, <1>2, <1>3 DEF CallOK, config, InVision, Waiting, InContinuation, Remembering
<1>8. CASE "throttle" \in plugins
  <2>1. throttle' = [throttle EXCEPT !.cached = c.tokens] /\ tokencache' = tokencache
    BY <1>3, <1>8 DEF StoreTokens, Throttle!Store
  <2>2. /\ throttle'.cached = c.tokens /\ throttle'.refreshes = throttle.refreshes
        /\ throttle'.reuses = throttle.reuses
        /\ throttle'.calls_since_refresh = throttle.calls_since_refresh
        /\ throttle' \in [cached : VisionTokens \cup {None}, refreshes : Nat, reuses : Nat,
                          calls_since_refresh : Nat, overdue : BOOLEAN]
    BY <1>1, <1>5, <2>1 DEF PluginsTypeOK
  <2>3. TypeOK'
    BY <1>1, <1>2, <1>3, <1>6, <1>7, <2>1, <2>2, CallsKept
       DEF TypeOK, PluginsTypeOK, config, memory, counts
  <2>4. ThrottleInv'
    <3>1. ASSUME Steady, Perceives(call[t]) PROVE Perceives(c)' /\ CachedIsRecent'
      <4>1. /\ Throttle!Step' = Throttle!Step /\ c.tokens.step = Throttle!Step
            /\ c.samples = None /\ throttle.calls_since_refresh = 0 /\ c.tokens # None
        BY <1>1, <1>2, <1>3, <2>2, <3>1 DEF Perceives, Throttle!Step, CallOK
      <4>2. Throttle!Step \in Nat /\ 0 < RefreshSteps
        BY <1>1, StepType, SplitAssumption, SMTT(30)
      <4>3. CachedIsRecent'
        BY <2>2, <4>1, <4>2, SMTT(30) DEF CachedIsRecent
      <4>4. Throttle!Step' - c.tokens.step < RefreshSteps
        BY <4>1, <4>2, SMTT(30)
      <4> QED BY <1>3, <4>1, <4>3, <4>4 DEF Perceives, InVision
    <3> QED BY <1>1, <1>2, <1>3, <3>1, ThrottleOfOne DEF config, counts, engineVars
  <2>5. FrameInv'
    BY <1>2, <1>8 DEF FrameInv, Plain, config
  <2>6. LockInv' /\ OwnInv' /\ AloneInv' /\ LightInv'
    BY <1>2, <1>3, VisionRests DEF counts
  <2> QED BY <2>3, <2>4, <2>5, <2>6 DEF Inv
<1>9. CASE "throttle" \notin plugins
  <2>1. throttle' = throttle /\ Tokens!Store("scene", c.feed, c.tokens)
    BY <1>3, <1>9 DEF StoreTokens
  <2>2. PICK v : v = [fingerprint |-> c.feed, tokens |-> c.tokens]
    OBVIOUS
  <2>3. PICK d : d = tokencache.cache
    OBVIOUS
  <2>4. PICK new : new = Tokens!Trim(Tokens!PutLast(d, "scene", v), CameraEntries)
    OBVIOUS
  <2>5. tokencache' = [tokencache EXCEPT !.misses = @ + 1, !.cache = new]
    BY <2>1, <2>2, <2>3, <2>4 DEF Tokens!Store
  <2>6. v.fingerprint = c.feed /\ v.tokens = c.tokens
        /\ [key |-> "scene", value |-> v] \in TokenEntry
    BY <1>5, <2>2 DEF TokenEntry
  <2>7. new \in Seq(TokenEntry)
    BY <1>1, <2>3, <2>4, <2>6, TokensPut DEF PluginsTypeOK
  <2>8. tokencache'.cache = new /\ tokencache' \in [cache : Seq(TokenEntry), hits : Nat, misses : Nat]
    <3>1. tokencache \in [cache : Seq(TokenEntry), hits : Nat, misses : Nat]
      BY <1>1 DEF PluginsTypeOK
    <3>2. tokencache.misses + 1 \in Nat
      BY <3>1, SMTT(30)
    <3> QED BY <2>5, <2>7, <3>1, <3>2
  <2>9. TypeOK'
    BY <1>1, <1>2, <1>3, <1>6, <1>7, <2>1, <2>8, CallsKept
       DEF TypeOK, PluginsTypeOK, config, memory, counts
  <2>10. ThrottleInv'
    BY <1>2, <1>9 DEF ThrottleInv, Steady, config
  <2>11. ASSUME Plain PROVE (EngineFollows /\ CacheFollows /\ CallFollows(c))'
    <3> DEFINE S == {e \in TokenEntry : e.value.tokens.frames = e.value.fingerprint}
    <3>1. EngineFollows /\ CacheFollows /\ CallFollows(call[t])
      BY <1>1, <2>11 DEF FrameInv
    <3>2. Feeding(call[t]) /\ c.tokens # None /\ c.tokens.frames = c.feed
      BY <1>2, <1>3, <3>1 DEF CallFollows
    <3>3. [key |-> "scene", value |-> v] \in S
      BY <2>6, <3>2
    <3>4. d \in Seq(S)
      BY <1>1, <2>3, <3>1, SMTT(30) DEF PluginsTypeOK, CacheFollows
    <3>5. new \in Seq(S)
      BY <2>4, <3>3, <3>4, TokensPut
    <3>6. CacheFollows'
      BY <2>8, <3>5, SMTT(30) DEF CacheFollows
    <3>7. EngineFollows' /\ Feeding(c)'
      BY <1>2, <1>3, <3>1, <3>2 DEF EngineFollows, engineVars, Feeding
    <3> QED BY <1>3, <1>5, <3>2, <3>6, <3>7, SMTT(30) DEF CallFollows, InVision, InContinuation
  <2>12. FrameInv'
    BY <1>1, <1>2, <1>3, <1>6, <2>11, FramesOfOne DEF config, counts
  <2>13. LockInv' /\ OwnInv' /\ AloneInv' /\ LightInv'
    BY <1>2, <1>3, VisionRests DEF counts
  <2> QED BY <2>9, <2>10, <2>12, <2>13 DEF Inv
<1> QED BY <1>8, <1>9

\* A sample of a refused batch is taken from its tokens, and the next one is encoded.
Taken(t) == Append(call[t].samples, call[t].tokens.frames[1])

LEMMA SampleTaken ==
    ASSUME TypeOK, NEW t \in Threads, call[t].at = "encoded",
           call[t].samples # None, call[t].tokens # None,
           NEW samples, samples = Taken(t)
    PROVE  /\ samples \in Batch(Contents) /\ samples # None /\ path = "runner"
           /\ Len(samples) = Len(call[t].samples) + 1 /\ Len(samples) <= Len(call[t].batch)
           /\ \A i \in 1..Len(call[t].samples) : samples[i] = call[t].samples[i]
           /\ samples[Len(samples)] = call[t].tokens.frames[1]
           /\ call[t].batch \in Seq(Requests) /\ Len(call[t].batch) \in 1..MaxBatch
           /\ DOMAIN samples = 1..Len(samples) /\ DOMAIN call[t].samples = 1..Len(call[t].samples)
<1>1. /\ call[t] \in Calls /\ CallOK(call[t]) /\ MaxBatch \in Nat \ {0}
      /\ None \notin Batch(Contents)
  BY SplitAssumption DEF TypeOK
<1>2. /\ call[t].batch \in Batch(Requests) /\ path = "runner"
      /\ Len(call[t].samples) < Len(call[t].batch)
      /\ call[t].samples \in Batch(Contents) \cup {<<>>} /\ call[t].tokens.frames \in Batch(Contents)
  BY <1>1 DEF CallOK, Calls, VisionTokens
<1>3. call[t].batch \in Seq(Requests) /\ Len(call[t].batch) \in 1..MaxBatch
  BY <1>2, BatchIsSeq
<1>4. PICK old : old = call[t].samples
  OBVIOUS
<1>5. old \in Seq(Contents)
  <2>1. CASE old \in Batch(Contents)  BY <2>1, BatchIsSeq
  <2>2. CASE old = <<>>  BY <2>2, SMTT(30)
  <2> QED BY <1>2, <1>4, <2>1, <2>2
<1>6. PICK frame : frame = call[t].tokens.frames[1]
  OBVIOUS
<1>7. frame \in Contents
  <2>1. call[t].tokens.frames \in Seq(Contents) /\ Len(call[t].tokens.frames) \in 1..MaxBatch
    BY <1>2, BatchIsSeq
  <2> QED BY <1>1, <1>6, <2>1, SMTT(30)
<1>8. /\ samples \in Seq(Contents) /\ Len(samples) = Len(old) + 1
      /\ \A i \in 1..Len(old) : samples[i] = old[i]
      /\ samples[Len(samples)] = frame
      /\ DOMAIN samples = 1..Len(samples) /\ DOMAIN old = 1..Len(old)
  BY <1>4, <1>5, <1>6, <1>7, SMTT(30) DEF Taken
<1>9. Len(samples) \in 1..MaxBatch /\ Len(samples) <= Len(call[t].batch)
  <2>1. Len(old) \in Nat
    BY <1>5, SMTT(30)
  <2> QED BY <1>1, <1>2, <1>3, <1>4, <1>8, <2>1, SMTT(30)
<1>10. samples \in Batch(Contents)
  BY <1>8, <1>9, BatchIsSeq
<1> QED BY <1>1, <1>2, <1>3, <1>4, <1>6, <1>8, <1>9, <1>10

LEMMA ContinueKeeps ==
    ASSUME Inv, NEW t \in Threads, call[t].at = "encoded", Moved(t, "continue"),
           UNCHANGED <<engineVars, config, caches, memory, counts, lock>>,
           call[t].samples = None,
           path = "runner" => /\ call[t].tokens # None
                              /\ Len(call[t].tokens.frames) = Len(call[t].batch)
    PROVE  Inv'
<1>1. /\ TypeOK /\ EngineTypeOK /\ call[t] \in Calls /\ CallOK(call[t]) /\ AloneInv
      /\ ThrottleInv /\ FrameInv
  BY DEF Inv, TypeOK
<1>2. "continue" \in Places
  BY DEF Places, InContinuation
<1>3. PICK c \in Calls :
         /\ call' = [call EXCEPT ![t] = c]
         /\ c.at = "continue" /\ c.batch = call[t].batch /\ c.feed = call[t].feed
         /\ c.samples = call[t].samples /\ c.tokens = call[t].tokens /\ c.text = call[t].text
         /\ c.answer = call[t].answer /\ c.output = call[t].output /\ c.route = call[t].route
  BY <1>1, <1>2, MovedCall
<1>4. EngineTypeOK' /\ EngineGrows
  BY <1>1, EngineRests
<1>5. c.answer = <<>> /\ Len(c.answer) < Len(c.batch)
  <2>1. c.answer = <<>> /\ c.batch \in Batch(Requests)
    BY <1>1, <1>3 DEF CallOK, Calls
  <2>2. Len(c.batch) \in 1..MaxBatch
    BY <2>1, BatchIsSeq
  <2> QED BY <2>1, <2>2, SMTT(30)
<1>6. CallOK(c)'
  BY <1>1, <1>3, <1>5 DEF CallOK, config, InVision, Waiting, InContinuation, Remembering
<1>7. TypeOK'
  BY <1>1, <1>3, <1>4, <1>6, CallsKept
     DEF TypeOK, PluginsTypeOK, config, caches, memory, counts
<1>8. LockInv' /\ OwnInv' /\ AloneInv' /\ LightInv'
  BY <1>3, VisionRests DEF caches, counts
<1>9. ThrottleInv'
  <2>1. /\ c.at \notin InVision \cup {"store"} /\ call[t].at \notin InVision \cup {"store"}
        /\ call[t].at \in InContinuation \cup {"encoded"}
    BY <1>3 DEF InVision
  <2> QED BY <1>1, <1>3, <2>1, ThrottleRests DEF config, counts, caches, engineVars
<1>10. ASSUME Plain PROVE (EngineFollows /\ CacheFollows /\ CallFollows(c))'
  <2>1. EngineFollows /\ CacheFollows /\ CallFollows(call[t])
    BY <1>1, <1>10 DEF FrameInv
  <2>2. c.tokens # None /\ c.tokens.frames = c.feed /\ c.feed = FramesOf(c.batch)
    BY <1>3, <2>1 DEF CallFollows, Feeding
  <2>3. EngineFollows' /\ CacheFollows'
    BY <2>1 DEF EngineFollows, CacheFollows, engineVars, caches
  <2> QED BY <1>3, <1>5, <2>2, <2>3, SMTT(30) DEF CallFollows, Waiting, InVision
<1>11. FrameInv'
  BY <1>1, <1>3, <1>4, <1>10, FramesOfOne DEF config, counts
<1> QED BY <1>7, <1>8, <1>9, <1>11 DEF Inv

\* The next sample of a refused batch.
NextSample(t) ==
    /\ call[t].samples # None /\ call[t].tokens # None
    /\ Len(Taken(t)) < Len(call[t].batch)
    /\ call' = [call EXCEPT ![t].at = "encode", ![t].samples = Taken(t),
                            ![t].feed = <<call[t].batch[Len(Taken(t)) + 1].frame>>]

LEMMA NextSampleKeeps ==
    ASSUME Inv, NEW t \in Threads, call[t].at = "encoded", NextSample(t),
           UNCHANGED <<engineVars, config, caches, memory, counts, lock>>
    PROVE  Inv'
<1>0. PICK samples : samples = Taken(t)
  OBVIOUS
<1>1. /\ TypeOK /\ EngineTypeOK /\ call[t] \in Calls /\ CallOK(call[t]) /\ AloneInv
      /\ ThrottleInv /\ FrameInv /\ MaxBatch \in Nat \ {0}
  BY SplitAssumption DEF Inv, TypeOK
<1>2. PICK feed : feed = <<call[t].batch[Len(samples) + 1].frame>>
  OBVIOUS
<1>3. PICK c : c = [call[t] EXCEPT !.at = "encode", !.samples = samples, !.feed = feed]
  OBVIOUS
<1>4. /\ samples \in Batch(Contents) /\ samples # None /\ path = "runner"
      /\ Len(samples) = Len(call[t].samples) + 1 /\ Len(samples) < Len(call[t].batch)
      /\ \A i \in 1..Len(call[t].samples) : samples[i] = call[t].samples[i]
      /\ samples[Len(samples)] = call[t].tokens.frames[1]
      /\ call[t].batch \in Seq(Requests) /\ Len(call[t].batch) \in 1..MaxBatch
      /\ DOMAIN samples = 1..Len(samples) /\ DOMAIN call[t].samples = 1..Len(call[t].samples)
  BY <1>0, <1>1, SampleTaken DEF NextSample
<1>5. samples \in Seq(Contents) /\ Len(samples) \in Nat
  BY <1>4, BatchIsSeq, SMTT(30)
<1>6. feed \in Batch(Contents) /\ Len(feed) = 1 /\ feed # <<>>
  <2>1. call[t].batch[Len(samples) + 1].frame \in Contents
    BY <1>1, <1>4, <1>5, SMTT(30) DEF Contents
  <2>2. feed \in Seq(Contents) /\ Len(feed) = 1 /\ feed # <<>>
    BY <1>2, <2>1, SMTT(30)
  <2>3. 1 \in 1..MaxBatch
    BY <1>1, SMTT(30)
  <2> QED BY <2>2, <2>3, BatchIsSeq
<1>7. /\ c \in Calls /\ c.at = "encode" /\ c.samples = samples /\ c.feed = feed
      /\ c.batch = call[t].batch /\ c.answer = call[t].answer /\ c.route = call[t].route
  <2>1. "encode" \in Places
    BY DEF Places, Waiting
  <2> QED BY <1>1, <1>3, <1>4, <1>6, <2>1 DEF Calls
<1>8. call' = [call EXCEPT ![t] = c]
  BY <1>0, <1>1, <1>2, <1>3 DEF TypeOK, NextSample
<1>9. EngineTypeOK' /\ EngineGrows
  BY <1>1, EngineRests
<1>10. CallOK(c)'
  BY <1>1, <1>4, <1>6, <1>7 DEF CallOK, config, InVision, Waiting, InContinuation, Remembering
<1>11. TypeOK'
  BY <1>1, <1>7, <1>8, <1>9, <1>10, CallsKept
     DEF TypeOK, PluginsTypeOK, config, caches, memory, counts
<1>12. LockInv' /\ OwnInv' /\ AloneInv' /\ LightInv'
  BY <1>7, <1>8, VisionRests DEF caches, counts
<1>13. ThrottleInv'
  <2>1. ~ Perceives(call[t])
    BY DEF Perceives, NextSample
  <2> QED BY <1>1, <1>7, <1>8, <2>1, ThrottleOfOne DEF config, counts, engineVars
<1>14. ASSUME Plain PROVE (EngineFollows /\ CacheFollows /\ CallFollows(c))'
  <2>1. EngineFollows /\ CacheFollows /\ CallFollows(call[t])
    BY <1>1, <1>14 DEF FrameInv
  <2>2. Feeding(call[t]) /\ call[t].tokens.frames = call[t].feed /\ c.answer = <<>>
    BY <1>1, <1>7, <2>1 DEF CallFollows, CallOK
  <2>3. /\ \A i \in 1..Len(call[t].samples) : call[t].samples[i] = c.batch[i].frame
        /\ call[t].tokens.frames[1] = c.batch[Len(samples)].frame
    <3>1. /\ \A i \in DOMAIN call[t].samples : call[t].samples[i] = call[t].batch[i].frame
          /\ call[t].feed = <<call[t].batch[Len(call[t].samples) + 1].frame>>
      BY <2>2 DEF Feeding, NextSample
    <3>2. call[t].feed[1] = call[t].batch[Len(call[t].samples) + 1].frame
      BY <3>1, SMTT(30)
    <3> QED BY <1>4, <1>7, <2>2, <3>1, <3>2
  <2>4. ASSUME NEW i \in 1..Len(samples) PROVE samples[i] = c.batch[i].frame
    <3>1. i = Len(samples) \/ i \in 1..Len(call[t].samples)
      BY <1>4, <1>5, SMTT(30)
    <3> QED BY <1>4, <2>3, <3>1
  <2>5. Feeding(c)'
    BY <1>2, <1>4, <1>7, <2>4 DEF Feeding
  <2>6. EngineFollows' /\ CacheFollows'
    BY <2>1 DEF EngineFollows, CacheFollows, engineVars, caches
  <2> QED BY <1>7, <2>2, <2>5, <2>6, SMTT(30) DEF CallFollows, InVision, InContinuation
<1>15. FrameInv'
  BY <1>1, <1>7, <1>8, <1>9, <1>14, FramesOfOne DEF config, counts
<1> QED BY <1>11, <1>12, <1>13, <1>15 DEF Inv

\* The samples of a refused batch are put together again.
LastSample(t) ==
    /\ call[t].samples # None /\ call[t].tokens # None
    /\ ~(Len(Taken(t)) < Len(call[t].batch))
    /\ call' = [call EXCEPT ![t].at = "continue", ![t].tokens.frames = Taken(t)]

LEMMA LastSampleKeeps ==
    ASSUME Inv, NEW t \in Threads, call[t].at = "encoded", LastSample(t),
           UNCHANGED <<engineVars, config, caches, memory, counts, lock>>
    PROVE  Inv'
<1>0. PICK samples : samples = Taken(t)
  OBVIOUS
<1>1. /\ TypeOK /\ EngineTypeOK /\ call[t] \in Calls /\ CallOK(call[t]) /\ AloneInv
      /\ ThrottleInv /\ FrameInv /\ MaxBatch \in Nat \ {0} /\ None \notin VisionTokens
  BY SplitAssumption DEF Inv, TypeOK
<1>2. PICK tokens : tokens = [call[t].tokens EXCEPT !.frames = samples]
  OBVIOUS
<1>3. PICK c : c = [call[t] EXCEPT !.at = "continue", !.tokens = tokens]
  OBVIOUS
<1>4. /\ samples \in Batch(Contents) /\ path = "runner"
      /\ Len(samples) = Len(call[t].samples) + 1
      /\ Len(samples) <= Len(call[t].batch) /\ ~(Len(samples) < Len(call[t].batch))
      /\ \A i \in 1..Len(call[t].samples) : samples[i] = call[t].samples[i]
      /\ samples[Len(samples)] = call[t].tokens.frames[1]
      /\ call[t].batch \in Seq(Requests) /\ Len(call[t].batch) \in 1..MaxBatch
      /\ DOMAIN samples = 1..Len(samples) /\ DOMAIN call[t].samples = 1..Len(call[t].samples)
  BY <1>0, <1>1, SampleTaken DEF LastSample
<1>5. /\ samples \in Seq(Contents) /\ Len(samples) \in Nat /\ Len(samples) = Len(call[t].batch)
      /\ DOMAIN call[t].batch = 1..Len(samples)
  <2>1. samples \in Seq(Contents)
    BY <1>4, BatchIsSeq
  <2>2. Len(samples) = Len(call[t].batch)
    BY <1>1, <1>4, <2>1, SMTT(30)
  <2> QED BY <1>4, <2>1, <2>2, SMTT(30)
<1>6. tokens \in VisionTokens /\ tokens.frames = samples /\ tokens # None
  <2>1. call[t].tokens \in VisionTokens
    BY <1>1 DEF Calls, LastSample
  <2> QED BY <1>1, <1>2, <1>4, <2>1 DEF VisionTokens
<1>7. /\ c \in Calls /\ c.at = "continue" /\ c.samples = call[t].samples /\ c.tokens = tokens
      /\ c.batch = call[t].batch /\ c.answer = call[t].answer /\ c.route = call[t].route
      /\ c.feed = call[t].feed
  <2>1. "continue" \in Places
    BY DEF Places, InContinuation
  <2> QED BY <1>1, <1>3, <1>6, <2>1 DEF Calls
<1>8. call' = [call EXCEPT ![t] = c]
  BY <1>0, <1>1, <1>2, <1>3 DEF TypeOK, LastSample
<1>9. EngineTypeOK' /\ EngineGrows
  BY <1>1, EngineRests
<1>10. c.answer = <<>> /\ Len(c.answer) < Len(c.batch)
  BY <1>1, <1>4, <1>7, SMTT(30) DEF CallOK
<1>11. CallOK(c)'
  BY <1>1, <1>4, <1>5, <1>6, <1>7, <1>10
     DEF CallOK, config, InVision, Waiting, InContinuation, Remembering
<1>12. TypeOK'
  BY <1>1, <1>7, <1>8, <1>9, <1>11, CallsKept
     DEF TypeOK, PluginsTypeOK, config, caches, memory, counts
<1>13. LockInv' /\ OwnInv' /\ AloneInv' /\ LightInv'
  BY <1>7, <1>8, VisionRests DEF caches, counts
<1>14. ThrottleInv'
  <2>1. ~ Perceives(call[t])
    BY DEF Perceives, LastSample
  <2> QED BY <1>1, <1>7, <1>8, <2>1, ThrottleOfOne DEF config, counts, engineVars
<1>15. ASSUME Plain PROVE (EngineFollows /\ CacheFollows /\ CallFollows(c))'
  <2>1. EngineFollows /\ CacheFollows /\ CallFollows(call[t])
    BY <1>1, <1>15 DEF FrameInv
  <2>2. Feeding(call[t]) /\ call[t].tokens.frames = call[t].feed
    BY <2>1 DEF CallFollows
  <2>3. /\ \A i \in 1..Len(call[t].samples) : call[t].samples[i] = c.batch[i].frame
        /\ call[t].tokens.frames[1] = c.batch[Len(samples)].frame
    <3>1. /\ \A i \in DOMAIN call[t].samples : call[t].samples[i] = call[t].batch[i].frame
          /\ call[t].feed = <<call[t].batch[Len(call[t].samples) + 1].frame>>
      BY <2>2 DEF Feeding, LastSample
    <3>2. call[t].feed[1] = call[t].batch[Len(call[t].samples) + 1].frame
      BY <3>1, SMTT(30)
    <3> QED BY <1>4, <1>7, <2>2, <3>1, <3>2
  <2>4. ASSUME NEW i \in 1..Len(samples) PROVE samples[i] = c.batch[i].frame
    <3>1. i = Len(samples) \/ i \in 1..Len(call[t].samples)
      BY <1>4, <1>5, SMTT(30)
    <3> QED BY <1>4, <2>3, <3>1
  <2>5. samples = FramesOf(c.batch)
    BY <1>4, <1>5, <1>7, <2>4, SMTT(30) DEF FramesOf
  <2>6. EngineFollows' /\ CacheFollows'
    BY <2>1 DEF EngineFollows, CacheFollows, engineVars, caches
  <2> QED BY <1>6, <1>7, <1>10, <2>5, <2>6, SMTT(30) DEF CallFollows, Waiting, InVision
<1>16. FrameInv'
  BY <1>1, <1>7, <1>8, <1>9, <1>15, FramesOfOne DEF config, counts
<1> QED BY <1>12, <1>13, <1>14, <1>16 DEF Inv

LEMMA CheckTokensKeeps ==
    ASSUME Inv, NEW t \in Threads, CheckTokens(t)
    PROVE  Inv'
<1>1. /\ call[t].at = "encoded" /\ call' = Continue(t)
      /\ UNCHANGED <<engineVars, config, caches, memory, counts, lock>>
  BY DEF CheckTokens
<1>2. TypeOK /\ ThrottleInv /\ path \in {"timed", "runner"} /\ CallOK(call[t])
  BY DEF Inv, TypeOK
<1>3. call[t].samples # None => path = "runner"
  BY <1>2 DEF CallOK
<1>4. CASE call' = Raised(t)
  <2>1. PICK c : c = [Idle EXCEPT !.batch = call[t].batch, !.raised = TRUE]
    OBVIOUS
  <2>2. /\ c \in Calls /\ c.at = "idle" /\ c.samples = None /\ call' = [call EXCEPT ![t] = c]
    BY <1>1, <1>2, <1>4, <2>1, RaisedCall DEF config
  <2>3. /\ call[t].at \notin InVision \cup {"store"} /\ c.at \notin InVision \cup {"store"}
        /\ c.at \notin InContinuation \cup {"encoded"}
    BY <1>1, <2>2 DEF InVision, InContinuation
  <2>4. ThrottleInv'
    BY <1>1, <1>2, <2>2, <2>3, ThrottleRests DEF config, counts, caches, engineVars
  <2>5. failures' \in Nat
    BY <1>1, <1>2 DEF TypeOK, counts
  <2> QED BY <1>1, <1>4, <2>4, <2>5, RaisingKeeps DEF counts
<1>5. CASE NextSample(t)
  BY <1>1, <1>5, NextSampleKeeps
<1>6. CASE LastSample(t)
  BY <1>1, <1>6, LastSampleKeeps
<1>7. CASE /\ Moved(t, "continue") /\ call[t].samples = None
           /\ path = "runner" => /\ call[t].tokens # None
                                 /\ Len(call[t].tokens.frames) = Len(call[t].batch)
  BY <1>1, <1>7, ContinueKeeps
<1> QED
  <2>1. CASE call[t].tokens = None
    <3>1. path = "timed" => Moved(t, "continue") /\ call[t].samples = None /\ path # "runner"
      BY <1>1, <1>3, <2>1 DEF Continue, Moved
    <3>2. path # "timed" => call' = Raised(t)
      BY <1>1, <2>1 DEF Continue
    <3> QED BY <1>4, <1>7, <3>1, <3>2
  <2>2. CASE call[t].tokens # None /\ call[t].samples # None
    BY <1>1, <1>5, <1>6, <2>2 DEF Continue, NextSample, LastSample, Taken
  <2>3. CASE call[t].tokens # None /\ call[t].samples = None
    BY <1>1, <1>4, <1>7, <2>3 DEF Continue, Moved
  <2> QED BY <2>1, <2>2, <2>3
=============================================================================
