-------------------------- MODULE StandaloneProofs --------------------------
(***************************************************************************)
(* The components that stand alone.  The action buffer keeps its promises  *)
(* for every step width, capacity and set of chunks; OperatorGraph's       *)
(* validate accepts exactly the well-formed acyclic graphs; a backend that *)
(* forwards never takes the answer to an earlier question for its own.     *)
(***************************************************************************)
EXTENDS ActionBuffer, OperatorGraph, Upstream, FiniteSetTheorems, TLAPS

\* Zenon by default, with time for a busy machine; a leaf that needs arithmetic cites SMTT.
USE ZenonT(60)

-----------------------------------------------------------------------------
(* Sequences *)

\* A sequence is a function on 1..Len(s).
LEMMA SeqLen ==
    ASSUME NEW S, NEW s \in Seq(S)
    PROVE  Len(s) \in Nat /\ s \in [1..Len(s) -> S] /\ DOMAIN s = 1..Len(s)
BY SMTT(30)

\* Only the empty sequence has no element.
LEMMA SeqEmpty ==
    ASSUME NEW S
    PROVE  /\ <<>> \in Seq(S) /\ Len(<<>>) = 0
           /\ \A s \in Seq(S) : s # <<>> => Len(s) \in Nat \ {0}
BY SMTT(30)

\* Taking the head off a sequence that has one shifts the rest.
LEMMA SeqHeadTail ==
    ASSUME NEW S, NEW s \in Seq(S), s # <<>>
    PROVE  /\ Head(s) \in S /\ Tail(s) \in Seq(S) /\ Len(Tail(s)) = Len(s) - 1
           /\ \A i \in 1..Len(Tail(s)) : Tail(s)[i] = s[i + 1]
BY SMTT(30)

\* Append adds one element at the end and moves none.
LEMMA SeqAppend ==
    ASSUME NEW S, NEW s \in Seq(S), NEW e \in S
    PROVE  /\ Append(s, e) \in Seq(S) /\ Append(s, e) # <<>> /\ Len(Append(s, e)) = Len(s) + 1
           /\ \A i \in 1..Len(s) : Append(s, e)[i] = s[i]
           /\ Append(s, e)[Len(s) + 1] = e
BY SMTT(30)

-----------------------------------------------------------------------------
(* The action buffer                                                       *)

\* A nonempty set of control steps has a last one.
LEMMA LastStep ==
    ASSUME NEW S \in SUBSET Steps, S # {}
    PROVE  \E m \in S : \A s \in S : s <= m
<1> DEFINE T == {MaxU64 - s : s \in S}
<1>1. T \subseteq Nat /\ T # {}
  <2>1. \A s \in S : MaxU64 - s \in Nat
    BY ConstantsAssumption, SMTT(30) DEF Steps
  <2>2. PICK s \in S : TRUE
    OBVIOUS
  <2> QED BY <2>1, <2>2
<1>2. PICK x \in T : \A y \in T : ~ (<<y, x>> \in OpToRel(<, Nat))
  <2> HIDE DEF T
  <2> QED BY <1>1, NatLessThanWellFounded, WFMin
<1>3. \A y \in T : x <= y
  <2> HIDE DEF T
  <2> TAKE y \in T
  <2>1. x \in Nat /\ y \in Nat
    BY <1>1
  <2>2. y < x => <<y, x>> \in OpToRel(<, Nat)
    BY <2>1 DEF OpToRel
  <2>3. ~ (y < x)
    BY <1>2, <2>2
  <2> QED BY <2>1, <2>3, SMTT(30)
<1>4. PICK m \in S : x = MaxU64 - m
  OBVIOUS
<1>5. \A s \in S : s <= m
  <2> TAKE s \in S
  <2>1. MaxU64 - s \in T
    OBVIOUS
  <2>2. MaxU64 - m <= MaxU64 - s
    BY <1>3, <1>4, <2>1
  <2> QED BY <2>2, ConstantsAssumption, SMTT(30) DEF Steps
<1> QED BY <1>5

\* Every set of control steps is finite, since there are only 2^64 of them.
LEMMA StepsFinite ==
    ASSUME NEW S \in SUBSET Steps
    PROVE  IsFiniteSet(S) /\ Cardinality(S) \in Nat
<1>1. IsFiniteSet(Steps)
  BY FS_Interval, ConstantsAssumption, SMTT(30) DEF Steps
<1> QED BY <1>1, FS_Subset, FS_CardinalityType

\* A row of an accepted chunk is a buffered action.
LEMMA RowType ==
    ASSUME NEW chunk \in Chunks, NEW s \in Steps
    PROVE  Row(chunk, s) \in BufferedAction
<1>1. chunk \in ChunkType
  BY ConstantsAssumption
<1>2. s - chunk.first_control_step \in Int /\ MaxU64 + 1 \in Nat \ {0}
  BY <1>1, ConstantsAssumption, SMTT(30) DEF ChunkType, Steps
<1>3. Index(chunk, s) \in 0..MaxU64
  BY <1>2, ConstantsAssumption, SMTT(30) DEF Index
<1> QED BY <1>1, <1>3 DEF Row, BufferedAction, ChunkType

\* What eviction keeps fits the capacity: all but the last kept step precede it.
LEMMA NearestBounded ==
    ASSUME NEW D \in SUBSET Steps
    PROVE  Cardinality(Nearest(D)) <= MaximumBufferedSteps
<1> DEFINE N == Nearest(D)
<1>1. N \in SUBSET Steps
  BY DEF Nearest
<1>2. CASE N = {}
  BY <1>2, FS_EmptySet, ConstantsAssumption, SMTT(30)
<1>3. CASE N # {}
  <2>1. PICK m \in N : \A s \in N : s <= m
    BY <1>1, <1>3, LastStep
  <2> DEFINE B == {t \in D : t < m}
  <2>2. B \in SUBSET Steps /\ N \ {m} \in SUBSET B
    <3>1. \A s \in N : s \in D /\ s \in Nat /\ (s # m => s < m)
      BY <1>1, <2>1, ConstantsAssumption, SMTT(30) DEF Nearest, Steps
    <3> QED BY <3>1
  <2>3. Cardinality(N \ {m}) <= Cardinality(B)
    BY <2>2, StepsFinite, FS_Subset
  <2>4. Cardinality(B) < MaximumBufferedSteps
    BY <2>1 DEF Nearest
  <2>5. Cardinality(N \ {m}) = Cardinality(N) - 1
    BY <1>1, StepsFinite, FS_RemoveElement
  <2>6. Cardinality(N) \in Nat /\ Cardinality(B) \in Nat
    BY <1>1, <2>2, StepsFinite
  <2> QED BY <2>3, <2>4, <2>5, <2>6, ConstantsAssumption, SMTT(30)
<1> QED BY <1>2, <1>3

\* What eviction drops is later than everything it keeps.
LEMMA NearestFirst ==
    ASSUME NEW D \in SUBSET Steps, NEW s \in D \ Nearest(D), NEW t \in Nearest(D)
    PROVE  t < s
<1> SUFFICES ASSUME ~ (t < s) PROVE FALSE
  OBVIOUS
<1> DEFINE Bs == {u \in D : u < s}
           Bt == {u \in D : u < t}
<1>1. s \in Nat /\ t \in Nat /\ D \subseteq Nat
  BY ConstantsAssumption, SMTT(30) DEF Nearest, Steps
<1>2. Bs \in SUBSET Bt /\ Bt \in SUBSET Steps /\ Bs \in SUBSET Steps
  <2>1. \A u \in D : u < s => u < t
    BY <1>1, SMTT(30)
  <2> QED BY <2>1
<1>3. Cardinality(Bs) <= Cardinality(Bt)
  BY <1>2, StepsFinite, FS_Subset
<1>4. Cardinality(Bs) \in Nat /\ Cardinality(Bt) \in Nat
  BY <1>2, StepsFinite
<1>5. ~ (Cardinality(Bs) < MaximumBufferedSteps) /\ Cardinality(Bt) < MaximumBufferedSteps
  BY DEF Nearest
<1> QED BY <1>3, <1>4, <1>5, ConstantsAssumption, SMTT(30)

-----------------------------------------------------------------------------

\* The buffer holds nothing before minimum_control_step_, which is past everything
\* that was requested (or stuck at the last step), and nothing newer than
\* latest_request_id_: the facts that make the two promises inductive.
Ordered ==
    /\ \A s \in DOMAIN actions_ : /\ s >= minimum_control_step_
                                  /\ actions_[s].request_id <= latest_request_id_
    /\ horizon = MaxU64 => minimum_control_step_ = MaxU64
    /\ horizon # MaxU64 => minimum_control_step_ > horizon

IndInv == TypeOK /\ Ordered /\ NewestWins /\ BoundedSize

\* A new buffer, with nothing in its map, satisfies the invariant.
LEMMA InitInv == Init => IndInv
<1> SUFFICES ASSUME Init PROVE IndInv
  OBVIOUS
<1> USE DEF Init
<1>1. DOMAIN actions_ = {} /\ actions_ \in [DOMAIN actions_ -> BufferedAction]
  OBVIOUS
<1>2. TypeOK
  BY <1>1, ConstantsAssumption, SMTT(30) DEF TypeOK, Steps
<1>3. Ordered
  BY <1>1, ConstantsAssumption, SMTT(30) DEF Ordered
<1>4. NewestWins
  BY <1>1 DEF NewestWins
<1>5. BoundedSize
  BY <1>1, FS_EmptySet, ConstantsAssumption, SMTT(30) DEF BoundedSize
<1> QED BY <1>2, <1>3, <1>4, <1>5 DEF IndInv

\* A chunk that is pushed and accepted.
LEMMA PushInv ==
    ASSUME IndInv, NEW chunk \in Chunks, PushAccept(chunk)
    PROVE  IndInv'
<1> DEFINE M == Merged(chunk)
           D == DOMAIN actions_ \cup Placed(chunk)
<1> USE DEF IndInv
<1>1. chunk \in ChunkType
  BY ConstantsAssumption
<1>2. DOMAIN M = D /\ D \in SUBSET Steps
  BY DEF Merged, Placed, TypeOK
<1>3. Nearest(D) \in SUBSET D
  BY DEF Nearest
<1>4. /\ DOMAIN actions_' = Nearest(D)
      /\ \A s \in Nearest(D) :
            actions_'[s] = IF s \in Placed(chunk) THEN Row(chunk, s) ELSE actions_[s]
  BY <1>2, <1>3 DEF PushAccept, Evicted, Merged
<1>5. /\ latest_request_id_' = chunk.request_id
      /\ latest_request_id_ <= chunk.request_id
      /\ UNCHANGED <<minimum_control_step_, horizon>>
      /\ ret' = [code |-> "ok", step |-> 0, action |-> NoAction]
  BY <1>1, SMTT(30) DEF PushAccept, Larger, Returns, TypeOK, ChunkType
<1>6. \A s \in Steps : newest'[s] = IF Covers(chunk, s) THEN Row(chunk, s) ELSE newest[s]
  BY DEF PushAccept
<1>7. \A s \in Steps : Row(chunk, s) \in BufferedAction /\ Row(chunk, s).request_id = chunk.request_id
  BY RowType DEF Row
\* A buffered step that the chunk covers is placed: nothing buffered is newer.
<1>8. \A s \in DOMAIN actions_ : Covers(chunk, s) => s \in Placed(chunk)
  <2> TAKE s \in DOMAIN actions_
  <2>1. s \in Steps /\ s >= minimum_control_step_
    BY DEF Ordered, TypeOK
  <2>2. actions_[s].request_id <= latest_request_id_ /\ actions_[s] \in BufferedAction
    BY DEF Ordered, TypeOK
  <2>3. actions_[s].request_id <= chunk.request_id
    BY <1>1, <1>5, <2>2, SMTT(30) DEF TypeOK, BufferedAction, ChunkType
  <2> QED BY <2>1, <2>3 DEF Placed
<1>9. TypeOK'
  <2>1. actions_' \in [DOMAIN actions_' -> BufferedAction]
    <3>1. \A s \in Nearest(D) : actions_'[s] \in BufferedAction
      <4> TAKE s \in Nearest(D)
      <4>1. s \in Steps /\ (s \in Placed(chunk) \/ s \in DOMAIN actions_)
        BY <1>2, <1>3
      <4>2. s \in DOMAIN actions_ => actions_[s] \in BufferedAction
        BY DEF TypeOK
      <4> QED BY <1>4, <1>7, <4>1, <4>2
    <3>2. actions_' = [s \in DOMAIN actions_' |-> actions_'[s]]
      BY DEF PushAccept, Evicted
    <3> QED BY <1>4, <3>1, <3>2
  <2>2. newest' \in [Steps -> BufferedAction \cup {NoAction}]
    BY <1>7 DEF PushAccept, TypeOK
  <2>3. ret' \in [code : {"ok", "invalid_argument", "cancelled", "not_ready"},
                  step : Steps, action : BufferedAction \cup {NoAction}]
    BY <1>5, ConstantsAssumption, SMTT(30) DEF Steps
  <2>4. latest_request_id_' \in Nat
    BY <1>1, <1>5 DEF ChunkType
  <2> QED BY <1>2, <1>3, <1>4, <1>5, <2>1, <2>2, <2>3, <2>4 DEF TypeOK
<1>10. Ordered'
  <2>1. \A s \in DOMAIN actions_' :
           s >= minimum_control_step_ /\ actions_'[s].request_id <= chunk.request_id
    <3> TAKE s \in DOMAIN actions_'
    <3>1. CASE s \in Placed(chunk)
      BY <1>1, <1>4, <1>7, <3>1, SMTT(30) DEF Placed, ChunkType
    <3>2. CASE s \notin Placed(chunk)
      <4>1. s \in DOMAIN actions_ /\ actions_'[s] = actions_[s]
        BY <1>3, <1>4, <3>2
      <4>2. actions_[s] \in BufferedAction
        BY <4>1 DEF TypeOK
      <4> QED BY <1>1, <1>5, <4>1, <4>2, SMTT(30) DEF Ordered, TypeOK, BufferedAction, ChunkType
    <3> QED BY <3>1, <3>2
  <2> QED BY <1>5, <2>1 DEF Ordered
<1>11. NewestWins'
  <2>1. \A s \in DOMAIN actions_' : actions_'[s] = newest'[s]
    <3> TAKE s \in DOMAIN actions_'
    <3>1. s \in Steps /\ (s \in Placed(chunk) => Covers(chunk, s))
      BY <1>2, <1>3, <1>4 DEF Placed
    <3>2. s \notin Placed(chunk) => s \in DOMAIN actions_ /\ ~ Covers(chunk, s)
      BY <1>3, <1>4, <1>8
    <3> QED BY <1>4, <1>6, <3>1, <3>2 DEF NewestWins
  <2> QED BY <1>5, <2>1 DEF NewestWins
<1>12. BoundedSize'
  <2>1. IsFiniteSet(Nearest(D)) /\ Cardinality(Nearest(D)) <= MaximumBufferedSteps
    BY <1>2, <1>3, StepsFinite, NearestBounded
  <2> QED BY <1>4, <2>1 DEF BoundedSize
<1> QED BY <1>9, <1>10, <1>11, <1>12

\* pop() preserves the invariant: it only erases, up to the requested step.
LEMMA PopInv ==
    ASSUME IndInv, NEW c \in Steps, pop(c)
    PROVE  IndInv'
<1> DEFINE D == {t \in DOMAIN actions_ : t > c}
<1> USE DEF IndInv
<1>1. /\ DOMAIN actions_' = D
      /\ \A s \in D : s \in Steps /\ actions_'[s] = actions_[s] /\ s > c
      /\ actions_' = [s \in D |-> actions_[s]]
  BY DEF pop, TypeOK
<1>2. /\ minimum_control_step_' = Larger(minimum_control_step_, next_step(c))
      /\ horizon' = Larger(horizon, c)
      /\ UNCHANGED <<latest_request_id_, newest>>
  BY DEF pop
<1>3. /\ next_step(c) \in Steps
      /\ next_step(c) > c \/ (c = MaxU64 /\ next_step(c) = MaxU64)
      /\ \A s \in Steps : s > c => s >= next_step(c)
  BY ConstantsAssumption, SMTT(30) DEF next_step, Steps
<1>4. /\ ret'.step = c /\ ret'.action \in BufferedAction \cup {NoAction}
      /\ ret' \in [code : {"ok", "invalid_argument", "cancelled", "not_ready"},
                   step : Steps, action : BufferedAction \cup {NoAction}]
      /\ ret'.action # NoAction => c \in DOMAIN actions_ /\ ret'.action = actions_[c]
  BY SMTT(30) DEF pop, Returns, TypeOK
<1>5. TypeOK'
  <2>1. minimum_control_step_' \in Steps /\ horizon' \in Steps \cup {-1}
    BY <1>2, <1>3 DEF Larger, TypeOK
  <2> QED BY <1>1, <1>2, <1>4, <2>1 DEF TypeOK
<1>6. Ordered'
  BY <1>1, <1>2, <1>3, ConstantsAssumption, SMTT(30) DEF Ordered, Larger, TypeOK, Steps
<1>7. NewestWins'
  BY <1>1, <1>2, <1>4 DEF NewestWins
<1>8. BoundedSize'
  <2>1. D \in SUBSET DOMAIN actions_
    OBVIOUS
  <2>2. IsFiniteSet(D) /\ Cardinality(D) <= Cardinality(DOMAIN actions_)
    BY <2>1, FS_Subset DEF BoundedSize
  <2>3. Cardinality(D) \in Nat /\ Cardinality(DOMAIN actions_) \in Nat
    BY <2>2, FS_CardinalityType DEF BoundedSize
  <2> QED BY <1>1, <2>2, <2>3, ConstantsAssumption, SMTT(30) DEF BoundedSize
<1> QED BY <1>5, <1>6, <1>7, <1>8

\* clear() preserves the invariant: it returns to the initial state.
LEMMA ClearInv ==
    ASSUME IndInv, clear
    PROVE  IndInv'
<1>1. DOMAIN actions_' = {} /\ actions_' \in [DOMAIN actions_' -> BufferedAction]
  BY DEF clear
<1>2. TypeOK'
  BY <1>1, ConstantsAssumption, SMTT(30) DEF clear, Returns, TypeOK, Steps
<1>3. Ordered'
  BY <1>1, ConstantsAssumption, SMTT(30) DEF clear, Ordered
<1>4. NewestWins'
  BY <1>1 DEF clear, Returns, NewestWins
<1>5. BoundedSize'
  BY <1>1, FS_EmptySet, ConstantsAssumption, SMTT(30) DEF BoundedSize
<1> QED BY <1>2, <1>3, <1>4, <1>5 DEF IndInv

\* A push that is refused changes nothing but the returned status.
LEMMA RefusedInv ==
    ASSUME IndInv,
           UNCHANGED <<actions_, minimum_control_step_, latest_request_id_, newest, horizon>>,
           NEW code \in {"invalid_argument", "cancelled"}, Returns(code, 0, NoAction)
    PROVE  IndInv'
<1> USE DEF IndInv, Returns
<1>1. TypeOK'
  BY ConstantsAssumption, SMTT(30) DEF TypeOK, Steps
<1>2. Ordered' /\ NewestWins' /\ BoundedSize'
  BY DEF Ordered, NewestWins, BoundedSize
<1> QED BY <1>1, <1>2

\* Every operation of the buffer preserves the invariant.
LEMMA NextInv == IndInv /\ [Next]_vars => IndInv'
<1> SUFFICES ASSUME IndInv, [Next]_vars PROVE IndInv'
  OBVIOUS
<1>1. ASSUME NEW chunk \in Chunks, PushInvalid(chunk) PROVE IndInv'
  BY <1>1, RefusedInv DEF PushInvalid
<1>2. ASSUME NEW chunk \in Chunks, PushStale(chunk) PROVE IndInv'
  BY <1>2, RefusedInv DEF PushStale
<1>3. ASSUME NEW chunk \in Chunks, PushAccept(chunk) PROVE IndInv'
  BY <1>3, PushInv
<1>4. ASSUME NEW c \in Steps, pop(c) PROVE IndInv'
  BY <1>4, PopInv
<1>5. CASE clear
  BY <1>5, ClearInv
<1>6. CASE UNCHANGED vars
  BY <1>6 DEF vars, IndInv, TypeOK, Ordered, NewestWins, BoundedSize
<1> QED BY <1>1, <1>2, <1>3, <1>4, <1>5, <1>6 DEF Next, push

\* The invariant holds after any sequence of push(), pop() and clear().
LEMMA Invariance == Spec => []IndInv
BY InitInv, NextInv, PTL DEF Spec

\* push(), pop() and clear() keep every member within its type: in particular
\* minimum_control_step_ never leaves the 64-bit range.
THEOREM BufferTypeCorrect == Spec => []TypeOK
<1>1. IndInv => TypeOK
  BY DEF IndInv
<1> QED BY <1>1, Invariance, PTL

\* Newest-chunk-wins merging, for any number of chunks and any capacity: what is
\* buffered for a step, and what pop() returns, is the last accepted word on it.
THEOREM NewestChunkWins == Spec => []NewestWins
<1>1. IndInv => NewestWins
  BY DEF IndInv
<1> QED BY <1>1, Invariance, PTL

\* Once pop() was called for a step, no action at or before it is buffered again
\* until clear(), whatever chunk is pushed late.
THEOREM NoStepComesBack == Spec => []NothingRequestedReturns
<1>1. IndInv => NothingRequestedReturns
  <2> SUFFICES ASSUME IndInv, NEW s \in DOMAIN actions_ PROVE s > horizon \/ s = MaxU64
    BY DEF NothingRequestedReturns
  <2>1. s \in Steps /\ s >= minimum_control_step_ /\ minimum_control_step_ \in Steps
    BY DEF IndInv, TypeOK, Ordered
  <2>2. /\ horizon = MaxU64 => minimum_control_step_ = MaxU64
        /\ horizon # MaxU64 => minimum_control_step_ > horizon
        /\ horizon \in Steps \cup {-1}
    BY DEF IndInv, TypeOK, Ordered
  <2> QED BY <2>1, <2>2, ConstantsAssumption, SMTT(30) DEF Steps
<1> QED BY <1>1, Invariance, PTL

\* The trailing loop of push() keeps the map within maximum_buffered_steps_.
THEOREM SizeBounded == Spec => []BoundedSize
<1>1. IndInv => BoundedSize
  BY DEF IndInv
<1> QED BY <1>1, Invariance, PTL

\* push() evicts only from the far end of the horizon: no step that is dropped
\* is due before one that stays.
THEOREM FarEndEvicted == Spec => EvictsFurthest
<1> DEFINE Evicts == horizon' = horizon =>
                        \A s \in DOMAIN actions_ \ DOMAIN actions_' :
                            \A t \in DOMAIN actions_' : t < s
<1>1. IndInv /\ [Next]_vars => [Evicts]_vars
  <2> SUFFICES ASSUME IndInv, Next, horizon' = horizon,
                      NEW s \in DOMAIN actions_ \ DOMAIN actions_',
                      NEW t \in DOMAIN actions_'
               PROVE  t < s
    OBVIOUS
  <2>1. ASSUME NEW chunk \in Chunks, PushInvalid(chunk) \/ PushStale(chunk) PROVE FALSE
    BY <2>1 DEF PushInvalid, PushStale
  <2>2. ASSUME NEW chunk \in Chunks, PushAccept(chunk) PROVE t < s
    <3> DEFINE D == DOMAIN actions_ \cup Placed(chunk)
    <3>1. DOMAIN actions_' = Nearest(D) /\ D \in SUBSET Steps
      BY <2>2 DEF PushAccept, Evicted, Merged, Placed, IndInv, TypeOK
    <3>2. s \in D \ Nearest(D) /\ t \in Nearest(D)
      BY <3>1
    <3> QED BY <3>1, <3>2, NearestFirst
  <2>3. ASSUME NEW c \in Steps, pop(c) PROVE FALSE
    <3>1. /\ s \in Steps /\ t \in Steps /\ t > c /\ ~ (s > c)
          /\ Larger(horizon, c) = horizon
      BY <2>3 DEF pop, IndInv, TypeOK
    <3>2. /\ s >= minimum_control_step_ /\ minimum_control_step_ \in Steps
          /\ horizon = MaxU64 => minimum_control_step_ = MaxU64
          /\ horizon # MaxU64 => minimum_control_step_ > horizon
          /\ horizon \in Steps \cup {-1}
      BY DEF IndInv, TypeOK, Ordered
    <3> QED BY <3>1, <3>2, ConstantsAssumption, SMTT(30) DEF Steps, Larger
  <2>4. CASE clear
    BY <2>4 DEF clear
  <2> QED BY <2>1, <2>2, <2>3, <2>4 DEF Next, push
<1> QED BY <1>1, Invariance, PTL DEF Spec, EvictsFurthest

-----------------------------------------------------------------------------
(* The graph                                                               *)

Deps(n) == graph.dependencies[n]

\* While nodes are visited: in-degrees count the dependencies that are still to
\* be visited, ready holds exactly the unvisited nodes without any, the visited
\* nodes are closed under dependencies, and no set of nodes that wait for each
\* other contains a visited one.
Visiting ==
    /\ WellFormed(graph)
    /\ \A n \in Ids(graph) : indegree[n] = Cardinality(Deps(n) \ seen)
    /\ ready = {n \in Ids(graph) \ seen : Deps(n) \subseteq seen}
    /\ \A n \in seen : Deps(n) \subseteq seen
    /\ visited = Cardinality(seen)
    /\ \A S \in SUBSET Ids(graph) : Trapped(graph, S) => S \cap seen = {}

\* Before: the nodes scanned so far are well formed and counted.
Scanning ==
    /\ seen = {} /\ visited = 0
    /\ \A n \in Ids(graph) : n < scanned =>
          ~ Malformed(graph, n) /\ indegree[n] = Cardinality(Deps(n))

GraphInv ==
    /\ GraphTypeOK
    /\ phase = "scan" => Scanning
    /\ phase = "visit" => Visiting
    /\ ValidatesExactly

-----------------------------------------------------------------------------

\* Node ids and dependency lists are finite sets.
LEMMA GraphFacts ==
    ASSUME GraphTypeOK
    PROVE  /\ graph.size \in Nat
           /\ IsFiniteSet(Ids(graph)) /\ Cardinality(Ids(graph)) = graph.size
           /\ \A n \in Ids(graph) : IsFiniteSet(Deps(n))
<1>1. graph.size \in Nat /\ \A n \in Ids(graph) : IsFiniteSet(Deps(n))
  BY GraphsAssumption DEF GraphTypeOK, Deps
<1>2. /\ IsFiniteSet(0..(graph.size - 1))
      /\ Cardinality(0..(graph.size - 1)) =
            IF 0 > graph.size - 1 THEN 0 ELSE (graph.size - 1) - 0 + 1
  <2>1. 0 \in Int /\ graph.size - 1 \in Int
    BY <1>1, SMTT(30)
  <2> QED BY <2>1, FS_Interval
<1> QED BY <1>1, <1>2, SMTT(30) DEF Ids

\* validate() starts with nothing scanned.
LEMMA InitGraph == ValidateInit => GraphInv
<1> SUFFICES ASSUME ValidateInit PROVE GraphInv
  OBVIOUS
<1>1. GraphTypeOK
  BY GraphsAssumption, SMTT(30) DEF ValidateInit, GraphTypeOK, Ids
<1>2. Scanning
  BY <1>1, GraphFacts, SMTT(30) DEF ValidateInit, Scanning, Ids
<1> QED BY <1>1, <1>2 DEF ValidateInit, GraphInv, ValidatesExactly

\* validate() refuses only malformed graphs in its first loop.
LEMMA RejectGraph == GraphInv /\ Reject => GraphInv'
<1> SUFFICES ASSUME GraphInv, Reject PROVE GraphInv'
  OBVIOUS
<1>1. GraphTypeOK'
  BY DEF GraphInv, GraphTypeOK, Reject
<1>2. scanned \in Ids(graph)
  BY GraphFacts, SMTT(30) DEF GraphInv, GraphTypeOK, Reject, Ids
<1>3. ~ Valid(graph)
  BY <1>2 DEF Reject, Valid, WellFormed
<1> QED BY <1>1, <1>3 DEF GraphInv, Reject, ValidatesExactly

\* The first loop counts the dependencies of the node it accepts.
LEMMA ScanGraph == GraphInv /\ Scan => GraphInv'
<1> SUFFICES ASSUME GraphInv, Scan PROVE GraphInv'
  OBVIOUS
<1>1. /\ scanned \in Ids(graph) /\ scanned \in Nat /\ graph.size \in Nat
      /\ Cardinality(Deps(scanned)) \in Nat
  BY GraphFacts, FS_CardinalityType, SMTT(30) DEF GraphInv, GraphTypeOK, Scan, Ids
<1>2. GraphTypeOK'
  BY <1>1, SMTT(30) DEF GraphInv, GraphTypeOK, Scan, Deps
<1>3. Scanning'
  <2> SUFFICES ASSUME NEW n \in Ids(graph), n < scanned + 1
               PROVE  ~ Malformed(graph, n) /\ indegree'[n] = Cardinality(Deps(n))
    BY DEF GraphInv, Scanning, Scan, Deps
  <2>1. n < scanned \/ n = scanned
    BY <1>1, SMTT(30) DEF Ids
  <2> QED BY <2>1, <1>1 DEF GraphInv, GraphTypeOK, Scanning, Scan, Deps
<1> QED BY <1>2, <1>3 DEF GraphInv, Scan, ValidatesExactly

\* The nodes of in-degree zero are the ones that may be visited first.
LEMMA SeedGraph == GraphInv /\ Seed => GraphInv'
<1> SUFFICES ASSUME GraphInv, Seed PROVE GraphInv'
  OBVIOUS
<1>1. GraphTypeOK'
  BY DEF GraphInv, GraphTypeOK, Seed
<1>2. /\ seen = {} /\ visited = 0 /\ graph.size \in Nat
      /\ \A n \in Ids(graph) : ~ Malformed(graph, n) /\ indegree[n] = Cardinality(Deps(n))
  BY GraphFacts, SMTT(30) DEF GraphInv, Seed, Scanning, Ids
<1>3. \A n \in Ids(graph) : indegree[n] = 0 <=> Deps(n) = {}
  BY <1>2, GraphFacts, FS_EmptySet DEF GraphInv
<1>4. Visiting'
  <2>1. WellFormed(graph)
    BY <1>2 DEF WellFormed
  <2>2. \A n \in Ids(graph) : indegree[n] = Cardinality(Deps(n) \ seen)
    <3>1. \A n \in Ids(graph) : Deps(n) \ seen = Deps(n)
      BY <1>2
    <3> QED BY <1>2, <3>1
  <2>3. ready' = {n \in Ids(graph) \ seen : Deps(n) \subseteq seen}
    BY <1>2, <1>3 DEF Seed
  <2>4. visited = Cardinality(seen)
    BY <1>2, FS_EmptySet
  <2> QED BY <1>2, <2>1, <2>2, <2>3, <2>4 DEF Visiting, Seed, Deps
<1> QED BY <1>1, <1>4 DEF GraphInv, Seed, ValidatesExactly

\* A visit releases exactly the nodes that only waited for the visited one; none
\* of them was released before.
LEMMA ReleasedExactly ==
    ASSUME GraphTypeOK, Visiting, NEW id \in ready
    PROVE  /\ id \in Ids(graph) /\ id \notin seen /\ Deps(id) \subseteq seen
           /\ Released(id) = {n \in Ids(graph) : id \in Deps(n) /\ Deps(n) \subseteq seen \cup {id}}
           /\ Released(id) \cap (ready \cup seen \cup {id}) = {}
<1>1. id \in Ids(graph) /\ id \notin seen /\ Deps(id) \subseteq seen
  BY DEF Visiting
<1>2. ASSUME NEW n \in Ids(graph), id \in Deps(n)
      PROVE  indegree[n] = 1 <=> Deps(n) \subseteq seen \cup {id}
  <2> DEFINE Open == Deps(n) \ seen
  <2>1. IsFiniteSet(Open) /\ indegree[n] = Cardinality(Open) /\ id \in Open
    BY <1>1, <1>2, GraphFacts, FS_Subset DEF Visiting
  <2>2. Cardinality(Open) = 1 <=> Open = {id}
    BY <2>1, FS_Singleton, SMTT(30)
  <2>3. Open = {id} <=> Deps(n) \subseteq seen \cup {id}
    BY <2>1
  <2> QED BY <2>1, <2>2, <2>3
<1>3. Released(id) = {n \in Ids(graph) : id \in Deps(n) /\ Deps(n) \subseteq seen \cup {id}}
  BY <1>2 DEF Released, Children, Deps
<1>4. \A n \in Ids(graph) : id \in Deps(n) => n \notin ready \cup seen \cup {id}
  BY <1>1 DEF Visiting
<1> QED BY <1>1, <1>3, <1>4

\* One turn of the visiting loop preserves the invariant.
LEMMA VisitGraph == \A id \in ready : GraphInv /\ Visit(id) => GraphInv'
<1> SUFFICES ASSUME NEW id \in ready, GraphInv, Visit(id) PROVE GraphInv'
  OBVIOUS
<1>1. Visiting /\ GraphTypeOK /\ phase' = "visit"
  BY DEF GraphInv, Visit
<1>2. /\ id \in Ids(graph) /\ id \notin seen /\ Deps(id) \subseteq seen
      /\ Released(id) = {n \in Ids(graph) : id \in Deps(n) /\ Deps(n) \subseteq seen \cup {id}}
      /\ Released(id) \cap (ready \cup seen \cup {id}) = {}
  BY <1>1, ReleasedExactly
<1>3. seen' = seen \cup {id} /\ seen \subseteq Ids(graph) /\ graph' = graph
  BY <1>1 DEF Visit, GraphTypeOK
<1>4. \A n \in Ids(graph) : indegree'[n] = Cardinality(Deps(n) \ seen')
  <2> TAKE n \in Ids(graph)
  <2>1. IsFiniteSet(Deps(n) \ seen)
    BY <1>1, GraphFacts, FS_Subset
  <2>2. Deps(n) \ seen' = (Deps(n) \ seen) \ {id}
    BY <1>3
  <2>3. Cardinality((Deps(n) \ seen) \ {id}) =
           IF id \in Deps(n) THEN Cardinality(Deps(n) \ seen) - 1
           ELSE Cardinality(Deps(n) \ seen)
    BY <1>2, <2>1, FS_RemoveElement
  <2>4. indegree'[n] = IF id \in Deps(n) THEN indegree[n] - 1 ELSE indegree[n]
    BY DEF Visit, Children, Deps
  <2> QED BY <1>1, <2>2, <2>3, <2>4 DEF Visiting
<1>5. \A n \in Ids(graph) : Cardinality(Deps(n) \ seen') \in Nat
  <2> TAKE n \in Ids(graph)
  <2>1. IsFiniteSet(Deps(n) \ seen')
    BY <1>1, GraphFacts, FS_Subset
  <2> QED BY <2>1, FS_CardinalityType
<1>6. ready' = {n \in Ids(graph) \ seen' : Deps(n) \subseteq seen'}
  <2>1. ready' = (ready \ {id}) \cup Released(id)
    BY DEF Visit
  <2>2. ready = {n \in Ids(graph) \ seen : Deps(n) \subseteq seen}
    BY <1>1 DEF Visiting
  <2>3. ASSUME NEW n \in Ids(graph)
        PROVE  n \in (ready \ {id}) \cup Released(id) <=> n \notin seen' /\ Deps(n) \subseteq seen'
    <3>1. CASE id \in Deps(n)
      BY <1>2, <1>3, <2>2, <3>1
    <3>2. CASE id \notin Deps(n)
      BY <1>2, <1>3, <2>2, <3>2
    <3> QED BY <3>1, <3>2
  <2>4. (ready \ {id}) \cup Released(id) \subseteq Ids(graph)
    BY <1>2, <2>2
  <2> QED BY <2>1, <2>3, <2>4
<1>7. visited' = Cardinality(seen') /\ visited' \in Nat
  <2>1. IsFiniteSet(seen)
    BY <1>1, <1>3, GraphFacts, FS_Subset
  <2>2. Cardinality(seen \cup {id}) = Cardinality(seen) + 1 /\ Cardinality(seen) \in Nat
    BY <1>2, <2>1, FS_AddElement, FS_CardinalityType
  <2> QED BY <1>1, <1>3, <2>2, SMTT(30) DEF Visiting, Visit
<1>8. \A S \in SUBSET Ids(graph) : Trapped(graph, S) => S \cap seen' = {}
  <2> SUFFICES ASSUME NEW S \in SUBSET Ids(graph), Trapped(graph, S) PROVE S \cap seen' = {}
    OBVIOUS
  <2>1. S \cap seen = {}
    BY <1>1 DEF Visiting
  <2>2. id \notin S
    BY <1>2, <2>1 DEF Trapped, Deps
  <2> QED BY <1>3, <2>1, <2>2
<1>9. Visiting'
  <2>1. WellFormed(graph) /\ \A n \in seen' : Deps(n) \subseteq seen'
    BY <1>1, <1>2, <1>3 DEF Visiting
  <2> QED BY <1>3, <1>4, <1>6, <1>7, <1>8, <2>1 DEF Visiting, Deps
<1>10. GraphTypeOK'
  <2>1. indegree' \in [Ids(graph) -> Nat]
    <3>1. indegree' = [n \in Ids(graph) |-> indegree'[n]]
      BY DEF Visit
    <3> QED BY <1>4, <1>5, <3>1
  <2>2. ready' \subseteq Ids(graph) /\ seen' \subseteq Ids(graph)
    BY <1>2, <1>3, <1>6
  <2> QED BY <1>1, <1>3, <1>7, <2>1, <2>2 DEF GraphTypeOK, Visit
<1> QED BY <1>1, <1>9, <1>10 DEF GraphInv, ValidatesExactly

\* When ready is empty, all nodes were visited or the others wait for each other.
LEMMA FinishGraph == GraphInv /\ Finish => GraphInv'
<1> SUFFICES ASSUME GraphInv, Finish PROVE GraphInv'
  OBVIOUS
<1>1. Visiting /\ GraphTypeOK /\ ready = {}
  BY DEF GraphInv, Finish, Drained
<1>2. visited = graph.size <=> seen = Ids(graph)
  <2>1. seen \in SUBSET Ids(graph)
    BY <1>1 DEF GraphTypeOK
  <2> QED BY <1>1, <2>1, GraphFacts, FS_Subset DEF Visiting
<1>3. ASSUME seen = Ids(graph) PROVE Valid(graph)
  BY <1>1, <1>3 DEF Visiting, Valid, Acyclic, Trapped
<1>4. ASSUME seen # Ids(graph) PROVE ~ Valid(graph)
  <2> DEFINE S == Ids(graph) \ seen
  <2>1. S # {} /\ S \in SUBSET Ids(graph)
    BY <1>1, <1>4 DEF GraphTypeOK
  <2>2. \A n \in S : Deps(n) \cap S # {}
    <3> TAKE n \in S
    <3>1. ~ (Deps(n) \subseteq seen) /\ Deps(n) \subseteq Ids(graph)
      BY <1>1 DEF Visiting, WellFormed, Malformed, Deps
    <3> QED BY <3>1
  <2> QED BY <2>1, <2>2 DEF Valid, Acyclic, Trapped, Deps
<1>5. status' = "ok" <=> Valid(graph)
  BY <1>2, <1>3, <1>4 DEF Finish, Verdict
<1>6. GraphTypeOK'
  BY <1>1 DEF GraphTypeOK, Finish, Verdict
<1> QED BY <1>5, <1>6 DEF GraphInv, Finish, ValidatesExactly

\* Every step of validate() preserves the invariant.
LEMMA NextGraph == GraphInv /\ [ValidateNext]_graphVars => GraphInv'
<1> SUFFICES ASSUME GraphInv, [ValidateNext]_graphVars PROVE GraphInv'
  OBVIOUS
<1>1. CASE UNCHANGED graphVars
  BY <1>1 DEF graphVars, GraphInv, GraphTypeOK, Scanning, Visiting, ValidatesExactly,
     Deps
<1> QED BY <1>1, RejectGraph, ScanGraph, SeedGraph, VisitGraph, FinishGraph DEF ValidateNext

\* The invariant holds throughout validate().
LEMMA GraphInvariance == ValidateSpec => []GraphInv
BY InitGraph, NextGraph, PTL DEF ValidateSpec

\* No in-degree underflows and every index stays in range while validate() runs.
THEOREM GraphTypeCorrect == ValidateSpec => []GraphTypeOK
<1>1. GraphInv => GraphTypeOK
  BY DEF GraphInv
<1> QED BY <1>1, GraphInvariance, PTL

\* validate() accepts a graph exactly when every dependency is in range and listed
\* once and there is no dependency cycle, for graphs of every size.
THEOREM ValidateIsExact == ValidateSpec => []ValidatesExactly
<1>1. GraphInv => ValidatesExactly
  BY DEF GraphInv
<1> QED BY <1>1, GraphInvariance, PTL

\* No node enters the ready queue twice, so the counter that decides the verdict
\* counts nodes.
THEOREM NodesPushedOnce == ValidateSpec => []PushedOnce
<1>1. GraphInv => PushedOnce
  <2> SUFFICES ASSUME GraphInv, phase = "visit" PROVE PushedOnce
    BY DEF PushedOnce
  <2>1. visited = Cardinality(seen)
    BY DEF GraphInv, Visiting
  <2>2. \A id \in ready : Released(id) \cap (ready \cup seen) = {}
    BY ReleasedExactly DEF GraphInv
  <2> QED BY <2>1, <2>2 DEF PushedOnce
<1> QED BY <1>1, GraphInvariance, PTL

-----------------------------------------------------------------------------
(* The link of a backend that forwards                                     *)

Messages == [type : {"hello", "actions", "error"}, id : Nat]
Links == [up : BOOLEAN, out : Seq(Nat), unread : Seq(Messages), greeted : BOOLEAN,
          awaiting : BOOLEAN]
Infers == [id : Nat, pc : {"connect", "hello", "send", "recv"}]

LinkTypeOK ==
    /\ kind \in {"websocket", "tcp", "zmq"}
    /\ persistent \in BOOLEAN
    /\ link \in Links \cup {None}
    /\ infer \in Infers \cup {None}
    /\ infers \in Nat

Clear(l) == l.out = <<>> /\ l.unread = <<>>

\* There is at most one message on a link, the question id or its answer.
Only(l, id) ==
    /\ Len(l.out) + Len(l.unread) <= 1
    /\ l.out # <<>> => l.out[1] = id
    /\ l.unread # <<>> => l.unread[1].id = id

\* Only a WebSocket can be without a greeting, only a REQ socket waits.
Kinds ==
    link # None => /\ ~ link.greeted => kind = "websocket"
                   /\ link.awaiting => kind = "zmq"

\* A call beyond "connect" has a link; one that waits for hello has just opened it.
CallPlaced ==
    infer # None => /\ infer.pc # "connect" => link # None
                    /\ infer.pc = "hello" => link.out = <<>> /\ Len(link.unread) <= 1
                    /\ infer.pc = "recv" /\ kind = "zmq" => link.awaiting

\* Between two calls a greeted link is clear, except a REQ socket that cannot send.
AnswersOrdered ==
    link # None /\ link.greeted => \/ Clear(link)
                                   \/ At("recv") /\ Only(link, infer.id)
                                   \/ ~ At("recv") /\ link.awaiting

UpstreamInv == LinkTypeOK /\ Kinds /\ CallPlaced /\ AnswersOrdered /\ OwnAnswer

\* What a call may leave behind: nothing, a clear link, or one that refuses to send.
Leavable(l) ==
    l # None => /\ l \in Links
                /\ ~ l.greeted => kind = "websocket"
                /\ l.awaiting => kind = "zmq"
                /\ l.greeted => Clear(l) \/ l.awaiting

NoneIsNew == None \notin Links \cup Infers

-----------------------------------------------------------------------------

LEMMA OneLeft ==
    /\ \A n \in Nat \ {0} : n <= 1 => n = 1
    /\ \A m \in Nat, n \in Nat \ {0} : m + n <= 1 => m = 0 /\ n = 1
    /\ \A m \in Nat \ {0}, n \in Nat : m + n <= 1 => m = 1 /\ n = 0
BY SMTT(30)

LEMMA EndInv ==
    ASSUME UpstreamInv, NEW l, Leavable(l), EndWith(l), OwnAnswer'
    PROVE  UpstreamInv'
<1>1. link' \in {l, None} /\ infer' = None /\ UNCHANGED <<kind, persistent, infers>>
  BY DEF EndWith
<1>2. LinkTypeOK' /\ Kinds' /\ CallPlaced' /\ AnswersOrdered'
  BY <1>1 DEF UpstreamInv, LinkTypeOK, Kinds, CallPlaced, AnswersOrdered, Leavable,
     At, Clear
<1> QED BY <1>2 DEF UpstreamInv

\* A call that raises answers nobody.
LEMMA RaiseInv ==
    ASSUME UpstreamInv, NEW l, Leavable(l), Raise(l)
    PROVE  UpstreamInv'
<1>1. OwnAnswer'
  BY DEF UpstreamInv, OwnAnswer, Raise, EndWith
<1> QED BY <1>1, EndInv DEF Raise

\* Whoever does not wait for an answer can leave the link as it is.
LEMMA LinkLeavable ==
    ASSUME UpstreamInv, ~ At("recv") \/ link = None
    PROVE  Leavable(link)
BY DEF UpstreamInv, LinkTypeOK, Kinds, AnswersOrdered, Leavable

LEMMA BeginInv == UpstreamInv /\ Begin => UpstreamInv'
<1> SUFFICES ASSUME UpstreamInv, Begin PROVE UpstreamInv'
  OBVIOUS
<1>1. infer' \in Infers /\ infer'.pc = "connect" /\ infers' \in Nat
  BY SMTT(30) DEF UpstreamInv, LinkTypeOK, Begin, Infers
<1>2. ~ At("recv") /\ ~ At("recv")'
  BY <1>1 DEF At, Begin
<1>3. link' = link /\ kind' = kind /\ persistent' = persistent /\ answer' = answer
  BY DEF Begin
<1> QED
  BY <1>1, <1>2, <1>3 DEF UpstreamInv, LinkTypeOK, Kinds, CallPlaced, AnswersOrdered,
     OwnAnswer, Clear

\* A new link has at most the hello on it.
LEMMA ConnectInv == NoneIsNew /\ UpstreamInv /\ Connect => UpstreamInv'
<1> SUFFICES ASSUME NoneIsNew, UpstreamInv, Connect PROVE UpstreamInv'
  OBVIOUS
<1>1. /\ NewLink \in Links /\ NewLink.out = <<>> /\ ~ NewLink.awaiting
      /\ NewLink.greeted <=> kind # "websocket"
      /\ NewLink.greeted => NewLink.unread = <<>>
      /\ Len(NewLink.unread) <= 1
  <2>1. Message("hello", 0) \in Messages
    BY DEF Message, Messages
  <2>2. <<Message("hello", 0)>> \in Seq(Messages) /\ Len(<<Message("hello", 0)>>) = 1
    BY <2>1, SMTT(30)
  <2>3. <<>> \in Seq(Messages) /\ <<>> \in Seq(Nat) /\ Len(<<>>) = 0
    BY SeqEmpty
  <2>4. CASE kind = "websocket"
    <3>1. NewLink = [up |-> TRUE, out |-> <<>>, unread |-> <<Message("hello", 0)>>,
                     greeted |-> FALSE, awaiting |-> FALSE]
      BY <2>4, (kind # "websocket") = FALSE DEF NewLink
    <3> QED BY <2>2, <2>3, <2>4, <3>1, SMTT(30) DEF Links
  <2>5. CASE kind # "websocket"
    <3>1. NewLink = [up |-> TRUE, out |-> <<>>, unread |-> <<>>,
                     greeted |-> TRUE, awaiting |-> FALSE]
      BY <2>5, (kind # "websocket") = TRUE DEF NewLink
    <3> QED BY <2>3, <2>5, <3>1, SMTT(30) DEF Links
  <2> QED BY <2>4, <2>5
<1>2. /\ infer \in Infers /\ infer.pc = "connect" /\ infer # None
      /\ infer' \in Infers /\ infer' # None
      /\ infer'.pc = IF link = None /\ kind = "websocket" THEN "hello" ELSE "send"
  BY DEF NoneIsNew, UpstreamInv, LinkTypeOK, Connect, At, Goto, Infers
<1>3. /\ link' = IF link = None THEN NewLink ELSE link
      /\ UNCHANGED <<kind, persistent, infers, answer>>
  BY DEF Connect
<1>4. link' \in Links /\ link' # None
  BY <1>1, <1>3 DEF NoneIsNew, UpstreamInv, LinkTypeOK
<1>5. LinkTypeOK' /\ Kinds' /\ OwnAnswer'
  BY <1>1, <1>2, <1>3, <1>4 DEF UpstreamInv, LinkTypeOK, Kinds, OwnAnswer
<1>6. CallPlaced'
  BY <1>1, <1>2, <1>3, <1>4 DEF CallPlaced
<1>7. AnswersOrdered'
  BY <1>1, <1>2, <1>3 DEF UpstreamInv, AnswersOrdered, At, Clear
<1> QED BY <1>5, <1>6, <1>7 DEF UpstreamInv

\* Reading the hello leaves a new link clear.
LEMMA GreetedClear ==
    ASSUME UpstreamInv, At("hello"), link.unread # <<>>
    PROVE  /\ link \in Links /\ link # None /\ Greeted \in Links /\ Clear(Greeted)
           /\ Greeted.greeted /\ Greeted.awaiting = link.awaiting
<1>1. /\ link \in Links /\ link # None /\ link.out = <<>> /\ Len(link.unread) <= 1
      /\ link.unread \in Seq(Messages)
  BY DEF UpstreamInv, LinkTypeOK, CallPlaced, At, Links
<1>2. Tail(link.unread) \in Seq(Messages) /\ Len(Tail(link.unread)) = 0
  <2>1. Len(link.unread) \in Nat \ {0}
    BY <1>1, SeqEmpty
  <2>2. Tail(link.unread) \in Seq(Messages) /\ Len(Tail(link.unread)) = Len(link.unread) - 1
    BY <1>1, SeqHeadTail
  <2>3. Len(link.unread) <= 1
    BY <1>1
  <2>4. Len(link.unread) = 1
    BY <2>1, <2>3, OneLeft
  <2> QED BY <2>2, <2>4, SMTT(30)
<1>3. Tail(link.unread) = <<>>
  BY <1>2, SeqEmpty
<1> QED BY <1>1, <1>2, <1>3 DEF Greeted, Links, Clear

LEMMA HelloInv == NoneIsNew /\ UpstreamInv /\ (HelloFails \/ HelloRefused \/ ReceiveHello) => UpstreamInv'
<1> SUFFICES ASSUME NoneIsNew, UpstreamInv, HelloFails \/ HelloRefused \/ ReceiveHello
             PROVE  UpstreamInv'
  OBVIOUS
<1>1. CASE HelloFails
  BY <1>1, RaiseInv, LinkLeavable DEF HelloFails, At
<1>2. CASE HelloRefused
  <2>1. Leavable(Greeted)
    BY <1>2, GreetedClear DEF HelloRefused, Leavable, UpstreamInv, Kinds
  <2> QED BY <1>2, <2>1, RaiseInv DEF HelloRefused
<1>3. CASE ReceiveHello
  <2>1. /\ link' \in Links /\ link' # None /\ Clear(link') /\ link'.greeted
        /\ link'.awaiting => kind = "zmq"
    BY <1>3, GreetedClear DEF ReceiveHello, NoneIsNew, UpstreamInv, Kinds
  <2>2. infer' \in Infers /\ infer'.pc = "send" /\ UNCHANGED <<kind, persistent, infers, answer>>
    BY <1>3 DEF ReceiveHello, UpstreamInv, LinkTypeOK, At, Goto, Infers
  <2>3. LinkTypeOK' /\ Kinds' /\ CallPlaced' /\ OwnAnswer'
    BY <2>1, <2>2 DEF UpstreamInv, LinkTypeOK, Kinds, CallPlaced, OwnAnswer
  <2>4. AnswersOrdered'
    BY <2>1 DEF AnswersOrdered
  <2> QED BY <2>3, <2>4 DEF UpstreamInv
<1> QED BY <1>1, <1>2, <1>3

-----------------------------------------------------------------------------
(* A question and its answer *)

\* Only a REQ socket fails to send and keeps what it has.
LEMMA SendFailsInv == UpstreamInv /\ (ConnectFails \/ NoTokens \/ SendFails) => UpstreamInv'
<1> SUFFICES ASSUME UpstreamInv, ConnectFails \/ NoTokens \/ SendFails PROVE UpstreamInv'
  OBVIOUS
<1>1. CASE ConnectFails
  BY <1>1, RaiseInv DEF ConnectFails, Leavable
<1>2. CASE NoTokens
  BY <1>2, RaiseInv, LinkLeavable DEF NoTokens, At
<1>3. CASE SendFails
  <2>1. Leavable(link) /\ Leavable(None)
    BY <1>3, LinkLeavable DEF SendFails, At, Leavable
  <2> QED BY <1>3, <2>1, RaiseInv DEF SendFails, AfterFailure
<1> QED BY <1>1, <1>2, <1>3

\* The question goes out on a clear link, or on one that was never greeted.
LEMMA SendInv == NoneIsNew /\ UpstreamInv /\ Send => UpstreamInv'
<1> SUFFICES ASSUME NoneIsNew, UpstreamInv, Send PROVE UpstreamInv'
  OBVIOUS
<1>1. /\ infer \in Infers /\ infer # None /\ infer.pc = "send" /\ infer.id \in Nat
      /\ link \in Links /\ link # None /\ ~ link.awaiting
      /\ link.out \in Seq(Nat) /\ link.unread \in Seq(Messages)
  BY DEF UpstreamInv, LinkTypeOK, CallPlaced, Send, At, Infers, Links
<1>2. Append(link.out, infer.id) \in Seq(Nat)
  BY <1>1, SeqAppend
<1>3. /\ link' \in Links /\ link' # None
      /\ link'.out = Append(link.out, infer.id) /\ link'.unread = link.unread
      /\ link'.greeted = link.greeted /\ link'.awaiting = (kind = "zmq")
  BY <1>1, <1>2 DEF Send, Links, NoneIsNew
<1>4. /\ infer' \in Infers /\ infer' # None /\ infer'.pc = "recv" /\ infer'.id = infer.id
      /\ UNCHANGED <<kind, persistent, infers, answer>>
  BY <1>1 DEF Send, Goto, Infers, NoneIsNew
<1>5. LinkTypeOK' /\ Kinds' /\ CallPlaced' /\ OwnAnswer'
  BY <1>1, <1>3, <1>4 DEF UpstreamInv, LinkTypeOK, Kinds, CallPlaced, OwnAnswer
<1>6. ASSUME link.greeted PROVE At("recv")' /\ Only(link', infer'.id)
  <2>1. link.out = <<>> /\ link.unread = <<>>
    BY <1>1, <1>6 DEF UpstreamInv, AnswersOrdered, At, Clear
  <2>2. link'.out = <<infer.id>> /\ link'.unread = <<>>
    BY <1>1, <1>3, <2>1, SMTT(30)
  <2> QED BY <1>4, <2>2, SMTT(30) DEF At, Only
<1>7. AnswersOrdered'
  BY <1>3, <1>6 DEF AnswersOrdered
<1> QED BY <1>5, <1>7 DEF UpstreamInv

LEMMA RecvFailsInv == UpstreamInv /\ RecvFails => UpstreamInv'
<1> SUFFICES ASSUME UpstreamInv, RecvFails PROVE UpstreamInv'
  OBVIOUS
<1>1. kind = "zmq" => Leavable(link)
  BY DEF UpstreamInv, LinkTypeOK, Kinds, CallPlaced, RecvFails, At, Leavable
<1>2. Leavable(None)
  BY DEF Leavable
<1> QED BY <1>1, <1>2, RaiseInv DEF RecvFails, AfterFailure

\* On a greeted link what is read is the answer to the question, and the last message.
LEMMA ReceivedClear ==
    ASSUME UpstreamInv, At("recv"), link.unread # <<>>
    PROVE  /\ Leavable(Received)
           /\ link.greeted => Head(link.unread).id = infer.id
           /\ ~ link.greeted => kind = "websocket"
<1>1. /\ link \in Links /\ link # None /\ link.unread \in Seq(Messages) /\ link.out \in Seq(Nat)
      /\ ~ link.greeted => kind = "websocket"
  BY DEF UpstreamInv, LinkTypeOK, CallPlaced, Kinds, At, Links
<1>2. /\ Tail(link.unread) \in Seq(Messages) /\ Head(link.unread) = link.unread[1]
      /\ Len(Tail(link.unread)) = Len(link.unread) - 1
  BY <1>1, SeqHeadTail, SMTT(30)
<1>3. /\ Received \in Links /\ Received.out = link.out /\ Received.unread = Tail(link.unread)
      /\ Received.greeted = link.greeted /\ ~ Received.awaiting
  BY <1>1, <1>2 DEF Received, Links
<1>4. ASSUME link.greeted PROVE Only(link, infer.id)
  BY <1>1, <1>4 DEF UpstreamInv, AnswersOrdered, Clear
<1>5. ASSUME link.greeted PROVE Clear(Received) /\ Head(link.unread).id = infer.id
  <2>1. Len(link.unread) \in Nat \ {0} /\ Len(link.out) \in Nat
    BY <1>1, SeqEmpty, SeqLen
  <2>2. Len(link.out) + Len(link.unread) <= 1
    BY <1>4, <1>5 DEF Only
  <2>3. Len(link.out) = 0 /\ Len(link.unread) = 1
    BY <2>1, <2>2, OneLeft
  <2>4. Len(Tail(link.unread)) = 0
    BY <1>2, <2>3, SMTT(30)
  <2>5. link.out = <<>> /\ Tail(link.unread) = <<>>
    BY <1>1, <1>2, <2>3, <2>4, SeqEmpty
  <2> QED BY <1>2, <1>3, <1>4, <1>5, <2>5 DEF Clear, Only
<1> QED BY <1>1, <1>3, <1>5 DEF Leavable

LEMMA RecvInv == UpstreamInv /\ (RecvError \/ RecvActions) => UpstreamInv'
<1> SUFFICES ASSUME UpstreamInv, RecvError \/ RecvActions PROVE UpstreamInv'
  OBVIOUS
<1>1. CASE RecvError
  BY <1>1, ReceivedClear, RaiseInv DEF RecvError
<1>2. CASE RecvActions
  <2>1. OwnAnswer'
    BY <1>2, ReceivedClear DEF RecvActions, OwnAnswer, EndWith
  <2> QED BY <1>2, <2>1, ReceivedClear, EndInv DEF RecvActions
<1> QED BY <1>1, <1>2

-----------------------------------------------------------------------------
(* The other end *)

\* The answer takes the place of the question.
LEMMA AnswerInv == NoneIsNew /\ UpstreamInv /\ Answer => UpstreamInv'
<1> SUFFICES ASSUME NoneIsNew, UpstreamInv, Answer PROVE UpstreamInv'
  OBVIOUS
<1> DEFINE out == link.out
           unread == link.unread
<1>1. /\ link \in Links /\ link # None /\ out # <<>>
      /\ out \in Seq(Nat) /\ unread \in Seq(Messages)
  BY DEF UpstreamInv, LinkTypeOK, Answer, Links
<1>2. PICK type \in {"actions", "error"} :
         link' = [link EXCEPT !.out = Tail(@), !.unread = Append(@, Message(type, Head(link.out)))]
  BY DEF Answer
<1> DEFINE m == Message(type, Head(link.out))
<1>3. Tail(out) \in Seq(Nat) /\ Head(out) \in Nat /\ Head(out) = out[1] /\ Len(Tail(out)) = Len(out) - 1
  BY <1>1, SeqHeadTail, SMTT(30)
<1>4. m \in Messages /\ m.id = Head(out)
  BY <1>3 DEF Message, Messages
<1>5. Append(unread, m) \in Seq(Messages)
  <2> HIDE DEF m
  <2> QED BY <1>1, <1>4, SeqAppend
<1>6. /\ link' \in Links /\ link' # None /\ link'.out = Tail(out) /\ link'.unread = Append(unread, m)
      /\ link'.greeted = link.greeted /\ link'.awaiting = link.awaiting
  BY <1>1, <1>2, <1>3, <1>5 DEF Links, NoneIsNew
<1>7. UNCHANGED <<kind, persistent, infer, infers, answer>>
  BY DEF Answer
<1>8. infer # None => infer.pc # "hello"
  BY <1>1 DEF UpstreamInv, CallPlaced
<1>9. LinkTypeOK' /\ Kinds' /\ CallPlaced' /\ OwnAnswer'
  BY <1>1, <1>6, <1>7, <1>8 DEF UpstreamInv, LinkTypeOK, Kinds, CallPlaced, OwnAnswer
<1>10. ASSUME NEW id, Only(link, id) PROVE Only(link', id)
  <2>1. Len(out) \in Nat \ {0} /\ Len(unread) \in Nat /\ out[1] = id
    BY <1>1, <1>10, SeqEmpty, SeqLen DEF Only
  <2>2. Len(out) + Len(unread) <= 1
    BY <1>10 DEF Only
  <2>3. Len(out) = 1 /\ Len(unread) = 0
    BY <2>1, <2>2, OneLeft
  <2>4. Len(Tail(out)) = 0
    BY <1>3, <2>3, SMTT(30)
  <2>5. Tail(out) = <<>> /\ unread = <<>>
    BY <1>1, <1>3, <2>3, <2>4, SeqEmpty
  <2>6. link'.out = <<>> /\ link'.unread = <<m>>
    <3> HIDE DEF m
    <3> QED BY <1>6, <2>5, SMTT(30)
  <2> HIDE DEF m
  <2> QED BY <1>3, <1>4, <2>1, <2>6, SMTT(30) DEF Only
<1>11. AnswersOrdered'
  BY <1>1, <1>6, <1>7, <1>10 DEF UpstreamInv, AnswersOrdered, At, Clear
<1> QED BY <1>9, <1>11 DEF UpstreamInv

LEMMA LoseInv == NoneIsNew /\ UpstreamInv /\ Lose => UpstreamInv'
<1> SUFFICES ASSUME NoneIsNew, UpstreamInv, Lose PROVE UpstreamInv'
  OBVIOUS
<1>1. link \in Links /\ link # None
  BY DEF UpstreamInv, LinkTypeOK, Lose
<1>2. /\ link' \in Links /\ link' # None /\ link'.out = <<>> /\ link'.unread = <<>>
      /\ link'.greeted = link.greeted /\ link'.awaiting = link.awaiting
  BY <1>1, SeqEmpty DEF Lose, Links, NoneIsNew
<1>3. Clear(link') /\ Len(link'.unread) <= 1
  BY <1>2, SMTT(30) DEF Clear
<1>4. UNCHANGED <<kind, persistent, infer, infers, answer>>
  BY DEF Lose
<1> QED
  BY <1>1, <1>2, <1>3, <1>4 DEF UpstreamInv, LinkTypeOK, Kinds, CallPlaced,
     AnswersOrdered, OwnAnswer

LEMMA NextUpstream == NoneIsNew /\ UpstreamInv /\ [UpstreamNext]_upstream => UpstreamInv'
<1> SUFFICES ASSUME NoneIsNew, UpstreamInv, [UpstreamNext]_upstream PROVE UpstreamInv'
  OBVIOUS
<1>1. CASE reset \/ UNCHANGED upstream
  BY <1>1 DEF reset, upstream, UpstreamInv, LinkTypeOK, Kinds, CallPlaced, AnswersOrdered,
     OwnAnswer, At, Clear, Only
<1>2. CASE close
  BY <1>2 DEF close, UpstreamInv, LinkTypeOK, Kinds, CallPlaced, AnswersOrdered, OwnAnswer
<1> QED
  BY <1>1, <1>2, BeginInv, ConnectInv, HelloInv, SendFailsInv, SendInv, RecvFailsInv, RecvInv,
     AnswerInv, LoseInv DEF UpstreamNext

-----------------------------------------------------------------------------

\* OwnAnswer (models/pi05) for any number of calls: what infer() returns was computed from
\* its own observation, unless the connection is a WebSocket whose hello was given up on.
\* None stands for the absence of a link or a call, and is neither.
THEOREM ForwardedAnswersAreOwn ==
    ASSUME NoneIsNew
    PROVE  UpstreamSpec => []OwnAnswer
<1>1. UpstreamInit => UpstreamInv
  <2>1. UpstreamInit => persistent \in BOOLEAN
    BY DEF UpstreamInit
  <2>2. UpstreamInit => /\ kind \in {"websocket", "tcp", "zmq"} /\ infers = 0
                        /\ link = None /\ infer = None /\ answer = None
    BY DEF UpstreamInit
  <2>3. UpstreamInit => LinkTypeOK /\ Kinds  BY <2>1, <2>2, SMTT(30) DEF LinkTypeOK, Kinds
  <2>4. UpstreamInit => CallPlaced /\ AnswersOrdered  BY <2>2 DEF CallPlaced, AnswersOrdered
  <2>5. UpstreamInit => OwnAnswer  BY <2>2 DEF OwnAnswer
  <2> QED BY <2>3, <2>4, <2>5 DEF UpstreamInv
<1>2. UpstreamInv /\ [UpstreamNext]_upstream => UpstreamInv'
  BY NextUpstream
<1>3. UpstreamInv => OwnAnswer
  BY DEF UpstreamInv
<1> QED BY <1>1, <1>2, <1>3, PTL DEF UpstreamSpec
=============================================================================
