---------------------------- MODULE ActionBuffer ----------------------------
(***************************************************************************)
(* The receding-horizon buffer between the policy and the robot's control  *)
(* loop (src/action_buffer.cpp).  Inference threads push time-indexed      *)
(* action chunks, the control loop pops the action of one control step,    *)
(* and an episode reset clears the buffer.  Every operation holds mutex_   *)
(* from its first access to the shared state to its last, so each one is   *)
(* one atomic action.                                                      *)
(***************************************************************************)
EXTENDS Integers, FiniteSets

CONSTANTS
    MaxU64,                  \* std::numeric_limits<std::uint64_t>::max()
    ActionDim,               \* action_dim_
    MaximumBufferedSteps,    \* maximum_buffered_steps_
    Chunks,                  \* the chunks inference may push
    NoAction                 \* no action

ChunkType ==
    [request_id : Nat, first_control_step : 0..MaxU64, steps : 0..MaxU64,
     action_dim : Nat, values_size : Nat]

\* A buffered action is the row of a chunk: its values are values[row * action_dim_ ..].
BufferedAction == [request_id : Nat, row : 0..MaxU64]

ASSUME ConstantsAssumption ==
    /\ MaxU64 \in Nat
    /\ ActionDim \in Nat
    /\ MaximumBufferedSteps \in Nat
    /\ Chunks \subseteq ChunkType
    /\ NoAction \notin BufferedAction

VARIABLES
    actions_,                \* the std::map: control step -> buffered action
    minimum_control_step_,
    latest_request_id_,
    ret,                     \* what the last operation returned
    newest,                  \* history: what the accepted chunks last said of a step
    horizon                  \* history: the furthest step requested since clear()

vars == <<actions_, minimum_control_step_, latest_request_id_, ret, newest, horizon>>

Steps == 0..MaxU64

Larger(a, b) == IF a >= b THEN a ELSE b

-----------------------------------------------------------------------------

\* The two shape checks that precede the lock.
Accepts(chunk) ==
    /\ ActionDim # 0 /\ MaximumBufferedSteps # 0
    /\ chunk.action_dim = ActionDim
    /\ chunk.steps # 0
    /\ chunk.values_size = chunk.steps * chunk.action_dim

\* first_control_step + index wraps at 2^64, so step s is covered by the index
\* that is congruent to s - first_control_step.
Index(chunk, s) == (s - chunk.first_control_step) % (MaxU64 + 1)
Covers(chunk, s) == Index(chunk, s) < chunk.steps
Row(chunk, s) == [request_id |-> chunk.request_id, row |-> Index(chunk, s)]

\* Mutants of Placed: the past is not skipped; a present step is never replaced.
PlacedInThePast(chunk) == {s \in Steps : Covers(chunk, s)}
PlacedWhereAbsent(chunk) ==
    {s \in Steps : Covers(chunk, s) /\ s >= minimum_control_step_ /\ s \notin DOMAIN actions_}

\* The loop over the chunk's rows: past steps are skipped, a present step is
\* replaced only by a request that is at least as new.
Placed(chunk) ==
    {s \in Steps : /\ Covers(chunk, s)
                   /\ s >= minimum_control_step_
                   /\ s \in DOMAIN actions_ =>
                         actions_[s].request_id <= chunk.request_id}

Merged(chunk) ==
    [s \in DOMAIN actions_ \cup Placed(chunk) |->
        IF s \in Placed(chunk) THEN Row(chunk, s) ELSE actions_[s]]

\* Mutants of Nearest: begin() erased instead of prev(end()); one entry too many kept.
Furthest(dom) ==
    {s \in dom : Cardinality({t \in dom : t > s}) < MaximumBufferedSteps}
\* The trailing loop erases the last entry of the ordered map until at most
\* maximum_buffered_steps_ are left: the nearest steps stay.
Nearest(dom) ==
    {s \in dom : Cardinality({t \in dom : t < s}) < MaximumBufferedSteps}

Evicted(buffer) == [s \in Nearest(DOMAIN buffer) |-> buffer[s]]

Init ==
    /\ actions_ = [s \in {} |-> NoAction]
    /\ minimum_control_step_ = 0
    /\ latest_request_id_ = 0
    /\ ret = [code |-> "ok", step |-> 0, action |-> NoAction]
    /\ newest = [s \in Steps |-> NoAction]
    /\ horizon = -1

Returns(code, step, action) == ret' = [code |-> code, step |-> step, action |-> action]

PushInvalid(chunk) ==
    /\ ~ Accepts(chunk)
    /\ Returns("invalid_argument", 0, NoAction)
    /\ UNCHANGED <<actions_, minimum_control_step_, latest_request_id_, newest, horizon>>

PushStale(chunk) ==
    /\ Accepts(chunk)
    /\ chunk.request_id < latest_request_id_
    /\ Returns("cancelled", 0, NoAction)
    /\ UNCHANGED <<actions_, minimum_control_step_, latest_request_id_, newest, horizon>>

PushAccept(chunk) ==
    /\ Accepts(chunk)
    /\ chunk.request_id >= latest_request_id_
    /\ latest_request_id_' = Larger(latest_request_id_, chunk.request_id)
    /\ actions_' = Evicted(Merged(chunk))
    /\ Returns("ok", 0, NoAction)
    /\ newest' = [s \in Steps |-> IF Covers(chunk, s) THEN Row(chunk, s) ELSE newest[s]]
    /\ UNCHANGED <<minimum_control_step_, horizon>>

push(chunk) == PushInvalid(chunk) \/ PushStale(chunk) \/ PushAccept(chunk)

\* The step after the requested one; the last representable step has no successor.
next_step(c) == IF c = MaxU64 THEN c ELSE c + 1

\* Everything before c is erased, and c itself when it is found.
pop(c) ==
    /\ actions_' = [s \in {t \in DOMAIN actions_ : t > c} |-> actions_[s]]
    /\ minimum_control_step_' = Larger(minimum_control_step_, next_step(c))
    /\ \/ c \notin DOMAIN actions_ /\ Returns("not_ready", c, NoAction)
       \/ c \in DOMAIN actions_ /\ Returns("ok", c, actions_[c])
    /\ horizon' = Larger(horizon, c)
    /\ UNCHANGED <<latest_request_id_, newest>>

clear ==
    /\ actions_' = [s \in {} |-> NoAction]
    /\ minimum_control_step_' = 0
    /\ latest_request_id_' = 0
    /\ Returns("ok", 0, NoAction)
    /\ newest' = [s \in Steps |-> NoAction]
    /\ horizon' = -1

Next ==
    \/ \E chunk \in Chunks : push(chunk)
    \/ \E c \in Steps : pop(c)
    \/ clear

Spec == Init /\ [][Next]_vars

-----------------------------------------------------------------------------

\* Every member of the buffer has its type: the map's keys are 64-bit control
\* steps and each entry is a row of an accepted chunk.
TypeOK ==
    /\ actions_ \in [DOMAIN actions_ -> BufferedAction]
    /\ DOMAIN actions_ \subseteq Steps
    /\ minimum_control_step_ \in Steps
    /\ latest_request_id_ \in Nat
    /\ newest \in [Steps -> BufferedAction \cup {NoAction}]
    /\ horizon \in Steps \cup {-1}
    /\ ret \in [code : {"ok", "invalid_argument", "cancelled", "not_ready"},
                step : Steps, action : BufferedAction \cup {NoAction}]

\* Newest-chunk-wins merging: the action buffered for a step, and the action
\* pop() hands to the control loop, is the row that the last accepted chunk
\* covering that step holds for it, whatever was pushed, evicted, popped or
\* rejected in between.
NewestWins ==
    /\ \A s \in DOMAIN actions_ : actions_[s] = newest[s]
    /\ ret.action # NoAction => ret.action = newest[ret.step]

\* Once the control loop has requested a step, no action at or before it is
\* ever buffered again until clear(), even when an overlapping chunk arrives
\* late: no action is executed twice.  The last representable step is the one
\* exception, since pop() cannot move minimum_control_step_ past it.
NothingRequestedReturns ==
    \A s \in DOMAIN actions_ : s > horizon \/ s = MaxU64

\* The buffer never outgrows maximum_buffered_steps_.
BoundedSize ==
    /\ IsFiniteSet(DOMAIN actions_)
    /\ Cardinality(DOMAIN actions_) <= MaximumBufferedSteps

\* A push never drops an action that is due earlier than one it keeps: eviction
\* takes the far end of the horizon, so what the robot needs next survives.
EvictsFurthest ==
    [][horizon' = horizon =>
         \A s \in DOMAIN actions_ \ DOMAIN actions_' :
             \A t \in DOMAIN actions_' : t < s]_vars

=============================================================================
