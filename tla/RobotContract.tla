---------------------------- MODULE RobotContract ---------------------------
(***************************************************************************)
(* RawRobotContract (robots/dazz_s600.py): how a robot's raw vector and    *)
(* the model's coordinates correspond, flatten_qpos_action                 *)
(* (robotwin/runner.py), and the last check before the S600's drivers      *)
(* (adapters/s600.py).  A raw vector is a function on 0..dim-1, a row of a *)
(* model chunk and a qpos command are sequences; a value is an integer or  *)
(* NaN.  The slices are listed in the order of _ACTION_FIELDS.             *)
(***************************************************************************)
EXTENDS Integers, Sequences, Functions

CONSTANT NaN                 \* a value that is not finite

Contract(state_dim, action_dim, indices, slices) ==
    [raw_state_dim |-> state_dim, raw_action_dim |-> action_dim,
     model_state_indices |-> indices, slices |-> slices]

DAZZ_S600_CONTRACT ==
    Contract(18, 18, <<0, 1, 2, 3, 4, 5, 8, 9, 10, 11, 12, 13, 7, 15>>,
             <<<<0, 7>>, <<7, 8>>, <<8, 15>>, <<15, 16>>>>)

RawRobotContracts ==
    [raw_state_dim : Nat, raw_action_dim : Nat, model_state_indices : Seq(Nat),
     slices : [1..4 -> Nat \X Nat]]

Dims(n) == 0..(n - 1)
Zeros(n) == [i \in Dims(n) |-> 0]

\* What from_mapping() accepts: both dimensions positive, indices that are unique and in
\* range of the action (not of the state), slices that are not empty and in range.
validate(c) ==
    /\ c.raw_state_dim > 0 /\ c.raw_action_dim > 0
    /\ c.model_state_indices # <<>>
    /\ IsInjective(c.model_state_indices)
    /\ Range(c.model_state_indices) \subseteq Dims(c.raw_action_dim)
    /\ \A k \in 1..4 :
          0 <= c.slices[k][1] /\ c.slices[k][1] < c.slices[k][2] /\ c.slices[k][2] <= c.raw_action_dim

model_dim(c) == Len(c.model_state_indices)
held_indices(c) == Dims(c.raw_action_dim) \ Range(c.model_state_indices)
Width(c, k) == c.slices[k][2] - c.slices[k][1]
command_action_dim(c) == Width(c, 1) + Width(c, 2) + Width(c, 3) + Width(c, 4)

Finite(v) == \A i \in DOMAIN v : v[i] # NaN

validate_raw_state(c, state) == DOMAIN state = Dims(c.raw_state_dim) /\ Finite(state)

\* state_to_model() finds every index in a state.
Covers(c) == Range(c.model_state_indices) \subseteq Dims(c.raw_state_dim)

state_to_model(c, state) == [j \in 1..model_dim(c) |-> state[c.model_state_indices[j]]]

\* Mutant of actions_to_raw: the row is laid out by position, not by index.
ActionsByPosition(c, row, current) ==
    [i \in DOMAIN current |-> IF i < model_dim(c) THEN row[i + 1] ELSE current[i]]

\* One row of a chunk: the model's coordinates replace those of the current state.
actions_to_raw(c, row, current) ==
    [i \in DOMAIN current |->
        IF i \in Range(c.model_state_indices)
        THEN row[CHOOSE j \in 1..model_dim(c) : c.model_state_indices[j] = i]
        ELSE current[i]]

\* action_dict() reshapes a raw row, which has the state's dimension, to the action's.
Reshapes(c) == c.raw_state_dim = c.raw_action_dim

\* The named fields of a raw action, without their names.
action_dict(c, raw) ==
    [k \in 1..4 |-> [i \in 1..Width(c, k) |-> raw[c.slices[k][1] + i - 1]]]

flatten_qpos_action(fields) == fields[1] \o fields[2] \o fields[3] \o fields[4]

\* Every named field is where the one before it ended: the command, read from its
\* beginning, is the beginning of the raw vector.
Tiles(c) ==
    /\ c.slices[1][1] = 0
    /\ \A k \in 2..4 : c.slices[k][1] = c.slices[k - 1][2]

-----------------------------------------------------------------------------
(* S600Adapter.clamp_first_action, with joint angles in some unit of which   *)
(* delta is a multiple, and gripper values in hundredths                     *)

\* Mutant of Clip: only from above.
ClipHigh(x, low, high) == IF x > high THEN high ELSE x

Clip(x, low, high) == IF x < low THEN low ELSE IF x > high THEN high ELSE x

ClampAccepts(c, action, current, delta) ==
    /\ DOMAIN action = Dims(c.raw_state_dim) /\ Finite(action)
    /\ validate_raw_state(c, current)
    /\ delta > 0

\* The first coordinates of the model, joints of them, are joints, the others grippers.
clamp_first_action(c, joints, action, current, delta, enable_gripper) ==
    LET place(i) == {j \in 1..model_dim(c) : c.model_state_indices[j] = i}
    IN [i \in DOMAIN action |->
           IF place(i) = {} THEN current[i]
           ELSE IF place(i) \subseteq 1..joints
           THEN Clip(action[i], current[i] - delta, current[i] + delta)
           ELSE IF enable_gripper THEN (IF action[i] > 50 THEN 100 ELSE 0)
           ELSE current[i]]

\* The command that S600Adapter hands to the drivers for the model's first row: each
\* joint goes towards its own coordinate of the row, reaches it if it is within delta
\* and moves by delta otherwise; a gripper opens or closes only when that is enabled;
\* and what the model does not control does not move.
FirstCommandIsSafe(c, joints, row, current, delta, enable_gripper) ==
    LET raw == actions_to_raw(c, row, current)
        command == clamp_first_action(c, joints, raw, current, delta, enable_gripper)
        moved(i) == command[i] - current[i]
    IN ClampAccepts(c, raw, current, delta) =>
        /\ \A j \in 1..joints :
              LET i == c.model_state_indices[j]
                  wanted == row[j] - current[i]
              IN \/ moved(i) = wanted /\ wanted \in (- delta)..delta
                 \/ moved(i) = delta /\ wanted > delta
                 \/ moved(i) = - delta /\ wanted < - delta
        /\ \A j \in (joints + 1)..model_dim(c) :
              IF enable_gripper THEN command[c.model_state_indices[j]] \in {0, 100}
              ELSE moved(c.model_state_indices[j]) = 0
        /\ \A i \in held_indices(c) : moved(i) = 0
=============================================================================
