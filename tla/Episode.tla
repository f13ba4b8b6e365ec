------------------------------- MODULE Episode ------------------------------
(***************************************************************************)
(* Episodes of a robot that is driven by a remote model: run_episode       *)
(* (robotwin/runner.py) or XPolicyLab's eval_one_episode (deploy.py), the  *)
(* policy (policy.py), the adapter (adapter.py) and the demo environment   *)
(* (demo_env.py), on top of the client, whose calls time out, fail and     *)
(* reconnect.  A call that raises ends its episode; the caller may start   *)
(* the next one with the same client.  Message id's chunk has, at          *)
(* coordinate j of row k, the value Cell(id, k, j).                        *)
(***************************************************************************)
EXTENDS InferenceClient, RobotContract

CONSTANTS
    Contracts,               \* the robots
    Horizon,                 \* rows of a chunk
    ExecHorizons,            \* choices of exec_horizon
    EpisodeSteps,            \* the environment's episode_steps
    MaxSteps,                \* choices of max_steps, None among them
    MaxEpisodes              \* bound on the episodes

\* What the constructors, ModelSpec's among them, and run_episode() refuse otherwise.
ASSUME EpisodeAssumption ==
    /\ EpisodeSteps \in Nat \ {0} /\ MaxSteps \ {None} \subseteq Nat \ {0}
    /\ ExecHorizons \cup {Horizon} \subseteq Nat \ {0}
    /\ \A c \in Contracts : c \in RawRobotContracts /\ validate(c)

VARIABLES
    contract, harness, exec_horizon, max_steps,    \* the configuration
    environment,             \* steps and raw_state
    control_step, current,   \* the policy's
    episode,                 \* at, number, executed, the actions left of a chunk and its id
    asked,                   \* history: the episode, control step and environment step of a message
    backend,                 \* history: the episode whose reset the server handled last
    computed                 \* history: backend when a message was handled

configuration == <<contract, harness, exec_horizon, max_steps>>
robot == <<environment, control_step, current, episode>>
histories == <<asked, backend, computed>>
episodeVars == <<configuration, robot, histories>>

Cell(id, k, j) == 10000 * id + 100 * k + j
Row(id, k) == [j \in 1..model_dim(contract) |-> Cell(id, k, j)]

EpisodeInit ==
    /\ harness \in {"robotwin", "xpolicylab"}
    \* XPolicyLab's Model leaves the adapter its default robot
    /\ contract \in IF harness = "robotwin" THEN Contracts ELSE {DAZZ_S600_CONTRACT}
    /\ exec_horizon \in ExecHorizons
    /\ max_steps \in IF harness = "robotwin" THEN MaxSteps ELSE {None}
    /\ environment = [steps |-> 0, raw_state |-> Zeros(contract.raw_state_dim)]
    /\ control_step = 0
    /\ current = None
    /\ episode = [at |-> "idle", number |-> 0, executed |-> 0, actions |-> <<>>, source |-> 0]
    /\ asked = [id \in 1..MaxCalls |-> None]
    /\ backend = 0
    /\ computed = [id \in 1..MaxCalls |-> 0]

is_episode_end(env) == env.steps >= EpisodeSteps

-----------------------------------------------------------------------------
(* the policy and the adapter *)

\* Mutant of AfterReset: reset() forgets the step counter.
AfterResetKept(step) == step

AfterReset(step) == 0

\* The client call behind the policy's reset() or get_action(), and what it is about.
CallOf(op) ==
    /\ Begin(op)
    /\ asked' = [asked EXCEPT ![NextId] =
                    [episode |-> episode'.number, control_step |-> control_step',
                     steps |-> environment'.steps]]

PolicyReset ==
    /\ current' = None
    /\ control_step' = AfterReset(control_step)
    /\ CallOf("reset")

\* get_action() up to the client: the adapter sends the state in the model's order.
get_action ==
    /\ current' # None
    /\ validate_raw_state(contract, current'.raw_state) /\ Covers(contract)
    /\ CallOf("infer")

\* The rest of get_action(): the first exec_horizon rows, in the raw order, over the
\* state that was observed.
ChunkLength == IF Horizon < exec_horizon THEN Horizon ELSE exec_horizon
ChunkOf(id) ==
    [k \in 1..ChunkLength |->
        action_dict(contract, actions_to_raw(contract, Row(id, k), current.raw_state))]

-----------------------------------------------------------------------------
(* the episode loop *)

\* run_episode() resets the environment; an XPolicyLab task comes with a fresh one.
Start ==
    /\ episode.at = "idle" /\ episode.number < MaxEpisodes
    /\ environment' = [steps |-> 0, raw_state |-> Zeros(contract.raw_state_dim)]
    /\ episode' = [at |-> "resetting", number |-> episode.number + 1, executed |-> 0,
                   actions |-> <<>>, source |-> 0]
    /\ PolicyReset
    /\ UNCHANGED <<configuration, backend, computed>>

Observe ==
    /\ episode.at = "loop" /\ ~ is_episode_end(environment)
    /\ current' = environment
    /\ episode' = [episode EXCEPT !.at = "inferring"]
    /\ UNCHANGED <<environment, control_step>>
    /\ get_action
    /\ UNCHANGED <<configuration, backend, computed>>

\* The robot's configuration names a joint that its state does not have.
ObserveRaises ==
    /\ episode.at = "loop" /\ ~ is_episode_end(environment) /\ ~ Covers(contract)
    /\ current' = environment
    /\ episode' = [episode EXCEPT !.at = "idle"]
    /\ UNCHANGED <<configuration, environment, control_step, histories, vars>>

\* The loop's condition fails: the episode returns.
LoopEnds ==
    /\ episode.at = "loop" /\ is_episode_end(environment)
    /\ episode' = [episode EXCEPT !.at = "idle"]
    /\ UNCHANGED <<configuration, environment, control_step, current, histories, vars>>

\* The environment moves what a command addresses, from the beginning of its state.
take_action(env, value) ==
    [steps |-> env.steps + 1,
     raw_state |-> [i \in DOMAIN env.raw_state |->
                       IF i < Len(value) THEN value[i + 1] ELSE env.raw_state[i]]]

\* Mutant of Finished: a chunk is executed to its end.
FinishedWithChunk(env, executed, rest) ==
    rest = <<>> /\ (is_episode_end(env) \/ (max_steps # None /\ executed >= max_steps))

Finished(env, executed, rest) ==
    is_episode_end(env) \/ (max_steps # None /\ executed >= max_steps)

Act ==
    /\ episode.at = "acting"
    /\ LET value == flatten_qpos_action(Head(episode.actions))
           rest == Tail(episode.actions)
           executed == episode.executed + 1
       IN /\ Len(value) = command_action_dim(contract) /\ Finite(value)
          /\ environment' = take_action(environment, value)
          /\ episode' = [episode EXCEPT !.actions = rest, !.executed = executed,
                            !.at = IF Finished(environment', executed, rest) THEN "idle"
                                   ELSE IF rest = <<>> THEN "loop" ELSE "acting"]
    /\ UNCHANGED <<configuration, control_step, current, histories, vars>>

-----------------------------------------------------------------------------
(* the client's call *)

Accepted ==
    /\ Running("recv") /\ connection.back # <<>>
    /\ Head(connection.back).type = Expected[call.op]
    /\ call.op = "infer" => Head(connection.back).id = call.id

\* reset() has its answer: the loop begins.
ResetAnswered ==
    /\ episode.at = "resetting" /\ Accepted /\ Recv
    /\ episode' = [episode EXCEPT !.at = "loop"]
    /\ UNCHANGED <<configuration, environment, control_step, current, histories>>

InferAnswered ==
    /\ episode.at = "inferring" /\ Accepted /\ Recv
    /\ Reshapes(contract)
    /\ control_step' = control_step + ChunkLength
    /\ LET id == Head(connection.back).id
       IN episode' = [episode EXCEPT !.at = "acting", !.actions = ChunkOf(id), !.source = id]
    /\ UNCHANGED <<configuration, environment, current, histories>>

\* The rows of the chunk do not fit the action: its steps are counted already.
ChunkRefused ==
    /\ episode.at = "inferring" /\ Accepted /\ Recv
    /\ ~ Reshapes(contract)
    /\ control_step' = control_step + ChunkLength
    /\ episode' = [episode EXCEPT !.at = "idle"]
    /\ UNCHANGED <<configuration, environment, current, histories>>

CallRaises ==
    /\ episode.at \in {"resetting", "inferring"}
    /\ TimesOut \/ Fails \/ ConnectFails \/ RefuseHello \/ (~ Accepted /\ Recv)
    /\ episode' = [episode EXCEPT !.at = "idle"]
    /\ UNCHANGED <<configuration, environment, control_step, current, histories>>

CallProceeds ==
    /\ Connect \/ Connected \/ ReceiveHello \/ Send
    /\ UNCHANGED <<configuration, robot, histories>>

\* The command line closes the client when its episode has ended.
Close ==
    /\ episode.at = "idle" /\ close
    /\ UNCHANGED <<configuration, robot, histories>>

Handle ==
    /\ Serve
    /\ LET m == Head(connection.out)
       IN /\ backend' = IF m.type = "reset" THEN asked[m.id].episode ELSE backend
          /\ computed' = [computed EXCEPT ![m.id] = backend]
    /\ UNCHANGED <<configuration, robot, asked>>

Lose ==
    /\ Break
    /\ UNCHANGED <<configuration, robot, histories>>

EpisodeNext ==
    \/ Start \/ Observe \/ ObserveRaises \/ LoopEnds \/ Act
    \/ ResetAnswered \/ InferAnswered \/ ChunkRefused \/ CallRaises \/ CallProceeds
    \/ Close \/ Handle \/ Lose

EpisodeSpec == Init /\ EpisodeInit /\ [][EpisodeNext]_<<vars, episodeVars>>

-----------------------------------------------------------------------------

\* Whatever timed out, failed or was answered late before, an action that run_episode()
\* is about to execute comes from a chunk that was computed in this episode, after the
\* server's reset for it, from the observation before the chunk's first action; and the
\* control step it was asked for is the environment's.
ActionsAreCurrent ==
    episode.at = "acting" =>
        LET question == asked[episode.source]
            taken == environment.steps - question.steps
        IN /\ question.episode = episode.number
           /\ computed[episode.source] = episode.number
           /\ question.control_step = question.steps
           /\ control_step = question.steps + taken + Len(episode.actions)

\* On a robot whose named fields tile the beginning of its vector, each step of the
\* environment moves the joints that the model controls to the row of the chunk that is
\* due, each to its own coordinate, and leaves every other joint where the reset put it;
\* so what the model is told next is what it asked for.
RobotFollowsModel ==
    episode.executed > 0 /\ Tiles(contract) =>
        LET taken == environment.steps - asked[episode.source].steps
        IN /\ \A i \in held_indices(contract) : environment.raw_state[i] = 0
           /\ taken > 0 => \A j \in 1..model_dim(contract) :
                 contract.model_state_indices[j] < command_action_dim(contract) =>
                    state_to_model(contract, environment.raw_state)[j] = Cell(episode.source, taken, j)

\* No episode executes more steps than max_steps, or than the environment allows, however
\* many of its chunk's actions are left.
StopsInTime ==
    /\ episode.executed = environment.steps
    /\ episode.executed <= EpisodeSteps
    /\ max_steps # None => episode.executed <= max_steps
=============================================================================
