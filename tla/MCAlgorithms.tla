---------------------------- MODULE MCAlgorithms ----------------------------
(* The parts that run in one thread.  Each behaviour is about one of them:   *)
(* the action buffer, the validation of a graph, the merging of tokens, the  *)
(* action heads, or a call of one of the pure functions on one input.        *)
EXTENDS ActionBuffer, OperatorGraph, Relation, Sequences

VARIABLES
    chosen, input,
    merge_ratio, salient_ratio, keep, protected, merged, pair,
    dual, kind, now, latent, latent_instruction, latent_time, system2_calls,
    last_token_count, last_num_steps, request, resets, chunk

CONSTANTS
    MaxTokens, Ratios,
    Instructions, Interval, MaxTime, TokenLimit, NumSteps, MaxResets, MaxPlans,
    None, NaN, Infinity, MAX_INSTRUCTION_BYTES, MAX_TIMEOUT_MS, MAX_IMAGES, MAX_TENSOR_RANK

Tokens == INSTANCE TokenMerge
Heads == INSTANCE ActionHeads
Quant == INSTANCE ActionQuant
Wire == INSTANCE WireProtocol
Robot == INSTANCE RobotContract
Safety == INSTANCE Processors

-----------------------------------------------------------------------------
(* A two-entry buffer over a 2-bit step counter: chunks of one and two rows  *)
(* overlap, arrive late, exceed the capacity and wrap past the last step.    *)

MCChunks ==
    {[request_id |-> r, first_control_step |-> f, steps |-> n,
      action_dim |-> 1, values_size |-> n] :
         r \in 0..2, f \in 0..3, n \in 1..2}
    \cup
    {[request_id |-> 1, first_control_step |-> 0, steps |-> n,
      action_dim |-> d, values_size |-> v] :
         n \in {0, 1}, d \in {1, 2}, v \in {0, 2}}

(* Every graph of up to three nodes, self-loops, dangling references and one *)
(* repeated dependency included, and four nodes in which node 0 depends on   *)
(* at most one other.                                                        *)

Graph(n, deps, rep) == [size |-> n, dependencies |-> deps, repeated |-> rep]

UpToThree ==
    UNION {{Graph(n, deps, rep) : deps \in [0..(n - 1) -> SUBSET (0..n)],
                                  rep \in IF n = 0 THEN {{}} ELSE {{}, {0}}} : n \in 0..3}

FourNodes ==
    LET Few == {{}} \cup {{i} : i \in 0..3}
        Pairs == {{}} \cup {{i, j} : i \in 0..3, j \in 0..3}
    IN {Graph(4, [i \in 0..3 |-> IF i = 0 THEN first ELSE rest[i]], {}) :
           first \in Few, rest \in [1..3 -> {p \in Pairs : Cardinality(p) # 1}]}

MCGraphs == UpToThree \cup FourNodes

\* Acyclic says what the textbook says: no node of a well-formed graph reaches itself
\* along the dependency relation.
ASSUME AcyclicIsTextbook ==
    \A g \in {f \in UpToThree : f.repeated = {} /\ WellFormed(f)} :
        LET edge == [p \in Ids(g) \X Ids(g) |-> p[2] \in g.dependencies[p[1]]]
        IN Acyclic(g) <=> IsIrreflexive(TransitiveClosure(edge, Ids(g)), Ids(g))

-----------------------------------------------------------------------------
(* The inputs of the pure functions *)

\* Two channels of two weights, of any sign, more or less important than each other.
QuantInputs ==
    {i \in [config : [sensitive_bits : {4, 8, 16}, default_bits : {4, 8, 16},
                      sensitive_ratio : {0, 50, 100}],
            matrix : {<<<<v, w>>, <<2, x>>>> : v, w \in -4..7, x \in {-3, 5}},
            importance : {<<1, 2>>, <<2, 2>>, <<2, 1>>}] : Quant!Accepted(i.config)}

Array(shape, values) == [shape |-> shape, values |-> values]

\* Channels last, first, four of them, and a matrix.
Images ==
    [name : {"", "head", "wrist"}, timestamp_ns : {0},
     array : {Array(<<5, 5, 1>>, "finite"), Array(<<3, 5, 5>>, "finite"),
              Array(<<5, 5, 4>>, "finite"), Array(<<5, 3>>, "finite")}]
    \cup [name : {"head"}, timestamp_ns : {-1}, array : {Array(<<5, 5, 3>>, "finite")}]

HeadCamera == [name |-> "head", timestamp_ns |-> 0, array |-> Array(<<5, 5, 1>>, "finite")]

MCSpec == [model_state_dim |-> 2, model_action_dim |-> 2, action_horizon |-> 2,
           camera_order |-> <<"head", "wrist">>]

WireInputs ==
    [args : [type : {"args"}, request_id : {1}, control_step : {-1, 2}, timestamp_ns : {3},
             instruction : {MAX_INSTRUCTION_BYTES, MAX_INSTRUCTION_BYTES + 1},
             timeout_ms : {0, MAX_TIMEOUT_MS, MAX_TIMEOUT_MS + 1},
             images : {<<>>, <<HeadCamera, HeadCamera, HeadCamera>>} \cup {<<image>> : image \in Images}
                         \cup {<<image, HeadCamera>> : image \in Images}
                         \cup {<<HeadCamera, image>> : image \in Images},
             state : {Array(<<>>, "finite"), Array(<<2>>, "finite"), Array(<<2>>, "huge"),
                      Array(<<2>>, "nan"), Array(<<2, 2>>, "finite"),
                      Array(<<1, 1, 1, 2>>, "finite")}],
     actions : {Array(<<2, 2>>, "finite"), Array(<<2, 2>>, "huge"), Array(<<3, 2>>, "finite")},
     representation : {"absolute"}]

\* A robot of four coordinates of which the model controls a joint and a gripper.
RobotInputs ==
    {[contract |-> Robot!Contract(4, 4, <<i, j>>, <<<<0, 1>>, <<1, 2>>, <<2, 3>>, <<3, 4>>>>),
      row |-> <<target, grip>>, delta |-> delta, enable |-> enable,
      current |-> [d \in 0..3 |-> IF d = i THEN at ELSE 50 + d]] :
        i \in {0, 2}, j \in {1, 3}, target \in (-3..3) \cup {NaN}, grip \in {0, 50, 51},
        delta \in {0, 1, 2}, enable \in BOOLEAN, at \in {-1, 0, 1}}

\* Chunks of two rows for two joints, from states inside and outside the bounds; the
\* state has no coordinate, one or two, and bounds are given for none, all or each.
SafetyInputs ==
    [config : [lower_bounds : {<<>>, <<-1>>}, upper_bounds : {<<>>, <<1, 3>>, <<-2>>},
               maximum_delta : {<<>>, <<1>>, <<2, 0>>, <<-1>>, <<1, 1, 1>>},
               reject_non_finite : BOOLEAN],
     proprioception : {<<>>, <<3>>} \cup {<<a, 2>> : a \in {-4, 0, 2}},
     actions : [representation : {"absolute", "delta"},
                rows : {<<<<a, 0>>, <<b, c>>>> : a, b \in {-3, 1, NaN}, c \in {3, NaN}}
                           \cup {<<<<1, 0>>>>, <<<<1>>, <<1>>>>}]]

ActionShape == [action_dim |-> 2, action_horizon |-> 2]

-----------------------------------------------------------------------------

mergeVars == <<merge_ratio, salient_ratio, keep, protected, merged, pair>>
headVars == <<dual, kind, now, latent, latent_instruction, latent_time, system2_calls,
              last_token_count, last_num_steps, request, resets, chunk>>

\* What was not chosen has one configuration, since it does not matter.
AlgorithmsInit ==
    /\ \/ chosen \in {"buffer", "graph", "tokens", "heads"} /\ input = None
       \/ chosen = "quant" /\ input \in QuantInputs
       \/ chosen = "wire" /\ input \in WireInputs
       \/ chosen = "robot" /\ input \in RobotInputs
       \/ chosen = "safety" /\ input \in SafetyInputs
    /\ chosen = "graph" \/ graph = Graph(0, [i \in {} |-> {}], {})
    /\ chosen = "tokens" \/ (merge_ratio = 10 /\ salient_ratio = 10 /\ merged = <<{1}>>)
    /\ chosen = "heads" \/ (dual = FALSE /\ kind = "regression")
    /\ Init /\ ValidateInit /\ Tokens!compress /\ Heads!create_head

MergeStep ==
    chosen = "tokens" /\ Tokens!MergeNext /\ UNCHANGED <<chosen, input, vars, graphVars, headVars>>

AlgorithmsNext ==
    \/ chosen = "buffer" /\ Next /\ UNCHANGED <<chosen, input, graphVars, mergeVars, headVars>>
    \/ chosen = "graph" /\ ValidateNext /\ UNCHANGED <<chosen, input, vars, mergeVars, headVars>>
    \/ MergeStep
    \/ chosen = "heads" /\ Heads!HeadsNext /\ UNCHANGED <<chosen, input, vars, graphVars, mergeVars>>

AlgorithmsSpec ==
    /\ AlgorithmsInit /\ [][AlgorithmsNext]_<<chosen, input, vars, graphVars, mergeVars, headVars>>
    \* a thread that is in the loop of _cosine_merge goes on
    /\ WF_mergeVars(MergeStep)

\* compress() loses no token (see TokenMerge), and it returns, except when keep is not
\* larger than protected and some token is not protected: then it never does.
CompressReturns ==
    /\ []Tokens!NoTokenLost
    /\ (chosen = "tokens" /\ ~ Tokens!NeverReturns) ~> (pair = <<"returned">>)
    /\ [][Tokens!NeverReturns => pair' # <<"returned">>]_mergeVars

\* ActionHeads, ActionQuant and WireProtocol say what these state.
PlanIsCurrent == Heads!PlanIsCurrent
RoundTripIsClose ==
    chosen = "quant" => Quant!RoundTripIsClose(input.config, input.matrix, input.importance)
WhatIsMadeParses ==
    chosen = "wire" => Wire!WhatIsMadeParses(input.args, input.actions, input.representation, MCSpec)

\* The last check before the robot, on both sides: the S600 adapter's clamp of the first
\* command (RobotContract) and the runtime's safety filter of a chunk (Processors).
CommandsAreSafe ==
    /\ chosen = "robot" =>
          Robot!FirstCommandIsSafe(input.contract, 1, input.row, input.current, input.delta,
                                   input.enable)
    /\ chosen = "safety" =>
          Safety!ChunkIsSafe(input.config, input.proprioception, input.actions, ActionShape)
=============================================================================
