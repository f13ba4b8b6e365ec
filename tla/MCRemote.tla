------------------------------ MODULE MCRemote ------------------------------
(* Who talks to a server over a link that times out and breaks: any caller of *)
(* the client, the episodes of a robot, or a backend that forwards.  Each     *)
(* behaviour is about one of them.                                            *)
EXTENDS Episode

VARIABLES chosen, kind, persistent, link, infer, infers, seq, answer

CONSTANT MaxInfers

Pi05 == INSTANCE Upstream

\* The robot of the repository; and small ones, with the model's coordinates in every
\* order, one field of two joints and one joint outside of the fields; and two whose
\* state and action differ.
SmallSlices == <<<<0, 1>>, <<1, 2>>, <<2, 4>>, <<4, 5>>>>
MCContracts ==
    {DAZZ_S600_CONTRACT}
        \cup {Contract(6, 6, indices, SmallSlices) :
                 indices \in {<<i, j>> : i \in {0, 3, 5}, j \in {1, 4}}}
        \cup {Contract(5, 6, <<5, 1>>, SmallSlices), Contract(7, 6, <<0, 1>>, SmallSlices)}

ASSUME RobotsAreValid == \A c \in MCContracts : validate(c) /\ Tiles(c)

upstreamVars == <<kind, persistent, link, infer, infers, seq, answer>>

RemoteInit ==
    /\ Init /\ EpisodeInit /\ Pi05!UpstreamInit
    /\ chosen \in {"client", "episode", "upstream"}
    \* the configuration of what was not chosen does not matter
    /\ chosen # "episode" =>
          /\ contract = DAZZ_S600_CONTRACT /\ harness = "robotwin"
          /\ exec_horizon = 1 /\ max_steps = None
    /\ chosen # "upstream" => kind = "zmq"

RemoteNext ==
    \/ chosen = "client" /\ Next /\ UNCHANGED <<chosen, episodeVars, upstreamVars>>
    \/ chosen = "episode" /\ EpisodeNext /\ UNCHANGED <<chosen, upstreamVars>>
    \/ chosen = "upstream" /\ Pi05!UpstreamNext /\ UNCHANGED <<chosen, vars, episodeVars>>

RemoteSpec == RemoteInit /\ [][RemoteNext]_<<chosen, vars, episodeVars, upstreamVars>>

\* What a forwarding backend returns belongs to the question (see Upstream).
OwnAnswer == Pi05!OwnAnswer
=============================================================================
