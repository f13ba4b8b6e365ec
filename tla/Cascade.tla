------------------------------ MODULE Cascade -------------------------------
(* CascadePlugin (plugins/cascade.py): a step is routed to the light path     *)
(* when the scorer calls it easy enough.  Scores are in units of which        *)
(* FullScore make 1.0.                                                        *)
EXTENDS Integers

CONSTANTS
    FullScore,
    DifficultyThreshold      \* config.difficulty_threshold

VARIABLE cascade             \* the plugin's counters

Init == cascade = [light |-> 0, heavy |-> 0]

\* Mutant of Easy: a step at the threshold is easy.
EasyAtThreshold(score) == score <= DifficultyThreshold

Easy(score) == score < DifficultyThreshold

\* A score outside [0, 1] raises ValueError before anything is counted.
Rejects(score) == score \notin 0..FullScore

RouteLight(score) ==
    ~Rejects(score) /\ Easy(score) /\ cascade' = [cascade EXCEPT !.light = @ + 1]

RouteHeavy(score) ==
    ~Rejects(score) /\ ~Easy(score) /\ cascade' = [cascade EXCEPT !.heavy = @ + 1]
=============================================================================
