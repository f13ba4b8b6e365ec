---------------------------- MODULE MCSplitPolicy ---------------------------
(* Three requests: the second is near the first and its prompt differs in     *)
(* whitespace only, the third is far from both.                               *)
EXTENDS SplitPolicy, TLC

MCRequests == {[frame |-> "f1", state |-> 0, prompt |-> "open"],
               [frame |-> "f2", state |-> 1, prompt |-> " open"],
               [frame |-> "f1", state |-> 3, prompt |-> "close"]}

MCKey(prompt) == IF prompt = " open" THEN "open" ELSE prompt

MCPluginSets == {{}, {"tokens"}, {"throttle", "tokens"}, {"prefix"}, {"cascade", "prefix"}}

Symmetric == Permutations(Threads)
=============================================================================
