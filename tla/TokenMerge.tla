----------------------------- MODULE TokenMerge -----------------------------
(***************************************************************************)
(* TokenMergePlugin.compress and _cosine_merge (plugins/token_merge.py).   *)
(* A token of the stream is the set of the tokens that were averaged into  *)
(* it; which pair is the most similar is left open.  Ratios are percents.  *)
(***************************************************************************)
EXTENDS Rounding, Sequences, SequencesExt

CONSTANTS MaxTokens, Ratios  \* the longest stream; the ratios to choose from

VARIABLES
    merge_ratio, salient_ratio,   \* the plugin's configuration
    keep, protected,              \* what compress() computes from them
    merged,                       \* _cosine_merge's array
    pair                          \* the tokens chosen in this round; "returned" at the end

mergeVars == <<merge_ratio, salient_ratio, keep, protected, merged, pair>>

\* TokenMergeConfig.__post_init__.
Accepted(merge, salient) == merge >= 0 /\ merge < 100 /\ salient >= 0 /\ salient <= 100

\* compress() up to the call of the merger.  Streams that are not to be merged pass
\* through unchanged; saliency has put the tokens to protect first.
compress ==
    /\ merge_ratio \in Ratios /\ salient_ratio \in Ratios
    /\ Accepted(merge_ratio, salient_ratio) /\ merge_ratio > 0
    /\ \E count \in 1..MaxTokens :
          /\ keep = maximum(1, ceil(count * (100 - merge_ratio), 100))
          /\ protected = minimum(count, round(count * salient_ratio, 100))
          /\ merged = [i \in 1..count |-> {i}]
    /\ pair = <<>>

Body == (protected + 1)..Len(merged)

\* The diagonal of the similarities is minus infinity: the two differ if there are two
\* to choose from.  A single token is chosen twice.
Pairs == {p \in Body \X Body : p[1] # p[2] \/ Body = {p[1]}}

\* Mutant of Target: the protected tokens do not count.
TargetKeep == keep

\* How many tokens the loop aims at.
Target == maximum(keep, protected)

Choose ==
    /\ pair = <<>> /\ Len(merged) > Target
    /\ pair' \in Pairs
    /\ UNCHANGED <<merge_ratio, salient_ratio, keep, protected, merged>>

\* The pair is deleted and its average put at the end.
Merge ==
    /\ Len(pair) = 2
    /\ LET kept == SelectSeq([i \in 1..Len(merged) |-> i], LAMBDA i : i \notin ToSet(pair))
       IN merged' = Append([i \in 1..Len(kept) |-> merged[kept[i]]],
                           merged[pair[1]] \cup merged[pair[2]])
    /\ pair' = <<>>
    /\ UNCHANGED <<merge_ratio, salient_ratio, keep, protected>>

Return ==
    /\ pair = <<>> /\ Len(merged) <= Target
    /\ pair' = <<"returned">>
    /\ UNCHANGED <<merge_ratio, salient_ratio, keep, protected, merged>>

MergeNext == Choose \/ Merge \/ Return

-----------------------------------------------------------------------------

\* However similar the tokens are: each token of the stream is in exactly one of the
\* merged ones, the protected ones are untouched and in their places, and never fewer
\* are left than compress() decided to keep (_cosine_merge).
NoTokenLost ==
    /\ \A i \in 1..protected : merged[i] = {i}
    /\ \A i, j \in 1..Len(merged) : i # j => merged[i] \cap merged[j] = {}
    /\ \E count \in 1..MaxTokens : UNION ToSet(merged) = 1..count
    /\ Len(merged) >= keep

\* The loop goes on until no more than protected tokens are left, which it cannot
\* reach: the last token beyond them is merged with itself for ever.
NeverReturns == keep <= protected /\ protected < Len(merged)
=============================================================================
