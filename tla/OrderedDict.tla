---------------------------- MODULE OrderedDict -----------------------------
(* collections.OrderedDict as the plugins use it: a sequence of entries with  *)
(* distinct keys, the oldest first.                                           *)
EXTENDS Sequences, Integers

Keys(d) == {d[i].key : i \in DOMAIN d}

Position(d, k) == CHOOSE i \in DOMAIN d : d[i].key = k

Value(d, k) == d[Position(d, k)].value

Without(d, k) ==
    IF k \in Keys(d)
    THEN [i \in 1..(Len(d) - 1) |-> IF i < Position(d, k) THEN d[i] ELSE d[i + 1]]
    ELSE d

\* d[k] = v; d.move_to_end(k)
PutLast(d, k, v) == Append(Without(d, k), [key |-> k, value |-> v])

\* d.move_to_end(k)
Touch(d, k) == PutLast(d, k, Value(d, k))

\* while len(d) > n: d.popitem(last=False)
Trim(d, n) == IF Len(d) > n THEN SubSeq(d, Len(d) - n + 1, Len(d)) ELSE d
=============================================================================
