---------------------------- MODULE ActionQuant -----------------------------
(***************************************************************************)
(* ActionQuantPlugin (plugins/action_quant.py): the calibration and the    *)
(* conversion of weights to integer levels and back, computed exactly.     *)
(* matrix is _channel_matrix's: one sequence of integer weights a channel. *)
(* A scale is the fraction scale.num / scale.den.                          *)
(***************************************************************************)
EXTENDS Rounding, Sequences, SequencesExt, FiniteSets

\* ActionQuantConfig.__post_init__; the ratio is a percent.
Accepted(config) ==
    /\ {config.sensitive_bits, config.default_bits} \subseteq {4, 8, 16}
    /\ config.sensitive_ratio \in 0..100
    /\ config.sensitive_bits >= config.default_bits

qmax(bits) == 2^bits - 1

mins(row) == CHOOSE w \in ToSet(row) : \A v \in ToSet(row) : w <= v
maxs(row) == CHOOSE w \in ToSet(row) : \A v \in ToSet(row) : w >= v

scales(row, bits) ==
    LET span == maxs(row) - mins(row)
    IN IF span > 0 THEN [num |-> span, den |-> qmax(bits)] ELSE [num |-> 1, den |-> 1]

zeros(row, bits) ==
    LET scale == scales(row, bits)
    IN clip(round(- mins(row) * scale.den, scale.num), 0, qmax(bits))

\* The channels np.argsort(importance)[-sensitive_count:] may name: it leaves the order
\* of equals open.
Top(importance, ratio) ==
    LET channels == DOMAIN importance
        sensitive_count == maximum(1, round(Len(importance) * ratio, 100))
    IN {top \in SUBSET channels :
           /\ Cardinality(top) = minimum(sensitive_count, Len(importance))
           /\ \A c \in top, d \in channels \ top : importance[c] >= importance[d]}

\* The states fit() may arrive at.
fit(config, matrix, importance) ==
    {[c \in DOMAIN matrix |->
        LET bits == IF c \in top THEN config.sensitive_bits ELSE config.default_bits
        IN [bits |-> bits, scale |-> scales(matrix[c], bits), zero |-> zeros(matrix[c], bits)]]
     : top \in Top(importance, config.sensitive_ratio)}

\* Mutant of quantize: the level is clipped before the zero point is added.
quantizeClippedFirst(state, w) ==
    clip(round(w * state.scale.den, state.scale.num), 0, qmax(state.bits)) + state.zero

\* One weight of a channel, to its level and back; the weight that comes back is
\* dequantize(...) / scale.den.
quantize(state, w) ==
    clip(round(w * state.scale.den, state.scale.num) + state.zero, 0, qmax(state.bits))

dequantize(state, level) == (level - state.zero) * state.scale.num

-----------------------------------------------------------------------------

\* A weight of a channel whose weights lie on both sides of zero comes back at most one
\* quantization step away from where it was, also where rounding the zero point and
\* rounding the weight push the level over the edge; no two weights of a channel change
\* order; and a channel more important than another never has fewer bits.
RoundTripIsClose(config, matrix, importance) ==
    \A state \in fit(config, matrix, importance) : \A c \in DOMAIN matrix :
        LET s == state[c]
            back(w) == dequantize(s, quantize(s, w))
            row == ToSet(matrix[c])
        IN /\ mins(matrix[c]) <= 0 /\ maxs(matrix[c]) >= 0 =>
                 \A w \in row : LET error == back(w) - w * s.scale.den
                                IN error <= s.scale.num /\ - error <= s.scale.num
           /\ \A v, w \in row : v <= w => back(v) <= back(w)
           /\ \A d \in DOMAIN matrix :
                 importance[c] > importance[d] => s.bits >= state[d].bits
=============================================================================
