------------------------------ MODULE Rounding ------------------------------
(***************************************************************************)
(* What Python's and NumPy's numeric functions compute, on the rationals   *)
(* n / d with d > 0.  The rounding errors of floating point are left out.  *)
(***************************************************************************)
EXTENDS Integers

maximum(a, b) == IF a > b THEN a ELSE b
minimum(a, b) == IF a < b THEN a ELSE b
clip(x, low, high) == minimum(maximum(x, low), high)

\* round() and np.round(): a half goes to the even neighbour.
round(n, d) ==
    LET q == n \div d
        r == 2 * (n % d)
    IN IF r > d \/ (r = d /\ q % 2 = 1) THEN q + 1 ELSE q

ceil(n, d) == - ((- n) \div d)
=============================================================================
