----------------------------- MODULE MCPoolMath -----------------------------
(***************************************************************************)
(* The fixed-point power of utils.rs against exact powers, for every base  *)
(* and the first MaxPower exponents.  (x / Scale)^n, written with Scale    *)
(* fractional steps, is x^n / Scale^(n - 1).                               *)
(***************************************************************************)
EXTENDS PoolMath

CONSTANT MaxPower   \* bounds n: Scale^MaxPower must stay below 2^31 in TLC

VARIABLES x, n      \* the arguments of the power

\* base^k, exactly.
Power(base, k) ==
    LET p[i \in Nat] == IF i = 0 THEN 1 ELSE base * p[i - 1] IN p[k]

Init == x \in 0 .. Scale - 1 /\ n = 1
Next == n < MaxPower /\ n' = n + 1 /\ x' = x
Spec == Init /\ [][Next]_<<x, n>>

(* The power never overstates what is left to the holders, so a collection *)
(* never takes less than the fee; and it stays a 16-bit ratio.             *)
PowNeverOverstates ==
    /\ PowFixed(x, n) * Power(Scale, n - 1) <= Power(x, n)
    /\ PowFixed(x, n) \in 0 .. Scale - 1

(* The truncations of the squarings add up to less than one step of the    *)
(* ratio for every period collected at once.                               *)
PowErrsByLessThanItsExponent ==
    (PowFixed(x, n) + n) * Power(Scale, n - 1) > Power(x, n)
=============================================================================
