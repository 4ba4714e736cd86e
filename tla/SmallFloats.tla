------------------------------ MODULE SmallFloats ------------------------------
(***************************************************************************)
(* The floating-point numbers the worker computes with, at a precision TLC *)
(* can enumerate.  CPython's float has 53 significant bits and rounds half *)
(* to even; so does this one, with fewer.  A number is written as a        *)
(* multiple of the smallest step: One steps make 1.0.  With Half = 2^52    *)
(* and One = 2^1074 the numbers are CPython's floats, all but those that   *)
(* overflow; every positive one is a positive number of steps.             *)
(***************************************************************************)
EXTENDS Integers

CONSTANTS
    Half,  \* half the numbers a significand may take: 2^52 in CPython
    One    \* steps in 1.0

\* The distance between neighbouring floats at q.
Ulp[q \in Nat] == IF q < 2 * Half THEN 1 ELSE 2 * Ulp[q \div 2]

\* 1.0 is a float.
ASSUME FloatAssumption == /\ Half \in Nat \ {0} /\ One \in Nat \ {0}
                          /\ One % Ulp[One] = 0

\* The float nearest to n / d steps, a tie going to the even one.
Nearest(n, d) ==
    LET grid == d * Ulp[n \div d]
        low  == n \div grid
        rest == 2 * (n % grid)
        up   == rest > grid \/ (rest = grid /\ low % 2 = 1)
    IN  (IF up THEN low + 1 ELSE low) * Ulp[n \div d]

Quotient(x, k) == Nearest(x, k)        \* a float by an integer
Ratio(x, y)    == Nearest(x * One, y)  \* a float by a float
Plus(x, y)     == Nearest(x + y, 1)    \* two floats
=============================================================================
