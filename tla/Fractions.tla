------------------------------- MODULE Fractions -------------------------------
(***************************************************************************)
(* Exact arithmetic in place of the 32-bit floats of the shader unit: a    *)
(* register component is a fraction <<n, d>> in lowest terms, d > 0.       *)
(* Rounding is left out; a division by zero gives NotANumber, which        *)
(* absorbs whatever is computed from it (infinities are not told apart).   *)
(***************************************************************************)
EXTENDS Integers

Zero == <<0, 1>>
One == <<1, 1>>
NotANumber == <<0, 0>>

Whole(n) == <<n, 1>>

Abs(n) == IF n < 0 THEN -n ELSE n

GCD[m, n \in Nat] == IF n = 0 THEN m ELSE GCD[n, m % n]

Fraction(n, d) ==
    IF d = 0
    THEN NotANumber
    ELSE LET g == GCD[Abs(n), Abs(d)]
         IN  IF d > 0 THEN <<n \div g, d \div g>> ELSE <<(-n) \div g, (-d) \div g>>

Plus(a, b) == Fraction(a[1] * b[2] + b[1] * a[2], a[2] * b[2])
Minus(a, b) == Fraction(a[1] * b[2] - b[1] * a[2], a[2] * b[2])
Times(a, b) == Fraction(a[1] * b[1], a[2] * b[2])

\* With b = 0 or b = NotANumber the second component of the result is 0.
Over(a, b) == IF b[2] = 0 THEN NotANumber ELSE Fraction(a[1] * b[2], a[2] * b[1])

Less(a, b) == a[1] * b[2] < b[1] * a[2]

\* The square root where it is a fraction.
Root(a) ==
    LET Exact(n) == {r \in 0 .. Abs(n) : r * r = n}
    IN  IF a[2] = 0 \/ Exact(a[1]) = {} \/ Exact(a[2]) = {}
        THEN NotANumber
        ELSE <<CHOOSE r \in Exact(a[1]) : TRUE, CHOOSE r \in Exact(a[2]) : TRUE>>
=============================================================================
