----------------------------- MODULE Fractions ------------------------------
(***************************************************************************)
(* Exact fractions <<numerator, denominator>> in lowest terms, standing    *)
(* for the floating-point numbers of JavaScript: the infinities and NaN of *)
(* IEEE 754 are the fractions whose denominator is 0.  The operations are  *)
(* functions of their arguments' tuple, so that these are evaluated once.  *)
(***************************************************************************)
EXTENDS Integers

Fraction == Int \X Int

\* Euclid's algorithm.
Gcd[p \in Nat \X Nat] == IF p[2] = 0 THEN p[1] ELSE Gcd[<<p[2], p[1] % p[2]>>]
Abs(n) == IF n < 0 THEN -n ELSE n
SignOf(n) == IF n < 0 THEN -1 ELSE IF n = 0 THEN 0 ELSE 1

\* x with numerator and denominator divided by g, and the sign in the numerator.
DivideBy[a \in Fraction \X Nat] ==
  <<(SignOf(a[1][2]) * a[1][1]) \div a[2], Abs(a[1][2]) \div a[2]>>
Reduce[x \in Fraction] ==
  IF x[2] = 0 THEN <<SignOf(x[1]), 0>> ELSE DivideBy[<<x, Gcd[<<Abs(x[2]), Abs(x[1])>>]>>]
Times[a \in Fraction \X Fraction] == Reduce[<<a[1][1] * a[2][1], a[1][2] * a[2][2]>>]
\* Common factors go first, which keeps the products small.
Multiply[a \in Fraction \X Fraction] ==
  Times[<<Reduce[<<a[1][1], a[2][2]>>], Reduce[<<a[2][1], a[1][2]>>]>>]
PlusOver[a \in (Fraction \X Fraction) \X Nat] ==
  LET x == a[1][1]
      y == a[1][2]
  IN Reduce[<<x[1] * (y[2] \div a[2]) + y[1] * (x[2] \div a[2]), x[2] * (y[2] \div a[2])>>]
Plus[a \in Fraction \X Fraction] ==
  PlusOver[<<a, IF a[1][2] = 0 \/ a[2][2] = 0 THEN 1 ELSE Gcd[<<a[1][2], a[2][2]>>]>>]
Below[a \in Fraction \X Fraction] == a[1][1] * a[2][2] < a[2][1] * a[1][2]

Frac(n, d) == Reduce[<<n, d>>]
NaN == <<0, 0>>
Infinite == <<1, 0>>
Zero == <<0, 1>>
One == <<1, 1>>

x ** y == Multiply[<<x, y>>]
x // y == Multiply[<<x, Reduce[<<y[2], y[1]>>]>>]
x ++ y == Plus[<<x, y>>]
x -- y == Plus[<<x, <<-y[1], y[2]>>>>]

\* Comparisons with NaN are false.
x \prec y == x # NaN /\ y # NaN /\ Below[<<x, y>>]
x \preceq y == x \prec y \/ (x = y /\ x # NaN)

\* Neither infinite nor NaN; and such a number in lowest terms.
IsNumber(x) == x[2] # 0
IsFinite(x) == x \in Fraction /\ IsNumber(x) /\ Reduce[x] = x

\* Math.sqrt, for the fractions whose root is one.
RootOf(n) == CHOOSE r \in 0..n : r * r = n
IsSquare(x) == \A i \in {1, 2} : \E r \in 0..x[i] : r * r = x[i]
SquareRoot(x) == Frac(RootOf(x[1]), RootOf(x[2]))
=============================================================================
