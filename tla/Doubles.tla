------------------------------ MODULE Doubles ------------------------------
(***************************************************************************)
(* The double arithmetic of the calculator, without rounding: a double is  *)
(* a reduced fraction <<n, d>>.  d = 0 stands for what IEEE 754 makes of a *)
(* division by zero: <<1, 0>> is infinity and <<0, 0>> is NaN.  Negative   *)
(* infinity cannot arise here: only non-negative values are divided.       *)
(* Cross multiplication gives comparisons with NaN their IEEE answer:      *)
(* always false.                                                           *)
(***************************************************************************)
EXTENDS Integers

Zero == <<0, 1>>
One  == <<1, 1>>
NaN  == <<0, 0>>

Magnitude(n) == IF n < 0 THEN -n ELSE n

gcd[p \in Nat \X Nat] == IF p[2] = 0 THEN p[1] ELSE gcd[<<p[2], p[1] % p[2]>>]

Reduced(n, d) ==
  LET g == gcd[<<Magnitude(n), d>>]
  IN  IF g = 0 THEN NaN ELSE <<n \div g, d \div g>>

Double(n) == <<n, 1>>

Plus(x, y)  == Reduced(x[1] * y[2] + y[1] * x[2], x[2] * y[2])
Minus(x, y) == Reduced(x[1] * y[2] - y[1] * x[2], x[2] * y[2])
Times(x, y) == Reduced(x[1] * y[1], x[2] * y[2])

\* For y >= 0.
Over(x, y) == Reduced(x[1] * y[2], x[2] * y[1])

Less(x, y)   == x[1] * y[2] < y[1] * x[2]
AtMost(x, y) == Less(x, y) \/ (x = y /\ x # NaN)

IsFinite(x) == x[2] > 0

Finite == {x \in Int \X Nat : x[2] > 0 /\ x = Reduced(x[1], x[2])}

\* The finite doubles above zero.
Amounts == {x \in Nat \X Nat : x[1] > 0 /\ x[2] > 0 /\ x = Reduced(x[1], x[2])}
=============================================================================
