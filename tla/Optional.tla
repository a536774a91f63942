------------------------------ MODULE Optional ------------------------------
(* A number that may be absent: Missing is the None of the source.          *)
EXTENDS Integers

Missing == -999999
Known(x) == x # Missing

\* a / b, as the pair the comparisons below cross-multiply; a zero or absent
\* denominator gives nothing (piotroski.py _ratio).
HasRatio(a, b) == Known(a) /\ Known(b) /\ b # 0
SameRatio(a, b, c, d) == a * d = c * b
LargerRatio(a, b, c, d) == (a * d - c * b) * (b * d) > 0

SignOf(x) == IF x > 0 THEN 1 ELSE IF x < 0 THEN -1 ELSE 0
AbsOf(x) == IF x < 0 THEN -x ELSE x
=============================================================================
