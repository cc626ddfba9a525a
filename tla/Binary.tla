------------------------------- MODULE Binary -------------------------------
\* What bit n of a number counts, for the models that take numbers apart.
EXTENDS Integers

Weight[n \in Nat] == IF n = 0 THEN 1 ELSE 2 * Weight[n - 1]
=============================================================================
