------------------------------ MODULE Rounding ------------------------------
(***************************************************************************)
(* What Python does to a quotient, on integers.                            *)
(***************************************************************************)
EXTENDS Integers

\* round(n / d): a half goes to the even neighbour.
Round(n, d) ==
  LET q == n \div d
      twice == 2 * (n % d)
  IN IF twice > d \/ (twice = d /\ q % 2 = 1) THEN q + 1 ELSE q

\* max(0, n)
NotNegative(n) == IF n < 0 THEN 0 ELSE n
=============================================================================
