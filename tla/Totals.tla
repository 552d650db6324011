------------------------------- MODULE Totals -------------------------------
(* The sum of a column of numbers.                                         *)
EXTENDS Naturals, FiniteSets

\* Counted as the units the numbers stand for.
Units(n) == UNION {{i} \X (1..n[i]) : i \in DOMAIN n}
Total(n) == Cardinality(Units(n))
=============================================================================
