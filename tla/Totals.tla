------------------------------- MODULE Totals -------------------------------
(***************************************************************************)
(* The sum of the values of a function from a finite set to the naturals.  *)
(* The ledgers of the bridges are mappings from keys to unsigned amounts,  *)
(* and their conservation properties compare such sums.                    *)
(*                                                                         *)
(* The sum is defined by counting: Units(f) has one element for each unit  *)
(* of each value of f.  A recursive definition would say the same, but its *)
(* laws could not be proved; those of this one are proved in               *)
(* TotalsTheorems.                                                         *)
(***************************************************************************)
EXTENDS Naturals, FiniteSets

Units(f) == UNION { {x} \X (1 .. f[x]) : x \in DOMAIN f }

Total(f) == Cardinality(Units(f))
=============================================================================
