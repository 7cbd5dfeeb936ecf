---------------------------- MODULE PortionSums ----------------------------
(***************************************************************************)
(* Sums of portions.  The food ledger adds up a quantity over a std::map   *)
(* (DepotFood, CargoFood, RemainingPotential).  A quantity is a function   *)
(* from a finite set to the naturals, and its total is the number of       *)
(* single portions <<owner, n>> it stands for.  Counting portions, rather  *)
(* than folding an addition, lets the totals be reasoned about with the    *)
(* cardinality theorems alone.                                             *)
(***************************************************************************)
EXTENDS Naturals, FiniteSets

\* The single portions that the quantity f consists of.
Units(f) == UNION {{x} \X (1..f[x]) : x \in DOMAIN f}

\* The sum of f over its domain.
Total(f) == Cardinality(Units(f))

\* std::min on two unsigned values.
Smaller(m, n) == IF m <= n THEN m ELSE n
=============================================================================
