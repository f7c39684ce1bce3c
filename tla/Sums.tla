-------------------------------- MODULE Sums --------------------------------
(***************************************************************************)
(* The sums of the money code: Total(f) is the SUM a query takes over a    *)
(* natural-number column, f mapping each row's key to its value.           *)
(*                                                                         *)
(* The sum is the cardinality of a set that holds one element per unit of  *)
(* credit, so that a theorem about a sum is a theorem about a finite set.  *)
(* SumOf adds the values up one by one, as a database does; SumTheorems    *)
(* proves the two equal.                                                   *)
(***************************************************************************)
EXTENDS Integers, FiniteSets, Folds

Units(f) == UNION {{x} \X (1 .. f[x]) : x \in DOMAIN f}

Total(f) == Cardinality(Units(f))

SumOf(f) == MapThenFoldSet(LAMBDA v, sum : v + sum, 0, LAMBDA x : f[x],
                           LAMBDA s : CHOOSE x \in s : TRUE, DOMAIN f)
=============================================================================
