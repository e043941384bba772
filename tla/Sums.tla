-------------------------------- MODULE Sums --------------------------------
(***************************************************************************)
(* SELECT SUM(column) and Array.reduce over the rows of a table: the sum   *)
(* of a function's values over a finite set of its arguments.              *)
(***************************************************************************)
EXTENDS Integers, FiniteSets, FiniteSetsExt

Total(f, S) == MapThenSumSet(LAMBDA x : f[x], S)
=============================================================================
