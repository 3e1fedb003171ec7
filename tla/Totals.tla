------------------------------- MODULE Totals -------------------------------
(***************************************************************************)
(* Sums, as the services make them over rows (reduce) and the database     *)
(* over columns (_sum).                                                    *)
(***************************************************************************)
EXTENDS Integers, FiniteSets, FiniteSetsExt

\* The sum of the values of a function.
Total(f) == MapThenSumSet(LAMBDA x : f[x], DOMAIN f)

=============================================================================
