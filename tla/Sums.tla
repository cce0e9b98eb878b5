-------------------------------- MODULE Sums --------------------------------
(***************************************************************************)
(* The sum of the values of a function.                                    *)
(***************************************************************************)
EXTENDS Functions

Total(f) == FoldFunction(+, 0, f)
=============================================================================
