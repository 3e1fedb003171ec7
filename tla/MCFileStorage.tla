--------------------------- MODULE MCFileStorage ---------------------------
(***************************************************************************)
(* Uploads of two images and of one, with a common name, and a backup file.*)
(***************************************************************************)
EXTENDS FileCustody

CONSTANTS u1, u2, b1, d1, f1, f2, f3, f4

Files == [r \in Request |-> CASE r = u1 -> <<f1, f2>> [] r = u2 -> <<f3>> [] r = b1 -> <<f4>>]

Names ==
    [f \in Asset |-> CASE f \in {f1, f3} -> "photo" [] f = f2 -> "side" [] f = f4 -> "dump"]

=============================================================================
