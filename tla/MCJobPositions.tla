--------------------------- MODULE MCJobPositions ---------------------------
(***************************************************************************)
(* Small instances of the profiles and positions for TLC.                  *)
(***************************************************************************)
EXTENDS JobPositions, TLC

CONSTANTS u1, u2, u3, r1, r2, c1, c2

(* Requests are interchangeable, and so are calls and the accounts that    *)
(* are neither legacy nor checked.                                         *)
Symmetry == Permutations(Requests) \cup Permutations(Calls)
              \cup Permutations(Unchecked)
=============================================================================
