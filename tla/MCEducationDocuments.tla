------------------------ MODULE MCEducationDocuments ------------------------
(***************************************************************************)
(* Small instances of the education documents for TLC.                     *)
(***************************************************************************)
EXTENDS EducationDocuments, TLC

CONSTANTS r1, r2

(* Requests are interchangeable.                                           *)
Symmetry == Permutations(Requests)
=============================================================================
