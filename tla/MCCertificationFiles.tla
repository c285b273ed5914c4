------------------------- MODULE MCCertificationFiles -------------------------
(***************************************************************************)
(* Small instances of the certification files for TLC.                     *)
(***************************************************************************)
EXTENDS CertificationFiles, TLC

CONSTANTS r1, r2, n1, n2

(* Requests are interchangeable, and so are certifications.                *)
Symmetry == Permutations(Requests) \cup Permutations(Names)
=============================================================================
