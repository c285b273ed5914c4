-------------------------- MODULE MCEmployeeProfile --------------------------
(***************************************************************************)
(* Small instances of the employee profile for TLC.                        *)
(***************************************************************************)
EXTENDS EmployeeProfile, TLC

CONSTANTS r1, r2, r3

(* Requests are interchangeable.                                           *)
Symmetry == Permutations(Requests)
=============================================================================
