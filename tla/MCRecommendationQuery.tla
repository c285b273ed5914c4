------------------------ MODULE MCRecommendationQuery ------------------------
(***************************************************************************)
(* Small instances of the queries for TLC.                                 *)
(***************************************************************************)
EXTENDS RecommendationQuery, TLC

CONSTANTS e1, e2, j1, j2, m1, m2, q1

(* Employees are interchangeable, and so are employers.                    *)
Symmetry == Permutations(Employees) \cup Permutations(Jobs) \cup Permutations(Employers)
=============================================================================
