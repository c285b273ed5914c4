------------------------ MODULE RecommendationTables ------------------------
(***************************************************************************)
(* What happens to the tables, whoever does it: the abstract specification *)
(* that the pipeline implements as long as deliveries do not overlap, and  *)
(* the environment in which RecommendationQuery reads.  A batch is opened  *)
(* for a subject that has a row, claimed any number of times while in      *)
(* flight, and closed once: by a failure, or by a set of candidates that   *)
(* takes the place of the sets before it.                                  *)
(*                                                                         *)
(* The basis of a set is left out: no query reads it.                      *)
(***************************************************************************)
EXTENDS RecommendationStore

tables == <<domain, store>>

Write(s) == PersistWrite(s) /\ UNCHANGED store

SoftDelete(j) == SoftDeleteJobPosition(j) /\ UNCHANGED store

(* A subject has a row, which a deletion leaves: one that comes between a  *)
(* write and the request that follows it does not prevent the latter.      *)
Request(s) ==
  /\ s \in Jobs => version[s] > 0
  /\ CreateRecommendationBatch(s)
  /\ UNCHANGED domain

Claim(b) == ClaimBatch(b) /\ UNCHANGED domain

(* The candidates were read earlier: some positions may be gone by now.    *)
Candidates(s) == IF s \in Employees THEN {j \in Jobs : version[j] > 0} ELSE Employees

Complete(b) ==
  /\ status[b] = "processing"
  /\ \E others \in SUBSET Candidates(subjectOf[b]) : CompleteBatch(b, others, 0)
  /\ UNCHANGED domain

Fail(b) ==
  /\ Open(b)
  /\ TransitionBatch(b, "failed")
  /\ UNCHANGED domain

TablesNext ==
  \/ \E s \in Subjects : Write(s) \/ Request(s)
  \/ \E j \in Jobs : SoftDelete(j)
  \/ \E b \in BatchIds : Claim(b) \/ Complete(b) \/ Fail(b)

TablesSpec == StoreInit /\ [][TablesNext]_tables
=============================================================================
