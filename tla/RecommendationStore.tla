------------------------- MODULE RecommendationStore -------------------------
(***************************************************************************)
(* The tables the recommendation pipeline reads and writes, and the        *)
(* statements of sql/queries/recommendations.sql as the repository         *)
(* (internal/recommendation/repo.go) issues them.  Every statement, and    *)
(* the one multi-statement transaction, is atomic: PostgreSQL's row locks  *)
(* serialise the writers of one batch, and each call of the repository     *)
(* outside CompleteBatch is a single autocommitted statement.              *)
(*                                                                         *)
(* The domain data is abstracted to a version number per subject: a        *)
(* profile or a job position is its count of persisted writes.             *)
(***************************************************************************)
EXTENDS Naturals, FiniteSets

CONSTANTS
  Employees,    \* employees, each of which owns an employees row
  Jobs,         \* job positions that may be published
  MaxBatches,   \* bound on the batch identifiers the sequence hands out
  MaxVersion,   \* bound on the persisted writes of one subject
  None          \* the absence of a subject

Subjects == Employees \cup Jobs
BatchIds == 1..MaxBatches
Versions == 0..MaxVersion

ASSUME StoreAssumption ==
  /\ Employees \cap Jobs = {}
  /\ None \notin Employees \cup Jobs
  /\ MaxBatches \in Nat
  /\ MaxVersion \in Nat

VARIABLES
  version,    \* version[s]: writes of subject s persisted so far
  active,     \* job positions published and not soft-deleted
  nextBatch,  \* next value of the recommendation_batches id sequence
  subjectOf,  \* subject columns of a batch
  status,     \* status column of a batch, "absent" when it has no row
  recs,       \* rows of recommendations; basis is the subject's version
              \* that was scored
  opened      \* history: the version of the subject when its batch opened

store == <<nextBatch, subjectOf, status, recs, opened>>
domain == <<version, active>>

InFlight == {"pending", "processing"}
Terminal == {"completed", "failed"}
BatchStatus == InFlight \cup Terminal

Recommendations == [batch: BatchIds, other: Subjects, basis: Versions]

StoreTypeOK ==
  /\ version \in [Subjects -> Versions]
  /\ active \in SUBSET Jobs
  /\ nextBatch \in 1..(MaxBatches + 1)
  /\ subjectOf \in [BatchIds -> Subjects \cup {None}]
  /\ status \in [BatchIds -> BatchStatus \cup {"absent"}]
  /\ recs \in SUBSET Recommendations
  /\ opened \in [BatchIds -> Versions]

StoreInit ==
  /\ version = [s \in Subjects |-> 0]
  /\ active = {}
  /\ nextBatch = 1
  /\ subjectOf = [b \in BatchIds |-> None]
  /\ status = [b \in BatchIds |-> "absent"]
  /\ recs = {}
  /\ opened = [b \in BatchIds |-> 0]

-----------------------------------------------------------------------------
(* Predicates over the tables.                                             *)

Exists(b) == status[b] \in BatchStatus
Open(b) == status[b] \in InFlight
BatchesOf(s) == {b \in BatchIds : Exists(b) /\ subjectOf[b] = s}
InFlightOf(s) == {b \in BatchesOf(s) : Open(b)}

(* The newest of a set of batches, 0 when there is none.  Identifiers are  *)
(* handed out in creation order.                                           *)
Newest(B) == IF B = {} THEN 0 ELSE CHOOSE b \in B : \A o \in B : o <= b

(* The batch whose status the subject is shown, and the batch whose rows   *)
(* it is shown.                                                            *)
CurrentBatch(s) == Newest(BatchesOf(s))
LastCompletedBatch(s) == Newest({b \in BatchesOf(s) : status[b] = "completed"})

(* The subject's row is there and, for a job position, not soft-deleted.   *)
SubjectFound(s) == s \in Employees \cup active

(* The counterparts a subject is paired with.                              *)
Universe(s) == IF s \in Employees THEN active ELSE Employees

(* UNIQUE (batch_id, employee_id, job_position_id)                         *)
PairTaken(b, others) == \E r \in recs : r.batch = b /\ r.other \in others

-----------------------------------------------------------------------------
(* Statements.                                                             *)

(* A persisted write of a profile or of a job position.  The first write   *)
(* of a job position publishes it; a later one needs it active.            *)
Writable(s) ==
  /\ version[s] < MaxVersion
  /\ s \in Jobs => (s \in active \/ version[s] = 0)

PersistWrite(s) ==
  /\ Writable(s)
  /\ version' = [version EXCEPT ![s] = @ + 1]
  /\ active' = IF s \in Jobs THEN active \cup {s} ELSE active

SoftDeleteJobPosition(j) ==
  /\ j \in active
  /\ active' = active \ {j}
  /\ UNCHANGED version

(* Variant: no partial unique index.                                       *)
CreateRecommendationBatch_NoIndex(s) ==
  /\ nextBatch \in BatchIds
  /\ nextBatch' = nextBatch + 1
  /\ subjectOf' = [subjectOf EXCEPT ![nextBatch] = s]
  /\ status' = [status EXCEPT ![nextBatch] = "pending"]
  /\ opened' = [opened EXCEPT ![nextBatch] = version[s]]
  /\ UNCHANGED recs

(* CreateRecommendationBatch; the partial unique indexes admit one batch   *)
(* in flight per subject.                                                  *)
CreateRecommendationBatch(s) ==
  /\ InFlightOf(s) = {}
  /\ nextBatch \in BatchIds
  /\ nextBatch' = nextBatch + 1
  /\ subjectOf' = [subjectOf EXCEPT ![nextBatch] = s]
  /\ status' = [status EXCEPT ![nextBatch] = "pending"]
  /\ opened' = [opened EXCEPT ![nextBatch] = version[s]]
  /\ UNCHANGED recs

(* TransitionRecommendationBatch: unconditional.                           *)
TransitionBatch(b, to) ==
  /\ Exists(b)
  /\ status' = [status EXCEPT ![b] = to]
  /\ UNCHANGED <<nextBatch, subjectOf, recs, opened>>

(* Variants of the claim: without its condition, and discarding the other  *)
(* batches before there is a set to replace.                               *)
ClaimBatch_Unconditional(b) == TransitionBatch(b, "processing")

ClaimBatch_Prunes(b) ==
  LET others == BatchesOf(subjectOf[b]) \ {b}
  IN  /\ Open(b)
      /\ status' = [o \in BatchIds |-> IF o = b THEN "processing"
                                       ELSE IF o \in others THEN "absent"
                                       ELSE status[o]]
      /\ recs' = {r \in recs : r.batch \notin others}
      /\ UNCHANGED <<nextBatch, subjectOf, opened>>

(* ClaimRecommendationBatch: only a batch in flight is claimed.            *)
ClaimBatch(b) ==
  /\ Open(b)
  /\ status' = [status EXCEPT ![b] = "processing"]
  /\ UNCHANGED <<nextBatch, subjectOf, recs, opened>>

(* Variant: the other batches are not discarded.                           *)
CompleteBatch_KeepsOthers(b, others, basis) ==
  /\ Exists(b)
  /\ ~PairTaken(b, others)
  /\ status' = [status EXCEPT ![b] = "completed"]
  /\ recs' = recs \cup [batch: {b}, other: others, basis: {basis}]
  /\ UNCHANGED <<nextBatch, subjectOf, opened>>

(* CompleteBatch: one transaction completes the batch, inserts the set and *)
(* deletes every other batch of the subject with its rows.                 *)
CompleteBatch(b, others, basis) ==
  LET superseded == BatchesOf(subjectOf[b]) \ {b}
      added == [batch: {b}, other: others, basis: {basis}]
  IN  /\ Exists(b)
      /\ ~PairTaken(b, others)
      /\ status' = [o \in BatchIds |-> IF o = b THEN "completed"
                                       ELSE IF o \in superseded THEN "absent"
                                       ELSE status[o]]
      /\ recs' = {r \in recs : r.batch \notin superseded} \cup added
      /\ UNCHANGED <<nextBatch, subjectOf, opened>>
=============================================================================
