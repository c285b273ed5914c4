----------------------- MODULE RecommendationQueryProofs -----------------------
(***************************************************************************)
(* Proofs about the reads of the recommendations: who is told that a       *)
(* generation completed is shown a set, who is told that there is none     *)
(* never asked for one, a page is whole, a walk over pages goes forward,   *)
(* and who reads a profile was linked to it, however the statements of the *)
(* reads and of the writes interleave.                                     *)
(***************************************************************************)
EXTENDS RecommendationQuery, TLAPS, FiniteSetTheorems

Completed(s) == {b \in BatchesOf(s) : status[b] = "completed"}

(* Batches: those not handed out have neither row nor subject, and a       *)
(* subject that ever had a batch has one.                                  *)
FreshBatches ==
  \A b \in BatchIds : b >= nextBatch => status[b] = "absent" /\ subjectOf[b] = None

BatchesOwned == \A b \in BatchIds : Exists(b) => subjectOf[b] \in Subjects

SubjectsKeepABatch ==
  \A s \in Subjects : \A b \in BatchIds : subjectOf[b] = s => BatchesOf(s) # {}

(* Rows pair the subject of their batch with somebody else.                *)
RowsAreSound ==
  \A r \in recs : /\ r.basis = 0
                  /\ subjectOf[r.batch] \in Subjects
                  /\ r.other \in Subjects \ {subjectOf[r.batch]}

StoreInv ==
  /\ StoreTypeOK
  /\ FreshBatches
  /\ BatchesOwned
  /\ SubjectsKeepABatch
  /\ RowsAreSound

(* Requests.                                                               *)
RequestIsSound(x) ==
  /\ x.pc \in {"authorize", "current", "completed", "count", "list", "answered"} =>
       x.subject \in Subjects
  /\ x.pc \in {"count", "list"} => x.batch # 0
  /\ x.pc = "answered" /\ x.status = "completed" => x.batch # 0
  /\ x.pc \in {"access", "read", "served"} => x.subject \in Employees
  /\ x.pc \in {"read", "served"} /\ x.by \in Employers => x.linked

CompletedStays ==
  \A q \in Queries, s \in Subjects :
    query[q].pc = "completed" /\ query[q].status = "completed" /\ query[q].subject = s
      => Completed(s) # {}

LinkIsNoted ==
  \A q \in Queries, e \in Employees, m \in Employers :
    query[q].pc = "access" /\ query[q].subject = e /\ query[q].by = m /\ Linked(e, m)
      => query[q].linked

Inv ==
  /\ StoreInv
  /\ TypeOK
  /\ \A q \in Queries : RequestIsSound(query[q])
  /\ CompletedStays
  /\ LinkIsNoted

-----------------------------------------------------------------------------
(* The newest batch.                                                       *)

(* The newest of a set of batches is one of them, and none is newer.       *)
LEMMA NewestIsOne ==
  ASSUME NEW B \in SUBSET BatchIds
  PROVE  /\ B = {} => Newest(B) = 0
         /\ B # {} => Newest(B) \in B /\ Newest(B) # 0
         /\ \A b \in B : b <= Newest(B)
<1>1. BatchIds \in SUBSET Nat /\ 0 \notin BatchIds /\ \A b \in BatchIds : b <= MaxBatches
  BY StoreAssumption DEF BatchIds
<1>2. ASSUME B # {}
      PROVE  \E b \in B : \A o \in B : o <= b
  <2> DEFINE less == {xy \in Nat \X Nat : xy[1] < xy[2]}
             gaps == {MaxBatches - b : b \in B}
  <2>1. IsWellFoundedOn(less, Nat)
    BY NatLessThanWellFounded DEF OpToRel
  <2>2. gaps \subseteq Nat /\ gaps # {}
    <3>1. \A b \in B : b \in Nat /\ b <= MaxBatches
      BY <1>1
    <3>2. \A b \in B : MaxBatches - b \in Nat
      BY <3>1, StoreAssumption
    <3> QED BY <1>2, <3>2
  <2>3. PICK g \in gaps : \A m \in gaps : <<m, g>> \notin less
    <3> HIDE DEF less, gaps
    <3> QED BY <2>1, <2>2, WFMin
  <2>4. PICK b \in B : g = MaxBatches - b
    BY <2>3
  <2>5. ASSUME NEW o \in B PROVE o <= b
    <3>1. MaxBatches - o \in gaps /\ MaxBatches - o \in Nat /\ g \in Nat
      BY <2>2, <2>5
    <3>2. <<MaxBatches - o, g>> \notin less
      BY <2>3, <3>1
    <3>3. ~(MaxBatches - o < g)
      BY <3>1, <3>2
    <3>4. o \in Nat /\ b \in Nat /\ MaxBatches \in Nat
      BY <1>1, StoreAssumption
    <3> QED BY <2>4, <3>3, <3>4
  <2> QED BY <2>4, <2>5
<1> QED BY <1>1, <1>2 DEF Newest

(* The batches a subject is shown are batches of its own.                  *)
LEMMA NewestOf ==
  ASSUME NEW s
  PROVE  /\ CurrentBatch(s) # 0 => CurrentBatch(s) \in BatchesOf(s)
         /\ CurrentBatch(s) = 0 => BatchesOf(s) = {}
         /\ LastCompletedBatch(s) # 0 => LastCompletedBatch(s) \in Completed(s)
         /\ LastCompletedBatch(s) = 0 => Completed(s) = {}
<1>1. BatchesOf(s) \in SUBSET BatchIds /\ Completed(s) \in SUBSET BatchIds
  BY DEF BatchesOf, Completed
<1>2. LastCompletedBatch(s) = Newest(Completed(s)) /\ CurrentBatch(s) = Newest(BatchesOf(s))
  BY DEF LastCompletedBatch, Completed, CurrentBatch
<1> QED BY <1>1, <1>2, NewestIsOne

(* The statement that decides the access and the current sets that are     *)
(* shown agree on who is linked to whom.                                   *)
LEMMA AccessIsLink ==
  ASSUME StoreInv, NEW e \in Employees, NEW m
  PROVE  HasAccess(e, m) <=> Linked(e, m)
<1>1. \A b : RowsOf(b) \subseteq recs /\ \A r \in RowsOf(b) : r.batch = b
  BY DEF RowsOf
<1>2. \A r \in recs : r.batch # 0
  BY StoreAssumption DEF StoreInv, StoreTypeOK, Recommendations, BatchIds
<1>3. ASSUME NEW s, NEW r \in RowsOf(LastCompletedBatch(s))
      PROVE  subjectOf[LastCompletedBatch(s)] = s
  <2>1. LastCompletedBatch(s) # 0
    BY <1>1, <1>2
  <2>2. LastCompletedBatch(s) \in Completed(s)
    BY <2>1, NewestOf
  <2> QED BY <2>2 DEF Completed, BatchesOf
<1>4. e \notin Jobs /\ active \subseteq Jobs
  BY StoreAssumption DEF StoreInv, StoreTypeOK
<1>5. ASSUME NEW j \in active
      PROVE  j \in Shown(e) <=> \E r \in RowsOf(LastCompletedBatch(e)) : r.other = j
  BY <1>3, <1>4 DEF Shown, Visible
<1>6. ASSUME NEW j \in active
      PROVE  e \in Shown(j) <=> \E r \in RowsOf(LastCompletedBatch(j)) : r.other = e
  BY <1>3, <1>4 DEF Shown, Visible
<1> QED BY <1>5, <1>6 DEF HasAccess, Linked

(* A set has at most one row per counterpart of its subject.               *)
LEMMA VisibleIsBounded ==
  ASSUME StoreInv, NEW b \in BatchIds
  PROVE  Cardinality(Visible(b)) \in 0..(Cardinality(Subjects) - 1)
<1>1. IsFiniteSet(Subjects) /\ Subjects # {}
  BY QueryAssumption DEF Subjects
<1>2. Cardinality(Subjects) \in Nat /\ Cardinality(Subjects) # 0
  BY <1>1, FS_CardinalityType, FS_EmptySet
<1>3. Visible(b) \subseteq recs /\ \A r \in Visible(b) : r.batch = b
  BY DEF Visible, RowsOf
<1>4. CASE Visible(b) = {}
  BY <1>2, <1>4, FS_EmptySet
<1>5. CASE Visible(b) # {}
  <2> DEFINE s == subjectOf[b]
             f == [r \in Visible(b) |-> r.other]
  <2>1. s \in Subjects
    BY <1>3, <1>5 DEF StoreInv, RowsAreSound
  <2>2. f \in [Visible(b) -> Subjects \ {s}]
    BY <1>3 DEF StoreInv, RowsAreSound
  <2>3. ASSUME NEW r \in Visible(b), NEW t \in Visible(b), f[r] = f[t] PROVE r = t
    <3>1. r \in Recommendations /\ t \in Recommendations
      BY <1>3 DEF StoreInv, StoreTypeOK
    <3>2. r.batch = t.batch /\ r.other = t.other /\ r.basis = t.basis
      BY <1>3, <2>3 DEF StoreInv, RowsAreSound
    <3> QED BY <3>1, <3>2 DEF Recommendations
  <2>4. f \in Injection(Visible(b), Subjects \ {s})
    BY <2>2, <2>3 DEF Injection, IsInjective
  <2>5. /\ IsFiniteSet(Subjects \ {s})
        /\ Cardinality(Subjects \ {s}) = Cardinality(Subjects) - 1
    BY <1>1, <2>1, FS_RemoveElement
  <2>6. IsFiniteSet(Visible(b)) /\ Cardinality(Visible(b)) <= Cardinality(Subjects \ {s})
    BY <2>4, <2>5, FS_Injection
  <2>7. Cardinality(Visible(b)) \in Nat
    BY <2>6, FS_CardinalityType
  <2> QED BY <1>2, <2>5, <2>6, <2>7
<1> QED BY <1>4, <1>5
-----------------------------------------------------------------------------
(* The writes.                                                             *)

(* A batch changes its status, or is opened: nothing that completed is     *)
(* lost, and a subject keeps a batch.                                      *)
LEMMA RequestKeeps ==
  ASSUME StoreInv, NEW s \in Subjects, CreateRecommendationBatch(s), UNCHANGED domain
  PROVE  StoreInv' /\ \A t \in Subjects : Completed(t) # {} => Completed(t)' # {}
<1>1. /\ nextBatch \in BatchIds /\ nextBatch' = nextBatch + 1
      /\ \A b \in BatchIds : /\ subjectOf'[b] = IF b = nextBatch THEN s ELSE subjectOf[b]
                             /\ status'[b] = IF b = nextBatch THEN "pending" ELSE status[b]
      /\ UNCHANGED <<recs, version, active>>
  BY DEF CreateRecommendationBatch, StoreInv, StoreTypeOK, domain
<1>2. BatchIds \subseteq Nat /\ nextBatch \in Nat
  BY <1>1, StoreAssumption DEF BatchIds
<1>3. status[nextBatch] = "absent" /\ subjectOf[nextBatch] = None
  BY <1>1, <1>2 DEF StoreInv, FreshBatches
<1>4. StoreTypeOK'
  BY <1>1, StoreAssumption
  DEF StoreInv, StoreTypeOK, CreateRecommendationBatch, BatchIds, BatchStatus, InFlight,
      Versions, Subjects
<1>5. ASSUME NEW b \in BatchIds, Exists(b)
      PROVE  b # nextBatch /\ Exists(b)' /\ subjectOf'[b] = subjectOf[b] /\ status'[b] = status[b]
  BY <1>1, <1>3, <1>5 DEF Exists, BatchStatus, InFlight, Terminal
<1>6. FreshBatches' /\ BatchesOwned'
  <2>1. ASSUME NEW b \in BatchIds, b >= nextBatch'
        PROVE  status'[b] = "absent" /\ subjectOf'[b] = None
    <3>1. b >= nextBatch /\ b # nextBatch
      BY <1>1, <1>2, <2>1
    <3> QED BY <1>1, <3>1 DEF StoreInv, FreshBatches
  <2>2. BatchesOwned'
    BY <1>1 DEF StoreInv, BatchesOwned, Exists
  <2> QED BY <2>1, <2>2 DEF FreshBatches
<1>7. SubjectsKeepABatch'
  <2> SUFFICES ASSUME NEW t \in Subjects, NEW b \in BatchIds, subjectOf'[b] = t
               PROVE  BatchesOf(t)' # {}
    BY DEF SubjectsKeepABatch
  <2>1. CASE b = nextBatch
    BY <1>1, <2>1 DEF BatchesOf, Exists, BatchStatus, InFlight
  <2>2. CASE b # nextBatch
    <3>1. PICK c \in BatchIds : Exists(c) /\ subjectOf[c] = t
      BY <1>1, <2>2 DEF StoreInv, SubjectsKeepABatch, BatchesOf
    <3> QED BY <1>5, <3>1 DEF BatchesOf
  <2> QED BY <2>1, <2>2
<1>8. RowsAreSound'
  <2>1. ASSUME NEW r \in recs PROVE subjectOf'[r.batch] = subjectOf[r.batch]
    <3>1. r.batch \in BatchIds /\ subjectOf[r.batch] # None
      BY StoreAssumption DEF StoreInv, StoreTypeOK, Recommendations, RowsAreSound, Subjects
    <3> QED BY <1>1, <1>3, <3>1
  <2> QED BY <1>1, <2>1 DEF StoreInv, RowsAreSound
<1>9. ASSUME NEW t \in Subjects, Completed(t) # {}
      PROVE  Completed(t)' # {}
  <2>1. PICK c \in BatchIds : Exists(c) /\ subjectOf[c] = t /\ status[c] = "completed"
    BY <1>9 DEF Completed, BatchesOf
  <2> QED BY <1>5, <2>1 DEF Completed, BatchesOf
<1> QED BY <1>4, <1>6, <1>7, <1>8, <1>9 DEF StoreInv

(* A change of the status of a batch in flight keeps every set.            *)
LEMMA TransitionKeeps ==
  ASSUME StoreInv, NEW b \in BatchIds, Open(b), NEW to \in {"processing", "failed"},
         status' = [status EXCEPT ![b] = to],
         UNCHANGED <<nextBatch, subjectOf, recs, opened, version, active>>
  PROVE  StoreInv' /\ \A t \in Subjects : Completed(t) # {} => Completed(t)' # {}
<1>1. /\ \A c \in BatchIds : status'[c] = IF c = b THEN to ELSE status[c]
      /\ status[b] # "completed" /\ Exists(b)
      /\ \A c \in BatchIds : Exists(c)' <=> Exists(c)
  BY DEF StoreInv, StoreTypeOK, Open, Exists, BatchStatus, InFlight, Terminal
<1>2. StoreTypeOK'
  BY DEF StoreInv, StoreTypeOK, BatchStatus, InFlight, Terminal
<1>3. FreshBatches'
  BY <1>1 DEF StoreInv, FreshBatches, Exists, BatchStatus, InFlight, Terminal
<1>4. BatchesOwned' /\ RowsAreSound'
  BY <1>1 DEF StoreInv, BatchesOwned, RowsAreSound
<1>5. \A t \in Subjects : BatchesOf(t)' = BatchesOf(t)
  BY <1>1 DEF BatchesOf
<1>6. SubjectsKeepABatch'
  BY <1>5 DEF StoreInv, SubjectsKeepABatch
<1>7. \A t \in Subjects : Completed(t) # {} => Completed(t)' # {}
  BY <1>1, <1>5 DEF Completed, BatchesOf
<1> QED BY <1>2, <1>3, <1>4, <1>6, <1>7 DEF StoreInv

(* A completed set is replaced by another of the same subject.             *)
LEMMA CompleteKeeps ==
  ASSUME StoreInv, NEW b \in BatchIds, Complete(b)
  PROVE  StoreInv' /\ \A t \in Subjects : Completed(t) # {} => Completed(t)' # {}
<1> DEFINE superseded == BatchesOf(subjectOf[b]) \ {b}
<1>1. PICK others \in SUBSET Candidates(subjectOf[b]) : CompleteBatch(b, others, 0)
  BY DEF Complete
<1>2. /\ Exists(b)
      /\ \A c \in BatchIds : status'[c] = IF c = b THEN "completed"
                                         ELSE IF c \in superseded THEN "absent"
                                         ELSE status[c]
      /\ recs' = {r \in recs : r.batch \notin superseded}
                   \cup [batch: {b}, other: others, basis: {0}]
      /\ UNCHANGED <<nextBatch, subjectOf, opened, version, active>>
  BY <1>1 DEF CompleteBatch, Complete, domain
<1>3. subjectOf[b] \in Subjects /\ others \subseteq Subjects \ {subjectOf[b]}
  BY <1>1, <1>2, StoreAssumption DEF StoreInv, BatchesOwned, Subjects, Candidates
<1>4. StoreTypeOK'
  <2>1. status' \in [BatchIds -> BatchStatus \cup {"absent"}]
    BY <1>1 DEF CompleteBatch, StoreInv, StoreTypeOK, BatchStatus, InFlight, Terminal
  <2>2. recs' \in SUBSET Recommendations
    BY <1>2, <1>3, StoreAssumption DEF StoreInv, StoreTypeOK, Recommendations, Versions
  <2> QED BY <1>2, <2>1, <2>2 DEF StoreInv, StoreTypeOK
<1>5. ASSUME NEW c \in BatchIds
      PROVE  Exists(c)' <=> Exists(c) /\ c \notin superseded
  BY <1>2 DEF Exists, BatchStatus, InFlight, Terminal
<1>6. FreshBatches' /\ BatchesOwned'
  BY <1>2, <1>5 DEF StoreInv, FreshBatches, BatchesOwned, Exists, BatchStatus, InFlight, Terminal
<1>7. b \in BatchesOf(subjectOf[b])' /\ status'[b] = "completed"
  BY <1>2, <1>5 DEF BatchesOf
<1>8. ASSUME NEW t \in Subjects, t # subjectOf[b], NEW c \in BatchesOf(t)
      PROVE  c \in BatchesOf(t)' /\ status'[c] = status[c]
  <2>1. c \in BatchIds /\ Exists(c) /\ subjectOf[c] = t
    BY <1>8 DEF BatchesOf
  <2>2. c # b /\ c \notin superseded
    BY <1>8, <2>1 DEF BatchesOf
  <2> QED BY <1>2, <1>5, <2>1, <2>2 DEF BatchesOf
<1> HIDE DEF superseded
<1>9. ASSUME NEW t \in Subjects, BatchesOf(t) # {} PROVE BatchesOf(t)' # {}
  <2>1. CASE t = subjectOf[b]
    <3>1. b \in BatchesOf(t)'
      BY <1>2, <1>7, <2>1 DEF BatchesOf
    <3> QED BY <3>1
  <2>2. CASE t # subjectOf[b]
    BY <1>8, <1>9, <2>2
  <2> QED BY <2>1, <2>2
<1>10. SubjectsKeepABatch'
  BY <1>2, <1>9 DEF StoreInv, SubjectsKeepABatch
<1>11. RowsAreSound'
  BY <1>2, <1>3 DEF StoreInv, RowsAreSound
<1>12. ASSUME NEW t \in Subjects, Completed(t) # {} PROVE Completed(t)' # {}
  <2>1. CASE t = subjectOf[b]
    <3>1. b \in Completed(t)'
      BY <1>2, <1>7, <2>1 DEF BatchesOf, Completed
    <3> QED BY <3>1
  <2>2. CASE t # subjectOf[b]
    <3>1. PICK c \in BatchesOf(t) : status[c] = "completed"
      BY <1>12 DEF Completed
    <3>2. c \in Completed(t)'
      BY <1>8, <2>2, <3>1 DEF Completed
    <3> QED BY <3>2
  <2> QED BY <2>1, <2>2
<1> QED BY <1>4, <1>6, <1>10, <1>11, <1>12 DEF StoreInv

(* So does a write, or a deletion, of a subject.                           *)
LEMMA DomainKeeps ==
  ASSUME StoreInv, UNCHANGED store,
         \/ \E s \in Subjects : PersistWrite(s)
         \/ \E j \in Jobs : SoftDeleteJobPosition(j)
         \/ UNCHANGED domain
  PROVE  StoreInv' /\ \A t \in Subjects : Completed(t)' = Completed(t)
<1>1. UNCHANGED <<nextBatch, subjectOf, status, recs, opened>>
  BY DEF store
<1>2. version' \in [Subjects -> Versions] /\ active' \in SUBSET Jobs
  BY StoreAssumption
  DEF StoreInv, StoreTypeOK, PersistWrite, Writable, SoftDeleteJobPosition, domain, Versions
<1>3. StoreTypeOK'
  BY <1>1, <1>2 DEF StoreInv, StoreTypeOK
<1>4. FreshBatches' /\ BatchesOwned' /\ RowsAreSound'
  BY <1>1 DEF StoreInv, FreshBatches, BatchesOwned, RowsAreSound, Exists
<1>5. \A t \in Subjects : BatchesOf(t)' = BatchesOf(t) /\ Completed(t)' = Completed(t)
  BY <1>1 DEF BatchesOf, Completed, Exists
<1>6. SubjectsKeepABatch'
  BY <1>1, <1>5 DEF StoreInv, SubjectsKeepABatch
<1> QED BY <1>3, <1>4, <1>5, <1>6 DEF StoreInv

(* A write moves its subject to the front of a ranking.                    *)
LEMMA MovedIsARank ==
  ASSUME rank \in Ranks, NEW s \in Subjects
  PROVE  MovedToFront(s) \in Ranks
<1>1. IsFiniteSet(Subjects) /\ Subjects # {}
  BY QueryAssumption DEF Subjects
<1>2. Cardinality(Subjects) \in Nat /\ Cardinality(Subjects) # 0
  BY <1>1, FS_CardinalityType, FS_EmptySet
<1>3. \A t \in Subjects : rank[t] \in 1..Cardinality(Subjects)
  BY DEF Ranks
<1> QED BY <1>2, <1>3 DEF MovedToFront, Ranks

(* Every write keeps the tables sound and notes the links it makes.        *)
LEMMA ChangeStep ==
  ASSUME Inv, Change
  PROVE  /\ StoreInv' /\ \A t \in Subjects : Completed(t) # {} => Completed(t)' # {}
         /\ owner' = owner /\ rank' \in Ranks /\ Observe
<1>1. StoreInv /\ rank \in Ranks
  BY DEF Inv, TypeOK
<1>2. ASSUME NEW s \in Subjects, Write(s)
      PROVE  StoreInv' /\ \A t \in Subjects : Completed(t)' = Completed(t)
  BY <1>1, <1>2, DomainKeeps DEF Write
<1>3. ASSUME NEW j \in Jobs, SoftDelete(j)
      PROVE  StoreInv' /\ \A t \in Subjects : Completed(t)' = Completed(t)
  BY <1>1, <1>3, DomainKeeps DEF SoftDelete
<1>4. ASSUME NEW s \in Subjects, Request(s)
      PROVE  StoreInv' /\ \A t \in Subjects : Completed(t) # {} => Completed(t)' # {}
  BY <1>1, <1>4, RequestKeeps DEF Request
<1>5. ASSUME NEW b \in BatchIds, Claim(b) \/ Fail(b)
      PROVE  StoreInv' /\ \A t \in Subjects : Completed(t) # {} => Completed(t)' # {}
  <2>1. /\ Open(b) /\ \E to \in {"processing", "failed"} : status' = [status EXCEPT ![b] = to]
        /\ UNCHANGED <<nextBatch, subjectOf, recs, opened, version, active>>
    BY <1>5 DEF Claim, Fail, ClaimBatch, TransitionBatch, domain
  <2> QED BY <1>1, <2>1, TransitionKeeps
<1>6. ASSUME NEW b \in BatchIds, Complete(b)
      PROVE  StoreInv' /\ \A t \in Subjects : Completed(t) # {} => Completed(t)' # {}
  BY <1>1, <1>6, CompleteKeeps
<1>7. rank' \in Ranks
  BY <1>1, MovedIsARank DEF Change, Reordered
<1> QED BY <1>2, <1>3, <1>4, <1>5, <1>6, <1>7 DEF Change

(* The link of a request that is under way is noted when it is made.       *)
LEMMA ObserveStep ==
  ASSUME Inv, Change
  PROVE  Inv'
<1>1. /\ StoreInv' /\ \A t \in Subjects : Completed(t) # {} => Completed(t)' # {}
      /\ owner' = owner /\ rank' \in Ranks /\ Observe
  BY ChangeStep
<1>2. /\ query' = [q \in Queries |->
           IF query[q].pc \in {"access", "read"}
           THEN [query[q] EXCEPT !.linked = @ \/ LinkedNext(q)] ELSE query[q]]
      /\ \A q \in Queries : query[q] \in QueryState
  BY <1>1 DEF Observe, Inv, TypeOK
<1>3. ASSUME NEW q \in Queries
      PROVE  /\ query'[q].pc = query[q].pc /\ query'[q].subject = query[q].subject
             /\ query'[q].by = query[q].by /\ query'[q].status = query[q].status
             /\ query'[q].batch = query[q].batch
             /\ query'[q] \in QueryState
             /\ query[q].linked => query'[q].linked
             /\ query[q].pc \in {"access", "read"} /\ LinkedNext(q) => query'[q].linked
  <2> DEFINE now == LinkedNext(q)
  <2>1. now \in BOOLEAN
    BY DEF LinkedNext
  <2>2. query'[q] = IF query[q].pc \in {"access", "read"}
                    THEN [query[q] EXCEPT !.linked = @ \/ now] ELSE query[q]
    BY <1>2
  <2> HIDE DEF now
  <2>3. query[q] \in QueryState /\ query[q].linked \in BOOLEAN
    BY <1>2 DEF QueryState
  <2>4. (query[q].linked \/ now) \in BOOLEAN
    BY <2>1, <2>3
  <2>5. CASE query[q].pc \in {"access", "read"}
    <3> DEFINE l == query[q].linked \/ now
    <3>1. query'[q] = [query[q] EXCEPT !.linked = l]
      BY <2>2, <2>5
    <3>2. l \in BOOLEAN
      BY <2>4
    <3>3. (query[q].linked => l) /\ (now => l)
      OBVIOUS
    <3> HIDE DEF l
    <3>4. /\ query'[q].pc = query[q].pc /\ query'[q].subject = query[q].subject
          /\ query'[q].by = query[q].by /\ query'[q].status = query[q].status
          /\ query'[q].batch = query[q].batch
          /\ query'[q] \in QueryState
          /\ query'[q].linked = l
      BY <2>3, <3>1, <3>2 DEF QueryState
    <3>5. (query[q].linked => query'[q].linked) /\ (now => query'[q].linked)
      BY <3>3, <3>4
    <3> QED BY <3>4, <3>5 DEF now
  <2>6. CASE query[q].pc \notin {"access", "read"}
    BY <2>2, <2>3, <2>6
  <2> QED BY <2>5, <2>6
<1>4. TypeOK'
  BY <1>1, <1>2, <1>3 DEF Inv, TypeOK, StoreInv
<1>5. (\A q \in Queries : RequestIsSound(query[q]))'
  BY <1>3 DEF Inv, RequestIsSound
<1>6. CompletedStays'
  BY <1>1, <1>3 DEF Inv, CompletedStays
<1>7. LinkIsNoted'
  <2> SUFFICES ASSUME NEW q \in Queries, NEW e \in Employees, NEW m \in Employers,
                      query'[q].pc = "access", query'[q].subject = e, query'[q].by = m,
                      Linked(e, m)'
               PROVE  query'[q].linked
    BY DEF LinkIsNoted
  <2>1. query[q].pc = "access" /\ query[q].subject = e /\ query[q].by = m
    BY <1>3
  <2>2. LinkedNext(q)
    BY <2>1 DEF LinkedNext
  <2> QED BY <1>3, <2>1, <2>2
<1> QED BY <1>1, <1>4, <1>5, <1>6, <1>7 DEF Inv

-----------------------------------------------------------------------------
(* The reads.                                                              *)

(* A request goes on: it is sound, what it read of a completed batch is    *)
(* still so, and a link it rests on is noted.                              *)
LEMMA ReadStep ==
  ASSUME Inv, NEW q \in Queries, NEW x \in QueryState, Step(q, x), RequestIsSound(x),
         x.pc = "completed" /\ x.status = "completed" => Completed(x.subject) # {},
         \A e \in Employees, m \in Employers :
           x.pc = "access" /\ x.subject = e /\ x.by = m /\ Linked(e, m) => x.linked
  PROVE  Inv'
<1>1. /\ \A o \in Queries : query'[o] = IF o = q THEN x ELSE query[o]
      /\ query' \in [Queries -> QueryState]
      /\ UNCHANGED <<domain, store, owner, rank>>
  BY DEF Step, Inv, TypeOK
<1>2. StoreInv' /\ \A t \in Subjects : Completed(t)' = Completed(t)
  BY <1>1, DomainKeeps DEF Inv
<1>3. TypeOK'
  BY <1>1, <1>2 DEF Inv, TypeOK, StoreInv
<1>4. (\A o \in Queries : RequestIsSound(query[o]))'
  <2>1. \A o \in Queries : RequestIsSound(query'[o])
    BY <1>1 DEF Inv
  <2> QED BY <2>1 DEF RequestIsSound
<1>5. CompletedStays'
  BY <1>1, <1>2 DEF Inv, CompletedStays
<1>6. \A e \in Employees, m \in Employers : Linked(e, m)' <=> Linked(e, m)
  <2>1. UNCHANGED <<owner, active, subjectOf, recs>>
    BY <1>1 DEF domain, store
  <2>2. \A s : LastCompletedBatch(s)' = LastCompletedBatch(s)
    BY <1>1 DEF store, LastCompletedBatch, Newest, BatchesOf, Exists
  <2>3. \A s : Shown(s)' = Shown(s)
    BY <2>1, <2>2 DEF Shown, Visible, RowsOf
  <2> QED BY <2>1, <2>3 DEF Linked
<1>7. LinkIsNoted'
  BY <1>1, <1>6 DEF Inv, LinkIsNoted
<1> QED BY <1>2, <1>3, <1>4, <1>5, <1>7 DEF Inv
(* A query at rest has no answer.                                          *)
LEMMA IdleIsAState ==
  /\ Idle \in QueryState
  /\ Idle.pc = "idle" /\ Idle.status = NoAnswer /\ Idle.linked = FALSE
<1>1. IsFiniteSet(Subjects) /\ Subjects # {}
  BY QueryAssumption DEF Subjects
<1>2. Cardinality(Subjects) \in Nat /\ Cardinality(Subjects) # 0
  BY <1>1, FS_CardinalityType, FS_EmptySet
<1>3. 0 \in 0..(Cardinality(Subjects) - 1)
  BY <1>2
<1>4. FALSE \in BOOLEAN
  OBVIOUS
<1>5. Idle \in QueryState
  BY <1>3, <1>4 DEF Idle, QueryState
<1> QED BY <1>5 DEF Idle

(* Accepting a query keeps the invariant.                                  *)
LEMMA AskStep ==
  ASSUME Inv, NEW q \in Queries, NEW p \in Principals,
         \/ \E s \in Subjects : Ask(q, s, p)
         \/ \E e \in Employees : AskProfile(q, e, p)
  PROVE  Inv'
<1>1. CASE \E s \in Subjects : Ask(q, s, p)
  <2>1. PICK s \in Subjects : Ask(q, s, p)
    BY <1>1
  <2> DEFINE x == [Idle EXCEPT !.pc = "authorize", !.subject = s, !.by = p]
  <2>2. Step(q, x)
    BY <2>1 DEF Ask
  <2>3. x \in QueryState /\ x.pc = "authorize" /\ x.subject = s
    BY IdleIsAState DEF QueryState
  <2> HIDE DEF x
  <2>4. RequestIsSound(x)
    BY <2>3 DEF RequestIsSound
  <2> QED BY <2>2, <2>3, <2>4, ReadStep
<1>2. CASE \E e \in Employees : AskProfile(q, e, p)
  <2>1. PICK e \in Employees : AskProfile(q, e, p)
    BY <1>2
  <2> DEFINE l == p \in Employers /\ Linked(e, p)
             x == [Idle EXCEPT !.pc = "access", !.subject = e, !.by = p, !.linked = l]
  <2>2. Step(q, x)
    BY <2>1 DEF AskProfile
  <2>3. l \in BOOLEAN
    BY DEF Linked
  <2>4. /\ p \in Employers /\ Linked(e, p) => l
        /\ e \in Subjects
    BY DEF Subjects
  <2> HIDE DEF l
  <2>5. x \in QueryState /\ x.pc = "access" /\ x.subject = e /\ x.by = p /\ x.linked = l
    BY <2>3, <2>4, IdleIsAState DEF QueryState
  <2> HIDE DEF x
  <2>6. RequestIsSound(x)
    BY <2>5 DEF RequestIsSound
  <2>7. ASSUME NEW f \in Employees, NEW m \in Employers,
               x.pc = "access", x.subject = f, x.by = m, Linked(f, m)
        PROVE  x.linked
    <3>1. f = e /\ m = p
      BY <2>5, <2>7
    <3>2. Linked(e, p)
      BY <2>7, <3>1
    <3>3. l
      BY <2>4, <3>1, <3>2
    <3> QED BY <2>5, <3>3
  <2> QED BY <2>2, <2>5, <2>6, <2>7, ReadStep
<1> QED BY <1>1, <1>2

(* So does asking for the next page.                                       *)
LEMMA NextPageStep ==
  ASSUME Inv, NEW q \in Queries, NextPage(q)
  PROVE  Inv'
<1> DEFINE x == [Idle EXCEPT !.pc = "authorize", !.subject = query[q].subject,
                   !.by = query[q].by, !.offset = Limit,
                   !.batch = query[q].batch, !.seen = query[q].items]
<1>1. Step(q, x) /\ query[q].pc = "answered"
  BY DEF NextPage
<1>2. query[q] \in QueryState /\ RequestIsSound(query[q])
  BY DEF Inv, TypeOK
<1>3. x \in QueryState /\ x.pc = "authorize" /\ x.subject = query[q].subject
  BY <1>2, IdleIsAState DEF QueryState
<1> HIDE DEF x
<1>4. RequestIsSound(x)
  BY <1>1, <1>2, <1>3 DEF RequestIsSound
<1> QED BY <1>1, <1>3, <1>4, ReadStep

(* The statements of the queries after the authorisation.                  *)
LEMMA AnswerStep ==
  ASSUME Inv, NEW q \in Queries,
         Authorize(q) \/ ReadCurrent(q) \/ ReadCompleted(q) \/ Count(q) \/ List(q)
  PROVE  Inv'
<1> DEFINE s == query[q].subject
<1>1. query[q] \in QueryState /\ RequestIsSound(query[q]) /\ StoreInv
  BY DEF Inv, TypeOK
<1>2. CASE Authorize(q)
  <2>1. PICK pc \in {"current", "refused"} : Step(q, [query[q] EXCEPT !.pc = pc])
    BY <1>2 DEF Authorize
  <2> DEFINE x == [query[q] EXCEPT !.pc = pc]
  <2>2. x \in QueryState /\ x.pc = pc /\ x.subject = s
    BY <1>1 DEF QueryState
  <2>3. Step(q, x) /\ s \in Subjects
    BY <1>1, <1>2, <2>1 DEF Authorize, RequestIsSound
  <2> HIDE DEF x
  <2>4. RequestIsSound(x)
    BY <2>2, <2>3 DEF RequestIsSound
  <2> QED BY <2>2, <2>3, <2>4, ReadStep
<1>3. CASE ReadCurrent(q)
  <2> DEFINE b == CurrentBatch(s)
  <2>1. query[q].pc = "current" /\ s \in Subjects
    BY <1>1, <1>3 DEF ReadCurrent, RequestIsSound
  <2>2. CASE b = 0
    <3> DEFINE x == [query[q] EXCEPT !.pc = "answered", !.status = "none", !.batch = 0]
    <3>1. Step(q, x)
      BY <1>3, <2>2 DEF ReadCurrent
    <3>2. x \in QueryState /\ x.pc = "answered" /\ x.status = "none" /\ x.subject = s
      BY <1>1 DEF QueryState
    <3> HIDE DEF x
    <3>3. RequestIsSound(x)
      BY <2>1, <3>2 DEF RequestIsSound
    <3> QED BY <3>1, <3>2, <3>3, ReadStep
  <2>3. CASE b # 0
    <3> DEFINE x == [query[q] EXCEPT !.pc = "completed", !.status = status[b]]
    <3>1. Step(q, x)
      BY <1>3, <2>3 DEF ReadCurrent
    <3>2. b \in BatchesOf(s)
      BY <2>3, NewestOf
    <3>3. status[b] \in BatchStatus
      BY <3>2 DEF BatchesOf, Exists
    <3>4. x \in QueryState /\ x.pc = "completed" /\ x.status = status[b] /\ x.subject = s
      BY <1>1, <3>3 DEF QueryState
    <3> HIDE DEF x
    <3>5. RequestIsSound(x)
      BY <2>1, <3>4 DEF RequestIsSound
    <3>6. x.status = "completed" => Completed(s) # {}
      BY <3>2, <3>4 DEF Completed
    <3>7. x.status = "completed" => Completed(x.subject) # {}
      BY <3>4, <3>6
    <3> QED BY <3>1, <3>4, <3>5, <3>7, ReadStep
  <2> QED BY <2>2, <2>3
<1>4. CASE ReadCompleted(q)
  <2> DEFINE b == LastCompletedBatch(s)
             seen == IF b = query[q].batch THEN query[q].seen ELSE {}
             x == [query[q] EXCEPT !.pc = IF b = 0 THEN "answered" ELSE "count",
                     !.batch = b, !.seen = seen]
  <2>1. Step(q, x) /\ query[q].pc = "completed"
    BY <1>4 DEF ReadCompleted
  <2>2. s \in Subjects /\ (query[q].status = "completed" => b # 0)
    BY <1>1, <2>1, NewestOf DEF RequestIsSound, Inv, CompletedStays
  <2>3. b \in BatchIds \cup {0}
    BY NewestOf DEF Completed, BatchesOf
  <2>4. seen \in SUBSET Subjects
    BY <1>1 DEF QueryState
  <2>5. /\ x \in QueryState /\ x.pc = IF b = 0 THEN "answered" ELSE "count"
        /\ x.status = query[q].status /\ x.batch = b /\ x.subject = s
    <3> HIDE DEF b, seen
    <3> QED BY <1>1, <2>3, <2>4 DEF QueryState
  <2> HIDE DEF x, b
  <2>6. RequestIsSound(x)
    BY <2>2, <2>5 DEF RequestIsSound
  <2> QED BY <2>1, <2>5, <2>6, ReadStep
<1>5. CASE Count(q)
  <2> DEFINE n == Cardinality(Visible(query[q].batch))
             x == [query[q] EXCEPT !.pc = "list", !.total = n]
  <2>1. Step(q, x) /\ query[q].pc = "count"
    BY <1>5 DEF Count
  <2>2. query[q].batch \in BatchIds /\ s \in Subjects /\ query[q].batch # 0
    BY <1>1, <2>1 DEF QueryState, RequestIsSound
  <2>3. n \in 0..(Cardinality(Subjects) - 1)
    BY <1>1, <2>2, VisibleIsBounded
  <2> HIDE DEF n
  <2>4. x \in QueryState /\ x.pc = "list" /\ x.batch = query[q].batch /\ x.subject = s
    BY <1>1, <2>3 DEF QueryState
  <2> HIDE DEF x
  <2>5. RequestIsSound(x)
    BY <2>2, <2>4 DEF RequestIsSound
  <2> QED BY <2>1, <2>4, <2>5, ReadStep
<1>6. CASE List(q)
  <2> DEFINE items == Page(query[q].batch, query[q].offset)
             x == [query[q] EXCEPT !.pc = "answered", !.items = items]
  <2>1. Step(q, x) /\ query[q].pc = "list"
    BY <1>6 DEF List
  <2>2. query[q].batch # 0 /\ s \in Subjects
    BY <1>1, <2>1 DEF RequestIsSound
  <2>3. items \in SUBSET Subjects
    <3>1. \A r \in recs : r.other \in Subjects
      BY <1>1 DEF StoreInv, RowsAreSound
    <3>2. \A b : Visible(b) \subseteq recs
      BY DEF Visible, RowsOf
    <3> QED BY <3>1, <3>2 DEF Page
  <2> HIDE DEF items
  <2>4. x \in QueryState /\ x.pc = "answered" /\ x.batch = query[q].batch /\ x.subject = s
    BY <1>1, <2>3 DEF QueryState
  <2> HIDE DEF x
  <2>5. RequestIsSound(x)
    BY <2>2, <2>4 DEF RequestIsSound
  <2> QED BY <2>1, <2>4, <2>5, ReadStep
<1> QED BY <1>2, <1>3, <1>4, <1>5, <1>6

(* The access to a profile, and the read that follows.                     *)
LEMMA ProfileStep ==
  ASSUME Inv, NEW q \in Queries, AuthorizeProfile(q) \/ ReadProfile(q)
  PROVE  Inv'
<1>1. query[q] \in QueryState /\ RequestIsSound(query[q]) /\ StoreInv
  BY DEF Inv, TypeOK
<1>2. CASE AuthorizeProfile(q)
  <2> DEFINE e == query[q].subject
             p == query[q].by
             pc == IF p = e \/ (p \in Employers /\ HasAccess(e, p)) THEN "read" ELSE "refused"
             x == [query[q] EXCEPT !.pc = pc]
  <2>1. Step(q, x) /\ query[q].pc = "access" /\ e \in Employees
    BY <1>1, <1>2 DEF AuthorizeProfile, RequestIsSound
  <2>2. pc \in {"read", "refused"}
    OBVIOUS
  <2>3. pc = "read" /\ p \in Employers => query[q].linked
    <3> SUFFICES ASSUME pc = "read", p \in Employers PROVE query[q].linked
      OBVIOUS
    <3>1. p # e
      BY <2>1, QueryAssumption DEF Subjects
    <3>2. HasAccess(e, p)
      BY <3>1
    <3>3. Linked(e, p)
      BY <1>1, <2>1, <3>2, AccessIsLink
    <3> QED BY <2>1, <3>3 DEF Inv, LinkIsNoted
  <2> HIDE DEF pc
  <2>4. /\ x \in QueryState /\ x.pc = pc /\ x.by = p /\ x.subject = e
        /\ x.linked = query[q].linked
    BY <1>1, <2>2 DEF QueryState
  <2> HIDE DEF x
  <2>5. RequestIsSound(x)
    BY <2>1, <2>2, <2>3, <2>4 DEF RequestIsSound
  <2> QED BY <2>1, <2>2, <2>4, <2>5, ReadStep
<1>3. CASE ReadProfile(q)
  <2> DEFINE x == [query[q] EXCEPT !.pc = "served"]
  <2>1. Step(q, x) /\ query[q].pc = "read"
    BY <1>3 DEF ReadProfile
  <2>2. /\ x \in QueryState /\ x.pc = "served" /\ x.by = query[q].by
        /\ x.subject = query[q].subject /\ x.linked = query[q].linked
    BY <1>1 DEF QueryState
  <2> HIDE DEF x
  <2>3. RequestIsSound(x)
    BY <1>1, <2>1, <2>2 DEF RequestIsSound
  <2> QED BY <2>1, <2>2, <2>3, ReadStep
<1> QED BY <1>2, <1>3

-----------------------------------------------------------------------------
(* The theorems.                                                           *)

(* Empty tables and queries at rest satisfy the invariant.                 *)
LEMMA Initially == Init => Inv
<1> SUFFICES ASSUME Init PROVE Inv
  OBVIOUS
<1>1. \A q \in Queries : query[q] = Idle
  BY DEF Init
<1>2. StoreTypeOK
  BY StoreAssumption DEF Init, StoreInit, StoreTypeOK, Versions, BatchIds
<1>3. FreshBatches /\ BatchesOwned /\ SubjectsKeepABatch /\ RowsAreSound
  BY StoreAssumption
  DEF Init, StoreInit, FreshBatches, BatchesOwned, SubjectsKeepABatch, RowsAreSound,
      Exists, BatchStatus, InFlight, Terminal, Subjects
<1>4. TypeOK
  BY <1>2, IdleIsAState DEF Init, TypeOK
<1>5. (\A q \in Queries : RequestIsSound(query[q])) /\ CompletedStays /\ LinkIsNoted
  BY <1>1, IdleIsAState DEF RequestIsSound, CompletedStays, LinkIsNoted
<1> QED BY <1>2, <1>3, <1>4, <1>5 DEF Inv, StoreInv

(* Every step keeps the invariant.                                         *)
LEMMA InvStep ==
  ASSUME Inv, [Next]_vars
  PROVE  Inv'
<1>1. CASE UNCHANGED vars
  <2>1. StoreInv' /\ \A t \in Subjects : Completed(t)' = Completed(t)
    BY <1>1, DomainKeeps DEF Inv, vars
  <2>2. query' = query /\ owner' = owner /\ rank' = rank /\ active' = active
        /\ subjectOf' = subjectOf /\ recs' = recs /\ status' = status
    BY <1>1 DEF vars, domain, store
  <2>3. TypeOK'
    BY <2>1, <2>2 DEF Inv, TypeOK, StoreInv
  <2>4. (\A q \in Queries : RequestIsSound(query[q]))'
    BY <2>2 DEF Inv, RequestIsSound
  <2>5. CompletedStays'
    BY <2>1, <2>2 DEF Inv, CompletedStays
  <2>6. \A s : LastCompletedBatch(s)' = LastCompletedBatch(s)
    BY <2>2 DEF LastCompletedBatch, Newest, BatchesOf, Exists
  <2>7. \A e \in Employees, m \in Employers : Linked(e, m)' <=> Linked(e, m)
    BY <2>2, <2>6 DEF Linked, Shown, Visible, RowsOf
  <2>8. LinkIsNoted'
    BY <2>2, <2>7 DEF Inv, LinkIsNoted
  <2> QED BY <2>1, <2>3, <2>4, <2>5, <2>8 DEF Inv
<1>2. CASE Next
  BY <1>2, ObserveStep, AskStep, NextPageStep, AnswerStep, ProfileStep DEF Next, Answer
<1> QED BY <1>1, <1>2

(* The invariant holds in every reachable state.                           *)
LEMMA Invariance == Spec => []Inv
BY Initially, InvStep, PTL DEF Spec

(* Tables, requests and answers have their types; a total never exceeds    *)
(* the counterparts there are (PageInfo).                                  *)
THEOREM TypesHold == Spec => []TypeOK
<1>1. Inv => TypeOK
  BY DEF Inv
<1> QED BY <1>1, Invariance, PTL

(* Whoever is told "completed" is shown a set: the status is read first    *)
(* and a completed set is only ever replaced by another (repo.go).         *)
THEOREM CompletedIsShown == Spec => []CompletedHasASet
<1>1. Inv => CompletedHasASet
  BY DEF Inv, RequestIsSound, CompletedHasASet
<1> QED BY <1>1, Invariance, PTL

(* A profile is served to an employer that was linked to it at some moment *)
(* of its request (authorization.go).                                      *)
THEOREM ServedWhileLinked == Spec => []ServedWasLinked
<1>1. Inv => ServedWasLinked
  BY DEF Inv, RequestIsSound, ServedWasLinked
<1> QED BY <1>1, Invariance, PTL

(* A query that turns to the answer none found no batch of its subject.    *)
LEMMA NoneStep ==
  ASSUME Inv, [Next]_vars, NEW q \in Queries, query'[q].status = "none",
         query[q].status # "none", NEW b \in BatchIds
  PROVE  subjectOf[b] # query[q].subject
<1>1. query[q] \in QueryState /\ query \in [Queries -> QueryState]
      /\ RequestIsSound(query[q]) /\ StoreInv
  BY DEF Inv, TypeOK
<1>2. ~Change
  <2> SUFFICES ASSUME Change PROVE FALSE
    OBVIOUS
  <2>1. query'[q].status = query[q].status
    <3>1. Observe
      BY ChangeStep
    <3>2. query'[q] = query[q] \/ \E l : query'[q] = [query[q] EXCEPT !.linked = l]
      BY <3>1 DEF Observe
    <3> QED BY <1>1, <3>2 DEF QueryState
  <2> QED BY <2>1
<1>3. ASSUME NEW o \in Queries, NEW x, Step(o, x)
      PROVE  o = q /\ query'[q] = x /\ x.status = "none"
  BY <1>1, <1>3 DEF Step
<1>4. ASSUME NEW o \in Queries, NEW p \in Principals,
             \/ \E s \in Subjects : Ask(o, s, p)
             \/ \E e \in Employees : AskProfile(o, e, p)
      PROVE  FALSE
  <2>1. CASE \E s \in Subjects : Ask(o, s, p)
    <3>1. PICK s \in Subjects : Ask(o, s, p)
      BY <2>1
    <3> DEFINE x == [Idle EXCEPT !.pc = "authorize", !.subject = s, !.by = p]
    <3>2. Step(o, x) /\ x.status = NoAnswer
      BY <3>1, IdleIsAState DEF Ask, QueryState
    <3> HIDE DEF x
    <3> QED BY <1>3, <3>2 DEF NoAnswer
  <2>2. CASE \E e \in Employees : AskProfile(o, e, p)
    <3>1. PICK e \in Employees : AskProfile(o, e, p)
      BY <2>2
    <3> DEFINE l == p \in Employers /\ Linked(e, p)
               x == [Idle EXCEPT !.pc = "access", !.subject = e, !.by = p, !.linked = l]
    <3>2. Step(o, x)
      BY <3>1 DEF AskProfile
    <3> HIDE DEF l
    <3>3. x.status = NoAnswer
      BY IdleIsAState DEF QueryState
    <3> HIDE DEF x
    <3> QED BY <1>3, <3>2, <3>3 DEF NoAnswer
  <2> QED BY <1>4, <2>1, <2>2
<1>5. ASSUME NEW o \in Queries, NextPage(o)
      PROVE  FALSE
  <2> DEFINE x == [Idle EXCEPT !.pc = "authorize", !.subject = query[o].subject,
                     !.by = query[o].by, !.offset = Limit,
                     !.batch = query[o].batch, !.seen = query[o].items]
  <2>1. Step(o, x) /\ x.status = NoAnswer
    BY <1>5, IdleIsAState DEF NextPage, QueryState
  <2> HIDE DEF x
  <2> QED BY <1>3, <2>1 DEF NoAnswer
<1>6. ASSUME NEW o \in Queries,
             \/ Authorize(o) \/ ReadCompleted(o) \/ Count(o) \/ List(o)
             \/ AuthorizeProfile(o) \/ ReadProfile(o)
      PROVE  FALSE
  <2>1. query[o] \in QueryState
    BY <1>1
  <2>2. ASSUME NEW x, Step(o, x), x.status = query[o].status PROVE FALSE
    BY <1>3, <2>2
  <2>3. CASE Authorize(o) \/ AuthorizeProfile(o) \/ ReadProfile(o)
    <3>1. PICK pc : Step(o, [query[o] EXCEPT !.pc = pc])
      BY <2>3 DEF Authorize, AuthorizeProfile, ReadProfile
    <3> DEFINE x == [query[o] EXCEPT !.pc = pc]
    <3>2. x.status = query[o].status
      BY <2>1 DEF QueryState
    <3> QED BY <2>2, <3>1, <3>2
  <2>4. CASE ReadCompleted(o)
    <3>1. PICK pc, b1, seen : Step(o, [query[o] EXCEPT !.pc = pc, !.batch = b1, !.seen = seen])
      BY <2>4 DEF ReadCompleted
    <3> DEFINE x == [query[o] EXCEPT !.pc = pc, !.batch = b1, !.seen = seen]
    <3>2. x.status = query[o].status
      BY <2>1 DEF QueryState
    <3> QED BY <2>2, <3>1, <3>2
  <2>5. CASE Count(o)
    <3> DEFINE x == [query[o] EXCEPT !.pc = "list",
                       !.total = Cardinality(Visible(query[o].batch))]
    <3>1. Step(o, x) /\ x.status = query[o].status
      BY <2>1, <2>5 DEF Count, QueryState
    <3> QED BY <2>2, <3>1
  <2>6. CASE List(o)
    <3> DEFINE x == [query[o] EXCEPT !.pc = "answered",
                       !.items = Page(query[o].batch, query[o].offset)]
    <3>1. Step(o, x) /\ x.status = query[o].status
      BY <2>1, <2>6 DEF List, QueryState
    <3> QED BY <2>2, <3>1
  <2> QED BY <1>6, <2>3, <2>4, <2>5, <2>6
<1>7. ASSUME NEW o \in Queries, ReadCurrent(o)
      PROVE  subjectOf[b] # query[q].subject
  <2> DEFINE s == query[o].subject
             c == CurrentBatch(s)
  <2>1. s \in Subjects /\ query[o] \in QueryState
    BY <1>7 DEF ReadCurrent, Inv, TypeOK, RequestIsSound
  <2>2. CASE c # 0
    <3> DEFINE x == [query[o] EXCEPT !.pc = "completed", !.status = status[c]]
    <3>1. Step(o, x) /\ x.status = status[c]
      BY <1>7, <2>1, <2>2 DEF ReadCurrent, QueryState
    <3> HIDE DEF x
    <3>2. status[c] = "none" /\ c \in BatchesOf(s)
      BY <1>3, <2>2, <3>1, NewestOf
    <3> QED BY <3>2 DEF BatchesOf, Exists, BatchStatus, InFlight, Terminal
  <2>3. CASE c = 0
    <3>1. o = q
      BY <1>3, <1>7, <2>3 DEF ReadCurrent
    <3>2. BatchesOf(s) = {}
      BY <2>3, NewestOf
    <3> QED BY <1>1, <2>1, <3>1, <3>2 DEF StoreInv, SubjectsKeepABatch
  <2> QED BY <2>2, <2>3
<1>8. CASE UNCHANGED vars
  BY <1>8 DEF vars
<1> QED BY <1>2, <1>4, <1>5, <1>6, <1>7, <1>8 DEF Next, Answer

(* "none" is only answered for a subject without any batch so far          *)
(* (ErrNoCurrentBatch, CompleteBatch).                                     *)
THEOREM NoneIsNever == Spec => NoneMeansNever
<1>1. ASSUME Inv, [Next]_vars
      PROVE  [\A q \in Queries : query'[q].status = "none" /\ query[q].status # "none" =>
                \A b \in BatchIds : subjectOf[b] # query[q].subject]_vars
  BY <1>1, NoneStep
<1> QED BY <1>1, Invariance, PTL DEF Spec, NoneMeansNever
-----------------------------------------------------------------------------
(* Walks.  What is in flight for a subject was opened after its completed  *)
(* set was: a completion leaves no other batch of its subject.             *)
CompletedAreOlder ==
  \A b, c \in BatchIds :
    Open(b) /\ status[c] = "completed" /\ subjectOf[b] = subjectOf[c] => c < b

(* No query was shown, or walks on from, a set newer than the last one.    *)
NoneIsAhead ==
  \A q \in Queries, s \in Subjects \cup {None} :
    query[q].subject = s => query[q].batch <= LastCompletedBatch(s)

WalkInv == CompletedAreOlder /\ NoneIsAhead

(* The newest of a set of batches is no older than that of another if      *)
(* every batch of the latter is followed by one of the former.             *)
LEMMA NewestGrows ==
  ASSUME NEW B \in SUBSET BatchIds, NEW C \in SUBSET BatchIds,
         \A b \in B : \E c \in C : b <= c
  PROVE  Newest(B) \in Nat /\ Newest(C) \in Nat /\ Newest(B) <= Newest(C)
<1>1. BatchIds \subseteq Nat
  BY DEF BatchIds
<1>2. Newest(B) \in Nat /\ Newest(C) \in Nat
  <2>1. ASSUME NEW D \in SUBSET BatchIds PROVE Newest(D) \in Nat
    <3>1. Newest(D) = 0 \/ Newest(D) \in D
      BY NewestIsOne
    <3>2. CASE Newest(D) = 0
      BY <3>2
    <3>3. CASE Newest(D) \in D
      BY <1>1, <3>3
    <3> QED BY <3>1, <3>2, <3>3
  <2> QED BY <2>1
<1>3. CASE B = {}
  BY <1>2, <1>3, NewestIsOne
<1>4. CASE B # {}
  <2>1. Newest(B) \in B
    BY <1>4, NewestIsOne
  <2>2. PICK c \in C : Newest(B) <= c
    BY <2>1
  <2>3. c <= Newest(C) /\ c \in Nat
    BY <1>1, NewestIsOne
  <2> QED BY <1>2, <2>2, <2>3
<1> QED BY <1>2, <1>3, <1>4

(* A completed set stays until a newer one of its subject takes its place. *)
LEMMA CompletedGrow ==
  ASSUME Inv, CompletedAreOlder, Change
  PROVE  /\ CompletedAreOlder'
         /\ \A s : \A c \in Completed(s) : \E d \in Completed(s)' : c <= d
<1>1. StoreInv /\ BatchIds \subseteq Nat
  BY DEF Inv, BatchIds
<1>2. CASE UNCHANGED store
  <2>1. UNCHANGED <<status, subjectOf>>
    BY <1>2 DEF store
  <2> QED BY <1>1, <2>1 DEF CompletedAreOlder, Completed, BatchesOf, Exists, Open
<1>3. ASSUME NEW s \in Subjects, Request(s)
      PROVE  /\ CompletedAreOlder'
             /\ \A t : \A c \in Completed(t) : c \in Completed(t)'
  <2>1. /\ nextBatch \in BatchIds
        /\ \A b \in BatchIds : /\ subjectOf'[b] = IF b = nextBatch THEN s ELSE subjectOf[b]
                               /\ status'[b] = IF b = nextBatch THEN "pending" ELSE status[b]
    BY <1>1, <1>3 DEF Request, CreateRecommendationBatch, StoreInv, StoreTypeOK
  <2>2. ASSUME NEW c \in BatchIds, status[c] = "completed"
        PROVE  c < nextBatch
    <3>1. ~(c >= nextBatch)
      BY <1>1, <2>2 DEF StoreInv, FreshBatches
    <3> QED BY <1>1, <2>1, <3>1
  <2>3. ASSUME NEW c \in BatchIds, Exists(c)
        PROVE  c # nextBatch
    BY <1>1, <2>1, <2>3 DEF StoreInv, FreshBatches, Exists, BatchStatus, InFlight, Terminal
  <2>4. CompletedAreOlder'
    <3> SUFFICES ASSUME NEW b \in BatchIds, NEW c \in BatchIds,
                        Open(b)', status'[c] = "completed", subjectOf'[b] = subjectOf'[c]
                 PROVE  c < b
      BY DEF CompletedAreOlder
    <3>1. c # nextBatch /\ status[c] = "completed"
      BY <2>1
    <3>2. CASE b = nextBatch
      BY <2>2, <3>1, <3>2
    <3>3. CASE b # nextBatch
      BY <2>1, <3>1, <3>3 DEF Open, CompletedAreOlder
    <3> QED BY <3>2, <3>3
  <2> QED BY <2>1, <2>3, <2>4 DEF Completed, BatchesOf, Exists
<1>4. ASSUME NEW b \in BatchIds, Claim(b) \/ Fail(b)
      PROVE  /\ CompletedAreOlder'
             /\ \A t : \A c \in Completed(t) : c \in Completed(t)'
  <2>1. PICK to \in {"processing", "failed"} : status' = [status EXCEPT ![b] = to]
    BY <1>4 DEF Claim, Fail, ClaimBatch, TransitionBatch
  <2>2. Open(b) /\ subjectOf' = subjectOf
    BY <1>4 DEF Claim, Fail, ClaimBatch, TransitionBatch
  <2>3. \A c \in BatchIds : status'[c] = IF c = b THEN to ELSE status[c]
    BY <1>1, <2>1 DEF StoreInv, StoreTypeOK
  <2>4. status[b] # "completed"
    BY <2>2 DEF Open, InFlight
  <2> QED BY <2>2, <2>3, <2>4
          DEF CompletedAreOlder, Completed, BatchesOf, Exists, Open, InFlight
<1>5. ASSUME NEW b \in BatchIds, Complete(b)
      PROVE  /\ CompletedAreOlder'
             /\ \A s : \A c \in Completed(s) : \E d \in Completed(s)' : c <= d
  <2> DEFINE superseded == BatchesOf(subjectOf[b]) \ {b}
  <2>1. /\ subjectOf' = subjectOf /\ Open(b) /\ Exists(b)
        /\ \A c \in BatchIds : status'[c] = IF c = b THEN "completed"
                                           ELSE IF c \in superseded THEN "absent"
                                           ELSE status[c]
    BY <1>5 DEF Complete, CompleteBatch, Open, InFlight
  <2>2. ASSUME NEW c \in BatchIds, c # b, subjectOf[c] = subjectOf[b]
        PROVE  status'[c] \notin BatchStatus
    <3>1. CASE Exists(c)
      BY <2>1, <2>2, <3>1 DEF BatchesOf, BatchStatus, InFlight, Terminal
    <3>2. CASE ~Exists(c)
      BY <2>1, <2>2, <3>2 DEF BatchesOf, Exists
    <3> QED BY <3>1, <3>2
  <2>3. ASSUME NEW c \in BatchIds, subjectOf[c] # subjectOf[b]
        PROVE  status'[c] = status[c]
    BY <2>1, <2>3 DEF BatchesOf
  <2> HIDE DEF superseded
  <2>4. CompletedAreOlder'
    <3> SUFFICES ASSUME NEW o \in BatchIds, NEW c \in BatchIds,
                        Open(o)', status'[c] = "completed", subjectOf[o] = subjectOf[c]
                 PROVE  c < o
      BY <2>1 DEF CompletedAreOlder
    <3>1. o # b /\ status'[o] \in BatchStatus
      BY <2>1 DEF Open, InFlight, BatchStatus
    <3>2. subjectOf[o] # subjectOf[b]
      BY <2>2, <3>1
    <3>3. status'[o] = status[o] /\ status'[c] = status[c]
      BY <2>3, <3>2
    <3> QED BY <3>3 DEF Open, CompletedAreOlder
  <2>5. ASSUME NEW s, NEW c \in Completed(s)
        PROVE  \E d \in Completed(s)' : c <= d
    <3>1. c \in BatchIds /\ Exists(c) /\ subjectOf[c] = s /\ status[c] = "completed"
      BY <2>5 DEF Completed, BatchesOf
    <3>2. CASE s = subjectOf[b]
      <4>1. c < b
        BY <2>1, <3>1, <3>2 DEF CompletedAreOlder
      <4>2. b \in Completed(s)'
        BY <2>1, <3>2 DEF Completed, BatchesOf, Exists, BatchStatus, Terminal
      <4> QED BY <1>1, <3>1, <4>1, <4>2
    <3>3. CASE s # subjectOf[b]
      <4>1. c \in Completed(s)'
        BY <2>1, <2>3, <3>1, <3>3 DEF Completed, BatchesOf, Exists
      <4> QED BY <1>1, <3>1, <4>1
    <3> QED BY <3>2, <3>3
  <2> QED BY <2>4, <2>5
<1>6. \A s : \A c \in Completed(s) : c \in Nat /\ c <= c
  BY <1>1 DEF Completed, BatchesOf
<1>7. CASE \E s \in Subjects : Write(s)
  BY <1>2, <1>7 DEF Write
<1>8. CASE \E j \in Jobs : SoftDelete(j)
  BY <1>2, <1>8 DEF SoftDelete
<1> QED BY <1>3, <1>4, <1>5, <1>6, <1>7, <1>8 DEF Change

(* So the last completed batch of a subject only gets newer.               *)
LEMMA LastCompletedGrows ==
  ASSUME \A s : \A c \in Completed(s) : \E d \in Completed(s)' : c <= d, NEW t
  PROVE  /\ LastCompletedBatch(t) \in Nat /\ LastCompletedBatch(t)' \in Nat
         /\ LastCompletedBatch(t) <= LastCompletedBatch(t)'
<1> DEFINE B == Completed(t)
           C == Completed(t)'
<1>1. B \in SUBSET BatchIds /\ C \in SUBSET BatchIds
  BY DEF Completed, BatchesOf
<1>2. LastCompletedBatch(t) = Newest(B) /\ LastCompletedBatch(t)' = Newest(C)
  BY DEF LastCompletedBatch, Completed, Newest
<1>3. \A b \in B : \E c \in C : b <= c
  OBVIOUS
<1> HIDE DEF B, C
<1> QED BY <1>1, <1>2, <1>3, NewestGrows

(* A read goes forward: it keeps to the batch it knows, or takes the last. *)
LEMMA WalkRead ==
  ASSUME Inv, WalkInv, NEW q \in Queries, NEW x, Step(q, x),
         x.batch <= LastCompletedBatch(x.subject),
         query[q].offset # 0 /\ x.offset # 0 => x.batch >= query[q].batch
  PROVE  /\ WalkInv'
         /\ \A o \in Queries : query[o].offset # 0 /\ query'[o].offset # 0 =>
              query'[o].batch >= query[o].batch
<1>1. /\ \A o \in Queries : query'[o] = IF o = q THEN x ELSE query[o]
      /\ \A o \in Queries : query[o].batch \in Nat
      /\ UNCHANGED <<subjectOf, status>>
  BY DEF Step, store, Inv, TypeOK, QueryState, BatchIds
<1>2. \A s : LastCompletedBatch(s)' = LastCompletedBatch(s)
  BY <1>1 DEF LastCompletedBatch, Newest, BatchesOf, Exists
<1>3. CompletedAreOlder'
  BY <1>1 DEF WalkInv, CompletedAreOlder, Open
<1>4. \A o \in Queries, s \in Subjects \cup {None} :
        query'[o].subject = s => query'[o].batch <= LastCompletedBatch(s)
  BY <1>1 DEF WalkInv, NoneIsAhead
<1>5. NoneIsAhead'
  BY <1>2, <1>4 DEF NoneIsAhead
<1>6. WalkInv'
  BY <1>3, <1>5 DEF WalkInv
<1>7. \A o \in Queries : query[o].batch >= query[o].batch
  BY <1>1
<1> QED BY <1>1, <1>6, <1>7

(* Every step keeps a walk going forward.                                  *)
LEMMA WalkStep ==
  ASSUME Inv, WalkInv, [Next]_vars
  PROVE  /\ WalkInv'
         /\ \A q \in Queries : query[q].offset # 0 /\ query'[q].offset # 0 =>
              query'[q].batch >= query[q].batch
<1>1. \A q \in Queries : query[q] \in QueryState /\ query[q].batch \in Nat
  BY DEF Inv, TypeOK, QueryState, BatchIds
<1>2. \A t : LastCompletedBatch(t) \in Nat /\ 0 <= LastCompletedBatch(t)
  <2>1. \A s : \A c \in BatchesOf(s) : c \in Nat
    BY DEF BatchesOf, BatchIds
  <2>2. \A s : LastCompletedBatch(s) = 0 \/ LastCompletedBatch(s) \in Completed(s)
    BY NewestOf
  <2> QED BY <2>1, <2>2 DEF Completed
<1>3. Idle.batch = 0 /\ Idle.offset = 0
  BY DEF Idle
<1>4. CASE UNCHANGED vars
  <2>1. query' = query /\ UNCHANGED <<subjectOf, status>>
    BY <1>4 DEF vars, store
  <2>2. \A s : LastCompletedBatch(s)' = LastCompletedBatch(s)
    BY <2>1 DEF LastCompletedBatch, Newest, BatchesOf, Exists
  <2>3. WalkInv'
    BY <2>1, <2>2 DEF WalkInv, NoneIsAhead, CompletedAreOlder, Open
  <2> QED BY <1>1, <2>1, <2>3
<1>5. CASE Change
  <2>1. /\ CompletedAreOlder'
        /\ \A s : \A c \in Completed(s) : \E d \in Completed(s)' : c <= d
    BY <1>5, CompletedGrow DEF WalkInv
  <2>2. Observe
    BY <1>5, ChangeStep
  <2>3. ASSUME NEW q \in Queries
        PROVE  query'[q].batch = query[q].batch /\ query'[q].subject = query[q].subject
    <3>1. query'[q] = query[q] \/ \E l : query'[q] = [query[q] EXCEPT !.linked = l]
      BY <2>2 DEF Observe
    <3> QED BY <1>1, <3>1 DEF QueryState
  <2>4. ASSUME NEW q \in Queries, NEW s \in Subjects \cup {None}, query'[q].subject = s
        PROVE  query'[q].batch <= LastCompletedBatch(s)'
    <3>1. /\ LastCompletedBatch(s) \in Nat /\ LastCompletedBatch(s)' \in Nat
          /\ LastCompletedBatch(s) <= LastCompletedBatch(s)'
      BY <2>1, LastCompletedGrows
    <3>2. query[q].batch <= LastCompletedBatch(s)
      BY <2>3, <2>4 DEF WalkInv, NoneIsAhead
    <3> QED BY <1>1, <2>3, <3>1, <3>2
  <2>5. NoneIsAhead'
    BY <2>4 DEF NoneIsAhead
  <2> QED BY <1>1, <2>1, <2>3, <2>5 DEF WalkInv
<1>6. ASSUME NEW q \in Queries, NEW p \in Principals,
             \/ \E s \in Subjects : Ask(q, s, p)
             \/ \E e \in Employees : AskProfile(q, e, p)
      PROVE  \E x : Step(q, x) /\ x.batch = 0 /\ x.offset = 0
  <2>1. CASE \E s \in Subjects : Ask(q, s, p)
    <3>1. PICK s \in Subjects : Ask(q, s, p)
      BY <2>1
    <3> DEFINE x == [Idle EXCEPT !.pc = "authorize", !.subject = s, !.by = p]
    <3>2. Step(q, x) /\ x.batch = 0 /\ x.offset = 0
      BY <1>3, <3>1, IdleIsAState DEF Ask, QueryState
    <3> HIDE DEF x
    <3> QED BY <3>2
  <2>2. CASE \E e \in Employees : AskProfile(q, e, p)
    <3>1. PICK e \in Employees : AskProfile(q, e, p)
      BY <2>2
    <3> DEFINE l == p \in Employers /\ Linked(e, p)
               x == [Idle EXCEPT !.pc = "access", !.subject = e, !.by = p, !.linked = l]
    <3>2. Step(q, x)
      BY <3>1 DEF AskProfile
    <3> HIDE DEF l
    <3>3. x.batch = 0 /\ x.offset = 0
      BY <1>3, IdleIsAState DEF QueryState
    <3> HIDE DEF x
    <3> QED BY <3>2, <3>3
  <2> QED BY <1>6, <2>1, <2>2
<1>7. ASSUME NEW q \in Queries, NEW p \in Principals,
             \/ \E s \in Subjects : Ask(q, s, p)
             \/ \E e \in Employees : AskProfile(q, e, p)
      PROVE  /\ WalkInv'
             /\ \A o \in Queries : query[o].offset # 0 /\ query'[o].offset # 0 =>
                  query'[o].batch >= query[o].batch
  <2>1. PICK x : Step(q, x) /\ x.batch = 0 /\ x.offset = 0
    BY <1>6, <1>7
  <2> QED BY <1>2, <2>1, WalkRead
<1>8. ASSUME NEW q \in Queries, NextPage(q) \/ Answer(q)
      PROVE  \E x : /\ Step(q, x) /\ x.subject = query[q].subject
                    /\ \/ x.batch = query[q].batch
                       \/ x.batch = LastCompletedBatch(query[q].subject)
  <2>1. query[q] \in QueryState
    BY <1>1
  <2>2. CASE NextPage(q)
    <3> DEFINE x == [Idle EXCEPT !.pc = "authorize", !.subject = query[q].subject,
                       !.by = query[q].by, !.offset = Limit,
                       !.batch = query[q].batch, !.seen = query[q].items]
    <3>1. Step(q, x) /\ x.subject = query[q].subject /\ x.batch = query[q].batch
      BY <2>2, IdleIsAState DEF NextPage, QueryState
    <3> HIDE DEF x
    <3> QED BY <3>1
  <2>3. CASE Authorize(q) \/ AuthorizeProfile(q) \/ ReadProfile(q)
    <3>1. PICK pc : Step(q, [query[q] EXCEPT !.pc = pc])
      BY <2>3 DEF Authorize, AuthorizeProfile, ReadProfile
    <3> DEFINE x == [query[q] EXCEPT !.pc = pc]
    <3>2. x.subject = query[q].subject /\ x.batch = query[q].batch
      BY <2>1 DEF QueryState
    <3> QED BY <3>1, <3>2
  <2>4. CASE ReadCurrent(q)
    <3> DEFINE s == query[q].subject
               b == CurrentBatch(s)
    <3>1. CASE b = 0
      <4> DEFINE x == [query[q] EXCEPT !.pc = "answered", !.status = "none", !.batch = 0]
      <4>1. Step(q, x)
        BY <2>4, <3>1 DEF ReadCurrent
      <4>2. BatchesOf(s) = {}
        BY <3>1, NewestOf
      <4>3. LastCompletedBatch(s) = 0
        BY <4>2, NewestOf DEF Completed
      <4>4. x.subject = s /\ x.batch = 0
        BY <2>1 DEF QueryState
      <4> HIDE DEF x
      <4> QED BY <4>1, <4>3, <4>4
    <3>2. CASE b # 0
      <4> DEFINE x == [query[q] EXCEPT !.pc = "completed", !.status = status[b]]
      <4>1. Step(q, x)
        BY <2>4, <3>2 DEF ReadCurrent
      <4>2. x.subject = s /\ x.batch = query[q].batch
        BY <2>1 DEF QueryState
      <4> HIDE DEF x
      <4> QED BY <4>1, <4>2
    <3> QED BY <3>1, <3>2
  <2>5. CASE ReadCompleted(q)
    <3> DEFINE b == LastCompletedBatch(query[q].subject)
    <3> DEFINE x == [query[q] EXCEPT !.pc = IF b = 0 THEN "answered" ELSE "count",
                       !.batch = b, !.seen = IF b = query[q].batch THEN @ ELSE {}]
    <3>1. Step(q, x)
      BY <2>5 DEF ReadCompleted
    <3> HIDE DEF b
    <3>2. x.subject = query[q].subject /\ x.batch = b
      BY <2>1 DEF QueryState
    <3> HIDE DEF x
    <3> QED BY <3>1, <3>2 DEF b
  <2>6. CASE Count(q)
    <3> DEFINE x == [query[q] EXCEPT !.pc = "list",
                       !.total = Cardinality(Visible(query[q].batch))]
    <3>1. Step(q, x) /\ x.subject = query[q].subject /\ x.batch = query[q].batch
      BY <2>1, <2>6 DEF Count, QueryState
    <3> QED BY <3>1
  <2>7. CASE List(q)
    <3> DEFINE x == [query[q] EXCEPT !.pc = "answered",
                       !.items = Page(query[q].batch, query[q].offset)]
    <3>1. Step(q, x) /\ x.subject = query[q].subject /\ x.batch = query[q].batch
      BY <2>1, <2>7 DEF List, QueryState
    <3> QED BY <3>1
  <2> QED BY <1>8, <2>2, <2>3, <2>4, <2>5, <2>6, <2>7 DEF Answer
<1>9. ASSUME NEW q \in Queries, NextPage(q) \/ Answer(q)
      PROVE  /\ WalkInv'
             /\ \A o \in Queries : query[o].offset # 0 /\ query'[o].offset # 0 =>
                  query'[o].batch >= query[o].batch
  <2>1. PICK x : /\ Step(q, x) /\ x.subject = query[q].subject
                 /\ \/ x.batch = query[q].batch
                    \/ x.batch = LastCompletedBatch(query[q].subject)
    BY <1>8, <1>9
  <2>2. query[q].batch <= LastCompletedBatch(query[q].subject)
    <3>1. query[q].subject \in Subjects \cup {None}
      BY <1>1 DEF QueryState
    <3> QED BY <3>1 DEF WalkInv, NoneIsAhead
  <2>3. x.batch <= LastCompletedBatch(x.subject) /\ x.batch >= query[q].batch
    BY <1>1, <1>2, <2>1, <2>2
  <2> QED BY <2>1, <2>3, WalkRead
<1> QED BY <1>4, <1>5, <1>7, <1>9 DEF Next

(* The pages of a walk are of sets that took each other's place, in this   *)
(* order: the subject's last completed batch is only ever replaced by one  *)
(* opened after it (CompleteBatch, JobRecommendationsForEmployee).         *)
THEOREM WalksAdvance == Spec => WalksGoForward
<1>1. Init => WalkInv
  <2> SUFFICES ASSUME Init PROVE WalkInv
    OBVIOUS
  <2>1. /\ \A b \in BatchIds : status[b] = "absent"
        /\ \A q \in Queries : query[q].batch = 0
    BY DEF Init, StoreInit, Idle
  <2>2. CompletedAreOlder
    BY <2>1 DEF CompletedAreOlder
  <2>3. \A s : LastCompletedBatch(s) = 0
    <3>1. \A s : Completed(s) = {}
      BY <2>1 DEF Completed, BatchesOf
    <3> QED BY <3>1, NewestOf DEF Completed
  <2> QED BY <2>1, <2>2, <2>3 DEF WalkInv, NoneIsAhead
<1>2. ASSUME Inv, WalkInv, [Next]_vars
      PROVE  [\A q \in Queries : query[q].offset # 0 /\ query'[q].offset # 0 =>
                query'[q].batch >= query[q].batch]_vars
  BY <1>2, WalkStep
<1>3. Inv /\ WalkInv /\ [Next]_vars => WalkInv'
  BY WalkStep
<1> QED BY <1>1, <1>2, <1>3, Invariance, PTL DEF Spec, WalksGoForward

-----------------------------------------------------------------------------
(* Pages.                                                                  *)

(* No two subjects share a rank, so a set has one order.                   *)
RanksDiffer == \A s, t \in Subjects : rank[s] = rank[t] => s = t

(* A set is finite, with a row per counterpart.                            *)
LEMMA VisibleIsFinite ==
  ASSUME StoreInv, NEW b \in BatchIds
  PROVE  /\ IsFiniteSet(Visible(b)) /\ Cardinality(Visible(b)) \in Nat
         /\ \A r \in Visible(b) : r.other \in Subjects
         /\ \A r, t \in Visible(b) : r.other = t.other => r = t
<1> DEFINE f == [r \in Visible(b) |-> r.other]
<1>1. Visible(b) \subseteq recs /\ \A r \in Visible(b) : r.batch = b
  BY DEF Visible, RowsOf
<1>2. \A r \in Visible(b) : r.other \in Subjects
  BY <1>1 DEF StoreInv, RowsAreSound
<1>3. ASSUME NEW r \in Visible(b), NEW t \in Visible(b), r.other = t.other PROVE r = t
  <2>1. r \in Recommendations /\ t \in Recommendations
    BY <1>1 DEF StoreInv, StoreTypeOK
  <2>2. r.batch = t.batch /\ r.basis = t.basis
    BY <1>1 DEF StoreInv, RowsAreSound
  <2> QED BY <1>3, <2>1, <2>2 DEF Recommendations
<1>4. f \in Injection(Visible(b), Subjects)
  BY <1>2, <1>3 DEF Injection, IsInjective
<1>5. IsFiniteSet(Subjects)
  BY QueryAssumption DEF Subjects
<1>6. IsFiniteSet(Visible(b))
  BY <1>4, <1>5, FS_Injection
<1> QED BY <1>2, <1>3, <1>6, FS_CardinalityType

(* The rows listed before a row.                                           *)
Before(b, r) == {o \in Visible(b) : rank[o.other] < rank[r.other]}

(* Rows take the places 0, 1, ... of their set, each of them once: what    *)
(* LIMIT and OFFSET count on.                                              *)
LEMMA PlacesAreTaken ==
  ASSUME StoreInv, rank \in Ranks, RanksDiffer, NEW b \in BatchIds
  PROVE  [r \in Visible(b) |-> Cardinality(Before(b, r))]
            \in Bijection(Visible(b), 0..(Cardinality(Visible(b)) - 1))
<1> DEFINE V == Visible(b)
           n == Cardinality(V)
           place == [r \in V |-> Cardinality(Before(b, r))]
<1>1. /\ IsFiniteSet(V) /\ n \in Nat
      /\ \A r \in V : r.other \in Subjects
      /\ \A r, t \in V : r.other = t.other => r = t
  BY VisibleIsFinite
<1>2. \A s \in Subjects : rank[s] \in Nat
  <2>1. Cardinality(Subjects) \in Nat
    BY QueryAssumption, FS_CardinalityType DEF Subjects
  <2> QED BY <2>1 DEF Ranks
<1>3. \A r \in V : Before(b, r) \subseteq V \ {r}
  BY <1>1, <1>2 DEF Before
<1>4. \A r \in V : IsFiniteSet(Before(b, r)) /\ Cardinality(Before(b, r)) \in 0..(n - 1)
  <2> SUFFICES ASSUME NEW r \in V
               PROVE  IsFiniteSet(Before(b, r)) /\ Cardinality(Before(b, r)) \in 0..(n - 1)
    OBVIOUS
  <2>1. IsFiniteSet(V \ {r}) /\ Cardinality(V \ {r}) = n - 1
    BY <1>1, FS_RemoveElement
  <2>2. IsFiniteSet(Before(b, r)) /\ Cardinality(Before(b, r)) <= Cardinality(V \ {r})
    BY <1>3, <2>1, FS_Subset
  <2>3. Cardinality(Before(b, r)) \in Nat
    BY <2>2, FS_CardinalityType
  <2> QED BY <1>1, <2>1, <2>2, <2>3
<1>5. ASSUME NEW r \in V, NEW t \in V, rank[r.other] < rank[t.other]
      PROVE  Cardinality(Before(b, r)) # Cardinality(Before(b, t))
  <2>1. Before(b, r) \subseteq Before(b, t)
    BY <1>1, <1>2, <1>5 DEF Before
  <2>2. r \in Before(b, t) /\ r \notin Before(b, r)
    BY <1>1, <1>2, <1>5 DEF Before
  <2> QED BY <1>4, <2>1, <2>2, FS_Subset
<1>6. ASSUME NEW r \in V, NEW t \in V, r # t PROVE place[r] # place[t]
  <2>1. rank[r.other] # rank[t.other] /\ rank[r.other] \in Nat /\ rank[t.other] \in Nat
    BY <1>1, <1>2, <1>6 DEF RanksDiffer
  <2>2. rank[r.other] < rank[t.other] \/ rank[t.other] < rank[r.other]
    BY <2>1
  <2> QED BY <1>5, <2>2
<1>7. place \in Injection(V, 0..(n - 1))
  BY <1>4, <1>6 DEF Injection, IsInjective
<1>8. IsFiniteSet(0..(n - 1)) /\ Cardinality(0..(n - 1)) = n
  BY <1>1, FS_Interval
<1>9. place \in Surjection(V, 0..(n - 1))
  BY <1>7, <1>8, FS_Injection
<1> QED BY <1>7, <1>9 DEF Bijection

(* The rows of a page: as many as the limit, or what is left of the set.   *)
LEMMA PageSize ==
  ASSUME StoreInv, rank \in Ranks, RanksDiffer, NEW b \in BatchIds, NEW offset \in Nat
  PROVE  LET n == Cardinality(Visible(b))
         IN  Cardinality(Page(b, offset)) =
               IF offset >= n THEN 0 ELSE IF n - offset < Limit THEN n - offset ELSE Limit
<1> DEFINE V == Visible(b)
           n == Cardinality(V)
           place == [r \in V |-> Cardinality(Before(b, r))]
           W == {x \in V : place[x] \in offset..(offset + Limit - 1)}
           last == IF n - offset < Limit THEN n - 1 ELSE offset + Limit - 1
           g == [x \in W |-> place[x]]
           h == [x \in W |-> x.other]
<1>1. /\ n \in Nat /\ Limit \in Nat \ {0}
      /\ \A r, t \in V : r.other = t.other => r = t
  BY VisibleIsFinite, QueryAssumption
<1>2. place \in Bijection(V, 0..(n - 1))
  BY PlacesAreTaken
<1>3. /\ \A x \in V : place[x] \in 0..(n - 1)
      /\ \A x, y \in V : place[x] = place[y] => x = y
      /\ \A i \in 0..(n - 1) : \E x \in V : place[x] = i
  <2> HIDE DEF place, V, n
  <2> QED BY <1>2 DEF Bijection, Injection, Surjection, IsInjective
<1>4. Page(b, offset) = {x.other : x \in W}
  BY DEF Page, Before
<1>5. W \subseteq V
  OBVIOUS
<1> HIDE DEF place, V, n
<1>6. \A i \in Int : i \in 0..(n - 1) /\ i \in offset..(offset + Limit - 1) <=> i \in offset..last
  BY <1>1
<1>7. g \in Bijection(W, offset..last)
  <2>1. \A x \in W : place[x] \in offset..last
    BY <1>3, <1>6
  <2>2. \A i \in offset..last : \E x \in W : place[x] = i
    BY <1>1, <1>3, <1>6
  <2>3. \A x, y \in W : place[x] = place[y] => x = y
    BY <1>3, <1>5
  <2> HIDE DEF W, last
  <2> QED BY <2>1, <2>2, <2>3 DEF Bijection, Injection, Surjection, IsInjective
<1>8. h \in Bijection(W, Page(b, offset))
  <2> HIDE DEF W
  <2> QED BY <1>1, <1>4, <1>5 DEF Bijection, Injection, Surjection, IsInjective
<1>9. IsFiniteSet(W)
  BY <1>5, VisibleIsFinite, FS_Subset DEF V
<1> HIDE DEF W, g, h
<1>10. /\ Cardinality(offset..last) = Cardinality(W)
       /\ Cardinality(Page(b, offset)) = Cardinality(W)
  BY <1>7, <1>8, <1>9, FS_Bijection DEF ExistsBijection
<1>11. offset \in Int /\ last \in Int
  BY <1>1
<1>12. Cardinality(offset..last) = IF offset > last THEN 0 ELSE last - offset + 1
  BY <1>11, FS_Interval
<1>13. Cardinality(Page(b, offset)) =
         IF offset >= n THEN 0 ELSE IF n - offset < Limit THEN n - offset ELSE Limit
  BY <1>1, <1>10, <1>12
<1> QED BY <1>13 DEF n, V

(* What a page rests on.  Ranks differ; a deleted position stays deleted,  *)
(* for only the first write publishes it; the rows of a position are       *)
(* employees.                                                              *)
PublishedAreWritten == \A j \in active : version[j] > 0
RequestersAreWritten == \A b \in BatchIds : subjectOf[b] \in Jobs => version[subjectOf[b]] > 0
JobsListEmployees == \A r \in recs : subjectOf[r.batch] \in Jobs => r.other \in Employees

(* The batch a query reads is closed, so its set is what it was or gone,   *)
(* and the total is that of the set.                                       *)
ReadsAClosedSet(x) ==
  /\ x.pc \in {"count", "list"} /\ x.subject \in Jobs =>
       /\ x.batch < nextBatch /\ ~Open(x.batch)
       /\ subjectOf[x.batch] = x.subject
  /\ x.pc = "list" /\ x.subject \in Jobs =>
       Visible(x.batch) = {} \/ x.total = Cardinality(Visible(x.batch))
  /\ x.items # {} => x.pc = "answered"

IsWhole(x) ==
  x.items # {} /\ x.subject \in Jobs =>
    Cardinality(x.items) =
      IF x.total - x.offset < Limit THEN x.total - x.offset ELSE Limit

TablesInv ==
  RanksDiffer /\ PublishedAreWritten /\ RequestersAreWritten /\ JobsListEmployees

PageInv ==
  /\ TablesInv
  /\ \A q \in Queries : ReadsAClosedSet(query[q]) /\ IsWhole(query[q])

(* Moving a subject to the front keeps the ranks different.                *)
LEMMA MovedRanksDiffer ==
  ASSUME rank \in Ranks, RanksDiffer, NEW s \in Subjects,
         NEW x \in Subjects, NEW y \in Subjects, MovedToFront(s)[x] = MovedToFront(s)[y]
  PROVE  x = y
<1>1. Cardinality(Subjects) \in Nat
  BY QueryAssumption, FS_CardinalityType DEF Subjects
<1>2. \A t \in Subjects : rank[t] \in Nat /\ rank[t] >= 1
  BY <1>1 DEF Ranks
<1>3. \A t \in Subjects : t # s => rank[t] # rank[s]
  BY DEF RanksDiffer
<1>4. rank[x] = rank[y] => x = y
  BY DEF RanksDiffer
<1> QED BY <1>2, <1>3, <1>4 DEF MovedToFront

(* Every write keeps what pages rest on.                                   *)
LEMMA TablesStep ==
  ASSUME Inv, TablesInv, Change
  PROVE  TablesInv'
<1>1. StoreInv /\ StoreTypeOK /\ rank \in Ranks
  BY DEF Inv, TypeOK
<1>2. Jobs \subseteq Subjects /\ \A s \in Subjects : s \notin Jobs => s \in Employees
  BY DEF Subjects
<1>3. \A t \in Subjects : version[t] \in Nat
  BY <1>1, StoreAssumption DEF StoreTypeOK, Versions
<1>4. ASSUME NEW s \in Subjects, Write(s), rank' \in Reordered(s) PROVE TablesInv'
  <2>1. /\ \A t \in Subjects : version'[t] = IF t = s THEN version[s] + 1 ELSE version[t]
        /\ active' = IF s \in Jobs THEN active \cup {s} ELSE active
        /\ rank' \in {rank, MovedToFront(s)}
        /\ UNCHANGED <<subjectOf, recs>>
    BY <1>1, <1>4 DEF Write, Reordered, PersistWrite, StoreTypeOK, store
  <2>2. RanksDiffer'
    <3>1. CASE rank' = rank
      BY <3>1 DEF TablesInv, RanksDiffer
    <3>2. CASE rank' = MovedToFront(s)
      BY <1>1, <3>2, MovedRanksDiffer DEF TablesInv, RanksDiffer
    <3> QED BY <2>1, <3>1, <3>2
  <2>3. \A t \in Subjects : version[t] > 0 => version'[t] > 0
    BY <1>3, <2>1
  <2>4. PublishedAreWritten'
    <3> SUFFICES ASSUME NEW j \in active' PROVE version'[j] > 0
      BY DEF PublishedAreWritten
    <3>1. j \in Subjects
      BY <1>1, <1>2, <2>1 DEF StoreTypeOK
    <3>2. j = s \/ j \in active
      BY <2>1
    <3> QED BY <1>3, <2>1, <2>3, <3>1, <3>2 DEF TablesInv, PublishedAreWritten
  <2>5. RequestersAreWritten' /\ JobsListEmployees'
    BY <1>2, <2>1, <2>3 DEF TablesInv, RequestersAreWritten, JobsListEmployees
  <2> QED BY <2>2, <2>4, <2>5 DEF TablesInv
<1>5. ASSUME NEW j \in Jobs, SoftDelete(j), UNCHANGED rank PROVE TablesInv'
  BY <1>5
  DEF SoftDelete, SoftDeleteJobPosition, store, TablesInv, RanksDiffer, PublishedAreWritten,
      RequestersAreWritten, JobsListEmployees
<1>6. ASSUME NEW s \in Subjects, Request(s), UNCHANGED rank PROVE TablesInv'
  <2>1. /\ nextBatch \in BatchIds /\ (s \in Jobs => version[s] > 0)
        /\ \A b \in BatchIds : subjectOf'[b] = IF b = nextBatch THEN s ELSE subjectOf[b]
        /\ UNCHANGED <<version, active, recs, rank>>
    BY <1>1, <1>6, StoreAssumption
    DEF Request, CreateRecommendationBatch, StoreTypeOK, domain
  <2>2. RanksDiffer' /\ PublishedAreWritten'
    BY <2>1 DEF TablesInv, RanksDiffer, PublishedAreWritten
  <2>3. RequestersAreWritten'
    BY <2>1 DEF TablesInv, RequestersAreWritten, PublishedAreWritten
  <2>4. JobsListEmployees'
    <3>1. ASSUME NEW r \in recs PROVE r.batch # nextBatch
      <4>1. r.batch \in BatchIds /\ subjectOf[r.batch] # None
        BY <1>1, StoreAssumption DEF StoreInv, StoreTypeOK, Recommendations, RowsAreSound, Subjects
      <4>2. nextBatch \in Nat /\ nextBatch >= nextBatch
        BY <2>1 DEF BatchIds
      <4> QED BY <1>1, <2>1, <4>1, <4>2 DEF StoreInv, FreshBatches
    <3>2. \A r \in recs : r.batch \in BatchIds
      BY <1>1 DEF StoreTypeOK, Recommendations
    <3> QED BY <2>1, <3>1, <3>2 DEF TablesInv, JobsListEmployees
  <2> QED BY <2>2, <2>3, <2>4 DEF TablesInv
<1>7. ASSUME NEW b \in BatchIds, Claim(b) \/ Fail(b), UNCHANGED rank PROVE TablesInv'
  BY <1>7
  DEF Claim, Fail, ClaimBatch, TransitionBatch, domain, TablesInv, RanksDiffer,
      PublishedAreWritten, RequestersAreWritten, JobsListEmployees
<1>8. ASSUME NEW b \in BatchIds, Complete(b), UNCHANGED rank PROVE TablesInv'
  <2>1. PICK others \in SUBSET Candidates(subjectOf[b]) : CompleteBatch(b, others, 0)
    BY <1>8 DEF Complete
  <2>2. /\ UNCHANGED <<version, active, rank, subjectOf>>
        /\ recs' \subseteq recs \cup [batch: {b}, other: others, basis: {0}]
    BY <1>8, <2>1 DEF Complete, CompleteBatch, domain
  <2>3. ASSUME NEW r \in recs', subjectOf[r.batch] \in Jobs PROVE r.other \in Employees
    <3>1. CASE r \in recs
      BY <2>3, <3>1 DEF TablesInv, JobsListEmployees
    <3>2. CASE r \in [batch: {b}, other: others, basis: {0}]
      <4>1. r.batch = b /\ r.other \in others
        BY <3>2
      <4>2. subjectOf[b] \notin Employees
        BY <2>3, <4>1, StoreAssumption
      <4> QED BY <2>1, <4>1, <4>2 DEF Candidates
    <3> QED BY <2>2, <3>1, <3>2
  <2> QED BY <2>2, <2>3
      DEF TablesInv, RanksDiffer, PublishedAreWritten, RequestersAreWritten, JobsListEmployees
<1> QED BY <1>4, <1>5, <1>6, <1>7, <1>8 DEF Change

(* The set of a closed batch of a position stays what it is until it is    *)
(* gone, with its batch or with its position.                              *)
LEMMA ClosedSetStays ==
  ASSUME Inv, TablesInv, Change, NEW b \in BatchIds,
         b < nextBatch, ~Open(b), subjectOf[b] \in Jobs
  PROVE  /\ b < nextBatch' /\ ~Open(b)' /\ subjectOf'[b] = subjectOf[b]
         /\ Visible(b)' \in {Visible(b), {}}
<1> DEFINE j == subjectOf[b]
<1>1. StoreInv /\ StoreTypeOK
  BY DEF Inv, TypeOK
<1>2. Visible(b) = IF j \in active THEN RowsOf(b) ELSE {}
  BY StoreAssumption DEF Visible, RowsOf, TablesInv, JobsListEmployees
<1>3. ASSUME subjectOf'[b] = subjectOf[b] PROVE Visible(b)' = IF j \in active' THEN RowsOf(b)' ELSE {}
  <2>1. JobsListEmployees'
    BY TablesStep DEF TablesInv
  <2> QED BY <1>3, <2>1, StoreAssumption DEF Visible, RowsOf, JobsListEmployees
<1>4. ASSUME NEW s \in Subjects, Write(s)
      PROVE  /\ b < nextBatch' /\ ~Open(b)' /\ subjectOf'[b] = subjectOf[b]
             /\ Visible(b)' \in {Visible(b), {}}
  <2>1. /\ active' = IF s \in Jobs THEN active \cup {s} ELSE active
        /\ (s \in Jobs => s \in active \/ version[s] = 0)
        /\ UNCHANGED <<nextBatch, subjectOf, status, recs>>
    BY <1>4 DEF Write, PersistWrite, Writable, store
  <2>2. version[j] > 0 /\ version[j] \in Nat
    BY <1>1, StoreAssumption DEF TablesInv, RequestersAreWritten, StoreTypeOK, Versions, Subjects
  <2>3. j \in active' <=> j \in active
    BY <2>1, <2>2
  <2> QED BY <1>2, <1>3, <2>1, <2>3 DEF Open, RowsOf
<1>5. ASSUME NEW i \in Jobs, SoftDelete(i)
      PROVE  /\ b < nextBatch' /\ ~Open(b)' /\ subjectOf'[b] = subjectOf[b]
             /\ Visible(b)' \in {Visible(b), {}}
  <2>1. active' = active \ {i} /\ UNCHANGED <<nextBatch, subjectOf, status, recs>>
    BY <1>5 DEF SoftDelete, SoftDeleteJobPosition, store
  <2> QED BY <1>2, <1>3, <2>1 DEF Open, RowsOf
<1>6. ASSUME NEW s \in Subjects, Request(s)
      PROVE  /\ b < nextBatch' /\ ~Open(b)' /\ subjectOf'[b] = subjectOf[b]
             /\ Visible(b)' \in {Visible(b), {}}
  <2>1. /\ nextBatch \in BatchIds /\ nextBatch' = nextBatch + 1
        /\ UNCHANGED <<active, recs>>
    BY <1>6 DEF Request, CreateRecommendationBatch, domain
  <2>2. b \in Nat /\ nextBatch \in Nat
    BY <2>1 DEF BatchIds
  <2>3. b < nextBatch' /\ b # nextBatch
    BY <2>1, <2>2
  <2>4. status'[b] = status[b] /\ subjectOf'[b] = subjectOf[b]
    BY <1>1, <1>6, <2>3 DEF Request, CreateRecommendationBatch, StoreTypeOK
  <2> QED BY <1>2, <1>3, <2>1, <2>3, <2>4 DEF Open, RowsOf
<1>7. ASSUME NEW c \in BatchIds, Claim(c) \/ Fail(c)
      PROVE  /\ b < nextBatch' /\ ~Open(b)' /\ subjectOf'[b] = subjectOf[b]
             /\ Visible(b)' \in {Visible(b), {}}
  <2>1. /\ Open(c) /\ UNCHANGED <<nextBatch, subjectOf, recs, active>>
        /\ \E to : status' = [status EXCEPT ![c] = to]
    BY <1>7 DEF Claim, Fail, ClaimBatch, TransitionBatch, domain
  <2>2. status'[b] = status[b]
    BY <1>1, <2>1 DEF StoreTypeOK
  <2> QED BY <1>2, <1>3, <2>1, <2>2 DEF Open, RowsOf
<1>8. ASSUME NEW c \in BatchIds, Complete(c)
      PROVE  /\ b < nextBatch' /\ ~Open(b)' /\ subjectOf'[b] = subjectOf[b]
             /\ Visible(b)' \in {Visible(b), {}}
  <2>1. PICK others : CompleteBatch(c, others, 0)
    BY <1>8 DEF Complete
  <2> DEFINE superseded == BatchesOf(subjectOf[c]) \ {c}
             added == [batch: {c}, other: others, basis: {0}]
  <2>2. /\ UNCHANGED <<nextBatch, subjectOf, active>>
        /\ status'[b] = IF b = c THEN "completed"
                        ELSE IF b \in superseded THEN "absent" ELSE status[b]
        /\ recs' = {r \in recs : r.batch \notin superseded} \cup added
    BY <1>8, <2>1 DEF Complete, CompleteBatch, domain
  <2>3. b # c
    BY <1>8 DEF Complete, Open, InFlight
  <2>4. \A r \in added : r.batch = c
    OBVIOUS
  <2>5. RowsOf(b)' = IF b \in superseded THEN {} ELSE RowsOf(b)
    <3> HIDE DEF superseded, added
    <3> QED BY <2>2, <2>3, <2>4 DEF RowsOf
  <2>6. ~Open(b)'
    BY <2>2, <2>3 DEF Open, InFlight
  <2> HIDE DEF superseded, added
  <2> QED BY <1>2, <1>3, <2>2, <2>5, <2>6
<1> QED BY <1>4, <1>5, <1>6, <1>7, <1>8 DEF Change

(* A write leaves a query that is under way with the set it counted, or    *)
(* with nothing to list; the answer it gave is past.                       *)
LEMMA PagesSurviveChange ==
  ASSUME Inv, PageInv, Change
  PROVE  PageInv'
<1>1. TablesInv /\ TablesInv' /\ Observe
  BY TablesStep, ChangeStep DEF PageInv
<1>2. ASSUME NEW q \in Queries
      PROVE  /\ query'[q].pc = query[q].pc /\ query'[q].subject = query[q].subject
             /\ query'[q].batch = query[q].batch /\ query'[q].total = query[q].total
             /\ query'[q].items = query[q].items /\ query'[q].offset = query[q].offset
  <2>1. query[q] \in QueryState
    BY DEF Inv, TypeOK
  <2>2. query'[q] = query[q] \/ \E l : query'[q] = [query[q] EXCEPT !.linked = l]
    BY <1>1 DEF Observe
  <2> QED BY <2>1, <2>2 DEF QueryState
<1>3. ASSUME NEW b \in BatchIds, b < nextBatch, ~Open(b), subjectOf[b] \in Jobs
      PROVE  /\ b < nextBatch' /\ ~Open(b)' /\ subjectOf'[b] = subjectOf[b]
             /\ Visible(b)' \in {Visible(b), {}}
  BY <1>1, <1>3, ClosedSetStays DEF PageInv
<1>4. ASSUME NEW q \in Queries PROVE (ReadsAClosedSet(query[q]))'
  <2>1. query[q] \in QueryState /\ RequestIsSound(query[q]) /\ ReadsAClosedSet(query[q])
    BY DEF Inv, TypeOK, PageInv
  <2>2. CASE query[q].pc \in {"count", "list"} /\ query[q].subject \in Jobs
    <3>1. /\ query[q].batch \in BatchIds /\ query[q].batch < nextBatch
          /\ ~Open(query[q].batch) /\ subjectOf[query[q].batch] = query[q].subject
      BY <2>1, <2>2 DEF ReadsAClosedSet, RequestIsSound, QueryState
    <3>2. PICK b \in BatchIds : b = query[q].batch
      BY <3>1
    <3>3. /\ b < nextBatch' /\ ~Open(b)' /\ subjectOf'[b] = subjectOf[b]
          /\ Visible(b)' \in {Visible(b), {}}
      BY <1>3, <2>2, <3>1, <3>2
    <3>4. query'[q].batch = b
      BY <1>2, <3>2
    <3>5. /\ query'[q].subject = subjectOf[b]
          /\ query'[q].pc = "list" => Visible(b) = {} \/ query'[q].total = Cardinality(Visible(b))
          /\ query'[q].items # {} => query'[q].pc = "answered"
      BY <1>2, <2>1, <2>2, <3>1, <3>2 DEF ReadsAClosedSet
    <3>6. Visible(query[q].batch)' = Visible(b)' /\ (Open(query[q].batch)' <=> Open(b)')
      BY <3>4 DEF Visible, RowsOf, Open
    <3> QED BY <3>3, <3>4, <3>5, <3>6 DEF ReadsAClosedSet
  <2>3. CASE ~(query[q].pc \in {"count", "list"} /\ query[q].subject \in Jobs)
    BY <1>2, <2>1, <2>3 DEF ReadsAClosedSet
  <2> QED BY <2>2, <2>3
<1>5. ASSUME NEW q \in Queries PROVE (IsWhole(query[q]))'
  BY <1>2 DEF PageInv, IsWhole
<1> QED BY <1>1, <1>4, <1>5 DEF PageInv

(* A query goes on: what it counted and lists agrees with the tables.      *)
LEMMA PagesSurviveRead ==
  ASSUME Inv, PageInv, NEW q \in Queries, NEW x, Step(q, x), ReadsAClosedSet(x), IsWhole(x)
  PROVE  PageInv'
<1>1. /\ \A o \in Queries : query'[o] = IF o = q THEN x ELSE query[o]
      /\ UNCHANGED <<version, active, nextBatch, subjectOf, status, recs, rank>>
  BY DEF Step, Inv, TypeOK, domain, store
<1>2. TablesInv'
  BY <1>1
  DEF PageInv, TablesInv, RanksDiffer, PublishedAreWritten, RequestersAreWritten,
      JobsListEmployees
<1>3. \A b : (Open(b)' <=> Open(b)) /\ Visible(b)' = Visible(b)
  BY <1>1 DEF Open, Visible, RowsOf
<1>4. (\A o \in Queries : ReadsAClosedSet(query[o]))'
  <2> SUFFICES ASSUME NEW o \in Queries PROVE ReadsAClosedSet(query[o])'
    OBVIOUS
  <2>1. ReadsAClosedSet(query'[o])
    BY <1>1 DEF PageInv
  <2>2. Visible(query[o].batch)' = Visible(query'[o].batch)
    BY <1>1 DEF Visible, RowsOf
  <2>3. Open(query[o].batch)' <=> Open(query'[o].batch)
    BY <1>1 DEF Open
  <2> QED BY <1>1, <2>1, <2>2, <2>3 DEF ReadsAClosedSet
<1>5. (\A o \in Queries : IsWhole(query[o]))'
  <2>1. \A o \in Queries : IsWhole(query'[o])
    BY <1>1 DEF PageInv
  <2> QED BY <2>1 DEF IsWhole
<1> QED BY <1>2, <1>4, <1>5 DEF PageInv

(* A query that neither counts nor lists has no rows to answer for.        *)
LEMMA NothingListed ==
  ASSUME NEW x, x.items = {}, x.pc \notin {"count", "list"}
  PROVE  ReadsAClosedSet(x) /\ IsWhole(x)
BY DEF ReadsAClosedSet, IsWhole

(* The statements of the queries.                                          *)
LEMMA PagesSurviveAnswer ==
  ASSUME Inv, PageInv, NEW q \in Queries, Answer(q)
  PROVE  PageInv'
<1>1. /\ query[q] \in QueryState /\ RequestIsSound(query[q]) /\ StoreInv
      /\ ReadsAClosedSet(query[q]) /\ rank \in Ranks /\ RanksDiffer
  BY DEF Inv, TypeOK, PageInv, TablesInv
<1>2. query[q].pc # "answered" => query[q].items = {}
  BY <1>1 DEF ReadsAClosedSet
<1>3. CASE Authorize(q) \/ AuthorizeProfile(q) \/ ReadProfile(q)
  <2>1. PICK pc \in {"current", "refused", "read", "served"} :
          Step(q, [query[q] EXCEPT !.pc = pc])
    BY <1>3 DEF Authorize, AuthorizeProfile, ReadProfile
  <2> DEFINE x == [query[q] EXCEPT !.pc = pc]
  <2>2. query[q].items = {}
    BY <1>2, <1>3 DEF Authorize, AuthorizeProfile, ReadProfile
  <2>3. x.pc = pc /\ x.items = {}
    BY <1>1, <2>2 DEF QueryState
  <2> HIDE DEF x
  <2>4. ReadsAClosedSet(x) /\ IsWhole(x)
    BY <2>3, NothingListed
  <2> QED BY <2>1, <2>4, PagesSurviveRead DEF x
<1>4. CASE ReadCurrent(q)
  <2> DEFINE c == CurrentBatch(query[q].subject)
             none == [query[q] EXCEPT !.pc = "answered", !.status = "none", !.batch = 0]
             some == [query[q] EXCEPT !.pc = "completed", !.status = status[c]]
  <2>1. query[q].items = {}
    BY <1>2, <1>4 DEF ReadCurrent
  <2>2. none.pc = "answered" /\ some.pc = "completed" /\ none.items = {} /\ some.items = {}
    BY <1>1, <2>1 DEF QueryState
  <2>3. Step(q, none) \/ Step(q, some)
    BY <1>4 DEF ReadCurrent
  <2> HIDE DEF none, some
  <2>4. /\ ReadsAClosedSet(none) /\ IsWhole(none)
        /\ ReadsAClosedSet(some) /\ IsWhole(some)
    BY <2>2, NothingListed
  <2> QED BY <2>3, <2>4, PagesSurviveRead
<1>5. CASE ReadCompleted(q)
  <2> DEFINE s == query[q].subject
             b == LastCompletedBatch(s)
             pc == IF b = 0 THEN "answered" ELSE "count"
             seen == IF b = query[q].batch THEN query[q].seen ELSE {}
             x == [query[q] EXCEPT !.pc = pc, !.batch = b, !.seen = seen]
  <2>1. Step(q, x) /\ query[q].items = {}
    BY <1>2, <1>5 DEF ReadCompleted
  <2>2. ASSUME b # 0 PROVE b < nextBatch /\ ~Open(b) /\ subjectOf[b] = s
    <3>1. b \in BatchIds /\ Exists(b) /\ status[b] = "completed" /\ subjectOf[b] = s
      BY <2>2, NewestOf DEF Completed, BatchesOf
    <3>2. b \in Nat /\ nextBatch \in Nat
      BY <1>1, <3>1, StoreAssumption DEF BatchIds, StoreInv, StoreTypeOK
    <3>3. ~(b >= nextBatch)
      BY <1>1, <3>1 DEF StoreInv, FreshBatches, Exists, BatchStatus, InFlight, Terminal
    <3> QED BY <3>1, <3>2, <3>3 DEF Open, InFlight
  <2> HIDE DEF b, seen
  <2>3. x.pc = pc /\ x.items = {} /\ x.batch = b /\ x.subject = s
    BY <1>1, <2>1 DEF QueryState
  <2> HIDE DEF x
  <2>4. ReadsAClosedSet(x) /\ IsWhole(x)
    BY <2>2, <2>3 DEF ReadsAClosedSet, IsWhole
  <2> QED BY <2>1, <2>4, PagesSurviveRead
<1>6. CASE Count(q)
  <2> DEFINE n == Cardinality(Visible(query[q].batch))
             x == [query[q] EXCEPT !.pc = "list", !.total = n]
  <2>1. Step(q, x) /\ query[q].pc = "count" /\ query[q].items = {}
    BY <1>2, <1>6 DEF Count
  <2> HIDE DEF n
  <2>2. /\ x.pc = "list" /\ x.items = {} /\ x.batch = query[q].batch /\ x.total = n
        /\ x.subject = query[q].subject
    BY <1>1, <2>1 DEF QueryState
  <2> HIDE DEF x
  <2>3. ReadsAClosedSet(x) /\ IsWhole(x)
    BY <1>1, <2>1, <2>2 DEF n, ReadsAClosedSet, IsWhole
  <2> QED BY <2>1, <2>3, PagesSurviveRead
<1>7. CASE List(q)
  <2> DEFINE b == query[q].batch
             offset == query[q].offset
             items == Page(b, offset)
             x == [query[q] EXCEPT !.pc = "answered", !.items = items]
  <2>1. Step(q, x) /\ query[q].pc = "list"
    BY <1>7 DEF List
  <2>2. b \in BatchIds /\ offset \in Nat /\ Limit \in Nat
    BY <1>1, <2>1, QueryAssumption DEF QueryState, RequestIsSound
  <2>3. IsFiniteSet(Visible(b)) /\ Cardinality(Visible(b)) \in Nat
    BY <1>1, <2>2, VisibleIsFinite
  <2>4. LET n == Cardinality(Visible(b))
        IN  Cardinality(items) =
              IF offset >= n THEN 0 ELSE IF n - offset < Limit THEN n - offset ELSE Limit
    BY <1>1, <2>2, PageSize
  <2>5. items # {} => Cardinality(items) # 0 /\ Visible(b) # {}
    <3>1. IsFiniteSet(items)
      <4> DEFINE W == {r \in Visible(b) : r.other \in items}
                 f == [r \in W |-> r.other]
      <4>1. items = {r.other : r \in W}
        BY DEF Page
      <4>2. f \in Surjection(W, items)
        <5> HIDE DEF W, items
        <5> QED BY <4>1 DEF Surjection
      <4>3. IsFiniteSet(W)
        BY <2>3, FS_Subset
      <4> QED BY <4>2, <4>3, FS_Surjection
    <3> QED BY <3>1, FS_EmptySet DEF Page
  <2> HIDE DEF items
  <2>6. /\ x.pc = "answered" /\ x.items = items /\ x.offset = offset
        /\ x.subject = query[q].subject /\ x.total = query[q].total
    BY <1>1 DEF QueryState
  <2> HIDE DEF x
  <2>7. ReadsAClosedSet(x)
    BY <2>6 DEF ReadsAClosedSet
  <2>8. ASSUME items # {}, x.subject \in Jobs
        PROVE  Cardinality(items) =
                 IF x.total - x.offset < Limit THEN x.total - x.offset ELSE Limit
    <3>1. x.total = Cardinality(Visible(b))
      BY <1>1, <2>1, <2>5, <2>6, <2>8 DEF ReadsAClosedSet
    <3> QED BY <2>2, <2>3, <2>4, <2>5, <2>6, <2>8, <3>1
  <2>9. IsWhole(x)
    BY <2>6, <2>8 DEF IsWhole
  <2> QED BY <2>1, <2>7, <2>9, PagesSurviveRead
<1> QED BY <1>3, <1>4, <1>5, <1>6, <1>7 DEF Answer

(* Every step keeps what pages rest on.                                    *)
LEMMA PagesStep ==
  ASSUME Inv, PageInv, [Next]_vars
  PROVE  PageInv'
<1>1. CASE UNCHANGED vars
  <2>1. UNCHANGED <<query, version, active, nextBatch, subjectOf, status, recs, rank>>
    BY <1>1 DEF vars, domain, store
  <2>2. TablesInv'
    BY <2>1
    DEF PageInv, TablesInv, RanksDiffer, PublishedAreWritten, RequestersAreWritten,
        JobsListEmployees
  <2>3. \A b : (Open(b)' <=> Open(b)) /\ Visible(b)' = Visible(b)
    BY <2>1 DEF Open, Visible, RowsOf
  <2>4. ASSUME NEW q \in Queries PROVE ReadsAClosedSet(query[q])' /\ IsWhole(query[q])'
    BY <2>1, <2>3 DEF PageInv, ReadsAClosedSet, IsWhole, Open, Visible, RowsOf
  <2> QED BY <2>2, <2>4 DEF PageInv
<1>2. ASSUME NEW q \in Queries, NEW x, Step(q, x), x.items = {}, x.pc \in {"authorize", "access"}
      PROVE  PageInv'
  BY <1>2, NothingListed, PagesSurviveRead
<1>3. /\ Idle \in QueryState /\ Idle.items = {}
  BY IdleIsAState DEF Idle
<1>4. ASSUME NEW q \in Queries, NEW s \in Subjects, NEW p \in Principals, Ask(q, s, p)
      PROVE  PageInv'
  <2> DEFINE x == [Idle EXCEPT !.pc = "authorize", !.subject = s, !.by = p]
  <2>1. Step(q, x) /\ x.items = {} /\ x.pc = "authorize"
    BY <1>3, <1>4 DEF Ask, QueryState
  <2> HIDE DEF x
  <2> QED BY <1>2, <2>1
<1>5. ASSUME NEW q \in Queries, NEW e \in Employees, NEW p \in Principals, AskProfile(q, e, p)
      PROVE  PageInv'
  <2> DEFINE l == p \in Employers /\ Linked(e, p)
             x == [Idle EXCEPT !.pc = "access", !.subject = e, !.by = p, !.linked = l]
  <2>1. Step(q, x)
    BY <1>5 DEF AskProfile
  <2> HIDE DEF l
  <2>2. x.items = {} /\ x.pc = "access"
    BY <1>3 DEF QueryState
  <2> HIDE DEF x
  <2> QED BY <1>2, <2>1, <2>2
<1>6. ASSUME NEW q \in Queries, NextPage(q)
      PROVE  PageInv'
  <2> DEFINE x == [Idle EXCEPT !.pc = "authorize", !.subject = query[q].subject,
                     !.by = query[q].by, !.offset = Limit,
                     !.batch = query[q].batch, !.seen = query[q].items]
  <2>1. Step(q, x) /\ x.items = {} /\ x.pc = "authorize"
    BY <1>3, <1>6 DEF NextPage, QueryState
  <2> HIDE DEF x
  <2> QED BY <1>2, <2>1
<1> QED BY <1>1, <1>4, <1>5, <1>6, PagesSurviveChange, PagesSurviveAnswer DEF Next

(* A page of candidates has as many rows as the total it comes with        *)
(* announces, or none: no replacement, deletion or update that comes       *)
(* between the count and the rows shows in part (repo.go).                 *)
THEOREM PagesAreWhole == Spec => []PageIsWholeOrGone
<1>1. Init => PageInv
  <2> SUFFICES ASSUME Init PROVE PageInv
    OBVIOUS
  <2>1. TablesInv
    BY StoreAssumption
    DEF Init, StoreInit, TablesInv, RanksDiffer, PublishedAreWritten, RequestersAreWritten,
        JobsListEmployees
  <2>2. \A q \in Queries : query[q].items = {} /\ query[q].pc = "idle"
    BY DEF Init, Idle
  <2> QED BY <2>1, <2>2, NothingListed DEF PageInv
<1>2. PageInv => PageIsWholeOrGone
  BY DEF PageInv, IsWhole, PageIsWholeOrGone
<1> QED BY <1>1, <1>2, PagesStep, Invariance, PTL DEF Spec

(* Within one state the pages of a set have no row in common: what makes   *)
(* them repeat one is a change of the order in between (PagesDoNotRepeat). *)
THEOREM PagesAreDisjoint ==
  ASSUME StoreInv, rank \in Ranks, RanksDiffer, NEW b \in BatchIds,
         NEW m \in Nat, NEW n \in Nat, m + Limit <= n
  PROVE  Page(b, m) \cap Page(b, n) = {}
<1> DEFINE place == [r \in Visible(b) |-> Cardinality(Before(b, r))]
<1>1. \A r \in Visible(b) : place[r] \in Nat
  <2>1. place \in [Visible(b) -> 0..(Cardinality(Visible(b)) - 1)]
    BY PlacesAreTaken DEF Bijection, Injection
  <2> HIDE DEF place
  <2> QED BY <2>1
<1>2. \A o \in Nat : Page(b, o) = {r.other : r \in {x \in Visible(b) : place[x] \in o..(o + Limit - 1)}}
  BY DEF Page, Before
<1> HIDE DEF place
<1>3. \A r, t \in Visible(b) : r.other = t.other => r = t
  BY VisibleIsFinite
<1>4. Limit \in Nat
  BY QueryAssumption
<1> QED BY <1>1, <1>2, <1>3, <1>4
=============================================================================
