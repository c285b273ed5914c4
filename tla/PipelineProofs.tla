--------------------------- MODULE PipelineProofs ---------------------------
(***************************************************************************)
(* Proofs of the guarantees of PipelineProperties that hold under every    *)
(* fault, for any number of subjects, publishers, workers and batches.     *)
(***************************************************************************)
EXTENDS PipelineProperties, TLAPS

-----------------------------------------------------------------------------
(* Statements of the store and of the queue preserve the types.            *)

(* Opening a batch keeps the types of the tables.                          *)
LEMMA CreateBatchType ==
  ASSUME StoreTypeOK, UNCHANGED domain, NEW s \in Subjects,
         CreateRecommendationBatch(s)
  PROVE  StoreTypeOK'
<1>1. nextBatch' \in 1..(MaxBatches + 1)
  BY StoreAssumption DEF StoreTypeOK, CreateRecommendationBatch, BatchIds
<1>2. status' \in [BatchIds -> BatchStatus \cup {"absent"}]
  BY DEF StoreTypeOK, CreateRecommendationBatch, BatchStatus, InFlight
<1>3. subjectOf' \in [BatchIds -> Subjects \cup {None}]
  BY DEF StoreTypeOK, CreateRecommendationBatch
<1>4. opened' \in [BatchIds -> Versions]
  BY DEF StoreTypeOK, CreateRecommendationBatch
<1>. QED
  BY <1>1, <1>2, <1>3, <1>4 DEF StoreTypeOK, CreateRecommendationBatch, domain

(* Setting a status keeps the types of the tables.                         *)
LEMMA TransitionType ==
  ASSUME StoreTypeOK, UNCHANGED domain, NEW b, NEW to \in BatchStatus,
         TransitionBatch(b, to)
  PROVE  StoreTypeOK'
  BY DEF StoreTypeOK, TransitionBatch, domain

(* Claiming a batch keeps the types of the tables.                         *)
LEMMA ClaimType ==
  ASSUME StoreTypeOK, UNCHANGED domain, NEW b, ClaimBatch(b)
  PROVE  StoreTypeOK'
  BY DEF StoreTypeOK, ClaimBatch, domain, BatchStatus, InFlight

(* Completing a batch keeps the types of the tables.                       *)
LEMMA CompleteBatchType ==
  ASSUME StoreTypeOK, UNCHANGED domain, NEW b \in BatchIds,
         NEW others \in SUBSET Subjects, NEW basis \in Versions,
         CompleteBatch(b, others, basis)
  PROVE  StoreTypeOK'
<1>1. status' \in [BatchIds -> BatchStatus \cup {"absent"}]
  BY DEF StoreTypeOK, CompleteBatch, BatchStatus, Terminal
<1>2. recs' \in SUBSET Recommendations
  <2>1. [batch: {b}, other: others, basis: {basis}] \subseteq Recommendations
    BY DEF Recommendations
  <2>. QED
    BY <2>1 DEF StoreTypeOK, CompleteBatch
<1>. QED
  BY <1>1, <1>2 DEF StoreTypeOK, CompleteBatch, domain

(* So does a step that touches no table,                                   *)
LEMMA StoreStutterType ==
  ASSUME StoreTypeOK, UNCHANGED domain, UNCHANGED store
  PROVE  StoreTypeOK'
  BY DEF StoreTypeOK, domain, store

(* and one that leaves the queue alone.                                    *)
LEMMA QueueStutterType ==
  ASSUME QueueTypeOK, UNCHANGED queue
  PROVE  QueueTypeOK'
  BY DEF QueueTypeOK, queue

(* Deliverable messages gain one delivery and come under a new receipt.    *)
LEMMA ReceiveType ==
  ASSUME QueueTypeOK, NEW S \in SUBSET Deliverable, ReceiveMessages(S)
  PROVE  QueueTypeOK' /\ Delivered(S) \in SUBSET Deliveries
<1>1. \A m \in S : m \in Messages /\ receives[m] + 1 \in 0..MaxReceive
  BY QueueAssumption DEF QueueTypeOK, Deliverable
<1>2. receives' \in [Messages -> 0..MaxReceive]
  BY <1>1 DEF QueueTypeOK, ReceiveMessages
<1>. QED
  BY <1>2 DEF QueueTypeOK, ReceiveMessages, Delivered

(* The count of faults stays within its bound.                             *)
LEMMA FaultType ==
  ASSUME faults \in 0..MaxFaults, NEW kind, NoFault \/ Fault(kind)
  PROVE  faults' \in 0..MaxFaults
  BY PipelineAssumption DEF NoFault, Fault

-----------------------------------------------------------------------------
(* Local states.                                                           *)

(* A publisher that is done has a well-formed state.                       *)
LEMMA PublisherRests ==
  ASSUME pub \in [Publishers -> PublisherState], NEW p \in Publishers,
         PubRests(p)
  PROVE  pub' \in [Publishers -> PublisherState]
  BY DEF PubRests, PublisherState, IdlePublisher

(* So has one that goes on.                                                *)
LEMMA PublisherGoes ==
  ASSUME pub \in [Publishers -> PublisherState], NEW p \in Publishers,
         NEW pc \in {"idle", "create", "send", "close"}, PubGoes(p, pc)
  PROVE  pub' \in [Publishers -> PublisherState]
  BY DEF PubGoes, PublisherState

(* A worker that is done with a message has a well-formed state.           *)
LEMMA WorkerRests ==
  ASSUME work \in [Workers -> WorkState], NEW w \in Workers, Rests(w)
  PROVE  work' \in [Workers -> WorkState]
<1>1. IdleWork \in WorkState
  BY StoreAssumption, QueueAssumption DEF IdleWork, WorkState, Versions
<1>. QED
  BY <1>1 DEF Rests

(* So has one that goes on.                                                *)
LEMMA WorkerGoes ==
  ASSUME work \in [Workers -> WorkState], NEW w \in Workers,
         NEW pc \in {"subject", "pairs", "refuse", "claim", "score",
                     "complete", "fail", "ack"},
         Goes(w, pc)
  PROVE  work' \in [Workers -> WorkState]
  BY DEF Goes, WorkState

-----------------------------------------------------------------------------
(* Each action preserves the types.                                        *)

(* The steps of a request keep the types.                                  *)
LEMMA PublisherTypes ==
  ASSUME TypeOK, PublisherKnows, NEW p \in Publishers,
         \/ \E s \in Subjects : Write(p, s)
         \/ Publish(p)
         \/ CrashPublisher(p)
  PROVE  TypeOK'
<1>1. ASSUME NEW s \in Subjects, Write(p, s)  PROVE TypeOK'
  <2>1. version' \in [Subjects -> Versions] /\ active' \in SUBSET Jobs
    BY <1>1, StoreAssumption
    DEF Write, PersistWrite, Writable, TypeOK, StoreTypeOK, Versions
  <2>2. StoreTypeOK'
    BY <1>1, <2>1 DEF Write, TypeOK, StoreTypeOK, store
  <2>3. pub' \in [Publishers -> PublisherState]
    BY <1>1 DEF Write, TypeOK, PublisherState
  <2>. QED
    BY <1>1, <2>2, <2>3, QueueStutterType DEF Write, TypeOK
<1>2. CASE Create(p)
  <2>1. StoreTypeOK'
    BY <1>2, CreateBatchType, StoreStutterType
    DEF Create, TypeOK, PublisherKnows
  <2>2. pub' \in [Publishers -> PublisherState]
    <3>1. CASE PubRests(p)
      BY <3>1, PublisherRests DEF TypeOK
    <3>2. CASE /\ pub' = [pub EXCEPT ![p].pc = "send", ![p].batch = nextBatch]
               /\ nextBatch \in BatchIds
      BY <3>2 DEF TypeOK, PublisherState
    <3>. QED
      BY <1>2, <3>1, <3>2 DEF Create, CreateRecommendationBatch
  <2>3. faults' \in 0..MaxFaults
    BY <1>2, FaultType DEF Create, TypeOK
  <2>. QED
    BY <1>2, <2>1, <2>2, <2>3, QueueStutterType DEF Create, TypeOK
<1>3. CASE Send(p)
  <2>1. QueueTypeOK'
    BY <1>3 DEF Send, SendMessage, TypeOK, QueueTypeOK, queue
  <2>2. pub' \in [Publishers -> PublisherState]
    BY <1>3, PublisherRests, PublisherGoes DEF Send, TypeOK
  <2>3. faults' \in 0..MaxFaults
    BY <1>3, FaultType DEF Send, TypeOK
  <2>. QED
    BY <1>3, <2>1, <2>2, <2>3, StoreStutterType DEF Send, TypeOK
<1>4. CASE Close(p)
  <2>1. StoreTypeOK'
    BY <1>4, TransitionType, StoreStutterType
    DEF Close, TypeOK, BatchStatus, Terminal
  <2>2. faults' \in 0..MaxFaults
    BY <1>4, FaultType DEF Close, TypeOK
  <2>. QED
    BY <1>4, <2>1, <2>2, PublisherRests, QueueStutterType DEF Close, TypeOK
<1>5. CASE CrashPublisher(p)
  BY <1>5, FaultType, PublisherRests, StoreStutterType, QueueStutterType
  DEF CrashPublisher, TypeOK
<1>. QED
  BY <1>1, <1>2, <1>3, <1>4, <1>5 DEF Publish

(* The steps of a worker keep the types.                                   *)
LEMMA WorkerTypes ==
  ASSUME TypeOK, WorkerKnows, NEW w \in Workers,
         Process(w) \/ Shutdown(w) \/ CrashWorker(w)
  PROVE  TypeOK'
<1>1. CASE Receive(w)
  <2>1. PICK S \in SUBSET Deliverable :
          /\ ReceiveMessages(S)
          /\ fetched' = [fetched EXCEPT ![w] = Delivered(S)]
          /\ NoFault \/ Fault("expiry")
    BY <1>1 DEF Receive
  <2>2. QueueTypeOK' /\ fetched' \in [Workers -> SUBSET Deliveries]
    BY <2>1, ReceiveType DEF TypeOK
  <2>3. faults' \in 0..MaxFaults
    BY <2>1, FaultType DEF TypeOK
  <2>. QED
    BY <1>1, <2>2, <2>3, StoreStutterType DEF Receive, TypeOK
<1>2. CASE Begin(w)
  <2>1. PICK d \in fetched[w] :
          /\ fetched' = [fetched EXCEPT ![w] = @ \ {d}]
          /\ \/ UNCHANGED work
             \/ \E pc \in {"ack", "subject"} :
                  work' = [work EXCEPT ![w] =
                             [pc |-> pc, body |-> d.body,
                              receipt |-> d.receipt, basis |-> 0,
                              pairs |-> {}]]
          /\ NoFault \/ Fault("db")
    BY <1>2 DEF Begin
  <2>2. d \in Deliveries
    BY DEF TypeOK
  <2>3. \A pc \in {"ack", "subject"} :
          [pc |-> pc, body |-> d.body, receipt |-> d.receipt, basis |-> 0,
           pairs |-> {}] \in WorkState
    BY <2>2, StoreAssumption, QueueAssumption
    DEF WorkState, Deliveries, Versions
  <2>4. work' \in [Workers -> WorkState]
    BY <2>1, <2>3 DEF TypeOK
  <2>5. fetched' \in [Workers -> SUBSET Deliveries]
    BY <2>1 DEF TypeOK
  <2>6. faults' \in 0..MaxFaults
    BY <2>1, FaultType DEF TypeOK
  <2>. QED
    BY <1>2, <2>4, <2>5, <2>6, StoreStutterType, QueueStutterType
    DEF Begin, TypeOK
<1>3. CASE ReadSubject(w)
  <2>1. ASSUME SubjectFound(subjectOf[work[w].body]),
               work' = [work EXCEPT
                          ![w].pc = "pairs",
                          ![w].basis = version[subjectOf[work[w].body]]]
        PROVE  work' \in [Workers -> WorkState]
    <3>1. version[subjectOf[work[w].body]] \in Versions
      BY <2>1 DEF SubjectFound, TypeOK, StoreTypeOK, Subjects
    <3>2. work[w] \in WorkState
      BY DEF TypeOK
    <3>3. ASSUME NEW v \in Versions
          PROVE  [work[w] EXCEPT !.pc = "pairs", !.basis = v] \in WorkState
      BY <3>2 DEF WorkState
    <3>. QED
      BY <2>1, <3>1, <3>3 DEF TypeOK
  <2>2. work' \in [Workers -> WorkState]
    BY <1>3, <2>1, WorkerGoes, WorkerRests DEF ReadSubject, TypeOK
  <2>3. faults' \in 0..MaxFaults
    BY <1>3, FaultType DEF ReadSubject, TypeOK
  <2>. QED
    BY <1>3, <2>2, <2>3, StoreStutterType, QueueStutterType
    DEF ReadSubject, TypeOK
<1>4. CASE ReadPairs(w)
  <2>1. \A s : Universe(s) \subseteq Subjects
    BY DEF Universe, Subjects, TypeOK, StoreTypeOK
  <2>2. ASSUME NEW pc \in {"claim", "refuse"},
               work' = [work EXCEPT ![w].pc = pc,
                         ![w].pairs = Universe(subjectOf[work[w].body])]
        PROVE  work' \in [Workers -> WorkState]
    <3>1. work[w] \in WorkState
      BY DEF TypeOK
    <3>2. ASSUME NEW set \in SUBSET Subjects
          PROVE  [work[w] EXCEPT !.pc = pc, !.pairs = set] \in WorkState
      BY <3>1 DEF WorkState
    <3>. QED
      BY <2>1, <2>2, <3>2 DEF TypeOK
  <2>3. work' \in [Workers -> WorkState]
    BY <1>4, <2>2, WorkerRests DEF ReadPairs, TypeOK
  <2>4. faults' \in 0..MaxFaults
    BY <1>4, FaultType DEF ReadPairs, TypeOK
  <2>. QED
    BY <1>4, <2>3, <2>4, StoreStutterType, QueueStutterType
    DEF ReadPairs, TypeOK
<1>5. CASE Refuse(w)
  <2>1. StoreTypeOK'
    BY <1>5, TransitionType, StoreStutterType
    DEF Refuse, TypeOK, BatchStatus, Terminal
  <2>2. work' \in [Workers -> WorkState]
    BY <1>5, WorkerGoes, WorkerRests DEF Refuse, TypeOK
  <2>3. faults' \in 0..MaxFaults
    BY <1>5, FaultType DEF Refuse, TypeOK
  <2>. QED
    BY <1>5, <2>1, <2>2, <2>3, QueueStutterType DEF Refuse, TypeOK
<1>6. CASE Claim(w)
  <2>1. StoreTypeOK'
    BY <1>6, ClaimType, StoreStutterType DEF Claim, TypeOK
  <2>2. work' \in [Workers -> WorkState]
    BY <1>6, WorkerGoes, WorkerRests DEF Claim, TypeOK
  <2>3. faults' \in 0..MaxFaults
    BY <1>6, FaultType DEF Claim, TypeOK
  <2>. QED
    BY <1>6, <2>1, <2>2, <2>3, QueueStutterType DEF Claim, TypeOK
<1>7. CASE Score(w)
  <2>1. ASSUME NEW eligible \in SUBSET work[w].pairs,
               work' = [work EXCEPT ![w].pc = "complete", ![w].pairs = eligible]
        PROVE  work' \in [Workers -> WorkState]
    BY <2>1 DEF TypeOK, WorkState
  <2>2. work' \in [Workers -> WorkState]
    BY <1>7, <2>1, WorkerGoes DEF Score, TypeOK
  <2>. QED
    BY <1>7, <2>2, StoreStutterType, QueueStutterType DEF Score, TypeOK
<1>8. CASE Fail(w)
  <2>1. StoreTypeOK'
    BY <1>8, TransitionType, StoreStutterType
    DEF Fail, TypeOK, BatchStatus, Terminal
  <2>2. work' \in [Workers -> WorkState]
    BY <1>8, WorkerGoes DEF Fail, TypeOK
  <2>3. faults' \in 0..MaxFaults
    BY <1>8, FaultType DEF Fail, TypeOK
  <2>. QED
    BY <1>8, <2>1, <2>2, <2>3, QueueStutterType DEF Fail, TypeOK
<1>9. CASE Complete(w)
  <2>1. /\ work[w].body \in BatchIds
        /\ work[w].pairs \in SUBSET Subjects
        /\ work[w].basis \in Versions
    BY <1>9 DEF Complete, WorkerKnows, TypeOK, WorkState
  <2>2. StoreTypeOK'
    BY <1>9, <2>1, CompleteBatchType, StoreStutterType DEF Complete, TypeOK
  <2>3. work' \in [Workers -> WorkState]
    BY <1>9, WorkerGoes, WorkerRests DEF Complete, TypeOK
  <2>4. faults' \in 0..MaxFaults
    BY <1>9, FaultType DEF Complete, TypeOK
  <2>. QED
    BY <1>9, <2>2, <2>3, <2>4, QueueStutterType DEF Complete, TypeOK
<1>10. CASE Ack(w)
  <2>1. QueueTypeOK'
    BY <1>10 DEF Ack, DeleteMessage, TypeOK, QueueTypeOK, queue
  <2>2. faults' \in 0..MaxFaults
    BY <1>10, FaultType DEF Ack, TypeOK
  <2>. QED
    BY <1>10, <2>1, <2>2, WorkerRests, StoreStutterType DEF Ack, TypeOK
<1>11. CASE Shutdown(w)
  BY <1>11, FaultType, StoreStutterType, QueueStutterType
  DEF Shutdown, TypeOK
<1>12. CASE CrashWorker(w)
  BY <1>12, FaultType, WorkerRests, StoreStutterType, QueueStutterType
  DEF CrashWorker, TypeOK
<1>. QED
  BY <1>1, <1>2, <1>3, <1>4, <1>5, <1>6, <1>7, <1>8, <1>9, <1>10, <1>11,
     <1>12 DEF Process

(* The redrive policy keeps the types.                                     *)
LEMMA RedriveTypes ==
  ASSUME TypeOK, NEW m \in Messages, Redrive(m)
  PROVE  TypeOK'
<1>1. QueueTypeOK'
  BY DEF Redrive, RedriveMessage, TypeOK, QueueTypeOK
<1>2. faults' \in 0..MaxFaults
  BY FaultType DEF Redrive, TypeOK
<1>. QED
  BY <1>1, <1>2, StoreStutterType DEF Redrive, TypeOK

(* A deletion keeps the types.                                             *)
LEMMA DeleteTypes ==
  ASSUME TypeOK, NEW j \in Jobs, Delete(j)
  PROVE  TypeOK'
<1>1. StoreTypeOK'
  BY DEF Delete, SoftDeleteJobPosition, TypeOK, StoreTypeOK, store
<1>. QED
  BY <1>1, QueueStutterType DEF Delete, TypeOK

(* Every step keeps the types.                                             *)
LEMMA NextType ==
  ASSUME TypeOK, Bookkeeping, [Next]_vars
  PROVE  TypeOK'
<1>1. CASE UNCHANGED vars
  BY <1>1 DEF vars, TypeOK, StoreTypeOK, QueueTypeOK
<1>2. CASE Next
  <2>1. ASSUME NEW w \in Workers, ReceiveNothing(w)  PROVE TypeOK'
    BY <2>1, <1>1 DEF ReceiveNothing
  <2>. QED
    BY <1>2, <2>1, PublisherTypes, WorkerTypes, RedriveTypes, DeleteTypes
    DEF Next, Bookkeeping
<1>. QED
  BY <1>1, <1>2

(* The initial tables, queue and local states are well-formed.             *)
LEMMA InitType ==
  ASSUME Init
  PROVE  TypeOK
<1>1. StoreTypeOK
  BY StoreAssumption
  DEF Init, StoreInit, StoreTypeOK, Versions
<1>2. QueueTypeOK
  BY QueueAssumption DEF Init, QueueInit, QueueTypeOK
<1>3. IdlePublisher \in PublisherState
  BY DEF IdlePublisher, PublisherState
<1>4. IdleWork \in WorkState
  BY StoreAssumption, QueueAssumption DEF IdleWork, WorkState, Versions
<1>. QED
  BY <1>1, <1>2, <1>3, <1>4, PipelineAssumption DEF Init, TypeOK

-----------------------------------------------------------------------------
(* What a step may do to the tables and to the queue.                      *)

(* A step issues one statement on the batches, and then leaves the domain  *)
(* alone, or none.                                                         *)
LEMMA StoreSteps ==
  ASSUME TypeOK, Bookkeeping, [Next]_vars
  PROVE  \/ UNCHANGED store
         \/ /\ UNCHANGED domain
            /\ \/ \E s \in Subjects : CreateRecommendationBatch(s)
               \/ \E b \in BatchIds : TransitionBatch(b, "failed")
               \/ \E b \in BatchIds : ClaimBatch(b)
               \/ \E w \in Workers :
                    /\ work[w].pc = "complete"
                    /\ work[w].body \in BatchIds
                    /\ CompleteBatch(work[w].body, work[w].pairs, work[w].basis)
<1>1. CASE UNCHANGED vars
  BY <1>1 DEF vars, store
<1>2. ASSUME NEW p \in Publishers, Publish(p)
      PROVE  \/ UNCHANGED store
             \/ /\ UNCHANGED domain
                /\ \/ \E s \in Subjects : CreateRecommendationBatch(s)
                   \/ \E b \in BatchIds : TransitionBatch(b, "failed")
  <2>1. CASE Create(p)
    BY <2>1 DEF Create, Bookkeeping, PublisherKnows
  <2>2. CASE Send(p)
    BY <2>2 DEF Send
  <2>3. CASE Close(p)
    BY <2>3 DEF Close, Bookkeeping, PublisherKnows
  <2>. QED
    BY <1>2, <2>1, <2>2, <2>3 DEF Publish
<1>3. ASSUME NEW w \in Workers, Process(w)
      PROVE  \/ UNCHANGED store
             \/ /\ UNCHANGED domain
                /\ \/ \E b \in BatchIds : TransitionBatch(b, "failed")
                   \/ \E b \in BatchIds : ClaimBatch(b)
                   \/ /\ work[w].pc = "complete"
                      /\ work[w].body \in BatchIds
                      /\ CompleteBatch(work[w].body, work[w].pairs,
                                       work[w].basis)
  <2>1. work[w].pc \in {"refuse", "claim", "fail", "complete"}
          => work[w].body \in BatchIds
    BY DEF Bookkeeping, WorkerKnows
  <2>2. CASE Refuse(w)
    BY <2>1, <2>2 DEF Refuse
  <2>3. CASE Claim(w)
    BY <2>1, <2>3 DEF Claim
  <2>4. CASE Fail(w)
    BY <2>1, <2>4 DEF Fail
  <2>5. CASE Complete(w)
    BY <2>1, <2>5 DEF Complete
  <2>. QED
    BY <1>3, <2>2, <2>3, <2>4, <2>5
    DEF Process, Receive, Begin, ReadSubject, ReadPairs, Score, Ack
<1>. QED
  BY <1>1, <1>2, <1>3
  DEF Next, Write, Delete, CrashPublisher, ReceiveNothing, Shutdown,
      CrashWorker, Redrive

(* No step takes a subject back to an earlier version.                     *)
LEMMA VersionGrows ==
  ASSUME TypeOK, [Next]_vars
  PROVE  \A s \in Subjects : version[s] <= version'[s]
<1>1. CASE UNCHANGED version
  BY <1>1 DEF TypeOK, StoreTypeOK, Versions
<1>2. ASSUME NEW p \in Publishers, NEW s \in Subjects, Write(p, s)
      PROVE  \A t \in Subjects : version[t] <= version'[t]
  BY <1>2 DEF Write, PersistWrite, TypeOK, StoreTypeOK, Versions
<1>. QED
  BY <1>1, <1>2
  DEF Next, vars, domain, Publish, Process, Create, Send, Close, Delete,
      SoftDeleteJobPosition, CrashPublisher, Receive, ReceiveNothing, Begin,
      ReadSubject, ReadPairs, Refuse, Claim, Score, Fail, Complete, Ack,
      Shutdown, CrashWorker, Redrive

(* Identifiers are handed out once: what a created batch is about does not *)
(* change.                                                                 *)
LEMMA CreatedIsFixed ==
  ASSUME TypeOK, Bookkeeping, [Next]_vars
  PROVE  /\ nextBatch <= nextBatch'
         /\ \A b \in BatchIds : b < nextBatch => /\ subjectOf'[b] = subjectOf[b]
                                                /\ opened'[b] = opened[b]
<1>1. ASSUME NEW s \in Subjects, CreateRecommendationBatch(s)
      PROVE  /\ nextBatch <= nextBatch'
             /\ \A b \in BatchIds : b < nextBatch =>
                   subjectOf'[b] = subjectOf[b] /\ opened'[b] = opened[b]
  BY <1>1, StoreAssumption
  DEF CreateRecommendationBatch, TypeOK, StoreTypeOK, BatchIds
<1>2. nextBatch \in Nat
  BY StoreAssumption DEF TypeOK, StoreTypeOK
<1>. QED
  BY <1>1, <1>2, StoreSteps
  DEF TransitionBatch, ClaimBatch, CompleteBatch, store

(* Only the publisher that opened a batch sends its message.               *)
LEMMA MailSteps ==
  ASSUME TypeOK, [Next]_vars, NEW b \in BatchIds,
         mail[b] = "unsent", mail'[b] # "unsent"
  PROVE  \E p \in Publishers : pub[p].pc = "send" /\ pub[p].batch = b
<1>1. ASSUME NEW p \in Publishers, Send(p)
      PROVE  pub[p].pc = "send" /\ pub[p].batch = b
  BY <1>1 DEF Send, SendMessage, queue, TypeOK, QueueTypeOK, Messages
<1>2. ASSUME NEW w \in Workers, Ack(w)  PROVE FALSE
  BY <1>2 DEF Ack, DeleteMessage, queue, TypeOK, QueueTypeOK, Messages
<1>3. ASSUME NEW m \in Messages, Redrive(m)  PROVE FALSE
  BY <1>3 DEF Redrive, RedriveMessage, TypeOK, QueueTypeOK, Messages
<1>. QED
  BY <1>1, <1>2, <1>3
  DEF Next, vars, queue, Publish, Process, Write, Create, Close, Delete,
      CrashPublisher, Receive, ReceiveMessages, ReceiveNothing, Begin,
      ReadSubject, ReadPairs, Refuse, Claim, Score, Fail, Complete, Shutdown,
      CrashWorker

-----------------------------------------------------------------------------
(* The bookkeeping is inductive.                                           *)

(* The empty store and the idle processes satisfy the bookkeeping.         *)
LEMMA InitBookkeeping ==
  ASSUME Init
  PROVE  Bookkeeping
<1>1. \A b \in BatchIds : /\ ~(b < nextBatch)
                          /\ ~Exists(b)
                          /\ b \in Messages /\ b \notin Foreign
  BY QueueAssumption
  DEF Init, StoreInit, BatchIds, Exists, BatchStatus, InFlight, Terminal,
      Messages
<1>2. CreatedFirst
  BY <1>1 DEF Init, QueueInit, CreatedFirst
<1>3. PublisherKnows
  BY DEF Init, PublisherKnows, IdlePublisher
<1>4. WorkerKnows
  BY DEF Init, WorkerKnows, IdleWork, BatchIds
<1>5. ReadsAfterOpening
  BY DEF Init, ReadsAfterOpening, IdleWork
<1>6. RowsOwned
  BY DEF Init, StoreInit, RowsOwned
<1>. QED
  BY <1>2, <1>3, <1>4, <1>5, <1>6 DEF Bookkeeping

(* A batch has a row and a subject before it has a message.                *)
LEMMA NextCreatedFirst ==
  ASSUME TypeOK, TypeOK', Bookkeeping, [Next]_vars
  PROVE  CreatedFirst'
<1>1. SUFFICES ASSUME NEW b \in BatchIds
               PROVE  /\ Exists(b)' \/ mail'[b] # "unsent" => b < nextBatch'
                      /\ b < nextBatch' =>
                           /\ subjectOf'[b] \in Subjects
                           /\ opened'[b] <= version'[subjectOf'[b]]
  BY DEF CreatedFirst
<1>2. nextBatch \in Nat /\ nextBatch' \in Nat /\ b \in Nat
  BY StoreAssumption DEF TypeOK, StoreTypeOK, BatchIds
<1>3. mail'[b] # "unsent" => b < nextBatch'
  <2>1. mail'[b] # "unsent" => b < nextBatch
    BY MailSteps DEF Bookkeeping, CreatedFirst, PublisherKnows
  <2>. QED
    BY <1>2, <2>1, CreatedIsFixed
<1>4. Exists(b)' => b < nextBatch'
  <2>1. ASSUME NEW s \in Subjects, CreateRecommendationBatch(s), Exists(b)'
        PROVE  b < nextBatch'
    BY <1>2, <2>1
    DEF CreateRecommendationBatch, Exists, Bookkeeping, CreatedFirst, TypeOK,
        StoreTypeOK
  <2>2. ASSUME NEW c \in BatchIds,
               TransitionBatch(c, "failed") \/ ClaimBatch(c), Exists(b)'
        PROVE  b < nextBatch'
    BY <1>2, <2>2
    DEF TransitionBatch, ClaimBatch, Open, Exists, BatchStatus, Bookkeeping,
        CreatedFirst, TypeOK, StoreTypeOK
  <2>3. ASSUME NEW c \in BatchIds, NEW others, NEW basis,
               CompleteBatch(c, others, basis), Exists(b)'
        PROVE  b < nextBatch'
    <3>1. b # c => status'[b] \in {"absent", status[b]}
      BY <2>3 DEF CompleteBatch
    <3>2. b < nextBatch
      BY <2>3, <3>1
      DEF CompleteBatch, Exists, Bookkeeping, CreatedFirst, BatchStatus,
          InFlight, Terminal
    <3>. QED
      BY <2>3, <3>2 DEF CompleteBatch
  <2>4. CASE UNCHANGED store
    BY <2>4 DEF store, Exists, Bookkeeping, CreatedFirst
  <2>. QED
    BY <2>1, <2>2, <2>3, <2>4, StoreSteps
<1>5. ASSUME b < nextBatch'
      PROVE  subjectOf'[b] \in Subjects /\ opened'[b] <= version'[subjectOf'[b]]
  <2>1. CASE b < nextBatch
    <3>1. /\ subjectOf'[b] = subjectOf[b]
          /\ opened'[b] = opened[b]
          /\ subjectOf[b] \in Subjects
          /\ opened[b] <= version[subjectOf[b]]
      BY <2>1, CreatedIsFixed DEF Bookkeeping, CreatedFirst
    <3>2. version[subjectOf[b]] <= version'[subjectOf[b]]
      BY <3>1, VersionGrows
    <3>3. /\ opened[b] \in Nat
          /\ version[subjectOf[b]] \in Nat
          /\ version'[subjectOf[b]] \in Nat
      BY <3>1 DEF TypeOK, StoreTypeOK, Versions
    <3>. QED
      BY <3>1, <3>2, <3>3
  <2>2. CASE ~(b < nextBatch)
    <3>1. PICK s \in Subjects : CreateRecommendationBatch(s) /\ UNCHANGED domain
      BY <1>2, <1>5, <2>2, StoreSteps
      DEF TransitionBatch, ClaimBatch, CompleteBatch, store
    <3>2. b = nextBatch
      BY <1>2, <1>5, <2>2, <3>1 DEF CreateRecommendationBatch
    <3>3. subjectOf'[b] = s /\ opened'[b] = version[s] /\ version' = version
      BY <3>1, <3>2
      DEF CreateRecommendationBatch, domain, TypeOK, StoreTypeOK
    <3>4. version[s] \in Nat
      BY DEF TypeOK, StoreTypeOK, Versions
    <3>. QED
      BY <3>3, <3>4
  <2>. QED
    BY <2>1, <2>2
<1>. QED
  BY <1>3, <1>4, <1>5

(* A publisher keeps knowing the batch it opened.                          *)
LEMMA NextPublisherKnows ==
  ASSUME TypeOK, TypeOK', Bookkeeping, [Next]_vars
  PROVE  PublisherKnows'
<1>1. nextBatch \in Nat /\ nextBatch' \in Nat /\ nextBatch <= nextBatch'
  BY CreatedIsFixed, StoreAssumption DEF TypeOK, StoreTypeOK
<1>2. PublisherKnows
  BY DEF Bookkeeping
<1>3. \A b \in BatchIds : b \in Nat
  BY DEF BatchIds
<1>4. CASE UNCHANGED pub
  BY <1>1, <1>2, <1>3, <1>4 DEF PublisherKnows
<1>5. ASSUME NEW p \in Publishers, PubRests(p)
      PROVE  PublisherKnows'
  BY <1>1, <1>2, <1>3, <1>5 DEF PublisherKnows, PubRests, IdlePublisher, TypeOK
<1>6. ASSUME NEW p \in Publishers, NEW s \in Subjects, Write(p, s)
      PROVE  PublisherKnows'
  BY <1>1, <1>2, <1>3, <1>6 DEF PublisherKnows, Write, TypeOK
<1>7. ASSUME NEW p \in Publishers, pub[p].pc = "create",
             CreateRecommendationBatch(pub[p].subject),
             pub' = [pub EXCEPT ![p].pc = "send", ![p].batch = nextBatch]
      PROVE  PublisherKnows'
  BY <1>1, <1>2, <1>3, <1>7
  DEF PublisherKnows, CreateRecommendationBatch, TypeOK, PublisherState
<1>8. ASSUME NEW p \in Publishers, pub[p].pc = "send", PubGoes(p, "close")
      PROVE  PublisherKnows'
  BY <1>1, <1>2, <1>3, <1>8 DEF PublisherKnows, PubGoes, TypeOK, PublisherState
<1>. QED
  BY <1>4, <1>5, <1>6, <1>7, <1>8
  DEF Next, vars, Publish, Process, Create, Send, Close, Delete,
      CrashPublisher, Receive, ReceiveNothing, Begin, ReadSubject, ReadPairs,
      Refuse, Claim, Score, Fail, Complete, Ack, Shutdown, CrashWorker, Redrive

(* What a step may do to a worker.                                         *)
LEMMA WorkSteps ==
  ASSUME TypeOK, [Next]_vars, NEW w \in Workers
  PROVE  \/ work'[w] = work[w]
         \/ work'[w] = IdleWork
         \/ \E d \in fetched[w] :
              /\ work'[w].body = d.body
              /\ work'[w].pairs = {}
              /\ \/ work'[w].pc = "ack"
                 \/ work'[w].pc = "subject" /\ d.body \in BatchIds
         \/ /\ work[w].pc \notin {"idle", "ack"}
            /\ work'[w].body = work[w].body
            /\ \/ /\ work[w].pc = "subject"
                  /\ work'[w].pc = "pairs"
                  /\ work'[w].basis = version[subjectOf[work[w].body]]
               \/ /\ work[w].pc = "subject"
                  /\ work'[w].pc = "claim"
                  /\ work'[w].pairs = work[w].pairs
               \/ /\ work[w].pc = "pairs"
                  /\ work'[w].pc \in {"claim", "refuse"}
                  /\ work'[w].basis = work[w].basis
               \/ /\ work[w].pc \in {"refuse", "claim", "score", "fail",
                                    "complete"}
                  /\ work'[w].pc \in {"score", "complete", "fail", "ack"}
                  /\ work'[w].pc = "complete" => work[w].pc \in {"claim", "score"}
                  /\ work'[w].pc = "score" => work[w].pc = "claim"
                  /\ work'[w].basis = work[w].basis
                  /\ work'[w].pairs \subseteq work[w].pairs
<1> USE DEF TypeOK, WorkState, Goes, Rests
<1>1. CASE UNCHANGED work
  BY <1>1
<1>2. CASE Begin(w)
  BY <1>2 DEF Begin
<1>3. CASE ReadSubject(w)
  BY <1>3 DEF ReadSubject
<1>4. CASE ReadPairs(w)
  BY <1>4 DEF ReadPairs
<1>5. CASE Refuse(w)
  BY <1>5 DEF Refuse
<1>6. CASE Claim(w)
  BY <1>6 DEF Claim
<1>7. CASE Score(w)
  BY <1>7 DEF Score
<1>8. CASE Fail(w)
  BY <1>8 DEF Fail
<1>9. CASE Complete(w)
  BY <1>9 DEF Complete
<1>10. CASE Ack(w) \/ CrashWorker(w)
  BY <1>10 DEF Ack, CrashWorker
<1>11. ASSUME NEW v \in Workers, v # w, Process(v) \/ CrashWorker(v)
       PROVE  work'[w] = work[w]
  BY <1>11
  DEF Process, Receive, Begin, ReadSubject, ReadPairs, Refuse, Claim, Score,
      Fail, Complete, Ack, CrashWorker
<1>. QED
  BY <1>1, <1>2, <1>3, <1>4, <1>5, <1>6, <1>7, <1>8, <1>9, <1>10, <1>11
  DEF Next, vars, Process, Receive, Publish, Create, Send, Close, Write,
      Delete, CrashPublisher, ReceiveNothing, Shutdown, Redrive

(* A step adds to a reception only messages that were sent.                *)
LEMMA FetchedSteps ==
  ASSUME TypeOK, Bookkeeping, [Next]_vars, NEW w \in Workers,
         NEW d \in fetched'[w], d.body \in BatchIds
  PROVE  d.body < nextBatch
<1>1. CASE d \in fetched[w]
  BY <1>1 DEF Bookkeeping, WorkerKnows
<1>2. ASSUME NEW S \in SUBSET Deliverable, d \in Delivered(S)
      PROVE  d.body < nextBatch
  BY <1>2 DEF Delivered, Deliverable, Bookkeeping, CreatedFirst
<1>3. ASSUME NEW v \in Workers, Receive(v)  PROVE d.body < nextBatch
  <2>1. PICK S \in SUBSET Deliverable :
          fetched' = [fetched EXCEPT ![v] = Delivered(S)]
    BY <1>3 DEF Receive
  <2>. QED
    BY <1>1, <1>2, <2>1 DEF TypeOK
<1>4. ASSUME NEW v \in Workers, Begin(v) \/ Shutdown(v) \/ CrashWorker(v)
      PROVE  d \in fetched[w]
  BY <1>4 DEF Begin, Shutdown, CrashWorker, TypeOK
<1>. QED
  BY <1>1, <1>3, <1>4
  DEF Next, vars, Publish, Process, Create, Send, Close, Write, Delete,
      CrashPublisher, ReceiveNothing, ReadSubject, ReadPairs, Refuse, Claim,
      Score, Fail, Complete, Ack, Redrive

(* A worker keeps working on batches that were created.                    *)
LEMMA NextWorkerKnows ==
  ASSUME TypeOK, TypeOK', Bookkeeping, [Next]_vars
  PROVE  WorkerKnows'
<1>1. SUFFICES ASSUME NEW w \in Workers
               PROVE  /\ \A d \in fetched'[w] :
                           d.body \in BatchIds => d.body < nextBatch'
                      /\ work'[w].body \in BatchIds
                           => work'[w].body < nextBatch'
                      /\ work'[w].pc \notin {"idle", "ack"}
                           => work'[w].body \in BatchIds
                      /\ work'[w].pc # "idle" => work'[w].body \in Messages
                      /\ work'[w].pc = "subject" => work'[w].pairs = {}
  BY DEF WorkerKnows
<1>2. nextBatch \in Nat /\ nextBatch' \in Nat /\ nextBatch <= nextBatch'
  BY CreatedIsFixed, StoreAssumption DEF TypeOK, StoreTypeOK
<1>3. \A b \in BatchIds : b \in Nat /\ (b < nextBatch => b < nextBatch')
  BY <1>2 DEF BatchIds
<1>4. \A d \in fetched'[w] : d.body \in BatchIds => d.body < nextBatch'
  BY <1>3, FetchedSteps
<1>5. \A d \in fetched[w] : d.body \in Messages
  BY DEF TypeOK, Deliveries
<1>6. work'[w].body \in BatchIds => work'[w].body < nextBatch'
  BY <1>3, WorkSteps DEF Bookkeeping, WorkerKnows, IdleWork, BatchIds
<1>7. work'[w].pc \notin {"idle", "ack"} => work'[w].body \in BatchIds
  BY WorkSteps DEF Bookkeeping, WorkerKnows, IdleWork
<1>8. work'[w].pc # "idle" => work'[w].body \in Messages
  BY <1>5, WorkSteps DEF Bookkeeping, WorkerKnows, IdleWork
<1>9. work'[w].pc = "subject" => work'[w].pairs = {}
  BY WorkSteps DEF Bookkeeping, WorkerKnows, IdleWork
<1>. QED
  BY <1>4, <1>6, <1>7, <1>8, <1>9

(* A worker keeps scoring what it read after the batch was opened.         *)
LEMMA NextReadsAfterOpening ==
  ASSUME TypeOK, TypeOK', Bookkeeping, [Next]_vars
  PROVE  ReadsAfterOpening'
<1>1. SUFFICES ASSUME NEW w \in Workers,
                      work'[w].pc \in {"pairs", "refuse", "claim", "score",
                                       "complete"},
                      work'[w].pc = "pairs" \/ work'[w].pairs # {}
               PROVE  opened'[work'[w].body] <= work'[w].basis
  BY DEF ReadsAfterOpening
<1>2. WorkerKnows
  BY DEF Bookkeeping
<1>3. CASE work'[w] = work[w]
  <2>1. work[w].body \in BatchIds /\ work[w].body < nextBatch
    BY <1>1, <1>2, <1>3 DEF WorkerKnows
  <2>2. opened'[work[w].body] = opened[work[w].body]
    BY <2>1, CreatedIsFixed
  <2>. QED
    BY <1>1, <1>3, <2>2 DEF Bookkeeping, ReadsAfterOpening
<1>4. CASE work'[w] # work[w]
  <2>1. /\ work[w].pc \notin {"idle", "ack"}
        /\ work'[w].body = work[w].body
        /\ \/ /\ work[w].pc = "subject"
              /\ work'[w].pc = "pairs"
              /\ work'[w].basis = version[subjectOf[work[w].body]]
           \/ /\ work[w].pc = "pairs" \/ work[w].pairs # {}
              /\ work[w].pc \in {"pairs", "refuse", "claim", "score",
                                 "complete"}
              /\ work'[w].basis = work[w].basis
    BY <1>1, <1>2, <1>4, WorkSteps DEF WorkerKnows, IdleWork
  <2>2. work[w].body \in BatchIds /\ work[w].body < nextBatch
    BY <1>2, <2>1 DEF WorkerKnows
  <2>3. opened'[work[w].body] = opened[work[w].body]
    BY <2>2, CreatedIsFixed
  <2>. QED
    BY <2>1, <2>2, <2>3
    DEF Bookkeeping, ReadsAfterOpening, CreatedFirst
<1>. QED
  BY <1>3, <1>4

(* Rows go with their batch.                                               *)
LEMMA NextRowsOwned ==
  ASSUME TypeOK, TypeOK', Bookkeeping, [Next]_vars
  PROVE  RowsOwned'
<1>1. SUFFICES ASSUME NEW r \in recs'
               PROVE  status'[r.batch] \in BatchStatus
  BY DEF RowsOwned, Exists
<1>2. /\ r.batch \in BatchIds
      /\ r \in recs => status[r.batch] \in BatchStatus
  BY DEF TypeOK, StoreTypeOK, Recommendations, Bookkeeping, RowsOwned, Exists
<1> USE DEF TypeOK, StoreTypeOK
<1>3. ASSUME NEW s \in Subjects, CreateRecommendationBatch(s)
      PROVE  status'[r.batch] \in BatchStatus
  BY <1>2, <1>3
  DEF CreateRecommendationBatch, BatchStatus, InFlight
<1>4. ASSUME NEW b \in BatchIds, TransitionBatch(b, "failed") \/ ClaimBatch(b)
      PROVE  status'[r.batch] \in BatchStatus
  BY <1>2, <1>4
  DEF TransitionBatch, ClaimBatch, BatchStatus, InFlight, Terminal
<1>5. ASSUME NEW b \in BatchIds, NEW others, NEW basis,
             CompleteBatch(b, others, basis)
      PROVE  status'[r.batch] \in BatchStatus
  <2>1. CASE r.batch = b
    BY <1>2, <1>5, <2>1 DEF CompleteBatch, BatchStatus, Terminal
  <2>2. CASE r.batch # b
    <3>1. r \in recs /\ r.batch \notin BatchesOf(subjectOf[b]) \ {b}
      BY <1>5, <2>2 DEF CompleteBatch
    <3>2. status'[r.batch] = status[r.batch]
      BY <1>2, <1>5, <2>2, <3>1 DEF CompleteBatch
    <3>. QED
      BY <1>2, <3>1, <3>2
  <2>. QED
    BY <2>1, <2>2
<1>6. CASE UNCHANGED store
  BY <1>2, <1>6 DEF store
<1>. QED
  BY <1>3, <1>4, <1>5, <1>6, StoreSteps

(* Every step keeps the bookkeeping.                                       *)
LEMMA NextBookkeeping ==
  ASSUME TypeOK, TypeOK', Bookkeeping, [Next]_vars
  PROVE  Bookkeeping'
  BY NextCreatedFirst, NextPublisherKnows, NextWorkerKnows,
     NextReadsAfterOpening, NextRowsOwned DEF Bookkeeping

(* Types and bookkeeping hold together in every reachable state.           *)
LEMMA Inductive == Spec => [](TypeOK /\ Bookkeeping)
<1>1. Init => TypeOK /\ Bookkeeping
  BY InitType, InitBookkeeping
<1>2. TypeOK /\ Bookkeeping /\ [Next]_vars => (TypeOK /\ Bookkeeping)'
  BY NextType, NextBookkeeping
<1>. QED
  BY <1>1, <1>2, PTL DEF Spec

(* The variables keep to their types: no identifier, receipt or version    *)
(* leaves its bound and no local state is ill-formed.                      *)
THEOREM TypeCorrect == Spec => []TypeOK
  BY Inductive, PTL

(* The relations the guarantees rest on hold in every reachable state.     *)
THEOREM BookkeepingHolds == Spec => []Bookkeeping
  BY Inductive, PTL

-----------------------------------------------------------------------------
(* Guarantees under every fault.                                           *)

(* Nothing but opening a batch brings a batch in flight, and opening one   *)
(* only the new one.                                                       *)
LEMMA OpenSteps ==
  ASSUME TypeOK, Bookkeeping, [Next]_vars, NEW b \in BatchIds, Open(b)'
  PROVE  \/ Open(b) /\ b < nextBatch /\ subjectOf'[b] = subjectOf[b]
         \/ b = nextBatch /\ CreateRecommendationBatch(subjectOf'[b])
<1>1. nextBatch \in Nat /\ b \in Nat
  BY StoreAssumption DEF TypeOK, StoreTypeOK, BatchIds
<1>2. Open(b) => b < nextBatch /\ subjectOf'[b] = subjectOf[b]
  BY CreatedIsFixed DEF Open, Exists, BatchStatus, Bookkeeping, CreatedFirst
<1> USE DEF TypeOK, StoreTypeOK, Open, InFlight
<1>3. ASSUME NEW s \in Subjects, CreateRecommendationBatch(s), ~Open(b)
      PROVE  b = nextBatch /\ CreateRecommendationBatch(subjectOf'[b])
  BY <1>3 DEF CreateRecommendationBatch
<1>4. ASSUME NEW c \in BatchIds, TransitionBatch(c, "failed") \/ ClaimBatch(c)
      PROVE  Open(b)
  BY <1>4 DEF TransitionBatch, ClaimBatch
<1>5. ASSUME NEW c \in BatchIds, NEW others, NEW basis,
             CompleteBatch(c, others, basis)
      PROVE  Open(b)
  BY <1>5 DEF CompleteBatch
<1>6. UNCHANGED store => Open(b)
  BY DEF store
<1>. QED
  BY <1>2, <1>3, <1>4, <1>5, <1>6, StoreSteps

(* No statement brings a second batch of a subject in flight.              *)
LEMMA NextOneInFlight ==
  ASSUME TypeOK, TypeOK', Bookkeeping, OneInFlight, [Next]_vars
  PROVE  OneInFlight'
<1>1. SUFFICES ASSUME NEW b \in BatchIds, NEW c \in BatchIds, b # c,
                      Open(b)', Open(c)', subjectOf'[b] = subjectOf'[c]
               PROVE  FALSE
  BY DEF OneInFlight
<1>2. ASSUME NEW x \in BatchIds, NEW y \in BatchIds,
             Open(x), subjectOf[x] = subjectOf'[x],
             CreateRecommendationBatch(subjectOf'[y]),
             subjectOf'[x] = subjectOf'[y]
      PROVE  FALSE
  BY <1>2
  DEF CreateRecommendationBatch, InFlightOf, BatchesOf, Exists, Open,
      BatchStatus
<1>. QED
  BY <1>1, <1>2, OpenSteps DEF OneInFlight

(* No subject has two batches in flight: what the partial unique indexes   *)
(* admit stays true of every later statement.                              *)
THEOREM InFlightIsUnique == Spec => []OneInFlight
<1>1. Init => OneInFlight
  BY DEF Init, StoreInit, OneInFlight, Open, InFlight
<1>2. TypeOK /\ TypeOK' /\ Bookkeeping /\ OneInFlight /\ [Next]_vars
        => OneInFlight'
  BY NextOneInFlight
<1>. QED
  BY <1>1, <1>2, Inductive, PTL DEF Spec

(* A closed or discarded batch never comes back in flight: a delivery that *)
(* arrives after its batch was closed cannot restart it.                   *)
THEOREM ClosedStaysClosed == Spec => NeverReopens
<1>1. TypeOK /\ Bookkeeping /\ [Next]_vars
        => [\A b \in BatchIds : b < nextBatch /\ ~Open(b) => ~Open(b)']_vars
  <2>1. SUFFICES ASSUME TypeOK, Bookkeeping, [Next]_vars,
                        NEW b \in BatchIds, b < nextBatch, ~Open(b), Open(b)'
                 PROVE  FALSE
    OBVIOUS
  <2>2. nextBatch \in Nat /\ b \in Nat
    BY <2>1, StoreAssumption DEF TypeOK, StoreTypeOK, BatchIds
  <2>. QED
    BY <2>1, <2>2, OpenSteps
<1>. QED
  BY <1>1, Inductive, PTL DEF Spec, NeverReopens

(* No statement completes a second batch of a subject.                     *)
LEMMA NextOneCompleted ==
  ASSUME TypeOK, TypeOK', Bookkeeping, OneCompleted, [Next]_vars
  PROVE  OneCompleted'
<1>1. SUFFICES ASSUME NEW b \in BatchIds, NEW c \in BatchIds, b # c,
                      status'[b] = "completed", status'[c] = "completed",
                      subjectOf'[b] = subjectOf'[c]
               PROVE  FALSE
  BY DEF OneCompleted
<1> USE DEF TypeOK, StoreTypeOK
<1>2. \A x \in BatchIds :
        status[x] = "completed" => subjectOf'[x] = subjectOf[x]
  BY CreatedIsFixed
  DEF Exists, BatchStatus, Terminal, Bookkeeping, CreatedFirst
<1>3. ASSUME \A x \in BatchIds :
               status'[x] = "completed" => status[x] = "completed"
      PROVE  FALSE
  BY <1>1, <1>2, <1>3 DEF OneCompleted
<1>4. ASSUME NEW s \in Subjects, CreateRecommendationBatch(s)  PROVE FALSE
  BY <1>3, <1>4 DEF CreateRecommendationBatch
<1>5. ASSUME NEW x \in BatchIds, TransitionBatch(x, "failed") \/ ClaimBatch(x)
      PROVE  FALSE
  BY <1>3, <1>5 DEF TransitionBatch, ClaimBatch
<1>6. ASSUME NEW x \in BatchIds, NEW others, NEW basis,
             CompleteBatch(x, others, basis)
      PROVE  FALSE
  <2>1. ASSUME NEW y \in BatchIds, y # x, subjectOf[y] = subjectOf[x]
        PROVE  status'[y] # "completed"
    BY <1>6, <2>1 DEF CompleteBatch, BatchesOf, Exists, BatchStatus, Terminal
  <2>2. \A y \in BatchIds \ {x} :
          status'[y] = "completed" => status[y] = "completed"
    BY <1>6 DEF CompleteBatch
  <2>3. subjectOf' = subjectOf
    BY <1>6 DEF CompleteBatch
  <2>. QED
    BY <1>1, <2>1, <2>2, <2>3 DEF OneCompleted
<1>7. CASE UNCHANGED store
  BY <1>3, <1>7 DEF store
<1>. QED
  BY <1>4, <1>5, <1>6, <1>7, StoreSteps

(* No subject has two completed batches, so the set it is shown is not a   *)
(* matter of which one a query picks.                                      *)
THEOREM CompletedIsUnique == Spec => []OneCompleted
<1>1. Init => OneCompleted
  BY DEF Init, StoreInit, OneCompleted
<1>2. TypeOK /\ TypeOK' /\ Bookkeeping /\ OneCompleted /\ [Next]_vars
        => OneCompleted'
  BY NextOneCompleted
<1>. QED
  BY <1>1, <1>2, Inductive, PTL DEF Spec

(* Only rows read after the opening of their batch are added.              *)
LEMMA NextCoversRequest ==
  ASSUME TypeOK, TypeOK', Bookkeeping, CoversRequest, [Next]_vars
  PROVE  CoversRequest'
<1>1. SUFFICES ASSUME NEW r \in recs'
               PROVE  opened'[r.batch] <= r.basis
  BY DEF CoversRequest
<1>2. CASE r \in recs
  <2>1. r.batch \in BatchIds /\ r.batch < nextBatch
    BY <1>2
    DEF Bookkeeping, CreatedFirst, RowsOwned, TypeOK, StoreTypeOK,
        Recommendations
  <2>. QED
    BY <1>2, <2>1, CreatedIsFixed DEF CoversRequest
<1>3. CASE r \notin recs
  <2>1. PICK w \in Workers :
          /\ work[w].pc = "complete"
          /\ work[w].body \in BatchIds
          /\ CompleteBatch(work[w].body, work[w].pairs, work[w].basis)
    BY <1>3, StoreSteps
    DEF CreateRecommendationBatch, TransitionBatch, ClaimBatch, store
  <2>2. r \in [batch: {work[w].body}, other: work[w].pairs,
               basis: {work[w].basis}]
    BY <1>3, <2>1 DEF CompleteBatch
  <2>3. /\ r.batch = work[w].body
        /\ r.basis = work[w].basis
        /\ work[w].pairs # {}
    BY <2>2
  <2>4. opened[work[w].body] <= work[w].basis
    BY <2>1, <2>3 DEF Bookkeeping, ReadsAfterOpening
  <2>5. opened' = opened
    BY <2>1 DEF CompleteBatch
  <2>. QED
    BY <2>3, <2>4, <2>5
<1>. QED
  BY <1>2, <1>3

(* Every recommendation reflects the write that asked for its batch.       *)
THEOREM RequestIsCovered == Spec => []CoversRequest
<1>1. Init => CoversRequest
  BY DEF Init, StoreInit, CoversRequest
<1>2. TypeOK /\ TypeOK' /\ Bookkeeping /\ CoversRequest /\ [Next]_vars
        => CoversRequest'
  BY NextCoversRequest
<1>. QED
  BY <1>1, <1>2, Inductive, PTL DEF Spec

-----------------------------------------------------------------------------
(* Guarantees as long as every closer succeeds.                            *)

(* A worker turns to acknowledging only what is closed.                    *)
LEMMA AckSteps ==
  ASSUME ClosersSucceed, TypeOK, Bookkeeping, [Next]_vars, NEW w \in Workers,
         work'[w] # work[w], work'[w].pc = "ack", work'[w].body \in BatchIds
  PROVE  status'[work'[w].body] \notin InFlight
<1> USE DEF TypeOK, StoreTypeOK, WorkState, Goes, Rests, IdleWork
<1>1. CASE Begin(w)
  <2>1. PICK d \in fetched[w] :
          /\ \/ UNCHANGED work
             \/ d.body \in Foreign
             \/ ~Open(d.body)
             \/ work'[w].pc = "subject"
          /\ UNCHANGED work \/ work'[w].body = d.body
    BY <1>1 DEF Begin
  <2>2. d.body \notin Foreign \/ d.body \notin BatchIds
    BY QueueAssumption DEF BatchIds
  <2>. QED
    BY <1>1, <2>1, <2>2 DEF Begin, store, Open
<1>2. ASSUME NEW b \in BatchIds, b = work[w].body,
             \/ TransitionBatch(b, "failed")
             \/ ~Exists(b) /\ UNCHANGED store
             \/ ~Open(b) /\ UNCHANGED store
             \/ CompleteBatch(b, work[w].pairs, work[w].basis)
      PROVE  status'[b] \notin InFlight
  BY <1>2
  DEF TransitionBatch, CompleteBatch, Open, Exists, store, InFlight,
      BatchStatus
<1>3. CASE Refuse(w)
  BY <1>2, <1>3 DEF Refuse, Bookkeeping, WorkerKnows
<1>4. CASE Claim(w)
  BY <1>2, <1>4 DEF Claim, Bookkeeping, WorkerKnows
<1>5. CASE Fail(w)
  BY <1>2, <1>5 DEF Fail, Bookkeeping, WorkerKnows, ClosersSucceed, Fault
<1>6. CASE Complete(w)
  BY <1>2, <1>6 DEF Complete, Bookkeeping, WorkerKnows
<1>7. ASSUME NEW v \in Workers,
             \/ Process(v) /\ (v # w \/ Receive(w) \/ ReadSubject(w)
                                \/ ReadPairs(w) \/ Score(w) \/ Ack(w))
             \/ CrashWorker(v)
      PROVE  FALSE
  BY <1>7
  DEF Process, Receive, Begin, ReadSubject, ReadPairs, Refuse, Claim, Score,
      Fail, Complete, Ack, CrashWorker
<1>. QED
  BY <1>1, <1>3, <1>4, <1>5, <1>6, <1>7
  DEF Next, vars, Process, Publish, Create, Send, Close, Write, Delete,
      CrashPublisher, ReceiveNothing, Shutdown, Redrive

(* A batch that is being acknowledged stays closed.                        *)
LEMMA NextAckedIsSettled ==
  ASSUME ClosersSucceed, TypeOK, Bookkeeping, AckedIsSettled, [Next]_vars
  PROVE  AckedIsSettled'
<1>1. SUFFICES ASSUME NEW w \in Workers, work'[w].pc = "ack",
                      work'[w].body \in BatchIds
               PROVE  status'[work'[w].body] \notin InFlight
  BY DEF AckedIsSettled, Open
<1>2. CASE work'[w] = work[w]
  <2>1. work[w].body < nextBatch /\ ~Open(work[w].body)
    BY <1>1, <1>2 DEF AckedIsSettled, Bookkeeping, WorkerKnows
  <2>2. ASSUME NEW b \in BatchIds, b = work[w].body
        PROVE  status'[b] \notin InFlight
    <3>1. nextBatch \in Nat /\ b \in Nat /\ b < nextBatch /\ ~Open(b)
      BY <2>1, <2>2, StoreAssumption DEF TypeOK, StoreTypeOK, BatchIds
    <3>2. ~Open(b)'
      BY <3>1, OpenSteps
    <3>. QED
      BY <3>2 DEF Open
  <2>. QED
    BY <1>1, <1>2, <2>2
<1>. QED
  BY <1>1, <1>2, AckSteps

(* A message is only deleted once its batch is closed.                     *)
THEOREM DeletedIsSettled ==
  ASSUME ClosersSucceed
  PROVE  Spec => []AckedIsSettled
<1>1. Init => AckedIsSettled
  BY DEF Init, AckedIsSettled, IdleWork
<1>2. TypeOK /\ Bookkeeping /\ AckedIsSettled /\ [Next]_vars
        => AckedIsSettled'
  BY NextAckedIsSettled
<1>. QED
  BY <1>1, <1>2, Inductive, PTL DEF Spec

(* What a step leaves of the publisher that is to send a batch's message   *)
(* or to close the batch.                                                  *)
LEMMA CloserSteps ==
  ASSUME ClosersSucceed, TypeOK, Bookkeeping, [Next]_vars,
         NEW p \in Publishers, NEW b \in BatchIds,
         pub[p].pc \in {"send", "close"}, pub[p].batch = b
  PROVE  \/ pub'[p].pc \in {"send", "close"} /\ pub'[p].batch = b
         \/ mail'[b] = "queued"
         \/ ~Open(b)'
<1> USE DEF TypeOK
<1>1. CASE pub'[p] = pub[p]
  BY <1>1
<1>2. CASE Send(p)
  <2>1. SendMessage(b) \/ PubGoes(p, "close")
    BY <1>2 DEF Send
  <2>2. SendMessage(b) => mail'[b] = "queued"
    BY DEF SendMessage, QueueTypeOK, Messages
  <2>3. PubGoes(p, "close") => pub'[p].pc = "close" /\ pub'[p].batch = b
    BY DEF PubGoes, PublisherState
  <2>. QED
    BY <2>1, <2>2, <2>3
<1>3. CASE Close(p)
  <2>1. TransitionBatch(b, "failed") \/ (~Exists(b) /\ UNCHANGED store)
    BY <1>3 DEF Close, Fault, ClosersSucceed
  <2>. QED
    BY <2>1
    DEF TransitionBatch, Exists, Open, store, StoreTypeOK, BatchStatus, InFlight
<1>4. ASSUME NEW q \in Publishers, q # p,
             \/ Publish(q)
             \/ \E s \in Subjects : Write(q, s)
      PROVE  pub'[p] = pub[p]
  BY <1>4 DEF Publish, Create, Send, Close, Write, PubRests, PubGoes
<1>5. ASSUME NEW q \in Publishers, CrashPublisher(q)
      PROVE  FALSE
  BY <1>5 DEF CrashPublisher, Fault, ClosersSucceed
<1>6. ~Create(p) /\ \A s \in Subjects : ~Write(p, s)
  BY DEF Create, Write
<1>. QED
  BY <1>1, <1>2, <1>3, <1>4, <1>5, <1>6
  DEF Next, vars, Process, Publish, Delete, Receive, ReceiveNothing, Begin,
      ReadSubject, ReadPairs, Refuse, Claim, Score, Fail, Complete, Ack,
      Shutdown, CrashWorker, Redrive

(* A message on the queue or on the dead-letter queue stays on one of the  *)
(* two until a worker acknowledges it.                                     *)
LEMMA QueuedSteps ==
  ASSUME TypeOK, Bookkeeping, [Next]_vars, NEW b \in BatchIds,
         mail[b] \in {"queued", "dead"}
  PROVE  \/ mail'[b] \in {"queued", "dead"}
         \/ \E w \in Workers : work[w].pc = "ack" /\ work[w].body = b
<1> USE DEF TypeOK, QueueTypeOK, Messages
<1>1. CASE UNCHANGED mail
  BY <1>1
<1>2. ASSUME NEW p \in Publishers, Send(p)
      PROVE  mail'[b] \in {"queued", "dead"}
  BY <1>2 DEF Send, SendMessage, queue
<1>3. ASSUME NEW m \in Messages, Redrive(m)
      PROVE  mail'[b] \in {"queued", "dead"}
  BY <1>3 DEF Redrive, RedriveMessage
<1>4. ASSUME NEW w \in Workers, Ack(w), work[w].body # b
      PROVE  mail'[b] = mail[b]
  BY <1>4 DEF Ack, DeleteMessage, queue
<1>5. \A w \in Workers : Ack(w) => work[w].pc = "ack"
  BY DEF Ack
<1>. QED
  BY <1>1, <1>2, <1>3, <1>4, <1>5
  DEF Next, vars, queue, Process, Publish, Write, Create, Close, Delete,
      CrashPublisher, Receive, ReceiveMessages, ReceiveNothing, Begin,
      ReadSubject, ReadPairs, Refuse, Claim, Score, Fail, Complete, Shutdown,
      CrashWorker

(* A batch in flight keeps its message or its publisher.                   *)
LEMMA NextAccounted ==
  ASSUME ClosersSucceed, TypeOK, Bookkeeping, AckedIsSettled, Accounted,
         [Next]_vars
  PROVE  Accounted'
<1>1. SUFFICES ASSUME NEW b \in BatchIds, Open(b)'
               PROVE  \/ mail'[b] \in {"queued", "dead"}
                      \/ \E p \in Publishers :
                           pub'[p].pc \in {"send", "close"} /\ pub'[p].batch = b
  BY DEF Accounted
<1>2. CASE Open(b)
  <2>1. CASE mail[b] \in {"queued", "dead"}
    BY <1>2, <2>1, QueuedSteps DEF AckedIsSettled
  <2>2. CASE \E p \in Publishers :
               pub[p].pc \in {"send", "close"} /\ pub[p].batch = b
    BY <1>1, <2>2, CloserSteps
  <2>. QED
    BY <1>2, <2>1, <2>2 DEF Accounted
<1>3. CASE ~Open(b)
  <2>1. b = nextBatch /\ nextBatch' # nextBatch
    BY <1>1, <1>3, OpenSteps, StoreAssumption
    DEF CreateRecommendationBatch, TypeOK, StoreTypeOK
  <2>2. PICK p \in Publishers : Create(p)
    <3>1. nextBatch' = nextBatch \/ \E p \in Publishers : Create(p)
      BY DEF Next, vars, store, Process, Publish, Write, Send, Close, Delete,
             CrashPublisher, Receive, ReceiveNothing, Begin, ReadSubject,
             ReadPairs, Refuse, Claim, Score, Fail, Complete, Ack, Shutdown,
             CrashWorker, Redrive, TransitionBatch, ClaimBatch, CompleteBatch
    <3>. QED
      BY <2>1, <3>1
  <2>3. pub' = [pub EXCEPT ![p].pc = "send", ![p].batch = nextBatch]
    BY <2>1, <2>2 DEF Create, Fault, ClosersSucceed, store
  <2>4. pub'[p].pc = "send" /\ pub'[p].batch = b
    BY <2>1, <2>3 DEF TypeOK, PublisherState
  <2>. QED
    BY <2>4
<1>. QED
  BY <1>2, <1>3

(* No batch in flight is left without a message or a publisher to close it *)
(* by any fault other than those ClosersSucceed excludes.                  *)
THEOREM InFlightIsAccounted ==
  ASSUME ClosersSucceed
  PROVE  Spec => []Accounted
<1>1. Init => Accounted
  BY DEF Init, StoreInit, Accounted, Open, InFlight
<1>2. /\ TypeOK /\ Bookkeeping /\ AckedIsSettled /\ Accounted
      /\ [Next]_vars
      => Accounted'
  BY NextAccounted
<1>3. Spec => []AckedIsSettled
  BY DeletedIsSettled
<1>. QED
  BY <1>1, <1>2, <1>3, Inductive, PTL DEF Spec

(* When no publisher is busy and no message is left, no batch is in        *)
(* flight: whatever went wrong before, no subject is blocked by a batch    *)
(* that nobody will close.                                                 *)
THEOREM SettledAtRest ==
  ASSUME ClosersSucceed
  PROVE  Spec => [](/\ \A p \in Publishers : pub[p].pc = "idle"
                    /\ \A b \in BatchIds : mail[b] \notin {"queued", "dead"}
                    => \A b \in BatchIds : ~Open(b))
<1>1. Accounted => (/\ \A p \in Publishers : pub[p].pc = "idle"
                    /\ \A b \in BatchIds : mail[b] \notin {"queued", "dead"}
                    => \A b \in BatchIds : ~Open(b))
  BY DEF Accounted
<1>. QED
  BY <1>1, InFlightIsAccounted, PTL
=============================================================================
