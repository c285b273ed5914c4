------------------------- MODULE PipelineProperties -------------------------
(***************************************************************************)
(* What the recommendation pipeline guarantees, and what the repository    *)
(* says of it that it does not guarantee.                                  *)
(***************************************************************************)
EXTENDS RecommendationPipeline

-----------------------------------------------------------------------------
(* Bookkeeping: what relates the tables, the queue and the local states,   *)
(* and what the proofs of the guarantees rest on.                          *)

(* A batch that was not created yet has no row, no message and no subject. *)
CreatedFirst ==
  \A b \in BatchIds :
    /\ Exists(b) \/ mail[b] # "unsent" => b < nextBatch
    /\ b < nextBatch => /\ subjectOf[b] \in Subjects
                        /\ opened[b] <= version[subjectOf[b]]

(* A busy publisher has a subject and, once it opened a batch, the batch.  *)
PublisherKnows ==
  \A p \in Publishers :
    /\ pub[p].pc # "idle" => pub[p].subject \in Subjects
    /\ pub[p].pc \in {"send", "close"} => /\ pub[p].batch \in BatchIds
                                         /\ pub[p].batch < nextBatch

(* A worker only has messages that were sent, and works on a batch that    *)
(* was created: no message refers to a batch before the batch exists.      *)
WorkerKnows ==
  \A w \in Workers :
    /\ \A d \in fetched[w] : d.body \in BatchIds => d.body < nextBatch
    /\ work[w].body \in BatchIds => work[w].body < nextBatch
    /\ work[w].pc \notin {"idle", "ack"} => work[w].body \in BatchIds
    /\ work[w].pc # "idle" => work[w].body \in Messages
    /\ work[w].pc = "subject" => work[w].pairs = {}

(* What a worker is about to score was read after its batch was opened.    *)
ReadsAfterOpening ==
  \A w \in Workers :
    /\ work[w].pc \in {"pairs", "refuse", "claim", "score", "complete"}
    /\ work[w].pc = "pairs" \/ work[w].pairs # {}
    => opened[work[w].body] <= work[w].basis

(* No recommendation outlives its batch.                                   *)
RowsOwned == \A r \in recs : Exists(r.batch)

Bookkeeping ==
  CreatedFirst /\ PublisherKnows /\ WorkerKnows /\ ReadsAfterOpening
    /\ RowsOwned

-----------------------------------------------------------------------------
(* Guarantees under every fault.                                           *)

(* A subject has at most one batch in flight, whatever the order in which  *)
(* publishers, workers and redeliveries act on its batches.                *)
OneInFlight ==
  \A b, c \in BatchIds :
    Open(b) /\ Open(c) /\ subjectOf[b] = subjectOf[c] => b = c

(* A subject has at most one completed batch: completing one discards the  *)
(* others in the same transaction, so two sets never compete to be shown.  *)
OneCompleted ==
  \A b, c \in BatchIds :
    /\ status[b] = "completed"
    /\ status[c] = "completed"
    /\ subjectOf[b] = subjectOf[c]
    => b = c

(* Every recommendation was computed from the subject as it was when its   *)
(* batch was opened, or later: the write that asked for the regeneration,  *)
(* and every write before the batch was opened, is reflected in the set.   *)
CoversRequest == \A r \in recs : opened[r.batch] <= r.basis

(* A batch that is closed or discarded is never in flight again: this is   *)
(* what the condition of the claim protects from a late redelivery.        *)
NeverReopens ==
  [][\A b \in BatchIds : b < nextBatch /\ ~Open(b) => ~Open(b)']_vars

(* The faults that leave a batch in flight with nobody to close it cannot  *)
(* happen: the failure transition whose error is only logged succeeds, the *)
(* insert reports its outcome, and publishers do not die.                  *)
ClosersSucceed ==
  Faults \cap {"close", "createLost", "crashPublisher"} = {}

(* Every batch in flight has somebody to close it: the publisher that is   *)
(* about to send its message or to close it, or its message, on the queue  *)
(* or on the dead-letter queue.                                            *)
Accounted ==
  \A b \in BatchIds : Open(b) =>
    \/ mail[b] \in {"queued", "dead"}
    \/ \E p \in Publishers : pub[p].pc \in {"send", "close"} /\ pub[p].batch = b

-----------------------------------------------------------------------------
(* Guarantees as long as no two deliveries of a message overlap and no     *)
(* send is reported as failed although it was accepted.                    *)

(* A held message stays invisible, as keepVisible intends, and SendMessage *)
(* reports what it did: a message is worked on by one worker at a time,    *)
(* and by none while its publisher can still close the batch.              *)
DeliveriesDoNotOverlap == Faults \cap {"expiry", "sendLost"} = {}

(* The status of a closed batch is final: it is only discarded.            *)
TerminalIsFinal ==
  [][\A b \in BatchIds :
       status[b] \in Terminal => status'[b] \in {status[b], "absent"}]_vars

(* Completing a batch discards only earlier batches of the subject.        *)
PrunesOnlyOlder ==
  [][\A b, c \in BatchIds :
       Exists(b) /\ ~Exists(b)' /\ status[c] # "completed"
                 /\ status'[c] = "completed" => b < c]_vars

(* The set of a completed batch is not added to.                           *)
CompletedSetIsFixed ==
  [][\A r \in recs' \ recs : status[r.batch] # "completed"]_vars

-----------------------------------------------------------------------------
(* The pipeline implements the lifecycle of a subject.                     *)

phaseOf(s) ==
  LET b == CurrentBatch(s)
  IN  IF b = 0 THEN "none" ELSE IF Open(b) THEN "open" ELSE status[b]

askedOf(s) == IF CurrentBatch(s) = 0 THEN 0 ELSE opened[CurrentBatch(s)]

servedOf(s) ==
  IF LastCompletedBatch(s) = 0 THEN 0 ELSE opened[LastCompletedBatch(s)]

shownTo(s) == {r.other : r \in {q \in recs : q.batch = LastCompletedBatch(s)}}

Lifecycle == INSTANCE RecommendationLifecycle WITH
  phase <- [s \in Subjects |-> phaseOf(s)],
  asked <- [s \in Subjects |-> askedOf(s)],
  served <- [s \in Subjects |-> servedOf(s)],
  shown <- [s \in Subjects |-> shownTo(s)]

(* Batches, messages, publishers and workers implement, for every subject, *)
(* request, success and failure as the lifecycle orders them.              *)
ImplementsLifecycle == Lifecycle!Spec

-----------------------------------------------------------------------------
(* The pipeline does to the tables what the queries are verified against.  *)

Tables == INSTANCE RecommendationTables WITH
  recs <- {[r EXCEPT !.basis = 0] : r \in recs}

(* Whatever the publishers, the queue and the workers do, the tables only  *)
(* change as RecommendationTables says: a batch is opened after a write of *)
(* its subject, closed once, completed only when it was claimed, and with  *)
(* candidates of its subject only.  The reads of recommendation/repo.go    *)
(* are verified in that environment.                                       *)
ImplementsTables == Tables!TablesSpec

-----------------------------------------------------------------------------
(* Liveness.                                                               *)

(* Every delivery of the message of a batch was lost, each to a fault of   *)
(* its own: what is left is the dead-letter queue.                         *)
Exhausted(b) ==
  /\ receives[b] = MaxReceive
  /\ ~Held(b)
  /\ faults >= MaxReceive

(* A batch in flight is eventually closed or discarded, so that no subject *)
(* is blocked for good, unless the deliveries of its message are           *)
(* exhausted: fewer faults than deliveries never suffice for that.         *)
Settles == \A b \in BatchIds : Open(b) ~> ~Open(b) \/ Exhausted(b)

-----------------------------------------------------------------------------
(* What the repository says and the code does not do.                      *)

(* docs/recommendation-queue.md: the worker reads the state when it        *)
(* claims, so a write that precedes the claim is taken into account.       *)
ClaimReadsLatest ==
  [][\A w \in Workers :
       /\ work[w].pc = "claim"
       /\ work'[w].pc = "score"
       => work[w].basis = version[subjectOf[work[w].body]]]_vars

(* worker.go: the outcome of the batch is persisted when acknowledges is   *)
(* consulted.                                                              *)
AckedIsSettled ==
  \A w \in Workers :
    work[w].pc = "ack" /\ work[w].body \in BatchIds => ~Open(work[w].body)
=============================================================================
