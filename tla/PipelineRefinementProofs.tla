----------------------- MODULE PipelineRefinementProofs -----------------------
(***************************************************************************)
(* Proofs of the guarantees of PipelineProperties that hold as long as     *)
(* deliveries of a message do not overlap, among them that the pipeline    *)
(* implements RecommendationLifecycle and RecommendationTables.  They rest *)
(* on who holds a batch in flight: the publisher that opened it until its  *)
(* message is sent, and then at most one worker.                           *)
(***************************************************************************)
EXTENDS PipelineProofs, WellFoundedInduction

-----------------------------------------------------------------------------
(* Who holds a batch.                                                      *)

(* No two workers have a message.                                          *)
OneHolder ==
  \A w, v \in Workers : \A m \in Messages : Holds(w, m) /\ Holds(v, m) => w = v

(* A worker has one delivery of a message, processed or yet to begin.      *)
OneDelivery ==
  \A w \in Workers :
    /\ \A d, e \in fetched[w] : d.body = e.body => d = e
    /\ work[w].pc # "idle" => \A d \in fetched[w] : d.body # work[w].body

(* A message that a worker has was sent.                                   *)
HeldIsSent ==
  \A w \in Workers : \A m \in Messages : Holds(w, m) => mail[m] # "unsent"

(* A batch a worker is working on is in flight.                            *)
WorkedOnIsOpen ==
  \A w \in Workers : work[w].pc \notin {"idle", "ack"} => Open(work[w].body)

(* So is one that its publisher has yet to send or to close, and then its  *)
(* message was not sent.                                                   *)
Owns(p, b) == pub[p].pc \in {"send", "close"} /\ pub[p].batch = b

OwnedIsOpen ==
  \A p \in Publishers : \A b \in BatchIds :
    Owns(p, b) => Open(b) /\ mail[b] = "unsent"

(* No two publishers have a batch.                                         *)
OneOwner ==
  \A p, q \in Publishers : \A b \in BatchIds : Owns(p, b) /\ Owns(q, b) => p = q

(* The batch in flight of a subject is its newest.                         *)
NewestIsOpen ==
  \A b, c \in BatchIds :
    Open(b) /\ Exists(c) /\ subjectOf[b] = subjectOf[c] => c <= b

Holding ==
  /\ OneHolder /\ OneDelivery /\ HeldIsSent
  /\ WorkedOnIsOpen /\ OwnedIsOpen /\ OneOwner
  /\ OneInFlight /\ NewestIsOpen

Invariant == TypeOK /\ Bookkeeping /\ Holding

-----------------------------------------------------------------------------
(* Messages.                                                               *)

(* A worker begins to hold a message by receiving it, when nobody has it.  *)
LEMMA FetchSteps ==
  ASSUME DeliveriesDoNotOverlap, TypeOK, [Next]_vars, NEW w \in Workers
  PROVE  \/ fetched'[w] \subseteq fetched[w]
         \/ /\ work[w].pc = "idle"
            /\ work' = work
            /\ \A v \in Workers \ {w} : fetched'[v] = fetched[v]
            /\ \A d, e \in fetched'[w] : d.body = e.body => d = e
            /\ \A d \in fetched'[w] : mail[d.body] = "queued" /\ ~Held(d.body)
<1>1. CASE UNCHANGED fetched
  BY <1>1
<1>2. ASSUME NEW v \in Workers, Begin(v) \/ Shutdown(v) \/ CrashWorker(v)
      PROVE  fetched'[w] \subseteq fetched[w]
  BY <1>2 DEF Begin, Shutdown, CrashWorker, TypeOK
<1>3. ASSUME NEW v \in Workers, v # w, Receive(v)
      PROVE  fetched'[w] = fetched[w]
  BY <1>3 DEF Receive, TypeOK
<1>4. CASE Receive(w)
  <2>1. PICK S \in SUBSET Deliverable :
          /\ fetched' = [fetched EXCEPT ![w] = Delivered(S)]
          /\ (\A m \in S : ~Held(m)) \/ Fault("expiry")
    BY <1>4 DEF Receive
  <2>2. \A m \in S : ~Held(m) /\ mail[m] = "queued"
    BY <2>1 DEF Fault, DeliveriesDoNotOverlap, Deliverable
  <2>3. fetched'[w] = Delivered(S)
    BY <2>1 DEF TypeOK
  <2>4. \A d \in Delivered(S) : d.body \in S /\ d.receipt = receives[d.body] + 1
    BY DEF Delivered
  <2>5. ASSUME NEW d \in Delivered(S), NEW e \in Delivered(S), d.body = e.body
        PROVE  d = e
    <3>1. d \in Deliveries /\ e \in Deliveries /\ d.receipt = e.receipt
      BY <2>4, <2>5 DEF Delivered
    <3>. QED
      BY <2>5, <3>1 DEF Deliveries
  <2>6. work[w].pc = "idle" /\ work' = work
    BY <1>4 DEF Receive
  <2>7. \A v \in Workers \ {w} : fetched'[v] = fetched[v]
    BY <2>1 DEF TypeOK
  <2>. QED
    BY <2>2, <2>3, <2>4, <2>5, <2>6, <2>7
<1>. QED
  BY <1>1, <1>2, <1>3, <1>4
  DEF Next, vars, Process, Publish, Create, Send, Close, Write, Delete,
      CrashPublisher, ReceiveNothing, ReadSubject, ReadPairs, Refuse, Claim,
      Score, Fail, Complete, Ack, Redrive

(* So a message that a worker has it had before, or nobody had.            *)
LEMMA HoldSteps ==
  ASSUME DeliveriesDoNotOverlap, TypeOK, [Next]_vars, NEW w \in Workers,
         NEW m, Holds(w, m)'
  PROVE  \/ Holds(w, m)
         \/ /\ mail[m] = "queued"
            /\ ~Held(m)
            /\ \A v \in Workers \ {w} : Holds(v, m)' => Holds(v, m)
<1>1. CASE work'[w].pc # "idle" /\ work'[w].body = m
  BY <1>1, WorkSteps DEF Holds, IdleWork
<1>2. ASSUME NEW d \in fetched'[w], d.body = m
      PROVE  \/ Holds(w, m)
             \/ /\ mail[m] = "queued"
                /\ ~Held(m)
                /\ \A v \in Workers \ {w} : Holds(v, m)' => Holds(v, m)
  BY <1>2, FetchSteps DEF Holds
<1>. QED
  BY <1>1, <1>2 DEF Holds

(* A step keeps one holder of a message.                                   *)
LEMMA NextOneHolder ==
  ASSUME DeliveriesDoNotOverlap, TypeOK, OneHolder, [Next]_vars
  PROVE  OneHolder'
<1>1. SUFFICES ASSUME NEW w \in Workers, NEW v \in Workers, NEW m \in Messages,
                      Holds(w, m)', Holds(v, m)', w # v
               PROVE  FALSE
  BY DEF OneHolder
<1>2. Holds(w, m) \/ Holds(v, m)
  <2>1. CASE /\ ~Held(m)
             /\ \A u \in Workers \ {w} : Holds(u, m)' => Holds(u, m)
    BY <1>1, <2>1 DEF Holds
  <2>. QED
    BY <1>1, <2>1, HoldSteps
<1>3. Holds(w, m) \/ ~Held(m)
  BY <1>1, HoldSteps
<1>4. Holds(v, m) \/ ~Held(m)
  BY <1>1, HoldSteps
<1>. QED
  BY <1>1, <1>2, <1>3, <1>4 DEF OneHolder, Held

(* A message that was sent stays so.                                       *)
LEMMA SentStays ==
  ASSUME TypeOK, [Next]_vars, NEW m \in Messages, mail[m] # "unsent"
  PROVE  mail'[m] # "unsent"
<1>1. ASSUME NEW p \in Publishers, Send(p)  PROVE mail'[m] # "unsent"
  BY <1>1 DEF Send, SendMessage, queue, TypeOK, QueueTypeOK
<1>2. ASSUME NEW w \in Workers, Ack(w)  PROVE mail'[m] # "unsent"
  BY <1>2 DEF Ack, DeleteMessage, queue, TypeOK, QueueTypeOK
<1>3. ASSUME NEW n \in Messages, Redrive(n)  PROVE mail'[m] # "unsent"
  BY <1>3 DEF Redrive, RedriveMessage, TypeOK, QueueTypeOK
<1>. QED
  BY <1>1, <1>2, <1>3
  DEF Next, vars, queue, Publish, Process, Write, Create, Close, Delete,
      CrashPublisher, Receive, ReceiveMessages, ReceiveNothing, Begin,
      ReadSubject, ReadPairs, Refuse, Claim, Score, Fail, Complete, Shutdown,
      CrashWorker

(* A step lets a worker hold only what was sent.                           *)
LEMMA NextHeldIsSent ==
  ASSUME DeliveriesDoNotOverlap, TypeOK, HeldIsSent, [Next]_vars
  PROVE  HeldIsSent'
<1>1. SUFFICES ASSUME NEW w \in Workers, NEW m \in Messages, Holds(w, m)'
               PROVE  mail'[m] # "unsent"
  BY DEF HeldIsSent
<1>2. mail[m] # "unsent"
  BY <1>1, HoldSteps DEF HeldIsSent
<1>. QED
  BY <1>2, SentStays

(* Only by beginning a message does a worker come to process it.           *)
LEMMA KeepsBody ==
  ASSUME TypeOK, [Next]_vars, NEW w \in Workers, ~Begin(w)
  PROVE  \/ work'[w].pc = "idle"
         \/ /\ work[w].pc # "idle"
            /\ work'[w].body = work[w].body
            /\ work[w].pc = "ack" => work'[w].pc = "ack"
<1> USE DEF TypeOK, WorkState, Goes, Rests, IdleWork
<1>1. CASE work'[w] = work[w]
  BY <1>1
<1>2. CASE ReadSubject(w) \/ ReadPairs(w) \/ Refuse(w) \/ Claim(w)
  BY <1>2 DEF ReadSubject, ReadPairs, Refuse, Claim
<1>3. CASE Score(w) \/ Fail(w) \/ Complete(w) \/ Ack(w) \/ CrashWorker(w)
  BY <1>3 DEF Score, Fail, Complete, Ack, CrashWorker
<1>4. ASSUME NEW v \in Workers, v # w, Process(v) \/ CrashWorker(v)
      PROVE  work'[w] = work[w]
  BY <1>4
  DEF Process, Receive, Begin, ReadSubject, ReadPairs, Refuse, Claim, Score,
      Fail, Complete, Ack, CrashWorker
<1>. QED
  BY <1>1, <1>2, <1>3, <1>4
  DEF Next, vars, Process, Receive, Publish, Create, Send, Close, Write,
      Delete, CrashPublisher, ReceiveNothing, Shutdown, Redrive

(* A step keeps one delivery of a message with a worker.                   *)
LEMMA NextOneDelivery ==
  ASSUME DeliveriesDoNotOverlap, TypeOK, OneDelivery, [Next]_vars
  PROVE  OneDelivery'
<1>1. SUFFICES ASSUME NEW w \in Workers
               PROVE  /\ \A d, e \in fetched'[w] : d.body = e.body => d = e
                      /\ work'[w].pc # "idle"
                           => \A d \in fetched'[w] : d.body # work'[w].body
  BY DEF OneDelivery
<1>2. CASE /\ work[w].pc = "idle"
           /\ work' = work
           /\ \A d, e \in fetched'[w] : d.body = e.body => d = e
  BY <1>2
<1>3. CASE fetched'[w] \subseteq fetched[w]
  <2>1. CASE \/ work'[w].pc = "idle"
             \/ work[w].pc # "idle" /\ work'[w].body = work[w].body
    BY <1>3, <2>1 DEF OneDelivery
  <2>2. CASE Begin(w)
    <3>1. PICK d \in fetched[w] :
            /\ fetched' = [fetched EXCEPT ![w] = @ \ {d}]
            /\ \/ UNCHANGED work
               \/ \E pc \in {"ack", "subject"} :
                    work' = [work EXCEPT ![w] =
                               [pc |-> pc, body |-> d.body,
                                receipt |-> d.receipt, basis |-> 0,
                                pairs |-> {}]]
      BY <2>2 DEF Begin
    <3>2. fetched'[w] = fetched[w] \ {d} /\ work[w].pc = "idle"
      BY <2>2, <3>1 DEF TypeOK, Begin
    <3>3. work' = work \/ work'[w].body = d.body
      BY <3>1 DEF TypeOK
    <3>. QED
      BY <3>1, <3>2, <3>3 DEF OneDelivery
  <2>. QED
    BY <2>1, <2>2, KeepsBody
<1>. QED
  BY <1>2, <1>3, FetchSteps

-----------------------------------------------------------------------------
(* Batches in flight.                                                      *)

(* A batch is closed by the worker that holds it or by its publisher.      *)
Closer(b) ==
  \/ \E w \in Workers : /\ work[w].pc \notin {"idle", "ack"}
                       /\ work[w].body = b
                       /\ work'[w].pc \in {"idle", "ack"}
  \/ \E p \in Publishers : Owns(p, b) /\ pub'[p].pc = "idle"

(* StoreSteps, with who closes a batch and that it was in flight.          *)
LEMMA ClosingSteps ==
  ASSUME TypeOK, Bookkeeping, WorkedOnIsOpen, OwnedIsOpen, [Next]_vars
  PROVE  \/ UNCHANGED store
         \/ /\ UNCHANGED domain
            /\ \/ \E s \in Subjects : CreateRecommendationBatch(s)
               \/ \E b \in BatchIds : ClaimBatch(b)
               \/ \E b \in BatchIds :
                    Open(b) /\ Closer(b) /\ TransitionBatch(b, "failed")
               \/ \E b \in BatchIds : \E w \in Workers :
                    /\ Open(b) /\ Closer(b)
                    /\ CompleteBatch(b, work[w].pairs, work[w].basis)
<1>1. CASE UNCHANGED vars
  BY <1>1 DEF vars, store
<1>2. ASSUME NEW p \in Publishers, Publish(p)
      PROVE  \/ UNCHANGED store
             \/ /\ UNCHANGED domain
                /\ \/ \E s \in Subjects : CreateRecommendationBatch(s)
                   \/ \E b \in BatchIds :
                        Open(b) /\ Closer(b) /\ TransitionBatch(b, "failed")
  <2>1. CASE Create(p)
    BY <2>1 DEF Create, Bookkeeping, PublisherKnows
  <2>2. CASE Send(p)
    BY <2>2 DEF Send
  <2>3. CASE Close(p)
    <3>1. pub[p].batch \in BatchIds /\ Owns(p, pub[p].batch)
      BY <2>3 DEF Close, Bookkeeping, PublisherKnows, Owns
    <3>2. pub'[p].pc = "idle"
      BY <2>3 DEF Close, PubRests, IdlePublisher, TypeOK
    <3>. QED
      BY <2>3, <3>1, <3>2 DEF Close, OwnedIsOpen, Closer
  <2>. QED
    BY <1>2, <2>1, <2>2, <2>3 DEF Publish
<1>3. ASSUME NEW w \in Workers, Process(w)
      PROVE  \/ UNCHANGED store
             \/ /\ UNCHANGED domain
                /\ \/ \E b \in BatchIds : ClaimBatch(b)
                   \/ /\ work[w].body \in BatchIds
                      /\ Open(work[w].body) /\ Closer(work[w].body)
                      /\ \/ TransitionBatch(work[w].body, "failed")
                         \/ CompleteBatch(work[w].body, work[w].pairs,
                                          work[w].basis)
  <2>1. work[w].pc \notin {"idle", "ack"}
          => work[w].body \in BatchIds /\ Open(work[w].body)
    BY DEF Bookkeeping, WorkerKnows, WorkedOnIsOpen
  <2>2. work[w] \in WorkState
    BY DEF TypeOK
  <2>3. ASSUME \/ Goes(w, "ack") \/ Rests(w)
        PROVE  work'[w].pc \in {"idle", "ack"}
    BY <2>2, <2>3 DEF Goes, Rests, IdleWork, TypeOK, WorkState
  <2>4. CASE Refuse(w)
    BY <2>1, <2>3, <2>4 DEF Refuse, Closer
  <2>5. CASE Claim(w)
    BY <2>1, <2>5 DEF Claim
  <2>6. CASE Fail(w)
    BY <2>1, <2>3, <2>6 DEF Fail, Closer
  <2>7. CASE Complete(w)
    BY <2>1, <2>3, <2>7 DEF Complete, Closer
  <2>. QED
    BY <1>3, <2>4, <2>5, <2>6, <2>7
    DEF Process, Receive, Begin, ReadSubject, ReadPairs, Score, Ack
<1>. QED
  BY <1>1, <1>2, <1>3
  DEF Next, Write, Delete, CrashPublisher, ReceiveNothing, Shutdown,
      CrashWorker, Redrive

(* A batch that leaves flight has its closer: as there is one batch in     *)
(* flight per subject, no batch is discarded in flight.                    *)
LEMMA CloseSteps ==
  ASSUME TypeOK, Bookkeeping, WorkedOnIsOpen, OwnedIsOpen, OneInFlight,
         [Next]_vars, NEW b \in BatchIds, Open(b), ~Open(b)'
  PROVE  Closer(b)
<1> USE DEF TypeOK, StoreTypeOK, Open
<1>1. CASE UNCHANGED store
  BY <1>1 DEF store
<1>2. ASSUME NEW s \in Subjects, CreateRecommendationBatch(s)  PROVE FALSE
  BY <1>2 DEF CreateRecommendationBatch, InFlight
<1>3. ASSUME NEW c \in BatchIds, ClaimBatch(c)  PROVE FALSE
  BY <1>3 DEF ClaimBatch, InFlight
<1>4. ASSUME NEW c \in BatchIds, Closer(c), TransitionBatch(c, "failed")
      PROVE  Closer(b)
  <2>1. b = c
    BY <1>4 DEF TransitionBatch
  <2>. QED
    BY <1>4, <2>1
<1>5. ASSUME NEW c \in BatchIds, NEW others, NEW basis, Open(c), Closer(c),
             CompleteBatch(c, others, basis)
      PROVE  Closer(b)
  <2>1. b = c \/ b \in BatchesOf(subjectOf[c])
    BY <1>5 DEF CompleteBatch
  <2>2. b = c
    BY <1>5, <2>1 DEF OneInFlight, BatchesOf
  <2>. QED
    BY <1>5, <2>2
<1>. QED
  BY <1>1, <1>2, <1>3, <1>4, <1>5, ClosingSteps

(* A worker begins to work on a batch only when it reads it in flight.     *)
LEMMA BeginSteps ==
  ASSUME TypeOK, NEW w \in Workers, Begin(w),
         work'[w].pc \notin {"idle", "ack"}
  PROVE  Open(work'[w].body) /\ UNCHANGED status
<1>1. PICK d \in fetched[w] :
        \/ UNCHANGED work
        \/ /\ Open(d.body)
           /\ work' = [work EXCEPT ![w] =
                         [pc |-> "subject", body |-> d.body,
                          receipt |-> d.receipt, basis |-> 0, pairs |-> {}]]
        \/ work' = [work EXCEPT ![w] =
                      [pc |-> "ack", body |-> d.body,
                       receipt |-> d.receipt, basis |-> 0, pairs |-> {}]]
  BY DEF Begin
<1>2. work[w].pc = "idle" /\ UNCHANGED status
  BY DEF Begin, store
<1>. QED
  BY <1>1, <1>2 DEF TypeOK

(* A step closes no batch that a worker goes on working on.                *)
LEMMA NextWorkedOnIsOpen ==
  ASSUME TypeOK, TypeOK', Bookkeeping, OneHolder, HeldIsSent, WorkedOnIsOpen,
         OwnedIsOpen, OneInFlight, [Next]_vars
  PROVE  WorkedOnIsOpen'
<1>1. SUFFICES ASSUME NEW w \in Workers, work'[w].pc \notin {"idle", "ack"}
               PROVE  status'[work'[w].body] \in InFlight
  BY DEF WorkedOnIsOpen, Open
<1>2. CASE Begin(w)
  BY <1>1, <1>2, BeginSteps DEF Open
<1>3. CASE ~Begin(w)
  <2>1. PICK b \in BatchIds : /\ b = work[w].body
                              /\ b = work'[w].body
                              /\ work[w].pc \notin {"idle", "ack"}
    BY <1>1, <1>3, KeepsBody DEF Bookkeeping, WorkerKnows
  <2>2. Open(b) /\ Holds(w, b) /\ b \in Messages
    BY <2>1 DEF WorkedOnIsOpen, Holds, Messages
  <2>3. ASSUME Closer(b)  PROVE FALSE
    <3>1. ASSUME NEW v \in Workers, work[v].pc \notin {"idle", "ack"},
                 work[v].body = b, work'[v].pc \in {"idle", "ack"}
          PROVE  FALSE
      <4>1. Holds(v, b)
        BY <3>1 DEF Holds
      <4>. QED
        BY <1>1, <2>2, <3>1, <4>1 DEF OneHolder
    <3>2. ASSUME NEW p \in Publishers, Owns(p, b)  PROVE FALSE
      BY <2>2, <3>2 DEF OwnedIsOpen, HeldIsSent
    <3>. QED
      BY <2>3, <3>1, <3>2 DEF Closer
  <2>4. Open(b)'
    BY <2>2, <2>3, CloseSteps
  <2>. QED
    BY <2>1, <2>4 DEF Open
<1>. QED
  BY <1>2, <1>3

-----------------------------------------------------------------------------
(* Publishers.                                                             *)

(* A publisher comes to own a batch only by opening it.                    *)
LEMMA OwnSteps ==
  ASSUME TypeOK, Bookkeeping, [Next]_vars, NEW p \in Publishers,
         pub'[p].pc \in {"send", "close"}
  PROVE  \/ pub[p].pc \in {"send", "close"} /\ pub'[p].batch = pub[p].batch
         \/ /\ \E s \in Subjects : CreateRecommendationBatch(s)
            /\ pub'[p].batch = nextBatch
            /\ UNCHANGED mail
            /\ \A q \in Publishers \ {p} : pub'[q] = pub[q]
<1> USE DEF TypeOK
<1>1. CASE pub'[p] = pub[p]
  BY <1>1
<1>2. CASE PubRests(p)
  BY <1>2 DEF PubRests, IdlePublisher
<1>3. ASSUME pub[p].pc = "send", PubGoes(p, "close")
      PROVE  pub[p].pc \in {"send", "close"} /\ pub'[p].batch = pub[p].batch
  BY <1>3 DEF PubGoes, PublisherState
<1>4. CASE Create(p)
  <2>1. /\ CreateRecommendationBatch(pub[p].subject)
        /\ pub' = [pub EXCEPT ![p].pc = "send", ![p].batch = nextBatch]
        /\ UNCHANGED mail
    BY <1>2, <1>4 DEF Create, queue, PubRests, IdlePublisher
  <2>2. pub[p].subject \in Subjects
    BY <1>4 DEF Create, Bookkeeping, PublisherKnows
  <2>3. pub'[p].batch = nextBatch /\ \A q \in Publishers \ {p} : pub'[q] = pub[q]
    BY <2>1 DEF PublisherState
  <2>. QED
    BY <2>1, <2>2, <2>3
<1>5. CASE Send(p)
  BY <1>2, <1>3, <1>5 DEF Send
<1>6. CASE Close(p) \/ CrashPublisher(p)
  BY <1>2, <1>6 DEF Close, CrashPublisher
<1>7. ASSUME NEW s \in Subjects, Write(p, s)  PROVE FALSE
  BY <1>7 DEF Write
<1>8. ASSUME NEW q \in Publishers, q # p,
             \/ Publish(q) \/ CrashPublisher(q)
             \/ \E s \in Subjects : Write(q, s)
      PROVE  pub'[p] = pub[p]
  BY <1>8 DEF Publish, Create, Send, Close, Write, CrashPublisher, PubRests,
              PubGoes
<1>. QED
  BY <1>1, <1>4, <1>5, <1>6, <1>7, <1>8
  DEF Next, vars, Process, Publish, Delete, Receive, ReceiveNothing, Begin,
      ReadSubject, ReadPairs, Refuse, Claim, Score, Fail, Complete, Ack,
      Shutdown, CrashWorker, Redrive

(* A publisher that sent a batch's message is done with the batch.         *)
LEMMA SendSteps ==
  ASSUME DeliveriesDoNotOverlap, TypeOK, [Next]_vars, NEW b \in BatchIds,
         mail[b] = "unsent", mail'[b] # "unsent"
  PROVE  \E p \in Publishers : Owns(p, b) /\ pub'[p].pc = "idle"
<1>1. ASSUME NEW p \in Publishers, Send(p)
      PROVE  Owns(p, b) /\ pub'[p].pc = "idle"
  <2>1. SendMessage(pub[p].batch) /\ PubRests(p)
    BY <1>1 DEF Send, Fault, DeliveriesDoNotOverlap, queue
  <2>2. pub[p].batch = b
    BY <2>1 DEF SendMessage, TypeOK, QueueTypeOK, Messages
  <2>3. pub'[p].pc = "idle"
    BY <2>1 DEF PubRests, IdlePublisher, TypeOK
  <2>. QED
    BY <1>1, <2>2, <2>3 DEF Owns, Send
<1>2. ASSUME NEW w \in Workers, Ack(w)  PROVE FALSE
  BY <1>2 DEF Ack, DeleteMessage, queue, TypeOK, QueueTypeOK, Messages
<1>3. ASSUME NEW m \in Messages, Redrive(m)  PROVE FALSE
  BY <1>3 DEF Redrive, RedriveMessage, TypeOK, QueueTypeOK, Messages
<1>. QED
  BY <1>1, <1>2, <1>3
  DEF Next, vars, queue, Publish, Process, Write, Create, Close, Delete,
      CrashPublisher, Receive, ReceiveMessages, ReceiveNothing, Begin,
      ReadSubject, ReadPairs, Refuse, Claim, Score, Fail, Complete, Shutdown,
      CrashWorker

(* A step gives no batch a second owner.                                   *)
LEMMA NextOneOwner ==
  ASSUME TypeOK, TypeOK', Bookkeeping, OneOwner, [Next]_vars
  PROVE  OneOwner'
<1>1. SUFFICES ASSUME NEW p \in Publishers, NEW q \in Publishers,
                      NEW b \in BatchIds, p # q,
                      pub'[p].pc \in {"send", "close"}, pub'[p].batch = b,
                      pub'[q].pc \in {"send", "close"}, pub'[q].batch = b
               PROVE  FALSE
  BY DEF OneOwner, Owns
<1>2. nextBatch \in Nat /\ \A x \in Publishers : Owns(x, b) => b < nextBatch
  BY StoreAssumption
  DEF Owns, Bookkeeping, PublisherKnows, TypeOK, StoreTypeOK
<1>3. \/ Owns(p, b)
      \/ b = nextBatch /\ Owns(q, b)
  BY <1>1, OwnSteps DEF Owns
<1>4. \/ Owns(q, b)
      \/ b = nextBatch /\ Owns(p, b)
  BY <1>1, OwnSteps DEF Owns
<1>5. b \in Nat
  BY DEF BatchIds
<1>. QED
  BY <1>1, <1>2, <1>3, <1>4, <1>5 DEF OneOwner

(* A step neither closes nor sends what a publisher goes on owning.        *)
LEMMA NextOwnedIsOpen ==
  ASSUME DeliveriesDoNotOverlap, TypeOK, TypeOK', Bookkeeping, HeldIsSent,
         WorkedOnIsOpen, OwnedIsOpen, OneOwner, OneInFlight, [Next]_vars
  PROVE  OwnedIsOpen'
<1>1. SUFFICES ASSUME NEW p \in Publishers, NEW b \in BatchIds,
                      pub'[p].pc \in {"send", "close"}, pub'[p].batch = b
               PROVE  status'[b] \in InFlight /\ mail'[b] = "unsent"
  BY DEF OwnedIsOpen, Owns, Open
<1>2. CASE Owns(p, b)
  <2>1. Open(b) /\ mail[b] = "unsent"
    BY <1>2 DEF OwnedIsOpen
  <2>2. ASSUME NEW q \in Publishers, Owns(q, b), pub'[q].pc = "idle"
        PROVE  FALSE
    BY <1>1, <1>2, <2>2 DEF OneOwner
  <2>3. ASSUME NEW w \in Workers, work[w].pc \notin {"idle", "ack"},
               work[w].body = b
        PROVE  FALSE
    BY <2>1, <2>3 DEF HeldIsSent, Holds, Messages
  <2>4. Open(b)'
    BY <2>1, <2>2, <2>3, CloseSteps DEF Closer
  <2>5. mail'[b] = "unsent"
    BY <2>1, <2>2, SendSteps
  <2>. QED
    BY <2>4, <2>5 DEF Open
<1>3. CASE ~Owns(p, b)
  <2>1. PICK s \in Subjects : /\ CreateRecommendationBatch(s)
                              /\ b = nextBatch
                              /\ UNCHANGED mail
    BY <1>1, <1>3, OwnSteps DEF Owns
  <2>2. status'[b] \in InFlight
    BY <2>1 DEF CreateRecommendationBatch, TypeOK, StoreTypeOK, InFlight
  <2>3. mail[b] = "unsent"
    BY <2>1, StoreAssumption
    DEF Bookkeeping, CreatedFirst, TypeOK, StoreTypeOK
  <2>. QED
    BY <2>1, <2>2, <2>3
<1>. QED
  BY <1>2, <1>3

(* A step opens no batch that is older than one of its subject.            *)
LEMMA NextNewestIsOpen ==
  ASSUME TypeOK, TypeOK', Bookkeeping, NewestIsOpen, [Next]_vars
  PROVE  NewestIsOpen'
<1>1. SUFFICES ASSUME NEW b \in BatchIds, NEW c \in BatchIds, Open(b)',
                      status'[c] \in BatchStatus, subjectOf'[b] = subjectOf'[c]
               PROVE  c <= b
  BY DEF NewestIsOpen, Exists, Open
<1>2. /\ nextBatch \in Nat /\ nextBatch' \in Nat /\ b \in Nat /\ c \in Nat
      /\ c < nextBatch'
  BY <1>1, StoreAssumption, NextCreatedFirst
  DEF TypeOK, StoreTypeOK, BatchIds, CreatedFirst, Exists
<1>3. CASE b = nextBatch /\ CreateRecommendationBatch(subjectOf'[b])
  BY <1>2, <1>3 DEF CreateRecommendationBatch
<1>4. CASE Open(b) /\ b < nextBatch /\ subjectOf'[b] = subjectOf[b]
  <2>1. CASE Exists(c)
    <3>1. c < nextBatch
      BY <2>1 DEF Bookkeeping, CreatedFirst
    <3>. QED
      BY <1>1, <1>4, <2>1, <3>1, CreatedIsFixed DEF NewestIsOpen
  <2>2. CASE ~Exists(c)
    <3>1. PICK s \in Subjects : CreateRecommendationBatch(s) /\ c = nextBatch
      BY <1>1, <2>2, StoreSteps
      DEF CreateRecommendationBatch, TransitionBatch, ClaimBatch,
          CompleteBatch, Exists, Open, store, TypeOK, StoreTypeOK,
          BatchStatus
    <3>2. subjectOf[b] = s
      BY <1>1, <1>4, <3>1 DEF CreateRecommendationBatch, TypeOK, StoreTypeOK
    <3>. QED
      BY <1>4, <3>1, <3>2
      DEF CreateRecommendationBatch, InFlightOf, BatchesOf, Open, Exists,
          BatchStatus
  <2>. QED
    BY <2>1, <2>2
<1>. QED
  BY <1>1, <1>3, <1>4, OpenSteps

-----------------------------------------------------------------------------
(* The invariant.                                                          *)

(* Nobody holds anything at first.                                         *)
LEMMA InitHolding ==
  ASSUME Init
  PROVE  Holding
<1>1. \A w \in Workers : work[w].pc = "idle" /\ fetched[w] = {}
  BY DEF Init, IdleWork
<1>2. \A p \in Publishers : pub[p].pc = "idle"
  BY DEF Init, IdlePublisher
<1>3. \A b \in BatchIds : ~Open(b)
  BY DEF Init, StoreInit, Open, InFlight
<1>4. \A w \in Workers : \A m \in Messages : ~Holds(w, m)
  BY <1>1 DEF Holds
<1>5. OneHolder /\ HeldIsSent /\ OneDelivery
  BY <1>1, <1>4 DEF OneHolder, HeldIsSent, OneDelivery
<1>6. WorkedOnIsOpen /\ OwnedIsOpen /\ OneOwner
  BY <1>1, <1>2 DEF WorkedOnIsOpen, OwnedIsOpen, OneOwner, Owns
<1>7. OneInFlight /\ NewestIsOpen
  BY <1>3 DEF OneInFlight, NewestIsOpen
<1>. QED
  BY <1>5, <1>6, <1>7 DEF Holding

(* Every step keeps the invariant.                                         *)
LEMMA NextInvariant ==
  ASSUME DeliveriesDoNotOverlap, Invariant, [Next]_vars
  PROVE  Invariant'
<1> USE DEF Invariant, Holding
<1>1. TypeOK' /\ Bookkeeping'
  BY NextType, NextBookkeeping
<1>2. OneHolder' /\ OneDelivery' /\ HeldIsSent'
  BY NextOneHolder, NextOneDelivery, NextHeldIsSent
<1>3. OneInFlight' /\ NewestIsOpen'
  BY <1>1, NextOneInFlight, NextNewestIsOpen
<1>4. WorkedOnIsOpen' /\ OwnedIsOpen' /\ OneOwner'
  BY <1>1, NextWorkedOnIsOpen, NextOwnedIsOpen, NextOneOwner
<1>. QED
  BY <1>1, <1>2, <1>3, <1>4

(* The invariant holds in every reachable state.                           *)
LEMMA InvariantHolds ==
  ASSUME DeliveriesDoNotOverlap
  PROVE  Spec => []Invariant
<1>1. Init => Invariant
  BY InitType, InitBookkeeping, InitHolding DEF Invariant
<1>2. Invariant /\ [Next]_vars => Invariant'
  BY NextInvariant
<1>. QED
  BY <1>1, <1>2, PTL DEF Spec

-----------------------------------------------------------------------------
(* Guarantees.                                                             *)

(* The status of a closed batch changes no more, whatever answers late:    *)
(* who could change it held the batch while it was in flight.              *)
THEOREM TerminalStays ==
  ASSUME DeliveriesDoNotOverlap
  PROVE  Spec => TerminalIsFinal
<1>1. Invariant /\ [Next]_vars =>
        [\A b \in BatchIds :
           status[b] \in Terminal => status'[b] \in {status[b], "absent"}]_vars
  <2>1. SUFFICES ASSUME Invariant, [Next]_vars, NEW b \in BatchIds,
                        status[b] \in Terminal
                 PROVE  status'[b] \in {status[b], "absent"}
    OBVIOUS
  <2> USE DEF Invariant, TypeOK, StoreTypeOK
  <2>2. ~Open(b)
    BY <2>1 DEF Open, InFlight, Terminal
  <2>3. ASSUME NEW s \in Subjects, CreateRecommendationBatch(s)
        PROVE  status'[b] = status[b]
    <3>1. b # nextBatch
      BY <2>1, <2>3, StoreAssumption
      DEF CreateRecommendationBatch, Bookkeeping, CreatedFirst, Exists,
          BatchStatus
    <3>. QED
      BY <2>3, <3>1 DEF CreateRecommendationBatch
  <2>4. ASSUME NEW c \in BatchIds,
               \/ ClaimBatch(c)
               \/ Open(c) /\ TransitionBatch(c, "failed")
        PROVE  status'[b] = status[b]
    <3>1. b # c
      BY <2>2, <2>4 DEF ClaimBatch
    <3>. QED
      BY <2>1, <2>4, <3>1 DEF ClaimBatch, TransitionBatch
  <2>5. ASSUME NEW c \in BatchIds, NEW others, NEW basis, Open(c),
               CompleteBatch(c, others, basis)
        PROVE  status'[b] \in {status[b], "absent"}
    <3>1. b # c
      BY <2>2, <2>5
    <3>. QED
      BY <2>5, <3>1 DEF CompleteBatch
  <2>6. CASE UNCHANGED store
    BY <2>6 DEF store
  <2>. QED
    BY <2>1, <2>3, <2>4, <2>5, <2>6, ClosingSteps DEF Holding
<1>. QED
  BY <1>1, InvariantHolds, PTL DEF Spec, TerminalIsFinal

(* Completing a batch discards no newer one: while a worker completes it,  *)
(* the subject has no newer batch.                                         *)
THEOREM OlderArePruned ==
  ASSUME DeliveriesDoNotOverlap
  PROVE  Spec => PrunesOnlyOlder
<1>1. Invariant /\ [Next]_vars =>
        [\A b, c \in BatchIds :
           Exists(b) /\ ~Exists(b)' /\ status[c] # "completed"
                     /\ status'[c] = "completed" => b < c]_vars
  <2>1. SUFFICES ASSUME Invariant, [Next]_vars,
                        NEW b \in BatchIds, NEW c \in BatchIds,
                        Exists(b), status'[b] \notin BatchStatus,
                        status[c] # "completed", status'[c] = "completed"
                 PROVE  b < c
    BY DEF Exists
  <2> USE DEF Invariant, TypeOK, StoreTypeOK
  <2>2. PICK x \in BatchIds, w \in Workers :
          Open(x) /\ CompleteBatch(x, work[w].pairs, work[w].basis)
    BY <2>1, ClosingSteps
    DEF Holding, CreateRecommendationBatch, ClaimBatch, TransitionBatch, store
  <2>3. c = x
    BY <2>1, <2>2 DEF CompleteBatch
  <2>4. b \in BatchesOf(subjectOf[x]) \ {x}
    BY <2>1, <2>2 DEF CompleteBatch, Exists, BatchStatus, Terminal
  <2>5. b <= x /\ b # x /\ b \in Nat /\ x \in Nat
    BY <2>1, <2>2, <2>4 DEF Holding, NewestIsOpen, BatchesOf, BatchIds
  <2>. QED
    BY <2>3, <2>5
<1>. QED
  BY <1>1, InvariantHolds, PTL DEF Spec, PrunesOnlyOlder

(* The set of a completed batch is of one completion.                      *)
THEOREM CompletedSetStays ==
  ASSUME DeliveriesDoNotOverlap
  PROVE  Spec => CompletedSetIsFixed
<1>1. Invariant /\ [Next]_vars =>
        [\A r \in recs' \ recs : status[r.batch] # "completed"]_vars
  <2>1. SUFFICES ASSUME Invariant, [Next]_vars, NEW r \in recs' \ recs
                 PROVE  status[r.batch] # "completed"
    OBVIOUS
  <2>2. PICK x \in BatchIds, w \in Workers :
          Open(x) /\ CompleteBatch(x, work[w].pairs, work[w].basis)
    BY <2>1, ClosingSteps
    DEF Invariant, Holding, CreateRecommendationBatch, ClaimBatch,
        TransitionBatch, store
  <2>3. r.batch = x
    BY <2>2 DEF CompleteBatch
  <2>. QED
    BY <2>2, <2>3 DEF Open, InFlight
<1>. QED
  BY <1>1, InvariantHolds, PTL DEF Spec, CompletedSetIsFixed

-----------------------------------------------------------------------------
(* The newest of a set of batches.                                         *)

(* A set that has a batch no other exceeds has it for its newest.          *)
LEMMA NewestIs ==
  ASSUME NEW B \in SUBSET BatchIds, NEW b \in B, \A o \in B : o <= b
  PROVE  Newest(B) = b
<1>1. \A x \in B : x \in Nat
  BY DEF BatchIds
<1>2. \A x \in B : (\A o \in B : o <= x) => x = b
  BY <1>1
<1>. QED
  BY <1>2 DEF Newest

(* Identifiers are bounded, so a set that is not empty has a newest.       *)
LEMMA NewestIn ==
  ASSUME NEW B \in SUBSET BatchIds, B # {}
  PROVE  Newest(B) \in B /\ \A o \in B : o <= Newest(B)
<1>1. \A b \in B : b \in Nat /\ b <= MaxBatches /\ MaxBatches - b \in Nat
  BY StoreAssumption DEF BatchIds
<1> DEFINE below == {xy \in Nat \X Nat : xy[1] < xy[2]}
           gaps == {MaxBatches - b : b \in B}
<1>2. IsWellFoundedOn(below, Nat)
  BY NatLessThanWellFounded DEF OpToRel
<1>3. gaps \subseteq Nat /\ gaps # {}
  BY <1>1
<1>4. PICK g \in gaps : \A h \in gaps : <<h, g>> \notin below
  <2> HIDE DEF below, gaps
  <2>. QED
    BY <1>2, <1>3, WFMin
<1>5. PICK b \in B : g = MaxBatches - b
  BY <1>4
<1>6. ASSUME NEW o \in B
      PROVE  o <= b
  <2>1. MaxBatches - o \in gaps /\ MaxBatches - o \in Nat /\ g \in Nat
    BY <1>1, <1>3
  <2>2. ~(MaxBatches - o < g)
    BY <1>4, <2>1
  <2>3. o \in Nat /\ b \in Nat /\ MaxBatches \in Nat
    BY <1>1, StoreAssumption
  <2>. QED
    BY <1>5, <2>2, <2>3
<1>. QED
  BY <1>5, <1>6, NewestIs

-----------------------------------------------------------------------------
(* The lifecycle of a subject.                                             *)

(* A batch in flight is the one whose status its subject is shown.         *)
LEMMA OpenIsCurrent ==
  ASSUME TypeOK, NewestIsOpen, NEW b \in BatchIds, Open(b)
  PROVE  CurrentBatch(subjectOf[b]) = b
<1>1. b \in BatchesOf(subjectOf[b])
  BY DEF BatchesOf, Exists, Open, BatchStatus
<1>2. \A o \in BatchesOf(subjectOf[b]) : o <= b
  BY DEF BatchesOf, NewestIsOpen
<1>3. BatchesOf(subjectOf[b]) \in SUBSET BatchIds
  BY DEF BatchesOf
<1>. QED
  BY <1>1, <1>2, <1>3, NewestIs DEF CurrentBatch

(* The batches of a subject are as they were, except that one in flight    *)
(* may have been claimed.                                                  *)
Untouched(t) ==
  /\ BatchesOf(t)' = BatchesOf(t)
  /\ \A b \in BatchesOf(t) :
       /\ status'[b] = status[b] \/ (Open(b) /\ status'[b] \in InFlight)
       /\ opened'[b] = opened[b]
       /\ {r \in recs' : r.batch = b} = {r \in recs : r.batch = b}

(* Then the subject is shown what it was.                                  *)
LEMMA UntouchedIsShown ==
  ASSUME TypeOK, TypeOK', NEW t \in Subjects, Untouched(t)
  PROVE  /\ phaseOf(t)' = phaseOf(t) /\ askedOf(t)' = askedOf(t)
         /\ servedOf(t)' = servedOf(t) /\ shownTo(t)' = shownTo(t)
<1>1. CurrentBatch(t)' = CurrentBatch(t)
  BY DEF Untouched, CurrentBatch, Newest
<1>2. {b \in BatchesOf(t) : status[b] = "completed"}'
        = {b \in BatchesOf(t) : status[b] = "completed"}
  BY DEF Untouched, Open, InFlight
<1>3. LastCompletedBatch(t)' = LastCompletedBatch(t)
  <2>1. \A B, C : B = C => Newest(B) = Newest(C)
    OBVIOUS
  <2>. QED
    BY <1>2, <2>1 DEF LastCompletedBatch
<1>4. /\ CurrentBatch(t) # 0 => CurrentBatch(t) \in BatchesOf(t)
      /\ LastCompletedBatch(t) # 0 => LastCompletedBatch(t) \in BatchesOf(t)
  <2>1. ASSUME NEW B \in SUBSET BatchIds
        PROVE  Newest(B) # 0 => Newest(B) \in B
    BY <2>1, NewestIn DEF Newest
  <2>2. {b \in BatchesOf(t) : status[b] = "completed"} \in SUBSET BatchIds
    BY DEF BatchesOf
  <2>3. BatchesOf(t) \in SUBSET BatchIds
    BY DEF BatchesOf
  <2>4. CurrentBatch(t) # 0 => CurrentBatch(t) \in BatchesOf(t)
    BY <2>1, <2>3 DEF CurrentBatch
  <2>5. LastCompletedBatch(t) # 0 => LastCompletedBatch(t)
          \in {b \in BatchesOf(t) : status[b] = "completed"}
    BY <2>1, <2>2 DEF LastCompletedBatch
  <2>. QED
    BY <2>4, <2>5
<1>5. phaseOf(t)' = phaseOf(t) /\ askedOf(t)' = askedOf(t)
  BY <1>1, <1>4 DEF phaseOf, askedOf, Untouched, Open
<1>6. servedOf(t)' = servedOf(t)
  BY <1>3, <1>4 DEF servedOf, Untouched
<1>7. shownTo(t)' = shownTo(t)
  <2>1. {q \in recs' : q.batch = LastCompletedBatch(t)}
          = {q \in recs : q.batch = LastCompletedBatch(t)}
    <3>1. \A q \in recs \cup recs' : q.batch # 0
      BY DEF TypeOK, StoreTypeOK, Recommendations, BatchIds
    <3>2. CASE LastCompletedBatch(t) = 0
      BY <3>1, <3>2
    <3>3. CASE LastCompletedBatch(t) # 0
      BY <1>4, <3>3 DEF Untouched
    <3>. QED
      BY <3>2, <3>3
  <2>. QED
    BY <1>3, <2>1 DEF shownTo
<1>. QED
  BY <1>5, <1>6, <1>7

(* A step that leaves the tables alone leaves what is shown alone.         *)
LEMMA StutterRefines ==
  ASSUME TypeOK, TypeOK', UNCHANGED store
  PROVE  UNCHANGED Lifecycle!vars
<1>1. ASSUME NEW t \in Subjects  PROVE Untouched(t)
  BY DEF store, Untouched, BatchesOf, Exists
<1>. QED
  BY <1>1, UntouchedIsShown DEF Lifecycle!vars

(* So does a claim: a batch stays in flight.                               *)
LEMMA ClaimRefines ==
  ASSUME TypeOK, TypeOK', NEW c \in BatchIds, ClaimBatch(c)
  PROVE  UNCHANGED Lifecycle!vars
<1>1. ASSUME NEW t \in Subjects  PROVE Untouched(t)
  <2>1. BatchesOf(t)' = BatchesOf(t)
    BY DEF ClaimBatch, BatchesOf, Exists, Open, BatchStatus, InFlight, TypeOK,
           StoreTypeOK
  <2>2. \A b \in BatchIds :
          status'[b] = status[b] \/ (Open(b) /\ status'[b] \in InFlight)
    BY DEF ClaimBatch, Open, InFlight, TypeOK, StoreTypeOK
  <2>. QED
    BY <2>1, <2>2 DEF Untouched, ClaimBatch, BatchesOf
<1>. QED
  BY <1>1, UntouchedIsShown DEF Lifecycle!vars

(* Opening a batch is a request of its subject, about the subject as it is *)
(* now.                                                                    *)
LEMMA CreateRefines ==
  ASSUME TypeOK, TypeOK', Bookkeeping, UNCHANGED domain,
         NEW s \in Subjects, CreateRecommendationBatch(s)
  PROVE  Lifecycle!Request(s)
<1> DEFINE n == nextBatch
<1>1. /\ n \in BatchIds /\ n \in Nat
      /\ status' = [status EXCEPT ![n] = "pending"]
      /\ subjectOf' = [subjectOf EXCEPT ![n] = s]
      /\ opened' = [opened EXCEPT ![n] = version[s]]
      /\ recs' = recs
  BY DEF CreateRecommendationBatch, BatchIds
<1>2. /\ ~Exists(n)
      /\ \A b \in BatchIds : Exists(b) => b < n
  BY <1>1 DEF Bookkeeping, CreatedFirst
<1>3. ASSUME NEW t \in Subjects, t # s
      PROVE  Untouched(t)
  BY <1>1, <1>2, <1>3
  DEF Untouched, BatchesOf, Exists, TypeOK, StoreTypeOK
<1>4. /\ n \in BatchesOf(s)'
      /\ BatchesOf(s)' = BatchesOf(s) \cup {n}
  BY <1>1, <1>2
  DEF BatchesOf, Exists, TypeOK, StoreTypeOK, BatchStatus, InFlight
<1>5. CurrentBatch(s)' = n
  <2>1. ASSUME NEW m, m = n  PROVE CurrentBatch(s)' = m
    <3>1. \A o \in BatchesOf(s)' : o <= m
      BY <1>1, <1>2, <1>4, <2>1 DEF BatchesOf, BatchIds
    <3>2. BatchesOf(s)' \in SUBSET BatchIds /\ m \in BatchesOf(s)'
      BY <1>4, <2>1 DEF BatchesOf
    <3>. QED
      BY <3>1, <3>2, NewestIs DEF CurrentBatch
  <2>. QED
    BY <2>1
<1>6. phaseOf(s)' = "open" /\ askedOf(s)' = version[s]
  BY <1>1, <1>5
  DEF phaseOf, askedOf, Open, InFlight, TypeOK, StoreTypeOK, BatchIds
<1>7. CurrentBatch(s) # 0 => CurrentBatch(s) \in BatchesOf(s)
  <2>1. BatchesOf(s) \in SUBSET BatchIds
    BY DEF BatchesOf
  <2>. QED
    BY <2>1, NewestIn DEF CurrentBatch, Newest
<1>8. phaseOf(s) # "open"
  <2>1. CurrentBatch(s) # 0 => ~Open(CurrentBatch(s))
    BY <1>7 DEF CreateRecommendationBatch, InFlightOf
  <2>2. CurrentBatch(s) # 0 => status[CurrentBatch(s)] # "open"
    BY <1>7 DEF BatchesOf, Exists, BatchStatus, InFlight, Terminal
  <2>. QED
    BY <2>1, <2>2 DEF phaseOf
<1>9. askedOf(s)' \in askedOf(s)..MaxVersion
  <2>1. version[s] \in Nat /\ version[s] <= MaxVersion
    BY StoreAssumption DEF TypeOK, StoreTypeOK, Versions
  <2>2. CurrentBatch(s) # 0 => /\ opened[CurrentBatch(s)] <= version[s]
                               /\ opened[CurrentBatch(s)] \in Nat
    BY <1>7
    DEF BatchesOf, Bookkeeping, CreatedFirst, TypeOK, StoreTypeOK, Versions
  <2>3. askedOf(s) \in Nat /\ askedOf(s) <= version[s]
    BY <2>1, <2>2 DEF askedOf
  <2>. QED
    BY <1>6, <2>1, <2>3, StoreAssumption
<1>10. {b \in BatchesOf(s) : status[b] = "completed"}'
         = {b \in BatchesOf(s) : status[b] = "completed"}
  BY <1>1, <1>2, <1>4 DEF TypeOK, StoreTypeOK, BatchesOf
<1>11. LastCompletedBatch(s)' = LastCompletedBatch(s)
  <2>1. \A B, C : B = C => Newest(B) = Newest(C)
    OBVIOUS
  <2>. QED
    BY <1>10, <2>1 DEF LastCompletedBatch
<1>12. servedOf(s)' = servedOf(s) /\ shownTo(s)' = shownTo(s)
  <2>1. LastCompletedBatch(s) # 0 => LastCompletedBatch(s) \in BatchesOf(s)
    <3>1. {b \in BatchesOf(s) : status[b] = "completed"} \in SUBSET BatchIds
      BY DEF BatchesOf
    <3>. QED
      BY <3>1, NewestIn DEF LastCompletedBatch, Newest
  <2>2. LastCompletedBatch(s) # 0 =>
          opened'[LastCompletedBatch(s)] = opened[LastCompletedBatch(s)]
    BY <1>1, <1>2, <2>1 DEF BatchesOf, TypeOK, StoreTypeOK
  <2>3. servedOf(s)' = servedOf(s)
    BY <1>11, <2>2 DEF servedOf
  <2>4. shownTo(s)' = shownTo(s)
    BY <1>1, <1>11 DEF shownTo
  <2>. QED
    BY <2>3, <2>4
<1>13. \A t \in Subjects \ {s} :
         /\ phaseOf(t)' = phaseOf(t) /\ askedOf(t)' = askedOf(t)
         /\ servedOf(t)' = servedOf(t) /\ shownTo(t)' = shownTo(t)
  BY <1>3, UntouchedIsShown
<1>. QED
  BY <1>6, <1>8, <1>9, <1>12, <1>13 DEF Lifecycle!Request

(* Failing a batch in flight fails its subject, which keeps its set.       *)
LEMMA FailRefines ==
  ASSUME TypeOK, TypeOK', Bookkeeping, NewestIsOpen, NEW b \in BatchIds, Open(b),
         TransitionBatch(b, "failed")
  PROVE  Lifecycle!Fail(subjectOf[b])
<1>1. PICK s \in Subjects : s = subjectOf[b]
  BY DEF Bookkeeping, CreatedFirst, Exists, Open, BatchStatus
<1>2. /\ status' = [status EXCEPT ![b] = "failed"]
      /\ subjectOf' = subjectOf /\ opened' = opened /\ recs' = recs
  BY DEF TransitionBatch
<1>3. ASSUME NEW t
      PROVE  BatchesOf(t)' = BatchesOf(t)
  BY <1>2
  DEF BatchesOf, Exists, TransitionBatch, BatchStatus, Terminal, TypeOK,
      StoreTypeOK
<1>4. ASSUME NEW t \in Subjects, t # s
      PROVE  Untouched(t)
  BY <1>1, <1>2, <1>3, <1>4 DEF Untouched, BatchesOf, TypeOK, StoreTypeOK
<1>5. CurrentBatch(s) = b /\ CurrentBatch(s)' = b
  <2>1. CurrentBatch(s) = b
    BY <1>1, OpenIsCurrent
  <2>. QED
    BY <1>3, <2>1 DEF CurrentBatch
<1>6. /\ phaseOf(s) = "open" /\ phaseOf(s)' = "failed"
      /\ askedOf(s)' = askedOf(s)
  BY <1>2, <1>5
  DEF phaseOf, askedOf, Open, InFlight, TypeOK, StoreTypeOK, BatchIds
<1>7. {c \in BatchesOf(s) : status[c] = "completed"}'
        = {c \in BatchesOf(s) : status[c] = "completed"}
  BY <1>2, <1>3 DEF Open, InFlight, TypeOK, StoreTypeOK, BatchesOf
<1>8. LastCompletedBatch(s)' = LastCompletedBatch(s)
  <2>1. \A B, C : B = C => Newest(B) = Newest(C)
    OBVIOUS
  <2>. QED
    BY <1>7, <2>1 DEF LastCompletedBatch
<1>9. servedOf(s)' = servedOf(s) /\ shownTo(s)' = shownTo(s)
  BY <1>2, <1>8 DEF servedOf, shownTo
<1>10. \A t \in Subjects \ {s} :
         /\ phaseOf(t)' = phaseOf(t) /\ askedOf(t)' = askedOf(t)
         /\ servedOf(t)' = servedOf(t) /\ shownTo(t)' = shownTo(t)
  BY <1>4, UntouchedIsShown
<1>11. Lifecycle!Fail(s)
  BY <1>6, <1>9, <1>10 DEF Lifecycle!Fail
<1>. QED
  BY <1>1, <1>11

(* Completing a batch in flight answers its subject: it is shown the set   *)
(* of the batch, which is about the latest request.                        *)
LEMMA CompleteRefines ==
  ASSUME TypeOK, TypeOK', Bookkeeping, NewestIsOpen, NEW b \in BatchIds,
         Open(b), NEW others, NEW basis, CompleteBatch(b, others, basis)
  PROVE  Lifecycle!Succeed(subjectOf[b])
<1>1. PICK s \in Subjects : s = subjectOf[b]
  BY DEF Bookkeeping, CreatedFirst, Exists, Open, BatchStatus
<1> DEFINE superseded == BatchesOf(s) \ {b}
<1>2. /\ status' = [o \in BatchIds |-> IF o = b THEN "completed"
                                      ELSE IF o \in superseded THEN "absent"
                                      ELSE status[o]]
      /\ recs' = {r \in recs : r.batch \notin superseded}
                   \cup [batch: {b}, other: others, basis: {basis}]
      /\ subjectOf' = subjectOf /\ opened' = opened
  BY <1>1 DEF CompleteBatch
<1>3. \A t \in Subjects \ {s} : b \notin BatchesOf(t)
                             /\ BatchesOf(t) \cap superseded = {}
  BY <1>1 DEF BatchesOf
<1>4. ASSUME NEW t \in Subjects, t # s
      PROVE  Untouched(t)
  <2>1. \A c \in BatchesOf(t) : c \in BatchIds /\ c # b /\ c \notin superseded
    BY <1>3, <1>4 DEF BatchesOf
  <2>2. \A c \in BatchIds : subjectOf[c] = t => c # b /\ c \notin superseded
    BY <1>1, <1>4 DEF BatchesOf
  <2>3. BatchesOf(t)' = BatchesOf(t)
    BY <1>2, <2>2 DEF BatchesOf, Exists
  <2>4. \A c \in BatchesOf(t) :
          {r \in recs' : r.batch = c} = {r \in recs : r.batch = c}
    BY <1>2, <2>1
  <2>5. \A c \in BatchesOf(t) : status'[c] = status[c] /\ opened'[c] = opened[c]
    BY <1>2, <2>1
  <2>. QED
    BY <2>3, <2>4, <2>5 DEF Untouched
<1>5. BatchesOf(s)' = {b}
  <2>1. \A c \in BatchIds : subjectOf[c] = s /\ c # b
                             => c \in superseded \/ ~Exists(c)
    BY DEF BatchesOf
  <2>2. \A c \in BatchIds : subjectOf[c] = s /\ c # b
                             => status'[c] \notin BatchStatus
    BY <1>2, <2>1 DEF Exists, BatchStatus, InFlight, Terminal
  <2>3. subjectOf'[b] = s /\ status'[b] = "completed"
    BY <1>1, <1>2
  <2>. QED
    BY <1>2, <2>2, <2>3 DEF BatchesOf, Exists, BatchStatus, Terminal
<1>6. /\ status'[b] = "completed" /\ b # 0 /\ opened'[b] = opened[b]
      /\ {b} \in SUBSET BatchIds /\ b <= b
  BY <1>2 DEF BatchIds
<1>7. Newest({b}) = b
  BY <1>6, NewestIs
<1>8. CurrentBatch(s) = b /\ CurrentBatch(s)' = b
  <2>1. CurrentBatch(s) = b
    BY <1>1, OpenIsCurrent
  <2>2. CurrentBatch(s)' = b
    BY <1>5, <1>7 DEF CurrentBatch
  <2>. QED
    BY <2>1, <2>2
<1>9. LastCompletedBatch(s)' = b
  <2>1. {c \in BatchesOf(s) : status[c] = "completed"}' = {b}
    BY <1>5, <1>6
  <2>2. \A B, C : B = C => Newest(B) = Newest(C)
    OBVIOUS
  <2>. QED
    BY <1>7, <2>1, <2>2 DEF LastCompletedBatch
<1>10. /\ phaseOf(s) = "open" /\ phaseOf(s)' = "completed"
       /\ askedOf(s)' = askedOf(s) /\ servedOf(s)' = askedOf(s)
  BY <1>6, <1>8, <1>9 DEF phaseOf, askedOf, servedOf, Open, InFlight
<1>11. shownTo(s)' \in SUBSET Subjects
  <2>1. \A r \in recs' : r.other \in Subjects
    BY DEF TypeOK, StoreTypeOK, Recommendations
  <2>. QED
    BY <2>1 DEF shownTo
<1>12. \A t \in Subjects \ {s} :
         /\ phaseOf(t)' = phaseOf(t) /\ askedOf(t)' = askedOf(t)
         /\ servedOf(t)' = servedOf(t) /\ shownTo(t)' = shownTo(t)
  BY <1>4, UntouchedIsShown
<1>13. Lifecycle!Succeed(s)
  BY <1>10, <1>11, <1>12 DEF Lifecycle!Succeed
<1>. QED
  BY <1>1, <1>13

(* The empty tables show every subject as one nothing was asked about.     *)
LEMMA InitRefines ==
  ASSUME Init
  PROVE  Lifecycle!Init
<1>1. \A b \in BatchIds : ~Exists(b)
  BY DEF Init, StoreInit, Exists, BatchStatus, InFlight, Terminal
<1>2. ASSUME NEW s \in Subjects
      PROVE  CurrentBatch(s) = 0 /\ LastCompletedBatch(s) = 0
  BY <1>1 DEF CurrentBatch, LastCompletedBatch, BatchesOf, Newest
<1>3. \A s \in Subjects : /\ phaseOf(s) = "none" /\ askedOf(s) = 0
                         /\ servedOf(s) = 0 /\ shownTo(s) = {}
  BY <1>2 DEF Init, StoreInit, phaseOf, askedOf, servedOf, shownTo
<1>. QED
  BY <1>3 DEF Lifecycle!Init

(* Every step is a request, a success or a failure of one subject, or      *)
(* shows nothing.                                                          *)
LEMMA NextRefines ==
  ASSUME TypeOK, TypeOK', Bookkeeping, Holding, [Next]_vars
  PROVE  [Lifecycle!Next]_(Lifecycle!vars)
<1> USE DEF Holding
<1>1. ASSUME NEW s \in Subjects, CreateRecommendationBatch(s),
             UNCHANGED domain
      PROVE  Lifecycle!Next
  BY <1>1, CreateRefines DEF Lifecycle!Next
<1>2. ASSUME NEW b \in BatchIds, Open(b)
      PROVE  subjectOf[b] \in Subjects
  BY <1>2 DEF Bookkeeping, CreatedFirst, Exists, Open, BatchStatus
<1>3. ASSUME NEW b \in BatchIds, Open(b), TransitionBatch(b, "failed")
      PROVE  Lifecycle!Next
  BY <1>2, <1>3, FailRefines DEF Lifecycle!Next
<1>4. ASSUME NEW b \in BatchIds, NEW w \in Workers, Open(b),
             CompleteBatch(b, work[w].pairs, work[w].basis)
      PROVE  Lifecycle!Next
  BY <1>2, <1>4, CompleteRefines DEF Lifecycle!Next
<1>5. ASSUME NEW b \in BatchIds, ClaimBatch(b)
      PROVE  UNCHANGED Lifecycle!vars
  BY <1>5, ClaimRefines
<1>6. UNCHANGED store => UNCHANGED Lifecycle!vars
  BY StutterRefines
<1>. QED
  BY <1>1, <1>3, <1>4, <1>5, <1>6, ClosingSteps

(* Batches, messages, publishers and workers implement the lifecycle of a  *)
(* subject: nothing is asked for while it is open, it is closed by the     *)
(* completion or the failure of the batch it is shown, and a completion    *)
(* answers the latest request.                                             *)
THEOREM LifecycleImplemented ==
  ASSUME DeliveriesDoNotOverlap
  PROVE  Spec => ImplementsLifecycle
<1>1. Init => Lifecycle!Init
  BY InitRefines
<1>2. Invariant /\ Invariant' /\ [Next]_vars
        => [Lifecycle!Next]_(Lifecycle!vars)
  BY NextRefines DEF Invariant
<1>. QED
  BY <1>1, <1>2, InvariantHolds, PTL
  DEF Spec, ImplementsLifecycle, Lifecycle!Spec
-----------------------------------------------------------------------------
(* The tables.                                                             *)

(* Whoever asks for a regeneration wrote the subject.                      *)
AskersWrote ==
  \A p \in Publishers : pub[p].pc # "idle" => version[pub[p].subject] > 0

(* A position is published by its first write.                             *)
ActiveIsWritten == \A j \in active : version[j] > 0

(* What a worker scores are candidates of the subject, deleted since or    *)
(* not.                                                                    *)
PairsAreCandidates ==
  \A w \in Workers : work[w].pc \notin {"idle", "ack"} =>
    work[w].pairs \subseteq Tables!Candidates(subjectOf[work[w].body])

(* A batch that is scored or completed was claimed, and nobody but the     *)
(* worker that holds it moves it.                                          *)
ClaimedIsProcessing ==
  \A w \in Workers :
    work[w].pc \in {"score", "complete", "fail"} => status[work[w].body] = "processing"

Claimed == AskersWrote /\ ActiveIsWritten /\ PairsAreCandidates /\ ClaimedIsProcessing

(* Nothing is written, asked for or worked on at first.                    *)
LEMMA InitClaimed == Init => Claimed
  BY DEF Init, StoreInit, IdlePublisher, IdleWork, Claimed, AskersWrote,
         ActiveIsWritten, PairsAreCandidates, ClaimedIsProcessing

(* Writes are not taken back.                                              *)
LEMMA WrittenStays ==
  ASSUME TypeOK, [Next]_vars, NEW s \in Subjects, version[s] > 0
  PROVE  version'[s] > 0
<1>1. version[s] \in Nat /\ version'[s] \in Nat
  <2>1. version[s] \in Nat
    BY StoreAssumption DEF TypeOK, StoreTypeOK, Versions
  <2>2. version' = version \/ \E t \in Subjects : version' = [version EXCEPT ![t] = @ + 1]
    BY DEF Next, vars, Write, PersistWrite, Delete, SoftDeleteJobPosition, Publish,
           Create, Send, Close, CrashPublisher, Process, Receive, Begin, ReadSubject,
           ReadPairs, Refuse, Claim, Score, Fail, Complete, Ack, ReceiveNothing,
           Shutdown, CrashWorker, Redrive, domain
  <2>. QED
    BY <2>1, <2>2 DEF TypeOK, StoreTypeOK
<1>. QED
  BY <1>1, VersionGrows

(* A write comes before the request that follows it, and publishes.        *)
LEMMA NextAskersWrote ==
  ASSUME TypeOK, Bookkeeping, AskersWrote, ActiveIsWritten, [Next]_vars
  PROVE  AskersWrote' /\ ActiveIsWritten'
<1> USE DEF TypeOK, StoreTypeOK
<1>1. \A s \in Subjects : version[s] \in Nat
  BY StoreAssumption DEF Versions
<1>2. Jobs \subseteq Subjects
  BY DEF Subjects
<1>3. ASSUME NEW p \in Publishers, NEW s \in Subjects, Write(p, s)
      PROVE  AskersWrote' /\ ActiveIsWritten'
  <2>1. /\ version'[s] = version[s] + 1
        /\ active' \subseteq active \cup {s}
        /\ pub' = [pub EXCEPT ![p] = [pc |-> "create", subject |-> s, batch |-> 0]]
    BY <1>3 DEF Write, PersistWrite
  <2>2. version'[s] > 0
    BY <1>1, <2>1
  <2>3. ASSUME NEW q \in Publishers, pub'[q].pc # "idle"
        PROVE  version'[pub'[q].subject] > 0
    <3>1. CASE q = p
      BY <2>1, <2>2, <3>1
    <3>2. CASE q # p
      <4>1. pub'[q] = pub[q] /\ pub[q].subject \in Subjects
        BY <2>1, <2>3, <3>2 DEF Bookkeeping, PublisherKnows
      <4>. QED
        BY <2>3, <4>1, WrittenStays DEF AskersWrote
    <3>. QED
      BY <3>1, <3>2
  <2>4. ASSUME NEW j \in active' PROVE version'[j] > 0
    BY <1>2, <2>1, <2>2, WrittenStays DEF ActiveIsWritten
  <2>. QED
    BY <2>3, <2>4 DEF AskersWrote, ActiveIsWritten
<1>4. ASSUME NEW j \in Jobs, Delete(j)
      PROVE  AskersWrote' /\ ActiveIsWritten'
  BY <1>4 DEF Delete, SoftDeleteJobPosition, AskersWrote, ActiveIsWritten
<1>5. ASSUME NEW p \in Publishers, Publish(p) \/ CrashPublisher(p)
      PROVE  AskersWrote' /\ ActiveIsWritten'
  <2>1. UNCHANGED <<version, active>>
    BY <1>5 DEF Publish, Create, Send, Close, CrashPublisher, domain
  <2>2. \A q \in Publishers : pub'[q].pc # "idle" =>
          pub[q].pc # "idle" /\ pub'[q].subject = pub[q].subject
    BY <1>5
    DEF Publish, Create, Send, Close, CrashPublisher, PubGoes, PubRests, IdlePublisher,
        PublisherState
  <2>. QED
    BY <2>1, <2>2 DEF AskersWrote, ActiveIsWritten
<1>6. CASE UNCHANGED <<version, active, pub>>
  BY <1>6 DEF AskersWrote, ActiveIsWritten
<1>. QED
  BY <1>3, <1>4, <1>5, <1>6
  DEF Next, vars, Process, Receive, Begin, ReadSubject, ReadPairs, Refuse, Claim, Score,
      Fail, Complete, Ack, ReceiveNothing, Shutdown, CrashWorker, Redrive, domain

(* A candidate stays one.                                                  *)
LEMMA CandidatesStay ==
  ASSUME TypeOK, [Next]_vars, NEW s
  PROVE  Tables!Candidates(s) \subseteq Tables!Candidates(s)'
<1>1. \A j \in Jobs : j \in Subjects
  BY DEF Subjects
<1>. QED
  BY <1>1, WrittenStays DEF Tables!Candidates

(* A worker pairs a subject with what is there, and drops what is not      *)
(* eligible.                                                               *)
LEMMA NextPairsAreCandidates ==
  ASSUME TypeOK, TypeOK', Bookkeeping, Bookkeeping', ActiveIsWritten, PairsAreCandidates,
         [Next]_vars
  PROVE  PairsAreCandidates'
<1>1. SUFFICES ASSUME NEW w \in Workers, work'[w].pc \notin {"idle", "ack"}
               PROVE  (work[w].pairs \subseteq Tables!Candidates(subjectOf[work[w].body]))'
  BY DEF PairsAreCandidates, Tables!Candidates
<1>2. /\ work'[w].body \in BatchIds
      /\ work[w].pc \notin {"idle", "ack"} => work[w].body \in BatchIds /\ work[w].body < nextBatch
  BY <1>1 DEF Bookkeeping, WorkerKnows
<1> USE DEF TypeOK, WorkState
<1>3. CASE Begin(w)
  <2>1. work'[w].pairs = {} \/ work'[w] = work[w]
    BY <1>3 DEF Begin
  <2>2. work[w].pc = "idle"
    BY <1>3 DEF Begin
  <2>. QED
    BY <1>1, <2>1, <2>2
<1>4. CASE ~Begin(w)
  <2>1. /\ work'[w].body = work[w].body
        /\ work[w].pc \notin {"idle", "ack"}
    BY <1>1, <1>4, KeepsBody
  <2>2. PICK b \in BatchIds : b = work[w].body /\ b = work'[w].body
    BY <1>2, <2>1
  <2>3. subjectOf'[b] = subjectOf[b]
    BY <1>2, <2>1, <2>2, CreatedIsFixed
  <2>4. PICK s : s = subjectOf[b]
    OBVIOUS
  <2>5. work'[w].pairs \subseteq Tables!Candidates(s)
    <3>1. CASE ReadPairs(w)
      <4>1. work'[w].pairs = Universe(s)
        BY <1>1, <2>2, <2>4, <3>1 DEF ReadPairs, Rests, IdleWork
      <4>. QED
        BY <4>1 DEF Universe, Tables!Candidates, ActiveIsWritten, StoreTypeOK
    <3>2. CASE ~ReadPairs(w)
      <4>1. work'[w].pairs \subseteq work[w].pairs
        <5>1. CASE work'[w] = work[w]
          BY <5>1
        <5>2. CASE ReadSubject(w) \/ Refuse(w) \/ Claim(w)
          BY <1>1, <5>2 DEF ReadSubject, Refuse, Claim, Goes, Rests, IdleWork
        <5>3. CASE Score(w) \/ Fail(w) \/ Complete(w) \/ Ack(w) \/ CrashWorker(w)
          BY <1>1, <5>3 DEF Score, Fail, Complete, Ack, CrashWorker, Goes, Rests, IdleWork
        <5>4. ASSUME NEW v \in Workers, v # w, Process(v) \/ CrashWorker(v)
              PROVE  work'[w] = work[w]
          BY <5>4
          DEF Process, Receive, Begin, ReadSubject, ReadPairs, Refuse, Claim, Score,
              Fail, Complete, Ack, CrashWorker, Goes, Rests
        <5>. QED
          BY <1>4, <3>2, <5>1, <5>2, <5>3, <5>4
          DEF Next, vars, Process, Receive, Publish, Create, Send, Close, Write,
              Delete, CrashPublisher, ReceiveNothing, Shutdown, Redrive
      <4>2. work[w].pairs \subseteq Tables!Candidates(s)
        BY <2>1, <2>2, <2>4 DEF PairsAreCandidates
      <4>. QED
        BY <4>1, <4>2
    <3>. QED
      BY <3>1, <3>2
  <2>6. work'[w].pairs \subseteq Tables!Candidates(s)'
    BY <2>5, CandidatesStay
  <2>7. subjectOf'[work'[w].body] = s
    BY <2>2, <2>3, <2>4
  <2>8. Tables!Candidates(subjectOf[work[w].body])' = Tables!Candidates(s)'
    BY <2>7 DEF Tables!Candidates
  <2>. QED
    BY <2>6, <2>8
<1>. QED
  BY <1>3, <1>4

(* Only a batch that is created is pending.                                *)
LEMMA PendingIsNew ==
  ASSUME TypeOK, Bookkeeping, WorkedOnIsOpen, OwnedIsOpen, [Next]_vars,
         NEW b \in BatchIds, b < nextBatch, status[b] # "pending"
  PROVE  status'[b] # "pending"
<1> USE DEF TypeOK, StoreTypeOK
<1>1. CASE UNCHANGED store
  BY <1>1 DEF store
<1>2. ASSUME NEW s \in Subjects, CreateRecommendationBatch(s)
      PROVE  status'[b] # "pending"
  BY <1>2 DEF CreateRecommendationBatch, BatchIds
<1>3. ASSUME NEW c \in BatchIds, ClaimBatch(c) \/ TransitionBatch(c, "failed")
      PROVE  status'[b] # "pending"
  BY <1>3 DEF ClaimBatch, TransitionBatch
<1>4. ASSUME NEW c \in BatchIds, NEW others, NEW basis, CompleteBatch(c, others, basis)
      PROVE  status'[b] # "pending"
  BY <1>4 DEF CompleteBatch
<1>. QED
  BY <1>1, <1>2, <1>3, <1>4, ClosingSteps

(* A worker that goes on to score or to complete claimed its batch, which  *)
(* it alone closes.                                                        *)
LEMMA NextClaimedIsProcessing ==
  ASSUME Invariant, Invariant', ClaimedIsProcessing, [Next]_vars
  PROVE  ClaimedIsProcessing'
<1>1. SUFFICES ASSUME NEW w \in Workers, work'[w].pc \in {"score", "complete", "fail"}
               PROVE  status'[work'[w].body] = "processing"
  BY DEF ClaimedIsProcessing
<1> USE DEF Invariant, Holding, TypeOK, WorkState
<1>2. status'[work'[w].body] \in InFlight
  BY <1>1 DEF WorkedOnIsOpen, Open
<1>3. CASE Claim(w)
  <2>1. work[w].body \in BatchIds
    BY <1>3 DEF Claim, Bookkeeping, WorkerKnows
  <2>2. ClaimBatch(work[w].body) /\ work'[w].body = work[w].body
    BY <1>1, <1>3 DEF Claim, Goes, Rests, IdleWork
  <2>. QED
    BY <2>1, <2>2 DEF ClaimBatch, StoreTypeOK
<1>4. CASE ~Claim(w)
  <2>1. ~Begin(w)
    BY <1>1 DEF Begin
  <2>2. work'[w].body = work[w].body /\ work[w].pc \notin {"idle", "ack"}
    BY <1>1, <2>1, KeepsBody
  <2>3. work[w].body \in BatchIds /\ work[w].body < nextBatch
    BY <2>2 DEF Bookkeeping, WorkerKnows
  <2>4. work[w].pc \in {"score", "complete", "fail"}
    <3>1. CASE work'[w] = work[w]
      BY <1>1, <3>1
    <3>2. CASE ReadSubject(w) \/ ReadPairs(w) \/ Refuse(w)
      BY <1>1, <3>2 DEF ReadSubject, ReadPairs, Refuse, Goes, Rests, IdleWork
    <3>3. CASE Score(w) \/ Fail(w) \/ Complete(w) \/ Ack(w) \/ CrashWorker(w)
      BY <1>1, <3>3 DEF Score, Fail, Complete, Ack, CrashWorker, Goes, Rests, IdleWork
    <3>4. ASSUME NEW v \in Workers, v # w, Process(v) \/ CrashWorker(v)
          PROVE  work'[w] = work[w]
      BY <3>4
      DEF Process, Receive, Begin, ReadSubject, ReadPairs, Refuse, Claim, Score,
          Fail, Complete, Ack, CrashWorker, Goes, Rests
    <3>. QED
      BY <1>4, <2>1, <3>1, <3>2, <3>3, <3>4
      DEF Next, vars, Process, Receive, Publish, Create, Send, Close, Write,
          Delete, CrashPublisher, ReceiveNothing, Shutdown, Redrive
  <2>5. status[work[w].body] # "pending"
    BY <2>4 DEF ClaimedIsProcessing
  <2>. QED
    BY <1>2, <2>2, <2>3, <2>5, PendingIsNew DEF InFlight
<1>. QED
  BY <1>3, <1>4

(* Leaving the basis out changes nothing that the statements read.         *)
Erased(R) == {[r EXCEPT !.basis = 0] : r \in R}

LEMMA ErasedReads ==
  ASSUME TypeOK
  PROVE  /\ \A b : Tables!Exists(b) <=> Exists(b)
         /\ \A b : Tables!Open(b) <=> Open(b)
         /\ \A s : Tables!BatchesOf(s) = BatchesOf(s) /\ Tables!InFlightOf(s) = InFlightOf(s)
         /\ \A b, others : Tables!PairTaken(b, others) => PairTaken(b, others)
<1>1. \A b : (Tables!Exists(b) <=> Exists(b)) /\ (Tables!Open(b) <=> Open(b))
  BY DEF Tables!Exists, Exists, Tables!Open, Open, Tables!BatchStatus, BatchStatus,
         Tables!InFlight, InFlight, Tables!Terminal, Terminal
<1>2. Tables!BatchIds = BatchIds
  BY DEF Tables!BatchIds, BatchIds
<1>3. \A s : Tables!BatchesOf(s) = BatchesOf(s) /\ Tables!InFlightOf(s) = InFlightOf(s)
  BY <1>1, <1>2 DEF Tables!BatchesOf, BatchesOf, Tables!InFlightOf, InFlightOf
<1>4. ASSUME NEW r \in recs
      PROVE  [r EXCEPT !.basis = 0].batch = r.batch /\ [r EXCEPT !.basis = 0].other = r.other
  BY DEF TypeOK, StoreTypeOK, Recommendations
<1>5. ASSUME NEW b, NEW others, Tables!PairTaken(b, others)
      PROVE  PairTaken(b, others)
  <2>1. PICK r \in recs : /\ [r EXCEPT !.basis = 0].batch = b
                          /\ [r EXCEPT !.basis = 0].other \in others
    BY <1>5 DEF Tables!PairTaken
  <2>. QED
    BY <1>4, <2>1 DEF PairTaken
<1>. QED
  BY <1>1, <1>3, <1>5

(* A completion inserts the same rows and deletes the same rows.           *)
LEMMA ErasedCompletion ==
  ASSUME TypeOK, NEW b \in BatchIds, NEW others, NEW basis, CompleteBatch(b, others, basis)
  PROVE  Tables!CompleteBatch(b, others, 0)
<1> DEFINE superseded == BatchesOf(subjectOf[b]) \ {b}
           added == [batch: {b}, other: others, basis: {basis}]
           none == [batch: {b}, other: others, basis: {0}]
           kept == {r \in recs : r.batch \notin superseded}
<1>1. /\ Exists(b) /\ ~PairTaken(b, others)
      /\ status' = [o \in BatchIds |-> IF o = b THEN "completed"
                                       ELSE IF o \in superseded THEN "absent"
                                       ELSE status[o]]
      /\ recs' = kept \cup added
      /\ UNCHANGED <<nextBatch, subjectOf, opened>>
  BY DEF CompleteBatch
<1>2. Erased(added) = none
  <2>1. ASSUME NEW r \in added PROVE [r EXCEPT !.basis = 0] \in none
    OBVIOUS
  <2>2. ASSUME NEW n \in none PROVE \E r \in added : n = [r EXCEPT !.basis = 0]
    <3>1. PICK o \in others : n = [batch |-> b, other |-> o, basis |-> 0]
      OBVIOUS
    <3>2. [batch |-> b, other |-> o, basis |-> basis] \in added
      OBVIOUS
    <3>3. n = [[batch |-> b, other |-> o, basis |-> basis] EXCEPT !.basis = 0]
      BY <3>1
    <3>. QED
      BY <3>2, <3>3
  <2>. QED
    BY <2>1, <2>2 DEF Erased
<1>3. ASSUME NEW r \in recs PROVE [r EXCEPT !.basis = 0].batch = r.batch
  BY DEF TypeOK, StoreTypeOK, Recommendations
<1> HIDE DEF superseded, added, none
<1>4. Erased(kept) = {r \in Erased(recs) : r.batch \notin superseded}
  BY <1>3 DEF Erased
<1>5. Erased(kept \cup added) = Erased(kept) \cup Erased(added)
  BY DEF Erased
<1>6. Erased(recs)' = {r \in Erased(recs) : r.batch \notin superseded} \cup none
  <2>1. Erased(recs)' = Erased(kept \cup added)
    BY <1>1 DEF Erased
  <2>. QED
    BY <1>2, <1>4, <1>5, <2>1
<1>7. Tables!BatchIds = BatchIds
  BY DEF Tables!BatchIds, BatchIds
<1>. QED
  BY <1>1, <1>6, <1>7, ErasedReads DEF Tables!CompleteBatch, Erased, superseded, none

(* A request of the tables: a batch is created for a written subject.      *)
LEMMA RequestImplements ==
  ASSUME TypeOK, NEW s \in Subjects, version[s] > 0, UNCHANGED domain,
         CreateRecommendationBatch(s)
  PROVE  Tables!TablesNext
<1>1. Tables!CreateRecommendationBatch(s)
  BY ErasedReads
  DEF CreateRecommendationBatch, Tables!CreateRecommendationBatch, Tables!BatchIds, BatchIds
<1>2. UNCHANGED Tables!domain
  BY DEF domain, Tables!domain
<1>. QED
  BY <1>1, <1>2 DEF Tables!TablesNext, Tables!Request, Tables!Subjects, Subjects

(* A claim, or the failure of a batch in flight.                           *)
LEMMA TransitionImplements ==
  ASSUME TypeOK, NEW b \in BatchIds, UNCHANGED domain,
         ClaimBatch(b) \/ (Open(b) /\ TransitionBatch(b, "failed"))
  PROVE  Tables!TablesNext
<1>1. Tables!ClaimBatch(b) \/ (Tables!Open(b) /\ Tables!TransitionBatch(b, "failed"))
  BY ErasedReads DEF ClaimBatch, Tables!ClaimBatch, TransitionBatch, Tables!TransitionBatch
<1>2. UNCHANGED Tables!domain
  BY DEF domain, Tables!domain
<1>. QED
  BY <1>1, <1>2 DEF Tables!TablesNext, Tables!Claim, Tables!Fail, Tables!BatchIds, BatchIds

(* The completion of a batch by the worker that claimed it.                *)
LEMMA CompleteImplements ==
  ASSUME TypeOK, Bookkeeping, PairsAreCandidates, ClaimedIsProcessing, NEW w \in Workers,
         work[w].pc = "complete", UNCHANGED domain,
         CompleteBatch(work[w].body, work[w].pairs, work[w].basis)
  PROVE  Tables!TablesNext
<1>1. PICK b \in BatchIds : b = work[w].body
  BY DEF Bookkeeping, WorkerKnows
<1>2. /\ status[b] = "processing"
      /\ work[w].pairs \subseteq Tables!Candidates(subjectOf[b])
  BY <1>1 DEF PairsAreCandidates, ClaimedIsProcessing
<1>3. Tables!CompleteBatch(b, work[w].pairs, 0)
  BY <1>1, ErasedCompletion
<1>4. UNCHANGED Tables!domain
  BY DEF domain, Tables!domain
<1>. QED
  BY <1>2, <1>3, <1>4 DEF Tables!TablesNext, Tables!Complete, Tables!BatchIds, BatchIds

(* Every step does to the tables what they specify, or nothing.            *)
LEMMA NextImplements ==
  ASSUME Invariant, Claimed, [Next]_vars
  PROVE  [Tables!TablesNext]_(Tables!tables)
<1> USE DEF Invariant, Holding, Claimed
<1>1. CASE UNCHANGED domain /\ UNCHANGED store
  BY <1>1 DEF domain, store, Tables!tables, Tables!domain, Tables!store
<1>2. ASSUME NEW p \in Publishers, NEW s \in Subjects, Write(p, s)
      PROVE  Tables!TablesNext
  <2>1. Tables!PersistWrite(s)
    BY <1>2
    DEF Write, PersistWrite, Writable, Tables!PersistWrite, Tables!Writable
  <2>2. UNCHANGED Tables!store
    BY <1>2 DEF Write, store, Tables!store
  <2>. QED
    BY <2>1, <2>2 DEF Tables!TablesNext, Tables!Write, Tables!Subjects, Subjects
<1>3. ASSUME NEW j \in Jobs, Delete(j)
      PROVE  Tables!TablesNext
  <2>1. Tables!SoftDeleteJobPosition(j) /\ UNCHANGED Tables!store
    BY <1>3
    DEF Delete, SoftDeleteJobPosition, store, Tables!SoftDeleteJobPosition, Tables!store
  <2>. QED
    BY <2>1 DEF Tables!TablesNext, Tables!SoftDelete
<1>4. ASSUME NEW p \in Publishers, Create(p), ~UNCHANGED store
      PROVE  Tables!TablesNext
  <2>1. /\ CreateRecommendationBatch(pub[p].subject) /\ UNCHANGED domain
        /\ pub[p].pc # "idle"
    BY <1>4 DEF Create
  <2>2. pub[p].subject \in Subjects /\ version[pub[p].subject] > 0
    BY <2>1 DEF Bookkeeping, PublisherKnows, AskersWrote
  <2>. QED
    BY <2>1, <2>2, RequestImplements
<1>5. ASSUME NEW p \in Publishers, Close(p), ~UNCHANGED store
      PROVE  Tables!TablesNext
  <2>1. /\ TransitionBatch(pub[p].batch, "failed") /\ UNCHANGED domain
        /\ pub[p].batch \in BatchIds /\ Owns(p, pub[p].batch)
    BY <1>5 DEF Close, Bookkeeping, PublisherKnows, Owns
  <2>. QED
    BY <2>1, TransitionImplements DEF OwnedIsOpen
<1>6. ASSUME NEW w \in Workers, Refuse(w) \/ Claim(w) \/ Fail(w), ~UNCHANGED store
      PROVE  Tables!TablesNext
  <2>1. work[w].pc \notin {"idle", "ack"} /\ UNCHANGED domain
    BY <1>6 DEF Refuse, Claim, Fail
  <2>2. work[w].body \in BatchIds /\ Open(work[w].body)
    BY <2>1 DEF Bookkeeping, WorkerKnows, WorkedOnIsOpen
  <2>3. ClaimBatch(work[w].body) \/ TransitionBatch(work[w].body, "failed")
    BY <1>6 DEF Refuse, Claim, Fail
  <2>. QED
    BY <2>1, <2>2, <2>3, TransitionImplements
<1>7. ASSUME NEW w \in Workers, Complete(w), ~UNCHANGED store
      PROVE  Tables!TablesNext
  <2>1. /\ CompleteBatch(work[w].body, work[w].pairs, work[w].basis)
        /\ work[w].pc = "complete" /\ UNCHANGED domain
    BY <1>7 DEF Complete
  <2>. QED
    BY <2>1, CompleteImplements
<1>8. ASSUME NEW p \in Publishers, Publish(p) \/ CrashPublisher(p)
      PROVE  UNCHANGED domain /\ (UNCHANGED store \/ Create(p) \/ Close(p))
  BY <1>8 DEF Publish, Create, Send, Close, CrashPublisher
<1>9. ASSUME NEW w \in Workers,
             Process(w) \/ ReceiveNothing(w) \/ Shutdown(w) \/ CrashWorker(w)
      PROVE  /\ UNCHANGED domain
             /\ UNCHANGED store \/ Refuse(w) \/ Claim(w) \/ Fail(w) \/ Complete(w)
  BY <1>9
  DEF Process, Receive, Begin, ReadSubject, ReadPairs, Refuse, Claim, Score, Fail, Complete,
      Ack, ReceiveNothing, Shutdown, CrashWorker, vars, store, domain
<1>10. ASSUME UNCHANGED vars \/ \E m \in Messages : Redrive(m)
       PROVE  UNCHANGED domain /\ UNCHANGED store
  BY <1>10 DEF vars, store, domain, Redrive
<1>. QED
  BY <1>1, <1>2, <1>3, <1>4, <1>5, <1>6, <1>7, <1>8, <1>9, <1>10 DEF Next

(* The tables only change as RecommendationTables says, which is the       *)
(* environment the queries are verified in: a batch is opened for a        *)
(* subject that has a row, and closed once, by a failure or by candidates  *)
(* of that subject, after it was claimed.                                  *)
THEOREM TablesImplemented ==
  ASSUME DeliveriesDoNotOverlap
  PROVE  Spec => ImplementsTables
<1>1. Init => Claimed /\ Tables!StoreInit
  <2>1. Init => Tables!StoreInit
    BY DEF Init, StoreInit, Tables!StoreInit, Tables!Subjects, Subjects, Tables!BatchIds,
           BatchIds
  <2>. QED
    BY <2>1, InitClaimed
<1>2. Invariant /\ Invariant' /\ Claimed /\ [Next]_vars => Claimed'
  BY NextAskersWrote, NextPairsAreCandidates, NextClaimedIsProcessing DEF Claimed, Invariant
<1>3. Invariant /\ Claimed /\ [Next]_vars => [Tables!TablesNext]_(Tables!tables)
  BY NextImplements
<1>. QED
  BY <1>1, <1>2, <1>3, InvariantHolds, PTL DEF Spec, ImplementsTables, Tables!TablesSpec

-----------------------------------------------------------------------------
(* The rows.                                                               *)

(* Rows appear with the completion of their batch, all at once.            *)
RowsAreOfCompleted == \A r \in recs : status[r.batch] = "completed"
OneReading == \A r, t \in recs : r.batch = t.batch => r.basis = t.basis

LEMMA NextRows ==
  ASSUME Invariant, RowsAreOfCompleted, OneReading, [Next]_vars
  PROVE  RowsAreOfCompleted' /\ OneReading'
<1> USE DEF Invariant, TypeOK, StoreTypeOK
<1>1. \A r \in recs : r.batch \in BatchIds
  BY DEF Recommendations
<1>2. CASE UNCHANGED store
  BY <1>2 DEF store, RowsAreOfCompleted, OneReading
<1>3. ASSUME NEW s \in Subjects, CreateRecommendationBatch(s)
      PROVE  RowsAreOfCompleted' /\ OneReading'
  <2>1. \A r \in recs : r.batch # nextBatch
    BY <1>1, <1>3, StoreAssumption
    DEF RowsAreOfCompleted, CreateRecommendationBatch, Bookkeeping, CreatedFirst, Exists,
        BatchStatus, Terminal, BatchIds
  <2>. QED
    BY <1>1, <1>3, <2>1 DEF CreateRecommendationBatch, RowsAreOfCompleted, OneReading
<1>4. ASSUME NEW b \in BatchIds, ClaimBatch(b) \/ (Open(b) /\ TransitionBatch(b, "failed"))
      PROVE  RowsAreOfCompleted' /\ OneReading'
  <2>1. \A r \in recs : r.batch # b
    BY <1>4 DEF RowsAreOfCompleted, ClaimBatch, Open, InFlight
  <2>. QED
    BY <1>1, <1>4, <2>1 DEF ClaimBatch, TransitionBatch, RowsAreOfCompleted, OneReading
<1>5. ASSUME NEW b \in BatchIds, NEW others, NEW basis, Open(b),
             CompleteBatch(b, others, basis)
      PROVE  RowsAreOfCompleted' /\ OneReading'
  <2> DEFINE superseded == BatchesOf(subjectOf[b]) \ {b}
             added == [batch: {b}, other: others, basis: {basis}]
  <2>1. /\ \A o \in BatchIds : status'[o] = IF o = b THEN "completed"
                                           ELSE IF o \in superseded THEN "absent"
                                           ELSE status[o]
        /\ recs' = {r \in recs : r.batch \notin superseded} \cup added
    BY <1>5 DEF CompleteBatch
  <2>2. \A r \in recs : r.batch # b
    BY <1>5 DEF RowsAreOfCompleted, Open, InFlight
  <2>3. \A r \in added : r.batch = b /\ r.basis = basis
    OBVIOUS
  <2> HIDE DEF superseded, added
  <2>4. RowsAreOfCompleted'
    BY <1>1, <2>1, <2>3 DEF RowsAreOfCompleted
  <2>5. OneReading'
    BY <2>1, <2>2, <2>3 DEF OneReading
  <2>. QED
    BY <2>4, <2>5
<1>. QED
  BY <1>2, <1>3, <1>4, <1>5, ClosingSteps DEF Holding

(* All the rows a subject has are one set, of one batch and computed from  *)
(* one reading of the subject: no deletion is forgotten and no two         *)
(* workers' results are mixed (CompleteBatch).                             *)
THEOREM RowsAreOneSet ==
  ASSUME DeliveriesDoNotOverlap
  PROVE  Spec => [](\A r, t \in recs :
                      subjectOf[r.batch] = subjectOf[t.batch]
                        => r.batch = t.batch /\ r.basis = t.basis)
<1>1. Init => RowsAreOfCompleted /\ OneReading
  BY DEF Init, StoreInit, RowsAreOfCompleted, OneReading
<1>2. Invariant /\ RowsAreOfCompleted /\ OneReading /\ [Next]_vars
        => RowsAreOfCompleted' /\ OneReading'
  BY NextRows
<1>3. Invariant /\ RowsAreOfCompleted /\ OneReading /\ OneCompleted
        => \A r, t \in recs : subjectOf[r.batch] = subjectOf[t.batch]
                                => r.batch = t.batch /\ r.basis = t.basis
  BY DEF Invariant, TypeOK, StoreTypeOK, Recommendations, RowsAreOfCompleted, OneReading,
         OneCompleted
<1>. QED
  BY <1>1, <1>2, <1>3, InvariantHolds, CompletedIsUnique, PTL DEF Spec
=============================================================================
