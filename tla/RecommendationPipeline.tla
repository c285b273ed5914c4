----------------------- MODULE RecommendationPipeline -----------------------
(***************************************************************************)
(* The recommendation pipeline: request goroutines that persist a domain   *)
(* write and ask for a regeneration (QueueJobPublisher.PublishJob), the    *)
(* queue, and the workers that consume it (Worker.Run), over the tables of *)
(* RecommendationStore.  Every database or queue call of a handler is one  *)
(* action; local work in between is part of the action that precedes it.   *)
(*                                                                         *)
(* A fault is one call (or process) going wrong.  Faults names the kinds a *)
(* behaviour may contain and MaxFaults how many of them:                   *)
(*   "db"            a statement fails and changes nothing                 *)
(*   "commitLost"    a statement commits and its caller sees an error      *)
(*   "createLost"    the same, of the insert that opens a batch            *)
(*   "close"         the failure transition whose error is only logged     *)
(*                   fails                                                 *)
(*   "send"          SendMessage fails and enqueues nothing                *)
(*   "sendLost"      SendMessage enqueues and its caller sees an error     *)
(*   "ack"           DeleteMessage fails                                   *)
(*   "expiry"        the visibility timeout of a held message expires      *)
(*   "shutdown"      the worker's context is cancelled                     *)
(*   "crashWorker", "crashPublisher"   the process dies                    *)
(***************************************************************************)
EXTENDS JobQueue

CONSTANTS
  Publishers,  \* concurrent requests that write a profile or a job position
  Workers,     \* consumers of the queue
  Probe,       \* answers of scoring.Availability
  Faults,      \* kinds of fault that may happen
  MaxFaults    \* bound on how many happen

ASSUME PipelineAssumption ==
  /\ Probe \subseteq {"available", "unavailable"}
  /\ Probe # {}
  /\ MaxFaults \in Nat

VARIABLES
  pub,      \* what each publisher is doing
  fetched,  \* messages of the last reception a worker has not begun
  work,     \* what each worker is doing with the current message
  faults    \* faults so far

vars == <<version, active, nextBatch, subjectOf, status, recs, opened,
          mail, receives, pub, fetched, work, faults>>

IdlePublisher == [pc |-> "idle", subject |-> None, batch |-> 0]
IdleWork == [pc |-> "idle", body |-> 0, receipt |-> 0, basis |-> 0,
             pairs |-> {}]

PublisherState == [pc: {"idle", "create", "send", "close"},
                   subject: Subjects \cup {None},
                   batch: BatchIds \cup {0}]

WorkState == [pc: {"idle", "subject", "pairs", "refuse", "claim", "score",
                   "complete", "fail", "ack"},
              body: Messages \cup {0},
              receipt: 0..MaxReceive,
              basis: Versions,
              pairs: SUBSET Subjects]

TypeOK ==
  /\ StoreTypeOK
  /\ QueueTypeOK
  /\ pub \in [Publishers -> PublisherState]
  /\ fetched \in [Workers -> SUBSET Deliveries]
  /\ work \in [Workers -> WorkState]
  /\ faults \in 0..MaxFaults

Init ==
  /\ StoreInit
  /\ QueueInit
  /\ pub = [p \in Publishers |-> IdlePublisher]
  /\ fetched = [w \in Workers |-> {}]
  /\ work = [w \in Workers |-> IdleWork]
  /\ faults = 0

NoFault == UNCHANGED faults
Fault(kind) == kind \in Faults /\ faults < MaxFaults /\ faults' = faults + 1

(* A worker has the message: it is processing it or has yet to begin it.   *)
Holds(w, m) == \/ work[w].pc # "idle" /\ work[w].body = m
               \/ \E d \in fetched[w] : d.body = m
(* Variant: a message is not kept invisible while it is held.              *)
Held_NoHeartbeat(m) == FALSE

Held(m) == \E w \in Workers : Holds(w, m)

-----------------------------------------------------------------------------
(* Producers.                                                              *)

PubGoes(p, pc) == pub' = [pub EXCEPT ![p].pc = pc]
PubRests(p) == pub' = [pub EXCEPT ![p] = IdlePublisher]

(* Requests that will open a batch leave an identifier for it.             *)
Creating == {p \in Publishers : pub[p].pc = "create"}

(* The domain write is persisted before the regeneration is asked for.     *)
Write(p, s) ==
  /\ pub[p].pc = "idle"
  /\ nextBatch + Cardinality(Creating) <= MaxBatches
  /\ PersistWrite(s)
  /\ pub' = [pub EXCEPT ![p] = [pc |-> "create", subject |-> s, batch |-> 0]]
  /\ UNCHANGED <<store, queue, fetched, work, faults>>

(* A deletion asks for nothing.                                            *)
Delete(j) ==
  /\ SoftDeleteJobPosition(j)
  /\ UNCHANGED <<store, queue, pub, fetched, work, faults>>

(* Variant: PublishJob goes on with no batch when one is in flight.        *)
Create_NoReturn(p) ==
  LET s == pub[p].subject
  IN  /\ pub[p].pc = "create"
      /\ \/ /\ InFlightOf(s) # {}
            /\ PubGoes(p, "send")
            /\ UNCHANGED store
         \/ /\ CreateRecommendationBatch(s)
            /\ pub' = [pub EXCEPT ![p].pc = "send", ![p].batch = nextBatch]
      /\ NoFault
      /\ UNCHANGED <<domain, queue, fetched, work>>

(* CreateBatch: skipped when a batch is in flight for the subject.         *)
Create(p) ==
  LET s == pub[p].subject
  IN  /\ pub[p].pc = "create"
      /\ \/ /\ InFlightOf(s) # {}
            /\ PubRests(p)
            /\ NoFault
            /\ UNCHANGED store
         \/ /\ CreateRecommendationBatch(s)
            /\ \/ pub' = [pub EXCEPT ![p].pc = "send", ![p].batch = nextBatch]
                  /\ NoFault
               \/ PubRests(p) /\ Fault("createLost")
         \/ /\ Fault("db")
            /\ PubRests(p)
            /\ UNCHANGED store
      /\ UNCHANGED <<domain, queue, fetched, work>>

(* Variant: a failed send leaves the batch open.                           *)
Send_LeavesOpen(p) ==
  /\ pub[p].pc = "send"
  /\ \/ SendMessage(pub[p].batch) /\ NoFault
     \/ UNCHANGED queue /\ Fault("send")
  /\ PubRests(p)
  /\ UNCHANGED <<domain, store, fetched, work>>

Send(p) ==
  /\ pub[p].pc = "send"
  /\ \/ SendMessage(pub[p].batch) /\ PubRests(p) /\ NoFault
     \/ SendMessage(pub[p].batch) /\ PubGoes(p, "close") /\ Fault("sendLost")
     \/ UNCHANGED queue /\ PubGoes(p, "close") /\ Fault("send")
  /\ UNCHANGED <<domain, store, fetched, work>>

(* QueueJobPublisher.failBatch: an error of the transition is only logged. *)
Close(p) ==
  LET b == pub[p].batch
  IN  /\ pub[p].pc = "close"
      /\ \/ TransitionBatch(b, "failed") /\ NoFault
         \/ ~Exists(b) /\ UNCHANGED store /\ NoFault
         \/ Fault("close") /\ UNCHANGED store
      /\ PubRests(p)
      /\ UNCHANGED <<domain, queue, fetched, work>>

CrashPublisher(p) ==
  /\ pub[p].pc # "idle"
  /\ Fault("crashPublisher")
  /\ PubRests(p)
  /\ UNCHANGED <<domain, store, queue, fetched, work>>

-----------------------------------------------------------------------------
(* Workers.                                                                *)

Goes(w, pc) == work' = [work EXCEPT ![w].pc = pc]

(* processMessage returns without acknowledging: the message comes back    *)
(* when its visibility timeout expires.                                    *)
Rests(w) == work' = [work EXCEPT ![w] = IdleWork]

(* A reception; a message another worker still holds is only visible when  *)
(* its timeout expired in spite of keepVisible.                            *)
Receive(w) ==
  /\ work[w].pc = "idle"
  /\ fetched[w] = {}
  /\ \E S \in SUBSET Deliverable :
       /\ Batched(S)
       /\ ReceiveMessages(S)
       /\ fetched' = [fetched EXCEPT ![w] = Delivered(S)]
       /\ \/ (\A m \in S : ~Held(m)) /\ NoFault
          \/ (\E m \in S : Held(m)) /\ Fault("expiry")
  /\ UNCHANGED <<domain, store, pub, work>>

(* An empty or failed reception: the loop goes around.                     *)
ReceiveNothing(w) ==
  /\ work[w].pc = "idle"
  /\ fetched[w] = {}
  /\ UNCHANGED vars

(* Decode the body and GetBatch: only an existing batch in flight is       *)
(* worked on.                                                              *)
Begin(w) ==
  /\ work[w].pc = "idle"
  /\ \E d \in fetched[w] :
       /\ fetched' = [fetched EXCEPT ![w] = @ \ {d}]
       /\ LET turn(pc) == work' = [work EXCEPT ![w] =
                            [pc |-> pc, body |-> d.body, receipt |-> d.receipt,
                             basis |-> 0, pairs |-> {}]]
          IN  \/ d.body \in Foreign /\ turn("ack") /\ NoFault
              \/ d.body \in BatchIds /\ Open(d.body) /\ turn("subject") /\ NoFault
              \/ d.body \in BatchIds /\ ~Open(d.body) /\ turn("ack") /\ NoFault
              \/ d.body \in BatchIds /\ Fault("db") /\ UNCHANGED work
  /\ UNCHANGED <<domain, store, queue, pub>>

(* Variant: the subject comes from a copy that writes do not refresh.      *)
ReadSubject_Cached(w) ==
  LET s == subjectOf[work[w].body]
  IN  /\ work[w].pc = "subject"
      /\ SubjectFound(s)
      /\ \E v \in 0..version[s] :
           work' = [work EXCEPT ![w].pc = "pairs", ![w].basis = v]
      /\ UNCHANGED <<domain, store, queue, pub, fetched, faults>>

(* Variant: the batch of a subject that is not there is closed at once.    *)
ReadSubject_SkipsClaim(w) ==
  LET s == subjectOf[work[w].body]
  IN  /\ work[w].pc = "subject"
      /\ \/ /\ SubjectFound(s)
            /\ work' = [work EXCEPT ![w].pc = "pairs", ![w].basis = version[s]]
         \/ ~SubjectFound(s) /\ Goes(w, "complete")
      /\ UNCHANGED <<domain, store, queue, pub, fetched, faults>>

(* First query of PairsForEmployee or PairsForJobPosition.  A subject that *)
(* is not there is completed with an empty set.                            *)
ReadSubject(w) ==
  LET s == subjectOf[work[w].body]
  IN  /\ work[w].pc = "subject"
      /\ \/ /\ SubjectFound(s)
            /\ work' = [work EXCEPT ![w].pc = "pairs", ![w].basis = version[s]]
            /\ NoFault
         \/ ~SubjectFound(s) /\ Goes(w, "claim") /\ NoFault
         \/ Fault("db") /\ Rests(w)
      /\ UNCHANGED <<domain, store, queue, pub, fetched>>

(* Second query, then scoringAvailable unless there is nothing to score.   *)
ReadPairs(w) ==
  LET pairs == Universe(subjectOf[work[w].body])
      with(pc) == work' = [work EXCEPT ![w].pc = pc, ![w].pairs = pairs]
  IN  /\ work[w].pc = "pairs"
      /\ \/ pairs = {} /\ with("claim") /\ NoFault
         \/ pairs # {} /\ "available" \in Probe /\ with("claim") /\ NoFault
         \/ pairs # {} /\ "unavailable" \in Probe /\ with("refuse") /\ NoFault
         \/ Fault("db") /\ Rests(w)
      /\ UNCHANGED <<domain, store, queue, pub, fetched>>

(* No scoring: the batch fails without being claimed.                      *)
Refuse(w) ==
  LET b == work[w].body
  IN  /\ work[w].pc = "refuse"
      /\ \/ /\ TransitionBatch(b, "failed")
            /\ \/ Goes(w, "ack") /\ NoFault
               \/ Rests(w) /\ Fault("commitLost")
         \/ ~Exists(b) /\ UNCHANGED store /\ Goes(w, "ack") /\ NoFault
         \/ Fault("db") /\ UNCHANGED store /\ Rests(w)
      /\ UNCHANGED <<domain, queue, pub, fetched>>

(* Variant: only a pending batch is claimable, so that a redelivery whose  *)
(* batch was left in processing is acknowledged.                           *)
Claim_PendingOnly(w) ==
  LET b == work[w].body
  IN  /\ work[w].pc = "claim"
      /\ \/ /\ status[b] = "pending"
            /\ ClaimBatch(b)
            /\ \/ /\ Goes(w, IF work[w].pairs = {} THEN "complete" ELSE "score")
                  /\ NoFault
               \/ Rests(w) /\ Fault("commitLost")
         \/ status[b] # "pending" /\ UNCHANGED store /\ Goes(w, "ack") /\ NoFault
         \/ Fault("db") /\ UNCHANGED store /\ Rests(w)
      /\ UNCHANGED <<domain, queue, pub, fetched>>

(* A batch that is not claimable, or not there, is acknowledged.           *)
Claim(w) ==
  LET b == work[w].body
  IN  /\ work[w].pc = "claim"
      /\ \/ /\ ClaimBatch(b)
            /\ \/ /\ Goes(w, IF work[w].pairs = {} THEN "complete" ELSE "score")
                  /\ NoFault
               \/ Rests(w) /\ Fault("commitLost")
         \/ ~Open(b) /\ UNCHANGED store /\ Goes(w, "ack") /\ NoFault
         \/ Fault("db") /\ UNCHANGED store /\ Rests(w)
      /\ UNCHANGED <<domain, queue, pub, fetched>>

(* ScoreAll fails, or leaves the eligible pairs.                           *)
Score(w) ==
  /\ work[w].pc = "score"
  /\ \/ Goes(w, "fail")
     \/ \E eligible \in SUBSET work[w].pairs :
          work' = [work EXCEPT ![w].pc = "complete", ![w].pairs = eligible]
  /\ UNCHANGED <<domain, store, queue, pub, fetched, faults>>

(* Worker.failBatch: an error of the transition is only logged, and the    *)
(* message is acknowledged.                                                *)
Fail(w) ==
  LET b == work[w].body
  IN  /\ work[w].pc = "fail"
      /\ \/ TransitionBatch(b, "failed") /\ NoFault
         \/ ~Exists(b) /\ UNCHANGED store /\ NoFault
         \/ Fault("close") /\ UNCHANGED store
      /\ Goes(w, "ack")
      /\ UNCHANGED <<domain, queue, pub, fetched>>

(* Variant: a failure of the database is acknowledged.                     *)
Complete_AcksErrors(w) ==
  LET b == work[w].body
  IN  /\ work[w].pc = "complete"
      /\ \/ CompleteBatch(b, work[w].pairs, work[w].basis) /\ NoFault
         \/ UNCHANGED store /\ Fault("db")
      /\ Goes(w, "ack")
      /\ UNCHANGED <<domain, queue, pub, fetched>>

(* A batch that is gone is acknowledged; any other failure, such as a pair *)
(* another delivery inserted, rolls back and leaves the message.           *)
Complete(w) ==
  LET b == work[w].body
  IN  /\ work[w].pc = "complete"
      /\ \/ /\ CompleteBatch(b, work[w].pairs, work[w].basis)
            /\ \/ Goes(w, "ack") /\ NoFault
               \/ Rests(w) /\ Fault("commitLost")
         \/ ~Exists(b) /\ UNCHANGED store /\ Goes(w, "ack") /\ NoFault
         \/ /\ Exists(b) /\ PairTaken(b, work[w].pairs)
            /\ UNCHANGED store /\ Rests(w) /\ NoFault
         \/ Fault("db") /\ UNCHANGED store /\ Rests(w)
      /\ UNCHANGED <<domain, queue, pub, fetched>>

(* Delete the message; a failure is only logged.                           *)
Ack(w) ==
  /\ work[w].pc = "ack"
  /\ \/ DeleteMessage(work[w].body, work[w].receipt) /\ NoFault
     \/ UNCHANGED queue /\ Fault("ack")
  /\ Rests(w)
  /\ UNCHANGED <<domain, store, pub, fetched>>

(* Cancellation: the current message is finished, the rest of the          *)
(* reception is abandoned.                                                 *)
Shutdown(w) ==
  /\ fetched[w] # {}
  /\ Fault("shutdown")
  /\ fetched' = [fetched EXCEPT ![w] = {}]
  /\ UNCHANGED <<domain, store, queue, pub, work>>

CrashWorker(w) ==
  /\ work[w].pc # "idle" \/ fetched[w] # {}
  /\ Fault("crashWorker")
  /\ Rests(w)
  /\ fetched' = [fetched EXCEPT ![w] = {}]
  /\ UNCHANGED <<domain, store, queue, pub>>

-----------------------------------------------------------------------------
Redrive(m) ==
  /\ RedriveMessage(m)
  /\ \/ ~Held(m) /\ NoFault
     \/ Held(m) /\ Fault("expiry")
  /\ UNCHANGED <<domain, store, pub, fetched, work>>

Publish(p) == Create(p) \/ Send(p) \/ Close(p)

Process(w) ==
  \/ Receive(w) \/ Begin(w) \/ ReadSubject(w) \/ ReadPairs(w) \/ Refuse(w)
  \/ Claim(w) \/ Score(w) \/ Fail(w) \/ Complete(w) \/ Ack(w)

Next ==
  \/ \E p \in Publishers : \/ \E s \in Subjects : Write(p, s)
                           \/ Publish(p)
                           \/ CrashPublisher(p)
  \/ \E j \in Jobs : Delete(j)
  \/ \E w \in Workers : \/ Process(w)
                        \/ ReceiveNothing(w)
                        \/ Shutdown(w)
                        \/ CrashWorker(w)
  \/ \E m \in Messages : Redrive(m)

Spec == Init /\ [][Next]_vars

(* The Go scheduler runs every goroutine that is ready, and a worker polls *)
(* the queue for as long as it runs.  Nothing is assumed of requests, of   *)
(* deletions, of faults or of the redrive.                                 *)
Fairness ==
  /\ \A p \in Publishers : WF_vars(Publish(p))
  /\ \A w \in Workers : WF_vars(Process(w))

FairSpec == Spec /\ Fairness
=============================================================================
