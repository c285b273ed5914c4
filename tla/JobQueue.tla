------------------------------ MODULE JobQueue ------------------------------
(***************************************************************************)
(* The queue between the producer and the worker (internal/queue), with    *)
(* the guarantees its port states: delivery at least once, an unconfirmed  *)
(* message is delivered again, and after MaxReceive deliveries it goes to  *)
(* the dead-letter queue.  A message is known by its body: the identifier  *)
(* of the batch it refers to (each batch is sent at most once), or a       *)
(* foreign body that no version of the event decodes.                      *)
(***************************************************************************)
EXTENDS RecommendationStore

CONSTANTS
  Foreign,      \* bodies on the queue that the worker cannot decode
  MaxReceive,   \* maxReceiveCount of the queue's redrive policy
  MaxMessages   \* messages one reception may return

ASSUME QueueAssumption ==
  /\ Foreign \cap Nat = {}
  /\ MaxReceive \in Nat \ {0}
  /\ MaxMessages \in Nat \ {0}

Messages == BatchIds \cup Foreign
Deliveries == [body: Messages, receipt: 1..MaxReceive]

VARIABLES
  mail,      \* where each message is
  receives   \* how often each message was delivered; also the number of
             \* its latest receipt handle

queue == <<mail, receives>>

QueueTypeOK ==
  /\ mail \in [Messages -> {"unsent", "queued", "deleted", "dead"}]
  /\ receives \in [Messages -> 0..MaxReceive]

QueueInit ==
  /\ mail = [m \in Messages |-> IF m \in Foreign THEN "queued" ELSE "unsent"]
  /\ receives = [m \in Messages |-> 0]

(* Variant: no redrive policy.                                             *)
Deliverable_NoLimit == {m \in Messages : mail[m] = "queued"}

Deliverable == {m \in Messages : mail[m] = "queued" /\ receives[m] < MaxReceive}

Batched(S) == S # {} /\ Cardinality(S) <= MaxMessages

(* SendMessage                                                             *)
SendMessage(m) ==
  /\ mail' = [mail EXCEPT ![m] = "queued"]
  /\ UNCHANGED receives

(* ReceiveMessage returns the messages S, each under a new receipt handle. *)
ReceiveMessages(S) ==
  /\ receives' = [m \in Messages |->
                    IF m \in S THEN receives[m] + 1 ELSE receives[m]]
  /\ UNCHANGED mail

Delivered(S) ==
  {d \in Deliveries : d.body \in S /\ d.receipt = receives[d.body] + 1}

(* DeleteMessage through a receipt handle.  The latest handle deletes the  *)
(* message; an older one is accepted and may or may not delete it.         *)
DeleteMessage(m, receipt) ==
  /\ \/ /\ mail[m] = "queued"
        /\ mail' = [mail EXCEPT ![m] = "deleted"]
     \/ /\ mail[m] # "queued" \/ receipt # receives[m]
        /\ UNCHANGED mail
  /\ UNCHANGED receives

(* The redrive policy moves an exhausted message out of the queue.         *)
RedriveMessage(m) ==
  /\ mail[m] = "queued"
  /\ receives[m] = MaxReceive
  /\ mail' = [mail EXCEPT ![m] = "dead"]
  /\ UNCHANGED receives
=============================================================================
