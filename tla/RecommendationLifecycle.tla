----------------------- MODULE RecommendationLifecycle -----------------------
(***************************************************************************)
(* What the pipeline promises about one subject, with no queue, no worker  *)
(* and no batch: a regeneration is asked for, and the subject is shown as  *)
(* open until it succeeds, which replaces the set it is shown, or fails,   *)
(* which leaves that set alone.  Nothing is asked for while the subject is *)
(* open, and a closed subject stays as it is until it is asked for again.  *)
(***************************************************************************)
EXTENDS Naturals

CONSTANTS Subjects, MaxVersion

VARIABLES
  phase,   \* "none", "open", "completed" or "failed"
  asked,   \* version of the subject the latest request is about
  served,  \* version of the subject the shown set answers, 0 without a set
  shown    \* counterparts the subject is shown

vars == <<phase, asked, served, shown>>

Init ==
  /\ phase = [s \in Subjects |-> "none"]
  /\ asked = [s \in Subjects |-> 0]
  /\ served = [s \in Subjects |-> 0]
  /\ shown = [s \in Subjects |-> {}]

(* A request is about the subject as it is now, never as it was before.    *)
Request(s) ==
  /\ phase[s] # "open"
  /\ phase' = [phase EXCEPT ![s] = "open"]
  /\ \E v \in asked[s]..MaxVersion : asked' = [asked EXCEPT ![s] = v]
  /\ UNCHANGED <<served, shown>>

Succeed(s) ==
  /\ phase[s] = "open"
  /\ phase' = [phase EXCEPT ![s] = "completed"]
  /\ served' = [served EXCEPT ![s] = asked[s]]
  /\ \E set \in SUBSET Subjects : shown' = [shown EXCEPT ![s] = set]
  /\ UNCHANGED asked

Fail(s) ==
  /\ phase[s] = "open"
  /\ phase' = [phase EXCEPT ![s] = "failed"]
  /\ UNCHANGED <<asked, served, shown>>

Next == \E s \in Subjects : Request(s) \/ Succeed(s) \/ Fail(s)

Spec == Init /\ [][Next]_vars
=============================================================================
