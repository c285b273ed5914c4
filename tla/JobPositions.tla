---------------------------- MODULE JobPositions ----------------------------
(***************************************************************************)
(* The positions employers publish (internal/jobposition), beside the      *)
(* profiles their ownership rests on.  A call resolves the employer of its *)
(* principal, then loads the position it names, then writes with a         *)
(* statement that names active positions only, then notifies: each in a    *)
(* statement of its own, so other calls come in between.                   *)
(*                                                                         *)
(* An employer is known by its account and a position by the call that     *)
(* creates it; the fields of a position are its version.  Reads change     *)
(* nothing and are left out.                                               *)
(***************************************************************************)
EXTENDS UserProfiles

CONSTANTS
  Calls,    \* calls on positions that may be under way at once
  MaxCalls  \* bound on the calls

ASSUME CallAssumption == IsFiniteSet(Calls) /\ MaxCalls \in Nat

Positions == 1..MaxCalls
Operations == {"create", "update", "delete"}

VARIABLES
  owner,     \* owner[j]: employer of position j, NoOne until it is created
  version,   \* version[j]: writes of position j
  deleted,   \* positions whose deleted_at is set
  notified,  \* notified[j]: notifications of position j
  call,      \* call[c]: what call c is doing; its answer is left out
  called     \* calls so far

positionVars == <<owner, version, deleted, notified, call, called>>
vars == <<profileVars, positionVars>>

IdleCall ==
  [pc |-> "idle", op |-> "create", by |-> NoOne, at |-> NoOne, position |-> 0]

TypeOK ==
  /\ ProfileTypeOK
  /\ owner \in [Positions -> Users \cup {NoOne}]
  /\ version \in [Positions -> Nat]
  /\ notified \in [Positions -> Nat]
  /\ deleted \subseteq {j \in Positions : owner[j] # NoOne}
  /\ call \in [Calls -> [pc: {"idle", "employer", "position", "write", "publish"},
                         op: Operations, by: Users \cup {NoOne},
                         at: Users \cup {NoOne}, position: 0..MaxCalls]]
  /\ called \in 0..MaxCalls

Init ==
  /\ ProfileInit
  /\ owner = [j \in Positions |-> NoOne]
  /\ version = [j \in Positions |-> 0]
  /\ deleted = {}
  /\ notified = [j \in Positions |-> 0]
  /\ call = [c \in Calls |-> IdleCall]
  /\ called = 0

Active(j) == owner[j] # NoOne /\ j \notin deleted

Ended(c) == [call EXCEPT ![c] = IdleCall]
Goes(c, pc) == [call EXCEPT ![c].pc = pc]

-----------------------------------------------------------------------------
(* Handlers and authorisation.                                             *)

Ask(c, op, g, e, j) ==
  /\ call[c].pc = "idle"
  /\ called < MaxCalls
  /\ called' = called + 1
  /\ g.role = "employer"
  /\ call' = [call EXCEPT ![c] = [pc |-> "employer", op |-> op, by |-> g.user,
                                  at |-> e, position |-> j]]
  /\ UNCHANGED <<owner, version, deleted, notified>>

(* The path of a creation names an employer, and that of the others a      *)
(* position, that exists or not.  Principals that are not employers are     *)
(* turned away at once.                                                    *)
AskToCreate(c) ==
  \E g \in grants, e \in Users : Ask(c, "create", g, e, called + 1)
AskToChange(c) ==
  \E op \in {"update", "delete"}, g \in grants, j \in 1..called :
    Ask(c, op, g, NoOne, j)

ResolveEmployer(c) ==
  /\ call[c].pc = "employer"
  /\ LET own == call[c].by \in profiles["employer"]
         ownPath == call[c].op = "create" => call[c].at = call[c].by
     IN  call' = IF ~own \/ ~ownPath THEN Ended(c)
                 ELSE Goes(c, IF call[c].op = "create" THEN "write" ELSE "position")
  /\ UNCHANGED <<owner, version, deleted, notified, called>>

ResolvePosition(c) ==
  /\ call[c].pc = "position"
  /\ LET j == call[c].position
     IN  call' = IF ~Active(j) THEN Ended(c)
                 ELSE IF owner[j] # call[c].by THEN Ended(c)
                 ELSE Goes(c, "write")
  /\ UNCHANGED <<owner, version, deleted, notified, called>>

-----------------------------------------------------------------------------
(* The three writes: each is one statement.                                *)

CreateJobPosition(c) ==
  /\ call[c].op = "create"
  /\ owner' = [owner EXCEPT ![call[c].position] = call[c].by]
  /\ version' = [version EXCEPT ![call[c].position] = 1]
  /\ UNCHANGED deleted

(* Variant: WHERE id = $1 alone.                                           *)
UpdateActiveJobPosition_Any(c) ==
  /\ call[c].op = "update"
  /\ version' = [version EXCEPT ![call[c].position] = @ + 1]
  /\ UNCHANGED <<owner, deleted>>

UpdateActiveJobPosition(c) ==
  /\ call[c].op = "update"
  /\ Active(call[c].position)
  /\ version' = [version EXCEPT ![call[c].position] = @ + 1]
  /\ UNCHANGED <<owner, deleted>>

SoftDeleteJobPosition(c) ==
  /\ call[c].op = "delete"
  /\ Active(call[c].position)
  /\ deleted' = deleted \cup {call[c].position}
  /\ UNCHANGED <<owner, version>>

Writes(c) ==
  CreateJobPosition(c) \/ UpdateActiveJobPosition(c) \/ SoftDeleteJobPosition(c)

(* A deletion is not published.                                            *)
Write(c) ==
  /\ call[c].pc = "write"
  /\ Writes(c)
  /\ call' = IF call[c].op = "delete" THEN Ended(c) ELSE Goes(c, "publish")
  /\ UNCHANGED <<notified, called>>

(* Variant: a write that found nothing is published like the others.       *)
Gone_Publishes(c) ==
  /\ call[c].pc = "write"
  /\ call[c].op # "create"
  /\ ~Active(call[c].position)
  /\ call' = Goes(c, "publish")
  /\ UNCHANGED <<owner, version, deleted, notified, called>>

(* The position went between its resolution and the write.                 *)
Gone(c) ==
  /\ call[c].pc = "write"
  /\ call[c].op # "create"
  /\ ~Active(call[c].position)
  /\ call' = Ended(c)
  /\ UNCHANGED <<owner, version, deleted, notified, called>>

(* An error of the publisher is discarded: the answer is the same.         *)
Publish(c) ==
  /\ call[c].pc = "publish"
  /\ notified' = [notified EXCEPT ![call[c].position] = @ + 1]
  /\ call' = Ended(c)
  /\ UNCHANGED <<owner, version, deleted, called>>

-----------------------------------------------------------------------------
(* Faults.                                                                 *)

StatementFails(c) ==
  /\ Fault("db")
  /\ call[c].pc \in {"employer", "position", "write"}
  /\ call' = Ended(c)
  /\ UNCHANGED <<owner, version, deleted, notified, called>>

WriteReportedAsFailed(c) ==
  /\ Fault("commitLost")
  /\ call[c].pc = "write"
  /\ Writes(c)
  /\ call' = Ended(c)
  /\ UNCHANGED <<notified, called>>

CallCrashes(c) ==
  /\ Fault("crash")
  /\ call[c].pc # "idle"
  /\ call' = Ended(c)
  /\ UNCHANGED <<owner, version, deleted, notified, called>>

Handler(c) ==
  \/ AskToCreate(c) \/ AskToChange(c) \/ ResolveEmployer(c)
  \/ ResolvePosition(c) \/ Write(c) \/ Gone(c) \/ Publish(c)

Failure(c) == StatementFails(c) \/ WriteReportedAsFailed(c) \/ CallCrashes(c)

(* The server waits.                                                       *)
Quiet ==
  /\ \A r \in Requests : req[r].pc = "idle"
  /\ \A c \in Calls : call[c].pc = "idle"
  /\ UNCHANGED vars

Next ==
  \/ ProfileNext /\ UNCHANGED positionVars
  \/ \E c \in Calls :
       \/ Handler(c) /\ UNCHANGED profileVars
       \/ Failure(c)
          /\ UNCHANGED <<role, grants, profiles, holder, req, asked>>
  \/ Quiet

Spec == Init /\ [][Next]_vars

-----------------------------------------------------------------------------
(* A position is created and changed by calls of its owner alone, an       *)
(* account with an employer profile, and not at all once it is deleted,    *)
(* though the three are looked at in statements of their own before the    *)
(* write (resolveOwnedPosition, UpdateActiveJobPosition).                  *)
OnlyOwnersWrite ==
  [][\A j \in Positions :
       \/ version'[j] # version[j] \/ owner'[j] # owner[j]
       \/ j \in deleted' /\ j \notin deleted
       => /\ j \notin deleted
          /\ owner'[j] \in profiles["employer"]
          /\ owner[j] \in {NoOne, owner'[j]}
          /\ \E c \in Calls : /\ call[c].pc = "write"
                              /\ call'[c].pc # "write"
                              /\ call[c].by = owner'[j]]_vars

(* Every write of a position is notified once, and nothing else is: not a  *)
(* write that found nothing, nor a deletion.  What a crash, or a write     *)
(* that is reported as failed, kept from being notified is missing.        *)
WritesAreNotified ==
  \A j \in Positions :
    LET due == notified[j]
                 + Cardinality({c \in Calls : call[c].pc = "publish"
                                              /\ call[c].position = j})
    IN  /\ due <= version[j]
        /\ faults \cap {"commitLost", "crash"} = {} => due = version[j]
=============================================================================
