-------------------------- MODULE JobPositionProofs --------------------------
(***************************************************************************)
(* Proofs about profiles and positions together: what UserProfilesProofs   *)
(* says of profiles holds beside the calls on positions, and those are     *)
(* made by owners alone, notified once, and what the recommendations take  *)
(* for granted, for any accounts, requests, calls and faults.              *)
(***************************************************************************)
EXTENDS JobPositions, UserProfilesProofs, FiniteSetTheorems

(* Positions are numbered in the order of the calls that create them.      *)
Numbered ==
  /\ \A j \in Positions : j > called => owner[j] = NoOne
  /\ \A j \in Positions : owner[j] = NoOne => version[j] = 0
  /\ \A c \in Calls : call[c].pc # "idle" =>
       call[c].by \in Users /\ call[c].position \in 1..called

(* A creation that did not write yet is alone with its position.           *)
Creating(c) == call[c].op = "create" /\ call[c].pc \in {"employer", "write"}
CreationsAreNew ==
  /\ \A c \in Calls : Creating(c) => owner[call[c].position] = NoOne
  /\ \A c, d \in Calls :
       Creating(c) /\ Creating(d) /\ call[c].position = call[d].position => c = d

(* What a call looked at before its write is still so: profiles and owners *)
(* do not go away.                                                         *)
WritersOwn ==
  \A c \in Calls :
    /\ call[c].pc = "position" => call[c].op # "create"
    /\ call[c].pc \in {"position", "write"} => call[c].by \in profiles["employer"]
    /\ call[c].pc = "write" /\ call[c].op # "create" =>
         owner[call[c].position] = call[c].by

CallInv == TypeOK /\ Numbered /\ CreationsAreNew /\ WritersOwn

CallRecords == [pc: {"idle", "employer", "position", "write", "publish"},
                op: Operations, by: Users \cup {NoOne},
                at: Users \cup {NoOne}, position: 0..MaxCalls]

(* No position and no call satisfy the invariant of calls.                 *)
LEMMA CallInitially == Init => CallInv
<1> SUFFICES ASSUME Init PROVE CallInv
  OBVIOUS
<1>1. ProfileTypeOK
  BY ProfileInitially DEF Init, ProfileInv
<1>2. IdleCall \in CallRecords
  BY CallAssumption DEF IdleCall, CallRecords, Operations
<1>3. \A c \in Calls : call[c] = IdleCall /\ call[c].pc = "idle"
  BY DEF Init, IdleCall
<1>4. TypeOK
  BY <1>1, <1>2, CallAssumption DEF Init, TypeOK, CallRecords
<1>5. Numbered
  BY <1>3 DEF Init, Numbered
<1>6. CreationsAreNew /\ WritersOwn
  BY <1>3 DEF CreationsAreNew, WritersOwn, Creating
<1> QED BY <1>4, <1>5, <1>6 DEF CallInv

(* What the steps of profiles leave alone, and what no step takes back.    *)
LEMMA ProfilesGrow ==
  ASSUME ProfileTypeOK, [ProfileNext]_profileVars
  PROVE  profiles["employer"] \subseteq profiles'["employer"] /\ faults \subseteq faults'
<1>1. CASE UNCHANGED profileVars
  BY <1>1 DEF profileVars
<1>2. ASSUME NEW u \in Users, Login(u) \/ \E k \in Roles : SaveUser(u, k)
      PROVE  profiles' = profiles /\ faults' = faults
  BY <1>2 DEF Login, SaveUser
<1>3. ASSUME NEW r \in Requests,
             \/ \E g \in grants, k \in Roles : CreateProfile(r, g, k)
             \/ Lock(r) \/ Insert(r) \/ Refuse(r)
      PROVE  profiles' = profiles /\ faults' = faults
  BY <1>3 DEF CreateProfile, Lock, Insert, Refuse
<1>4. ASSUME NEW r \in Requests, TransactionFails(r) \/ Crash(r)
      PROVE  profiles' = profiles /\ faults \subseteq faults'
  BY <1>4 DEF TransactionFails, Crash, Fault
<1>5. ASSUME NEW r \in Requests, profiles' = Stored(r)
      PROVE  profiles["employer"] \subseteq profiles'["employer"]
  BY <1>5 DEF Stored, ProfileTypeOK, Roles
<1>6. ASSUME NEW r \in Requests, Commit(r) \/ CommitReportedAsFailed(r)
      PROVE  profiles' = Stored(r) /\ faults \subseteq faults'
  BY <1>6 DEF Commit, CommitReportedAsFailed, Fault
<1> QED BY <1>1, <1>2, <1>3, <1>4, <1>5, <1>6 DEF ProfileNext, Transaction

(* A step of the accounts keeps it, as profiles are never taken away.      *)
LEMMA CallUnchanged ==
  ASSUME CallInv, ProfileTypeOK', UNCHANGED positionVars,
         profiles["employer"] \subseteq profiles'["employer"]
  PROVE  CallInv'
BY DEF CallInv, TypeOK, positionVars, Numbered, CreationsAreNew, WritersOwn, Creating

(* A call that ends, or goes on, without a write.                          *)
LEMMA CallEnds ==
  ASSUME CallInv, ProfileTypeOK', NEW c \in Calls, call' = Ended(c),
         profiles' = profiles, UNCHANGED <<owner, version, deleted, called>>,
         notified' \in [Positions -> Nat]
  PROVE  CallInv'
<1> USE DEF CallInv
<1>1. /\ call'[c].pc = "idle"
      /\ \A d \in Calls \ {c} : call'[d] = call[d]
  BY DEF Ended, IdleCall, TypeOK
<1>2. IdleCall \in CallRecords
  BY CallAssumption DEF IdleCall, CallRecords, Operations
<1>3. TypeOK'
  BY <1>2 DEF TypeOK, Ended, CallRecords
<1>4. Numbered'
  BY <1>1 DEF Numbered
<1>5. \A d \in Calls : call'[d].pc # "idle" => call'[d] = call[d]
  BY <1>1
<1>6. CreationsAreNew' /\ WritersOwn'
  BY <1>5 DEF CreationsAreNew, WritersOwn, Creating
<1> QED BY <1>3, <1>4, <1>6

(* Accepting a call keeps it.                                              *)
LEMMA AskStep ==
  ASSUME CallInv, GrantsMatch, NEW c \in Calls, AskToCreate(c) \/ AskToChange(c),
         UNCHANGED profileVars
  PROVE  CallInv'
<1> USE DEF CallInv
<1>1. PICK op \in Operations, g \in grants, e \in Users \cup {NoOne}, j \in Nat :
        /\ Ask(c, op, g, e, j)
        /\ op = "create" => j = called + 1
        /\ op # "create" => j \in 1..called
  <2>1. called \in Nat /\ called + 1 \in Nat
    BY CallAssumption DEF TypeOK
  <2>2. CASE AskToCreate(c)
    BY <2>1, <2>2 DEF AskToCreate, Operations
  <2>3. CASE AskToChange(c)
    <3>1. PICK op \in {"update", "delete"}, g \in grants, j \in 1..called :
            Ask(c, op, g, NoOne, j)
      BY <2>3 DEF AskToChange
    <3> QED BY <2>1, <3>1 DEF Operations
  <2> QED BY <2>2, <2>3
<1>2. j \in 1..called' /\ called' = called + 1 /\ called' \in 0..MaxCalls
  BY <1>1, CallAssumption DEF Ask, TypeOK
<1>3. g.user \in Users
  BY <1>1 DEF TypeOK, ProfileTypeOK, Principals
<1>4. /\ call' = [call EXCEPT ![c] = [pc |-> "employer", op |-> op, by |-> g.user,
                                       at |-> e, position |-> j]]
      /\ UNCHANGED <<owner, version, deleted, notified>>
  BY <1>1 DEF Ask
<1>5. /\ call'[c] = [pc |-> "employer", op |-> op, by |-> g.user,
                     at |-> e, position |-> j]
      /\ \A d \in Calls \ {c} : call'[d] = call[d]
  BY <1>4 DEF TypeOK
<1>6. TypeOK'
  <2>1. [pc |-> "employer", op |-> op, by |-> g.user, at |-> e, position |-> j]
          \in CallRecords
    BY <1>2, <1>3, CallAssumption DEF CallRecords
  <2>2. call' \in [Calls -> CallRecords]
    BY <2>1, <1>4 DEF TypeOK, CallRecords
  <2>3. ProfileTypeOK'
    BY DEF TypeOK, ProfileTypeOK, profileVars
  <2> QED BY <1>2, <1>4, <2>2, <2>3 DEF TypeOK, CallRecords
<1>7. Numbered'
  <2>1. \A d \in Calls : call'[d].pc # "idle" =>
          call'[d].by \in Users /\ call'[d].position \in 1..called'
    BY <1>2, <1>3, <1>5 DEF Numbered, TypeOK
  <2>2. \A n \in Positions : n > called' => n > called
    BY <1>2, CallAssumption DEF Positions, TypeOK
  <2> QED BY <1>4, <2>1, <2>2 DEF Numbered
<1>8. CreationsAreNew'
  <2>1. op = "create" => \A d \in Calls \ {c} : call[d].pc # "idle" => call[d].position # j
    BY <1>1 DEF Numbered, TypeOK
  <2>2. op = "create" => owner[j] = NoOne
    BY <1>1, <1>2, CallAssumption DEF Numbered, TypeOK, Positions
  <2> QED BY <1>4, <1>5, <2>1, <2>2 DEF CreationsAreNew, Creating
<1>9. WritersOwn'
  BY <1>4, <1>5 DEF WritersOwn, profileVars
<1> QED BY <1>6, <1>7, <1>8, <1>9

(* A call moves on to the program point pc.                                *)
LEMMA CallGoes ==
  ASSUME CallInv, ProfileTypeOK', NEW c \in Calls,
         NEW pc \in {"position", "write", "publish"},
         call' = Goes(c, pc), call[c].pc # "idle",
         profiles' = profiles, UNCHANGED <<owner, version, deleted, notified, called>>,
         pc = "position" => call[c].op # "create",
         pc \in {"position", "write"} => call[c].by \in profiles["employer"],
         pc = "write" => IF call[c].op = "create" THEN call[c].pc = "employer"
                         ELSE owner[call[c].position] = call[c].by
  PROVE  CallInv'
<1> USE DEF CallInv
<1>1. /\ call'[c].pc = pc /\ call'[c].op = call[c].op
      /\ call'[c].by = call[c].by /\ call'[c].position = call[c].position
      /\ \A d \in Calls \ {c} : call'[d] = call[d]
      /\ call' \in [Calls -> CallRecords]
  BY DEF Goes, TypeOK, CallRecords
<1>2. TypeOK'
  BY <1>1 DEF TypeOK, CallRecords
<1>3. Numbered'
  BY <1>1 DEF Numbered
<1>4. CreationsAreNew'
  <2>1. \A d \in Calls : Creating(d)' => Creating(d) /\ call'[d].position = call[d].position
    BY <1>1 DEF Creating
  <2> QED BY <2>1 DEF CreationsAreNew
<1>5. WritersOwn'
  BY <1>1 DEF WritersOwn
<1> QED BY <1>2, <1>3, <1>4, <1>5

(* So does reading the employer and the position of a call,                *)
LEMMA ResolveStep ==
  ASSUME CallInv, NEW c \in Calls, ResolveEmployer(c) \/ ResolvePosition(c),
         UNCHANGED profileVars
  PROVE  CallInv'
<1>1. ProfileTypeOK' /\ profiles' = profiles
  BY DEF profileVars, ProfileTypeOK, CallInv, TypeOK
<1>2. UNCHANGED <<owner, version, deleted, notified, called>>
  BY DEF ResolveEmployer, ResolvePosition
<1>3. notified' \in [Positions -> Nat] /\ call[c].pc # "idle"
  BY <1>2 DEF ResolveEmployer, ResolvePosition, CallInv, TypeOK
<1>4. CASE call' = Ended(c)
  BY <1>1, <1>2, <1>3, <1>4, CallEnds
<1>5. CASE ResolveEmployer(c) /\ call' # Ended(c)
  <2>1. /\ call[c].pc = "employer" /\ call[c].by \in profiles["employer"]
        /\ call' = Goes(c, IF call[c].op = "create" THEN "write" ELSE "position")
    BY <1>5 DEF ResolveEmployer
  <2>2. CASE call[c].op = "create"
    BY <1>1, <1>2, <1>3, <2>1, <2>2, CallGoes
  <2>3. CASE call[c].op # "create"
    BY <1>1, <1>2, <1>3, <2>1, <2>3, CallGoes
  <2> QED BY <2>2, <2>3
<1>6. CASE ResolvePosition(c) /\ call' # Ended(c)
  <2>1. /\ call[c].pc = "position" /\ owner[call[c].position] = call[c].by
        /\ call' = Goes(c, "write")
    BY <1>6 DEF ResolvePosition
  <2>2. call[c].op # "create" /\ call[c].by \in profiles["employer"]
    BY <2>1 DEF CallInv, WritersOwn
  <2> QED BY <1>1, <1>2, <1>3, <2>1, <2>2, CallGoes
<1> QED BY <1>4, <1>5, <1>6

(* What a write changes: the position of its call, which is active and the *)
(* caller's, or new.                                                       *)
LEMMA WriteIsTheOwners ==
  ASSUME CallInv, NEW c \in Calls, call[c].pc = "write", Writes(c)
  PROVE  LET p == call[c].position
         IN  /\ p \in Positions /\ p \in 1..called /\ p \notin deleted
             /\ call[c].by \in Users \cap profiles["employer"]
             /\ owner[p] \in {NoOne, call[c].by}
             /\ owner' = [owner EXCEPT ![p] = call[c].by]
             /\ \/ version' = version /\ deleted' = deleted \cup {p}
                   /\ call[c].op = "delete"
                \/ version' = [version EXCEPT ![p] = @ + 1] /\ deleted' = deleted
                   /\ call[c].op # "delete"
<1> USE DEF CallInv
<1> DEFINE p == call[c].position
<1>1. /\ p \in Positions /\ p \in 1..called
      /\ call[c].by \in Users \cap profiles["employer"]
  BY CallAssumption DEF Numbered, WritersOwn, TypeOK, Positions
<1>2. CASE CreateJobPosition(c)
  <2>1. owner[p] = NoOne /\ version[p] = 0 /\ p \notin deleted
    BY <1>1, <1>2 DEF CreationsAreNew, Creating, CreateJobPosition, Numbered, TypeOK
  <2>2. /\ owner' = [owner EXCEPT ![p] = call[c].by]
        /\ version' = [version EXCEPT ![p] = 1] /\ deleted' = deleted
        /\ call[c].op = "create"
    BY <1>2 DEF CreateJobPosition
  <2>3. version' = [version EXCEPT ![p] = @ + 1]
    BY <2>1, <2>2
  <2> QED BY <1>1, <2>1, <2>2, <2>3
<1>3. ASSUME call[c].op # "create", Active(p), owner' = owner
      PROVE  p \notin deleted /\ owner[p] = call[c].by
             /\ owner' = [owner EXCEPT ![p] = call[c].by]
  BY <1>1, <1>3 DEF Active, WritersOwn, TypeOK
<1>4. CASE UpdateActiveJobPosition(c)
  BY <1>1, <1>3, <1>4 DEF UpdateActiveJobPosition
<1>5. CASE SoftDeleteJobPosition(c)
  BY <1>1, <1>3, <1>5 DEF SoftDeleteJobPosition
<1> QED BY <1>2, <1>4, <1>5 DEF Writes

(* and the write, told of or not.                                          *)
LEMMA WriteStep ==
  ASSUME CallInv, ProfileTypeOK', NEW c \in Calls, call[c].pc = "write", Writes(c),
         call' = Ended(c) \/ call' = Goes(c, "publish"),
         profiles' = profiles, UNCHANGED <<notified, called>>
  PROVE  CallInv'
<1> DEFINE p == call[c].position
<1>1. /\ p \in Positions /\ p \in 1..called /\ p \notin deleted
      /\ call[c].by \in Users \cap profiles["employer"]
      /\ owner[p] \in {NoOne, call[c].by}
      /\ owner' = [owner EXCEPT ![p] = call[c].by]
      /\ \/ version' = version /\ deleted' = deleted \cup {p}
            /\ call[c].op = "delete"
         \/ version' = [version EXCEPT ![p] = @ + 1] /\ deleted' = deleted
            /\ call[c].op # "delete"
  BY WriteIsTheOwners
<1> USE DEF CallInv
<1>2. call[c].by # NoOne
  BY <1>1, ProfileAssumption
<1>3. /\ call'[c].pc \in {"idle", "publish"}
      /\ call'[c].pc # "idle" =>
           call'[c].by = call[c].by /\ call'[c].position = p
      /\ \A d \in Calls \ {c} : call'[d] = call[d]
      /\ call' \in [Calls -> CallRecords]
  <2>1. IdleCall \in CallRecords /\ IdleCall.pc = "idle"
    BY CallAssumption DEF IdleCall, CallRecords, Operations
  <2>2. CASE call' = Ended(c)
    BY <2>1, <2>2 DEF Ended, TypeOK, CallRecords
  <2>3. CASE call' = Goes(c, "publish")
    BY <2>3 DEF Goes, TypeOK, CallRecords
  <2> QED BY <2>2, <2>3
<1>4. /\ owner' \in [Positions -> Users \cup {NoOne}]
      /\ owner'[p] # NoOne
      /\ \A j \in Positions \ {p} : owner'[j] = owner[j]
      /\ \A j \in Positions : owner[j] # NoOne => owner'[j] = owner[j]
  BY <1>1, <1>2 DEF TypeOK
<1>5. TypeOK'
  <2>1. version' \in [Positions -> Nat]
    BY <1>1 DEF TypeOK
  <2>2. deleted' \subseteq {j \in Positions : owner'[j] # NoOne}
    BY <1>1, <1>4 DEF TypeOK
  <2> QED BY <1>3, <1>4, <2>1, <2>2 DEF TypeOK, CallRecords
<1>6. Numbered'
  <2>1. \A j \in Positions : j > called => owner'[j] = NoOne
    BY <1>1, <1>4 DEF Numbered, TypeOK
  <2>2. \A j \in Positions : owner'[j] = NoOne => version'[j] = 0
    BY <1>1, <1>4 DEF Numbered, TypeOK
  <2>3. \A d \in Calls : call'[d].pc # "idle" =>
          call'[d].by \in Users /\ call'[d].position \in 1..called
    BY <1>1, <1>3 DEF Numbered
  <2> QED BY <2>1, <2>2, <2>3 DEF Numbered
<1>7. CreationsAreNew'
  <2>1. \A d \in Calls : Creating(d)' => d # c /\ Creating(d) /\ call'[d] = call[d]
    BY <1>3 DEF Creating
  <2>2. \A d \in Calls : Creating(d)' => owner'[call[d].position] = NoOne
    <3> SUFFICES ASSUME NEW d \in Calls, Creating(d)'
                 PROVE  owner'[call[d].position] = NoOne
      OBVIOUS
    <3>1. d # c /\ Creating(d) /\ owner[call[d].position] = NoOne
      BY <2>1 DEF CreationsAreNew
    <3>2. call[d].position \in Positions
      BY <3>1, CallAssumption DEF Creating, Numbered, TypeOK, Positions
    <3>3. call[d].position # p
      <4>1. CASE call[c].op = "create"
        BY <3>1, <4>1 DEF CreationsAreNew, Creating
      <4>2. CASE call[c].op # "create"
        BY <1>2, <3>1, <4>2 DEF WritersOwn
      <4> QED BY <4>1, <4>2
    <3> QED BY <1>4, <3>1, <3>2, <3>3
  <2> QED BY <2>1, <2>2 DEF CreationsAreNew
<1>8. WritersOwn'
  <2> SUFFICES ASSUME NEW d \in Calls,
                      call'[d].pc \in {"position", "write"}
               PROVE  /\ call'[d].pc = "position" => call'[d].op # "create"
                      /\ call'[d].by \in profiles["employer"]
                      /\ call'[d].pc = "write" /\ call'[d].op # "create" =>
                           owner'[call'[d].position] = call'[d].by
    BY DEF WritersOwn
  <2>1. call'[d] = call[d]
    BY <1>3
  <2>2. call[d].position \in Positions /\ call[d].by # NoOne
    BY <2>1, CallAssumption, ProfileAssumption DEF Numbered, TypeOK, Positions
  <2> QED BY <1>4, <2>1, <2>2 DEF WritersOwn
<1> QED BY <1>5, <1>6, <1>7, <1>8

Inv == ProfileInv /\ CallInv

(* What a failure of a call may change.                                    *)
LEMMA FailureOf ==
  ASSUME NEW c \in Calls, Failure(c)
  PROVE  /\ faults \subseteq faults' /\ faults' \in SUBSET (faults \cup Faults)
         /\ \/ call' = Ended(c) /\ UNCHANGED <<owner, version, deleted, notified, called>>
               /\ (call[c].pc = "publish" => "crash" \in faults')
            \/ /\ call[c].pc = "write" /\ Writes(c) /\ call' = Ended(c)
               /\ UNCHANGED <<notified, called>> /\ "commitLost" \in faults'
BY DEF Failure, StatementFails, WriteReportedAsFailed, CallCrashes, Fault

(* Every step keeps the invariant.                                         *)
LEMMA InvStep ==
  ASSUME Inv, [Next]_vars
  PROVE  Inv'
<1> USE DEF Inv
<1>1. ASSUME UNCHANGED profileVars PROVE ProfileInv' /\ ProfileTypeOK' /\ profiles' = profiles
  <2>1. ProfileInv'
    BY <1>1, ProfileUnchanged DEF profileVars, ProfileInv, ProfileTypeOK
  <2> QED BY <1>1, <2>1 DEF ProfileInv, profileVars
<1>2. CASE UNCHANGED vars \/ Quiet
  <2>1. UNCHANGED profileVars /\ UNCHANGED positionVars
    BY <1>2 DEF vars, Quiet
  <2> QED BY <1>1, <2>1, CallUnchanged DEF profileVars
<1>3. CASE ProfileNext /\ UNCHANGED positionVars
  <2>1. ProfileInv' /\ ProfileTypeOK'
    BY <1>3, ProfileStep DEF ProfileInv
  <2>2. profiles["employer"] \subseteq profiles'["employer"]
    BY <1>3, ProfilesGrow DEF ProfileInv
  <2> QED BY <1>3, <2>1, <2>2, CallUnchanged
<1>4. ASSUME NEW c \in Calls, Handler(c), UNCHANGED profileVars PROVE Inv'
  <2> USE <1>4
  <2>1. ProfileInv' /\ ProfileTypeOK' /\ profiles' = profiles
    BY <1>1
  <2>2. CASE AskToCreate(c) \/ AskToChange(c)
    BY <2>1, <2>2, AskStep DEF ProfileInv
  <2>3. CASE ResolveEmployer(c) \/ ResolvePosition(c)
    BY <2>1, <2>3, ResolveStep
  <2>4. CASE Write(c)
    <3>1. /\ call[c].pc = "write" /\ Writes(c) /\ UNCHANGED <<notified, called>>
          /\ call' = Ended(c) \/ call' = Goes(c, "publish")
      BY <2>4 DEF Write
    <3> QED BY <2>1, <3>1, WriteStep
  <2>5. CASE Gone(c) \/ Publish(c)
    <3>1. /\ call' = Ended(c) /\ UNCHANGED <<owner, version, deleted, called>>
          /\ notified' \in [Positions -> Nat]
      BY <2>5 DEF Gone, Publish, CallInv, TypeOK
    <3> QED BY <2>1, <3>1, CallEnds
  <2> QED BY <2>2, <2>3, <2>4, <2>5 DEF Handler
<1>5. ASSUME NEW c \in Calls, Failure(c),
             UNCHANGED <<role, grants, profiles, holder, req, asked>>
      PROVE  Inv'
  <2>1. /\ faults' \in SUBSET (faults \cup Faults)
        /\ \/ call' = Ended(c) /\ UNCHANGED <<owner, version, deleted, notified, called>>
           \/ /\ call[c].pc = "write" /\ Writes(c) /\ call' = Ended(c)
              /\ UNCHANGED <<notified, called>>
    BY <1>5, FailureOf
  <2>2. faults' \in SUBSET Faults
    BY <2>1 DEF ProfileInv, ProfileTypeOK
  <2>3. ProfileInv' /\ ProfileTypeOK'
    BY <1>5, <2>2, ProfileUnchanged DEF ProfileInv
  <2>4. CASE call' = Ended(c) /\ UNCHANGED <<owner, version, deleted, notified, called>>
    <3>1. notified' \in [Positions -> Nat] /\ profiles' = profiles
      BY <1>5, <2>4 DEF CallInv, TypeOK
    <3> QED BY <2>3, <2>4, <3>1, CallEnds
  <2>5. CASE /\ call[c].pc = "write" /\ Writes(c) /\ call' = Ended(c)
             /\ UNCHANGED <<notified, called>>
    BY <1>5, <2>3, <2>5, WriteStep
  <2> QED BY <2>1, <2>3, <2>4, <2>5
<1> QED BY <1>2, <1>3, <1>4, <1>5 DEF Next

(* The invariant holds in every reachable state.                           *)
LEMMA Invariance == Spec => []Inv
<1>1. Init => Inv
  BY ProfileInitially, CallInitially DEF Init, Inv
<1> QED BY <1>1, InvStep, PTL DEF Spec

(* Types, of which the role of a token is the one that can go wrong.       *)
THEOREM TypesHold == Spec => []TypeOK
<1>1. Inv => TypeOK
  BY DEF Inv, CallInv
<1> QED BY <1>1, Invariance, PTL

(* No account has a profile of each kind, beside everything else the       *)
(* system does (sql/schema/0005).                                          *)
THEOREM OneKindHolds == Spec => []OneKindOfProfile
<1>1. Inv => OneKindOfProfile
  BY DEF Inv, ProfileInv
<1> QED BY <1>1, Invariance, PTL

(* The answer to a creation of a profile stays true (internal/employer,    *)
(* internal/employee).                                                     *)
THEOREM AnswersStayTrue == Spec => []AnswersAreTrue
<1>1. Inv => AnswersAreTrue
  BY AnswersFollow DEF Inv
<1> QED BY <1>1, Invariance, PTL

-----------------------------------------------------------------------------
(* The two halves of OnlyOwnersWrite.                                      *)
Written(j) ==
  \/ version'[j] # version[j] \/ owner'[j] # owner[j]
  \/ j \in deleted' /\ j \notin deleted

ByItsOwner(j) ==
  /\ j \notin deleted
  /\ owner'[j] \in profiles["employer"]
  /\ owner[j] \in {NoOne, owner'[j]}
  /\ \E c \in Calls : /\ call[c].pc = "write"
                      /\ call'[c].pc # "write"
                      /\ call[c].by = owner'[j]

(* A write follows a check of the owner, whom no write changes.            *)
LEMMA WrittenByOwner ==
  ASSUME CallInv, NEW c \in Calls, call[c].pc = "write", Writes(c),
         call' = Ended(c) \/ call' = Goes(c, "publish"), NEW j \in Positions, Written(j)
  PROVE  ByItsOwner(j)
<1> DEFINE p == call[c].position
<1>1. /\ p \in Positions /\ p \in 1..called /\ p \notin deleted
      /\ call[c].by \in Users \cap profiles["employer"]
      /\ owner[p] \in {NoOne, call[c].by}
      /\ owner' = [owner EXCEPT ![p] = call[c].by]
      /\ \/ version' = version /\ deleted' = deleted \cup {p}
            /\ call[c].op = "delete"
         \/ version' = [version EXCEPT ![p] = @ + 1] /\ deleted' = deleted
            /\ call[c].op # "delete"
  BY WriteIsTheOwners
<1>2. j = p
  BY <1>1 DEF Written, CallInv, TypeOK
<1>3. owner'[j] = call[c].by
  BY <1>1, <1>2 DEF CallInv, TypeOK
<1>4. call'[c].pc # "write"
  BY DEF Ended, Goes, IdleCall, CallInv, TypeOK
<1> QED BY <1>1, <1>2, <1>3, <1>4 DEF ByItsOwner

(* A step writes a position only for its owner.                            *)
LEMMA OwnersStep ==
  ASSUME Inv, [Next]_vars, NEW j \in Positions, Written(j)
  PROVE  ByItsOwner(j)
<1>1. ASSUME UNCHANGED <<owner, version, deleted>> PROVE FALSE
  BY <1>1 DEF Written
<1>2. CASE UNCHANGED vars \/ Quiet \/ (ProfileNext /\ UNCHANGED positionVars)
  BY <1>1, <1>2 DEF vars, Quiet, positionVars
<1>3. ASSUME NEW c \in Calls, Handler(c) PROVE ByItsOwner(j)
  <2>1. Write(c)
    BY <1>1, <1>3 DEF Handler, AskToCreate, AskToChange, Ask, ResolveEmployer,
                      ResolvePosition, Gone, Publish
  <2>2. /\ call[c].pc = "write" /\ Writes(c)
        /\ call' = Ended(c) \/ call' = Goes(c, "publish")
    BY <2>1 DEF Write
  <2> QED BY <2>2, WrittenByOwner DEF Inv
<1>4. ASSUME NEW c \in Calls, Failure(c) PROVE ByItsOwner(j)
  BY <1>1, <1>4, FailureOf, WrittenByOwner DEF Inv
<1> QED BY <1>2, <1>3, <1>4 DEF Next

(* A position is written by calls of its owner alone, and not at all once  *)
(* it is deleted (internal/jobposition/service.go).                        *)
THEOREM OwnersWrite == Spec => OnlyOwnersWrite
<1>1. ASSUME Inv, [Next]_vars
      PROVE  [\A j \in Positions :
                \/ version'[j] # version[j] \/ owner'[j] # owner[j]
                \/ j \in deleted' /\ j \notin deleted
                => /\ j \notin deleted
                   /\ owner'[j] \in profiles["employer"]
                   /\ owner[j] \in {NoOne, owner'[j]}
                   /\ \E c \in Calls : /\ call[c].pc = "write"
                                       /\ call'[c].pc # "write"
                                       /\ call[c].by = owner'[j]]_vars
  BY <1>1, OwnersStep DEF Written, ByItsOwner
<1> QED BY <1>1, Invariance, PTL DEF Spec, OnlyOwnersWrite

-----------------------------------------------------------------------------
Publishing(j) == {c \in Calls : call[c].pc = "publish" /\ call[c].position = j}
Due(j) == notified[j] + Cardinality(Publishing(j))
Lossless(f) == f \cap {"commitLost", "crash"} = {}

DueFollows(j) == Due(j) <= version[j] /\ (Lossless(faults) => Due(j) = version[j])

(* The property, position by position.                                     *)
LEMMA DueIsTheProperty == WritesAreNotified <=> \A j \in Positions : DueFollows(j)
BY DEF WritesAreNotified, DueFollows, Due, Publishing, Lossless

(* The notifications due to a position can be counted.                     *)
LEMMA PublishingIsFinite ==
  ASSUME TypeOK, NEW j \in Positions
  PROVE  /\ IsFiniteSet(Publishing(j)) /\ Cardinality(Publishing(j)) \in Nat
         /\ Due(j) \in Nat /\ version[j] \in Nat /\ notified[j] \in Nat
<1>1. IsFiniteSet(Publishing(j))
  BY CallAssumption, FS_Subset DEF Publishing
<1> QED BY <1>1, FS_CardinalityType DEF Due, TypeOK

(* No call begins or ends to publish.                                      *)
LEMMA SamePublishing ==
  ASSUME TypeOK, NEW j \in Positions, DueFollows(j), faults \subseteq faults',
         notified' = notified, Publishing(j)' = Publishing(j),
         \/ version'[j] = version[j]
         \/ version'[j] = version[j] + 1 /\ ~Lossless(faults')
  PROVE  DueFollows(j)'
BY PublishingIsFinite DEF DueFollows, Due, Lossless

(* A write makes one more notification due.                                *)
LEMMA OneMorePublishing ==
  ASSUME TypeOK, NEW j \in Positions, DueFollows(j), faults \subseteq faults',
         notified' = notified, version'[j] = version[j] + 1,
         NEW c \in Calls, c \notin Publishing(j), Publishing(j)' = Publishing(j) \cup {c}
  PROVE  DueFollows(j)'
<1>1. Cardinality(Publishing(j)') = Cardinality(Publishing(j)) + 1
  BY PublishingIsFinite, FS_AddElement
<1> QED BY <1>1, PublishingIsFinite DEF DueFollows, Due, Lossless

(* A notification made, or lost by a fault, is due no more.                *)
LEMMA OneLessPublishing ==
  ASSUME TypeOK, NEW j \in Positions, DueFollows(j), faults \subseteq faults',
         version'[j] = version[j],
         NEW c \in Publishing(j), Publishing(j)' = Publishing(j) \ {c},
         \/ notified'[j] = notified[j] + 1
         \/ notified'[j] = notified[j] /\ ~Lossless(faults')
  PROVE  DueFollows(j)'
<1>1. Cardinality(Publishing(j)') = Cardinality(Publishing(j)) - 1
  BY PublishingIsFinite, FS_RemoveElement
<1> QED BY <1>1, PublishingIsFinite DEF DueFollows, Due, Lossless

(* How a step of one call changes who publishes position j.                *)
LEMMA PublishingOf ==
  ASSUME TypeOK, NEW c \in Calls, NEW j \in Positions,
         NEW q, call' = [call EXCEPT ![c] = q]
  PROVE  Publishing(j)' = IF q.pc = "publish" /\ q.position = j
                          THEN Publishing(j) \cup {c} ELSE Publishing(j) \ {c}
BY DEF Publishing, TypeOK

(* Every step keeps the count of due notifications.                        *)
LEMMA DueStep ==
  ASSUME Inv, [Next]_vars, NEW j \in Positions, DueFollows(j)
  PROVE  DueFollows(j)'
<1>1. TypeOK
  BY DEF Inv, CallInv
<1>2. ASSUME UNCHANGED <<call, version, notified>>, faults \subseteq faults'
      PROVE  DueFollows(j)'
  BY <1>1, <1>2, SamePublishing DEF Publishing
<1>3. CASE UNCHANGED vars \/ Quiet \/ (ProfileNext /\ UNCHANGED positionVars)
  BY <1>2, <1>3, ProfilesGrow DEF vars, Quiet, positionVars, profileVars, Inv, ProfileInv
<1>4. ASSUME NEW c \in Calls, call[c].pc # "publish",
             NEW q, call' = [call EXCEPT ![c] = q], q.pc # "publish",
             notified' = notified, faults \subseteq faults',
             \/ version'[j] = version[j]
             \/ version'[j] = version[j] + 1 /\ ~Lossless(faults')
      PROVE  DueFollows(j)'
  <2>1. Publishing(j)' = Publishing(j)
    BY <1>1, <1>4, PublishingOf DEF Publishing
  <2> QED BY <1>1, <1>4, <2>1, SamePublishing
<1>5. ASSUME NEW c \in Calls, call[c].pc = "write", Writes(c)
      PROVE  LET p == call[c].position
             IN  \/ version' = version /\ call[c].op = "delete"
                 \/ version' = [version EXCEPT ![p] = @ + 1]
                    /\ call[c].op # "delete" /\ p \in Positions
  BY <1>5, WriteIsTheOwners DEF Inv
<1>6. IdleCall.pc = "idle"
  BY DEF IdleCall
<1>7. ASSUME NEW c \in Calls, Handler(c), faults' = faults PROVE DueFollows(j)'
  <2>1. CASE AskToCreate(c) \/ AskToChange(c)
    BY <1>4, <1>7, <2>1 DEF AskToCreate, AskToChange, Ask
  <2>2. CASE ResolveEmployer(c) \/ ResolvePosition(c) \/ Gone(c)
    <3>1. /\ call[c].pc \notin {"idle", "publish"}
          /\ UNCHANGED <<version, notified>>
          /\ \/ call' = Ended(c)
             \/ \E pc \in {"position", "write"} : call' = Goes(c, pc)
      BY <2>2 DEF ResolveEmployer, ResolvePosition, Gone
    <3>2. PICK q : call' = [call EXCEPT ![c] = q] /\ q.pc # "publish"
      <4>1. CASE call' = Ended(c)
        BY <1>6, <4>1 DEF Ended
      <4>2. ASSUME NEW pc \in {"position", "write"}, call' = Goes(c, pc)
            PROVE  call' = [call EXCEPT ![c] = [call[c] EXCEPT !.pc = pc]]
                   /\ [call[c] EXCEPT !.pc = pc].pc # "publish"
        BY <1>1, <4>2 DEF Goes, TypeOK
      <4> QED BY <3>1, <4>1, <4>2
    <3> QED BY <1>4, <1>7, <3>1, <3>2
  <2>3. CASE Write(c)
    <3> DEFINE p == call[c].position
               q == [call[c] EXCEPT !.pc = "publish"]
    <3>1. call[c].pc = "write" /\ Writes(c) /\ notified' = notified
      BY <2>3 DEF Write
    <3>2. CASE call[c].op = "delete"
      BY <1>4, <1>5, <1>6, <1>7, <2>3, <3>1, <3>2 DEF Write, Ended
    <3>3. CASE call[c].op # "delete"
      <4>1. version' = [version EXCEPT ![p] = @ + 1] /\ p \in Positions
        BY <1>5, <3>1, <3>3
      <4>2. call' = [call EXCEPT ![c] = q] /\ q.pc = "publish" /\ q.position = p
        BY <1>1, <2>3, <3>3 DEF Write, Goes, TypeOK
      <4>3. Publishing(j)' = IF p = j THEN Publishing(j) \cup {c}
                             ELSE Publishing(j) \ {c}
        <5> HIDE DEF q
        <5> QED BY <1>1, <4>2, PublishingOf
      <4>4. c \notin Publishing(j)
        BY <3>1 DEF Publishing
      <4>5. CASE p = j
        BY <1>1, <1>7, <3>1, <4>1, <4>3, <4>4, <4>5, OneMorePublishing DEF TypeOK
      <4>6. CASE p # j
        BY <1>1, <1>7, <3>1, <4>1, <4>3, <4>4, <4>6, SamePublishing DEF TypeOK
      <4> QED BY <4>5, <4>6
    <3> QED BY <3>2, <3>3
  <2>4. CASE Publish(c)
    <3>1. Publishing(j)' = Publishing(j) \ {c}
      BY <1>1, <1>6, <2>4, PublishingOf DEF Publish, Ended
    <3>2. version' = version /\ notified' = [notified EXCEPT ![call[c].position] = @ + 1]
          /\ call[c].pc = "publish"
      BY <2>4 DEF Publish
    <3>3. CASE call[c].position = j
      BY <1>1, <1>7, <3>1, <3>2, <3>3, OneLessPublishing DEF TypeOK, Publishing
    <3>4. CASE call[c].position # j
      <4>1. Publishing(j)' = Publishing(j) /\ notified'[j] = notified[j]
        BY <1>1, <3>1, <3>2, <3>4 DEF Publishing, TypeOK
      <4> QED BY <1>1, <1>7, <3>2, <4>1 DEF DueFollows, Due
    <3> QED BY <3>3, <3>4
  <2> QED BY <1>7, <2>1, <2>2, <2>3, <2>4 DEF Handler
<1>8. ASSUME NEW c \in Calls, Failure(c) PROVE DueFollows(j)'
  <2>1. faults \subseteq faults' /\ call' = [call EXCEPT ![c] = IdleCall]
        /\ notified' = notified
    BY <1>8, FailureOf DEF Ended
  <2>2. CASE call[c].pc # "publish"
    <3>1. \/ version' = version
          \/ call[c].pc = "write" /\ Writes(c) /\ "commitLost" \in faults'
      BY <1>8, FailureOf
    <3>2. \/ version'[j] = version[j]
          \/ version'[j] = version[j] + 1 /\ ~Lossless(faults')
      BY <1>1, <1>5, <3>1 DEF TypeOK, Lossless
    <3> QED BY <1>4, <1>6, <2>1, <2>2, <3>2
  <2>3. CASE call[c].pc = "publish"
    <3>1. version' = version /\ "crash" \in faults'
      BY <1>8, <2>3, FailureOf
    <3>2. Publishing(j)' = Publishing(j) \ {c}
      BY <1>1, <1>6, <2>1, PublishingOf
    <3>3. CASE c \in Publishing(j)
      BY <1>1, <2>1, <3>1, <3>2, <3>3, OneLessPublishing DEF Lossless
    <3>4. CASE c \notin Publishing(j)
      BY <1>1, <2>1, <3>1, <3>2, <3>4, SamePublishing
    <3> QED BY <3>3, <3>4
  <2> QED BY <2>2, <2>3
<1> QED BY <1>3, <1>7, <1>8 DEF Next, profileVars

(* Every write of a position is notified once and nothing else is, unless  *)
(* a crash or a lost answer keeps it (jobposition notify).                 *)
THEOREM WritesNotified == Spec => []WritesAreNotified
<1> DEFINE All == \A j \in Positions : DueFollows(j)
<1>1. Init => All
  <2> SUFFICES ASSUME Init, NEW j \in Positions PROVE DueFollows(j)
    OBVIOUS
  <2>1. Publishing(j) = {}
    BY DEF Init, Publishing, IdleCall
  <2>2. version[j] = 0 /\ notified[j] = 0 /\ Cardinality({}) = 0
    BY FS_EmptySet DEF Init
  <2> QED BY <2>1, <2>2 DEF DueFollows, Due
<1>2. Inv /\ All /\ [Next]_vars => All'
  <2> SUFFICES ASSUME Inv, All, [Next]_vars, NEW j \in Positions PROVE DueFollows(j)'
    BY DEF Positions
  <2> QED BY DueStep
<1>3. All => WritesAreNotified
  BY DueIsTheProperty
<1> QED BY <1>1, <1>2, <1>3, Invariance, PTL DEF Spec

(* When no call is under way, every position was notified of as often as   *)
(* it was written, whatever calls overlapped before: as long as no answer  *)
(* was lost and nothing died.                                              *)
THEOREM NotifiedAtRest ==
  Spec => [](/\ \A c \in Calls : call[c].pc = "idle"
             /\ faults \cap {"commitLost", "crash"} = {}
             => \A j \in Positions : notified[j] = version[j])
<1>1. ASSUME Inv, WritesAreNotified
      PROVE  /\ \A c \in Calls : call[c].pc = "idle"
             /\ faults \cap {"commitLost", "crash"} = {}
             => \A j \in Positions : notified[j] = version[j]
  <2> SUFFICES ASSUME \A c \in Calls : call[c].pc = "idle",
                      faults \cap {"commitLost", "crash"} = {}, NEW j \in Positions
               PROVE  notified[j] = version[j]
    OBVIOUS
  <2>1. {c \in Calls : call[c].pc = "publish" /\ call[c].position = j} = {}
    OBVIOUS
  <2>2. notified[j] \in Nat /\ version[j] \in Nat
    BY <1>1 DEF Inv, CallInv, TypeOK
  <2> QED BY <1>1, <2>1, <2>2, FS_EmptySet DEF WritesAreNotified
<1> QED BY <1>1, Invariance, WritesNotified, PTL

-----------------------------------------------------------------------------
(* What the recommendations see of the positions.  For the tables of the   *)
(* recommendations, of which only the job positions are looked at here,    *)
(* the active positions are the published ones, and no position is written *)
(* more often than there are calls.                                        *)
Published == {j \in Positions : Active(j)}
Empty == [b \in {} |-> 0]

Domain == INSTANCE RecommendationTables
  WITH Employees <- {}, Jobs <- Positions, MaxBatches <- 0, MaxVersion <- MaxCalls, None <- 0,
       active <- Published,
       nextBatch <- 1, subjectOf <- Empty, status <- Empty, recs <- {}, opened <- Empty

(* Calls that may still write.                                             *)
Working == {c \in Calls : call[c].pc \notin {"idle", "publish"}}
WritesAreCounted == \A j \in Positions : version[j] + Cardinality(Working) <= called

LEMMA WorkingIsFinite == IsFiniteSet(Working) /\ Cardinality(Working) \in Nat
<1>1. IsFiniteSet(Working)
  BY CallAssumption, FS_Subset DEF Working
<1> QED BY <1>1, FS_CardinalityType

(* How a step of one call changes who may still write.                     *)
LEMMA WorkingAfter ==
  ASSUME TypeOK, NEW c \in Calls, NEW q, call' = [call EXCEPT ![c] = q]
  PROVE  Working' = IF q.pc \in {"idle", "publish"} THEN Working \ {c} ELSE Working \cup {c}
BY DEF Working, TypeOK

(* A call that ends, goes on or begins: no position is written.            *)
LEMMA CountKept ==
  ASSUME TypeOK, WritesAreCounted, version' = version,
         \/ called' = called /\ Working' \subseteq Working
         \/ called' = called + 1 /\ \E c \in Calls : Working' = Working \cup {c}
  PROVE  WritesAreCounted'
<1>1. called \in Nat /\ \A j \in Positions : version[j] \in Nat
  BY CallAssumption DEF TypeOK
<1>2. CASE called' = called /\ Working' \subseteq Working
  <2>1. Cardinality(Working') <= Cardinality(Working) /\ Cardinality(Working') \in Nat
    BY <1>2, WorkingIsFinite, FS_Subset, FS_CardinalityType
  <2> QED BY <1>1, <1>2, <2>1, WorkingIsFinite DEF WritesAreCounted
<1>3. ASSUME called' = called + 1, NEW c \in Calls, Working' = Working \cup {c}
      PROVE  WritesAreCounted'
  <2>1. Cardinality(Working \cup {c}) \in {Cardinality(Working), Cardinality(Working) + 1}
    BY WorkingIsFinite, FS_AddElement
  <2>2. Cardinality(Working') <= Cardinality(Working) + 1 /\ Cardinality(Working') \in Nat
    BY <1>3, <2>1, WorkingIsFinite
  <2> QED BY <1>1, <1>3, <2>2, WorkingIsFinite DEF WritesAreCounted
<1> QED BY <1>2, <1>3

(* A call that writes may not do so again.                                 *)
LEMMA CountWritten ==
  ASSUME TypeOK, WritesAreCounted, NEW c \in Working, Working' = Working \ {c},
         called' = called,
         \A j \in Positions : version'[j] \in {version[j], version[j] + 1}
  PROVE  WritesAreCounted'
<1>1. called \in Nat /\ \A j \in Positions : version[j] \in Nat
  BY CallAssumption DEF TypeOK
<1>2. Cardinality(Working') = Cardinality(Working) - 1
  BY WorkingIsFinite, FS_RemoveElement
<1> QED BY <1>1, <1>2, WorkingIsFinite DEF WritesAreCounted

(* A write of a call, told of or not, is one of the two the tables know.   *)
LEMMA WriteIsTheDomains ==
  ASSUME Inv, WritesAreCounted, NEW c \in Calls, call[c].pc = "write", Writes(c),
         call' = Ended(c) \/ call' = Goes(c, "publish"), called' = called
  PROVE  Domain!TablesNext /\ WritesAreCounted'
<1> DEFINE p == call[c].position
<1>1. TypeOK
  BY DEF Inv, CallInv
<1>2. /\ p \in Positions /\ p \notin deleted
      /\ call[c].by \in Users
      /\ owner[p] \in {NoOne, call[c].by}
      /\ owner' = [owner EXCEPT ![p] = call[c].by]
      /\ \/ version' = version /\ deleted' = deleted \cup {p}
            /\ call[c].op = "delete"
         \/ version' = [version EXCEPT ![p] = @ + 1] /\ deleted' = deleted
            /\ call[c].op # "delete"
  BY WriteIsTheOwners DEF Inv
<1>3. call[c].by # NoOne
  BY <1>2, ProfileAssumption
<1>4. c \in Working
  BY DEF Working
<1>5. version[p] < MaxCalls
  <2>1. Cardinality(Working) # 0
    BY <1>4, WorkingIsFinite, FS_EmptySet
  <2>2. version[p] \in Nat /\ called \in 0..MaxCalls /\ version[p] + Cardinality(Working) <= called
    BY <1>1, <1>2 DEF TypeOK, WritesAreCounted
  <2> QED BY <2>1, <2>2, WorkingIsFinite, CallAssumption
<1>6. Working' = Working \ {c}
  <2>1. PICK q : call' = [call EXCEPT ![c] = q] /\ q.pc \in {"idle", "publish"}
    <3>1. CASE call' = Ended(c)
      <4>1. IdleCall.pc = "idle"
        BY DEF IdleCall
      <4> QED BY <3>1, <4>1 DEF Ended
    <3>2. CASE call' = Goes(c, "publish")
      <4>1. call' = [call EXCEPT ![c] = [call[c] EXCEPT !.pc = "publish"]]
            /\ [call[c] EXCEPT !.pc = "publish"].pc = "publish"
        BY <1>1, <3>2 DEF Goes, TypeOK
      <4> QED BY <4>1
    <3> QED BY <3>1, <3>2
  <2> QED BY <1>1, <2>1, WorkingAfter
<1>7. WritesAreCounted'
  <2>1. \A j \in Positions : version'[j] \in {version[j], version[j] + 1}
    BY <1>1, <1>2 DEF TypeOK
  <2> QED BY <1>1, <1>4, <1>6, <2>1, CountWritten
<1>8. \A j \in Positions \ {p} : owner'[j] = owner[j] /\ (j \in deleted' <=> j \in deleted)
  BY <1>1, <1>2 DEF TypeOK
<1>9. owner'[p] = call[c].by
  BY <1>1, <1>2 DEF TypeOK
<1>10. CASE call[c].op = "delete"
  <2>1. owner[p] = call[c].by
    BY <1>10 DEF Inv, CallInv, WritersOwn
  <2>2. p \in Published /\ Published' = Published \ {p} /\ version' = version
    BY <1>2, <1>3, <1>8, <1>10, <2>1 DEF Published, Active
  <2>3. Domain!SoftDelete(p)
    BY <2>2 DEF Domain!SoftDelete, Domain!SoftDeleteJobPosition, Domain!store
  <2> QED BY <1>2, <1>7, <2>3 DEF Domain!TablesNext
<1>11. CASE call[c].op # "delete"
  <2>1. Published' = Published \cup {p} /\ version' = [version EXCEPT ![p] = @ + 1]
    BY <1>2, <1>3, <1>8, <1>9, <1>11 DEF Published, Active
  <2>2. p \in Published \/ version[p] = 0
    BY <1>2, <1>3 DEF Published, Active, Inv, CallInv, Numbered
  <2>3. Domain!Write(p)
    BY <1>2, <1>5, <2>1, <2>2 DEF Domain!Write, Domain!PersistWrite, Domain!Writable, Domain!store
  <2> QED BY <1>2, <1>7, <2>3 DEF Domain!TablesNext, Domain!Subjects
<1> QED BY <1>10, <1>11

(* Every step of a call is a write or a deletion, or changes no position.  *)
LEMMA DomainStep ==
  ASSUME Inv, WritesAreCounted, [Next]_vars
  PROVE  [Domain!TablesNext]_(Domain!tables) /\ WritesAreCounted'
<1>1. TypeOK
  BY DEF Inv, CallInv
<1>2. ASSUME UNCHANGED <<owner, version, deleted>>
      PROVE  UNCHANGED Domain!tables
  BY <1>2 DEF Domain!tables, Domain!domain, Domain!store, Published, Active
<1>3. CASE UNCHANGED vars \/ Quiet \/ (ProfileNext /\ UNCHANGED positionVars)
  <2>1. UNCHANGED <<owner, version, deleted, call, called>>
    BY <1>3 DEF vars, Quiet, positionVars
  <2>2. Working' = Working
    BY <2>1 DEF Working
  <2> QED BY <1>1, <1>2, <2>1, <2>2, CountKept
<1>4. IdleCall.pc = "idle"
  BY DEF IdleCall
<1>5. ASSUME NEW c \in Calls, Handler(c)
      PROVE  [Domain!TablesNext]_(Domain!tables) /\ WritesAreCounted'
  <2>1. CASE AskToCreate(c) \/ AskToChange(c)
    <3>1. PICK q : call' = [call EXCEPT ![c] = q] /\ q.pc = "employer"
      <4>1. ASSUME NEW op, NEW g, NEW e, NEW j, Ask(c, op, g, e, j)
            PROVE  \E q : call' = [call EXCEPT ![c] = q] /\ q.pc = "employer"
        <5> DEFINE q == [pc |-> "employer", op |-> op, by |-> g.user, at |-> e, position |-> j]
        <5>1. call' = [call EXCEPT ![c] = q] /\ q.pc = "employer"
          BY <4>1 DEF Ask
        <5> HIDE DEF q
        <5> QED BY <5>1
      <4> QED BY <2>1, <4>1 DEF AskToCreate, AskToChange
    <3>2. UNCHANGED <<owner, version, deleted>> /\ called' = called + 1
      BY <2>1 DEF AskToCreate, AskToChange, Ask
    <3>3. Working' = Working \cup {c}
      BY <1>1, <3>1, WorkingAfter
    <3> QED BY <1>1, <1>2, <3>2, <3>3, CountKept
  <2>2. CASE ResolveEmployer(c) \/ ResolvePosition(c) \/ Gone(c) \/ Publish(c)
    <3>1. /\ UNCHANGED <<owner, version, deleted, called>>
          /\ \/ call' = Ended(c)
             \/ /\ call[c].pc \in {"employer", "position"}
                /\ \E pc \in {"position", "write"} : call' = Goes(c, pc)
      BY <2>2 DEF ResolveEmployer, ResolvePosition, Gone, Publish
    <3>2. Working' \subseteq Working
      <4>1. CASE call' = Ended(c)
        BY <1>1, <1>4, <4>1, WorkingAfter DEF Ended
      <4>2. ASSUME NEW pc \in {"position", "write"}, call' = Goes(c, pc),
                   call[c].pc \in {"employer", "position"}
            PROVE  Working' \subseteq Working
        <5>1. PICK q : call' = [call EXCEPT ![c] = q] /\ q.pc \notin {"idle", "publish"}
          <6>1. call' = [call EXCEPT ![c] = [call[c] EXCEPT !.pc = pc]]
                /\ [call[c] EXCEPT !.pc = pc].pc \notin {"idle", "publish"}
            BY <1>1, <4>2 DEF Goes, TypeOK
          <6> QED BY <6>1
        <5>2. c \in Working
          BY <4>2 DEF Working
        <5> QED BY <1>1, <5>1, <5>2, WorkingAfter
      <4> QED BY <3>1, <4>1, <4>2
    <3> QED BY <1>1, <1>2, <3>1, <3>2, CountKept
  <2>3. CASE Write(c)
    <3>1. /\ call[c].pc = "write" /\ Writes(c) /\ called' = called
          /\ call' = Ended(c) \/ call' = Goes(c, "publish")
      BY <2>3 DEF Write
    <3> QED BY <3>1, WriteIsTheDomains
  <2> QED BY <1>5, <2>1, <2>2, <2>3 DEF Handler
<1>6. ASSUME NEW c \in Calls, Failure(c)
      PROVE  [Domain!TablesNext]_(Domain!tables) /\ WritesAreCounted'
  <2>1. CASE call' = Ended(c) /\ UNCHANGED <<owner, version, deleted, called>>
    <3>1. Working' \subseteq Working
      BY <1>1, <1>4, <2>1, WorkingAfter DEF Ended
    <3> QED BY <1>1, <1>2, <2>1, <3>1, CountKept
  <2>2. CASE call[c].pc = "write" /\ Writes(c) /\ call' = Ended(c) /\ called' = called
    BY <2>2, WriteIsTheDomains
  <2> QED BY <1>6, <2>1, <2>2, FailureOf
<1> QED BY <1>3, <1>5, <1>6 DEF Next

(* The calls on positions do to them what the pipeline and the queries     *)
(* take for granted: a position is published by its first write, written   *)
(* only while it is active, one at a time, and deleted once for good       *)
(* (RecommendationTables, with neither employees nor batches).             *)
THEOREM PositionsAreTheDomain == Spec => Domain!TablesSpec
<1>1. Init => Domain!StoreInit /\ WritesAreCounted
  <2> SUFFICES ASSUME Init PROVE Domain!StoreInit /\ WritesAreCounted
    OBVIOUS
  <2>1. /\ version = [j \in Positions |-> 0] /\ called = 0 /\ owner = [j \in Positions |-> NoOne]
        /\ \A c \in Calls : call[c].pc = "idle"
    BY DEF Init, IdleCall
  <2>2. Published = {} /\ Working = {}
    BY <2>1 DEF Published, Active, Working
  <2>3. 1..0 = {}
    OBVIOUS
  <2>4. Domain!StoreInit
    BY <2>1, <2>2, <2>3 DEF Domain!StoreInit, Domain!Subjects, Domain!BatchIds, Empty
  <2>5. WritesAreCounted
    BY <2>1, <2>2, FS_EmptySet DEF WritesAreCounted
  <2> QED BY <2>4, <2>5
<1> QED BY <1>1, DomainStep, Invariance, PTL DEF Spec, Domain!TablesSpec
=============================================================================
