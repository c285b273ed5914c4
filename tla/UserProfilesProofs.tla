-------------------------- MODULE UserProfilesProofs --------------------------
(***************************************************************************)
(* Proofs about the profiles of accounts: no account has both, and every   *)
(* answer is true, for any accounts, requests and faults.                  *)
(***************************************************************************)
EXTENDS UserProfiles, TLAPS

(* A transaction holds the lock of its account from its first look at the  *)
(* tables until it ends ...                                                *)
InsertsAreLocked ==
  \A r \in Requests :
    req[r].pc \in {"insert", "commit"} => holder[req[r].user] = r

(* ... so what it saw there is still so when it commits.                   *)
CommitsAreFirst ==
  \A r \in Requests : req[r].pc = "commit" => ~HasOwn(req[r]) /\ ~HasOther(req[r])

(* Tokens carry the role of their account, and through the service so do   *)
(* the inserts.                                                            *)
GrantsMatch == \A g \in grants : role[g.user] = g.role
InsertsMatch ==
  \A r \in Requests : req[r].pc # "idle" =>
    /\ req[r].answer = "pending"
    /\ req[r].user \in Unchecked \/ role[req[r].user] = req[r].kind

(* What one request was told.                                              *)
AnswerIsTrue(q) ==
  /\ q.answer \in {"created", "exists", "conflict"} => q.user \in Users
  /\ q.answer = "created" =>
       HasOwn(q) /\ (q.user \in Unchecked \/ role[q.user] = q.kind)
  /\ q.answer = "exists" => HasOwn(q)
  /\ q.answer = "conflict" => HasOther(q)

CreatedOnce ==
  \A r, o \in Requests :
    /\ req[r].answer = "created"
    /\ req[o].answer = "created"
    /\ req[r].user = req[o].user
    => r = o

ProfileInv ==
  /\ ProfileTypeOK
  /\ OneKindOfProfile
  /\ InsertsAreLocked
  /\ CommitsAreFirst
  /\ GrantsMatch
  /\ InsertsMatch
  /\ \A r \in Requests : AnswerIsTrue(req[r])
  /\ CreatedOnce

(* No account and no request satisfy the invariant.                        *)
LEMMA ProfileInitially == ProfileInit => ProfileInv
BY ProfileAssumption, SMTT(30)
DEF ProfileInit, ProfileInv, ProfileTypeOK, OneKindOfProfile, InsertsAreLocked,
    CommitsAreFirst, GrantsMatch, InsertsMatch, AnswerIsTrue, CreatedOnce, Rest,
    Roles, Answers, Principals, Other, HasOwn, HasOther

(* Nothing but the faults that occurred is changed by what other parts of  *)
(* the system do.                                                          *)
LEMMA ProfileUnchanged ==
  ASSUME ProfileInv, faults' \in SUBSET Faults,
         UNCHANGED <<role, grants, profiles, holder, req, asked>>
  PROVE  ProfileInv'
BY DEF ProfileInv, ProfileTypeOK, OneKindOfProfile, InsertsAreLocked,
       CommitsAreFirst, GrantsMatch, InsertsMatch, AnswerIsTrue, CreatedOnce,
       HasOwn, HasOther

(* Registering and logging in keep it.                                     *)
LEMMA AccountStep ==
  ASSUME ProfileInv, NEW u \in Users,
         Login(u) \/ \E k \in Roles : SaveUser(u, k)
  PROVE  ProfileInv'
<1>1. CASE Login(u)
  BY <1>1 DEF ProfileInv, ProfileTypeOK, OneKindOfProfile, InsertsAreLocked,
       CommitsAreFirst, GrantsMatch, InsertsMatch, AnswerIsTrue, CreatedOnce,
       HasOwn, HasOther, Login, Principals
<1>2. ASSUME NEW k \in Roles, SaveUser(u, k) PROVE ProfileInv'
  BY <1>2 DEF ProfileInv, ProfileTypeOK, OneKindOfProfile, InsertsAreLocked,
       CommitsAreFirst, GrantsMatch, InsertsMatch, AnswerIsTrue, CreatedOnce,
       HasOwn, HasOther, SaveUser, Principals, Roles
<1> QED BY <1>1, <1>2

(* So does accepting a creation of a profile,                              *)
LEMMA CreateStep ==
  ASSUME ProfileInv, NEW r \in Requests, NEW g \in grants, NEW k \in Roles,
         CreateProfile(r, g, k)
  PROVE  ProfileInv'
<1> USE DEF CreateProfile, ProfileInv
<1>1. g \in Principals /\ role[g.user] = g.role
  BY DEF ProfileTypeOK, GrantsMatch
<1>2. ProfileTypeOK'
  BY <1>1 DEF ProfileTypeOK, Principals, Answers
<1>3. OneKindOfProfile' /\ GrantsMatch'
  BY DEF OneKindOfProfile, GrantsMatch
<1>4. InsertsAreLocked' /\ CommitsAreFirst'
  BY DEF InsertsAreLocked, CommitsAreFirst, ProfileTypeOK, HasOwn, HasOther
<1>5. InsertsMatch'
  BY <1>1 DEF InsertsMatch, ProfileTypeOK, AuthorizeProfileRole
<1>6. (\A q \in Requests : AnswerIsTrue(req[q]))'
  BY DEF AnswerIsTrue, ProfileTypeOK, HasOwn, HasOther
<1>7. CreatedOnce'
  BY DEF CreatedOnce, ProfileTypeOK
<1> QED BY <1>2, <1>3, <1>4, <1>5, <1>6, <1>7

(* taking the lock of an account,                                          *)
LEMMA LockStep ==
  ASSUME ProfileInv, NEW r \in Requests, Lock(r)
  PROVE  ProfileInv'
<1> USE DEF Lock, ProfileInv
<1>1. ProfileTypeOK'
  BY DEF ProfileTypeOK
<1>2. OneKindOfProfile' /\ GrantsMatch'
  BY DEF OneKindOfProfile, GrantsMatch
<1>3. InsertsAreLocked'
  BY ProfileAssumption DEF InsertsAreLocked, ProfileTypeOK
<1>4. CommitsAreFirst' /\ InsertsMatch' /\ CreatedOnce'
  BY DEF CommitsAreFirst, InsertsMatch, CreatedOnce, ProfileTypeOK, HasOwn, HasOther
<1>5. (\A q \in Requests : AnswerIsTrue(req[q]))'
  BY DEF AnswerIsTrue, ProfileTypeOK, HasOwn, HasOther
<1> QED BY <1>1, <1>2, <1>3, <1>4, <1>5

(* inserting under it, where no other transaction looks,                   *)
LEMMA InsertStep ==
  ASSUME ProfileInv, NEW r \in Requests, Insert(r)
  PROVE  ProfileInv'
<1> USE DEF Insert, ProfileInv
<1>1. ProfileTypeOK'
  BY DEF ProfileTypeOK
<1>2. OneKindOfProfile' /\ GrantsMatch'
  BY DEF OneKindOfProfile, GrantsMatch
<1>3. InsertsAreLocked'
  BY DEF InsertsAreLocked, ProfileTypeOK
<1>4. CommitsAreFirst' /\ InsertsMatch' /\ CreatedOnce'
  BY DEF CommitsAreFirst, InsertsMatch, CreatedOnce, ProfileTypeOK, HasOwn, HasOther
<1>5. (\A q \in Requests : AnswerIsTrue(req[q]))'
  BY DEF AnswerIsTrue, ProfileTypeOK, HasOwn, HasOther
<1> QED BY <1>1, <1>2, <1>3, <1>4, <1>5

(* A request that ends without a row of its own: refused, failed, died.    *)
LEMMA EndStep ==
  ASSUME ProfileInv, NEW r \in Requests, NEW q, req' = [req EXCEPT ![r] = q],
         q \in [pc: {"idle"}, user: Users \cup {NoOne}, kind: Roles, answer: Answers],
         AnswerIsTrue(q), q.answer # "created",
         holder' = Released(r), faults' \in SUBSET Faults,
         UNCHANGED <<role, grants, profiles, asked>>
  PROVE  ProfileInv'
<1> USE DEF ProfileInv
<1>1. ProfileTypeOK'
  BY DEF ProfileTypeOK, Released
<1>2. OneKindOfProfile' /\ GrantsMatch'
  BY DEF OneKindOfProfile, GrantsMatch
<1>3. InsertsAreLocked'
  BY DEF InsertsAreLocked, ProfileTypeOK, Released
<1>4. CommitsAreFirst' /\ InsertsMatch' /\ CreatedOnce'
  BY DEF CommitsAreFirst, InsertsMatch, CreatedOnce, ProfileTypeOK, HasOwn, HasOther
<1>5. (\A o \in Requests : AnswerIsTrue(req[o]))'
  BY DEF AnswerIsTrue, ProfileTypeOK, HasOwn, HasOther
<1> QED BY <1>1, <1>2, <1>3, <1>4, <1>5

(* and every way a creation fails.                                         *)
LEMMA EndingsStep ==
  ASSUME ProfileInv, NEW r \in Requests,
         Refuse(r) \/ TransactionFails(r) \/ Crash(r)
  PROVE  ProfileInv'
<1>1. CASE Refuse(r)
  <2> DEFINE q == [req[r] EXCEPT !.pc = "idle", !.answer = Refusal(req[r])]
  <2>1. req' = [req EXCEPT ![r] = q]
    BY <1>1 DEF Refuse, Answered, ProfileInv, ProfileTypeOK
  <2>2. /\ q \in [pc: {"idle"}, user: Users \cup {NoOne}, kind: Roles, answer: Answers]
        /\ AnswerIsTrue(q) /\ q.answer # "created"
    BY <1>1 DEF Refuse, Refusal, ProfileInv, ProfileTypeOK, Answers, AnswerIsTrue,
                HasOwn, HasOther, Roles, Other
  <2>3. /\ holder' = Released(r) /\ faults' \in SUBSET Faults
        /\ UNCHANGED <<role, grants, profiles, asked>>
    BY <1>1 DEF Refuse, ProfileInv, ProfileTypeOK
  <2> HIDE DEF q
  <2> QED BY <2>1, <2>2, <2>3, EndStep
<1>2. CASE TransactionFails(r)
  <2> DEFINE q == [req[r] EXCEPT !.pc = "idle", !.answer = "error"]
  <2>1. req' = [req EXCEPT ![r] = q]
    BY <1>2 DEF TransactionFails, Answered, ProfileInv, ProfileTypeOK
  <2>2. /\ q \in [pc: {"idle"}, user: Users \cup {NoOne}, kind: Roles, answer: Answers]
        /\ AnswerIsTrue(q) /\ q.answer # "created"
    BY <1>2 DEF ProfileInv, ProfileTypeOK, Answers, AnswerIsTrue
  <2>3. /\ holder' = Released(r) /\ faults' \in SUBSET Faults
        /\ UNCHANGED <<role, grants, profiles, asked>>
    BY <1>2 DEF TransactionFails, Fault, ProfileInv, ProfileTypeOK
  <2> HIDE DEF q
  <2> QED BY <2>1, <2>2, <2>3, EndStep
<1>3. CASE Crash(r)
  <2>1. /\ Rest \in [pc: {"idle"}, user: Users \cup {NoOne}, kind: Roles, answer: Answers]
        /\ AnswerIsTrue(Rest) /\ Rest.answer # "created"
    BY DEF Rest, Roles, Answers, AnswerIsTrue
  <2>2. /\ req' = [req EXCEPT ![r] = Rest]
        /\ holder' = Released(r) /\ faults' \in SUBSET Faults
        /\ UNCHANGED <<role, grants, profiles, asked>>
    BY <1>3 DEF Crash, Fault, ProfileInv, ProfileTypeOK
  <2> QED BY <2>1, <2>2, EndStep
<1> QED BY <1>1, <1>2, <1>3

(* A request that ends with its row committed, whatever it was told.  The  *)
(* lock keeps every other transaction of the account away from its look at *)
(* the tables, so the others that are about to commit are of other         *)
(* accounts.                                                               *)
LEMMA StoredStep ==
  ASSUME ProfileInv, NEW r \in Requests, req[r].pc = "commit",
         NEW a \in {"created", "error"}, req' = Answered(r, a),
         profiles' = Stored(r), faults' \in SUBSET Faults,
         \/ holder' = Released(r)
         \/ holder' = [holder EXCEPT ![req[r].user] = NoOne],
         UNCHANGED <<role, grants, asked>>
  PROVE  ProfileInv'
<1> USE DEF ProfileInv
<1> DEFINE u == req[r].user
           k == req[r].kind
<1>1. /\ u \in Users /\ k \in Roles
      /\ ~HasOwn(req[r]) /\ ~HasOther(req[r])
      /\ u \in Unchecked \/ role[u] = k
  BY DEF ProfileTypeOK, CommitsAreFirst, InsertsMatch
<1>2. /\ req'[r].pc = "idle" /\ req'[r].answer = a
      /\ req'[r].user = u /\ req'[r].kind = k
      /\ \A o \in Requests \ {r} : req'[o] = req[o]
      /\ req' \in [Requests -> [pc: {"idle", "lock", "insert", "commit"},
                                user: Users \cup {NoOne}, kind: Roles, answer: Answers]]
  <2>1. req' = [req EXCEPT ![r] = [req[r] EXCEPT !.pc = "idle", !.answer = a]]
    BY DEF Answered, ProfileTypeOK
  <2>2. req[r] \in [pc: {"idle", "lock", "insert", "commit"},
                    user: Users \cup {NoOne}, kind: Roles, answer: Answers]
    BY DEF ProfileTypeOK
  <2>3. [req[r] EXCEPT !.pc = "idle", !.answer = a]
          \in [pc: {"idle", "lock", "insert", "commit"},
              user: Users \cup {NoOne}, kind: Roles, answer: Answers]
    BY <2>2 DEF Answers
  <2> QED BY <2>1, <2>2, <2>3 DEF ProfileTypeOK
<1>3. /\ profiles' \in [Roles -> SUBSET Users]
      /\ profiles'[k] = profiles[k] \cup {u}
      /\ \A l \in Roles \ {k} : profiles'[l] = profiles[l]
  BY <1>1 DEF Stored, ProfileTypeOK
<1>4. ProfileTypeOK'
  <2>1. holder' \in [Users -> Requests \cup {NoOne}]
    BY <1>1 DEF ProfileTypeOK, Released
  <2>2. \A o \in Requests : req'[o].pc # "idle" => req'[o].user \in Users
    BY <1>2 DEF ProfileTypeOK
  <2> QED BY <1>2, <1>3, <2>1, <2>2 DEF ProfileTypeOK
<1>5. OneKindOfProfile'
  BY <1>1, <1>3 DEF OneKindOfProfile, HasOther, Other, Roles
<1>6. \A o \in Requests \ {r} : req[o].pc \in {"insert", "commit"} => req[o].user # u
  BY DEF InsertsAreLocked
<1>7. InsertsAreLocked'
  <2> SUFFICES ASSUME NEW o \in Requests, req'[o].pc \in {"insert", "commit"}
               PROVE  holder'[req'[o].user] = o
    BY DEF InsertsAreLocked
  <2>1. o # r
    BY <1>2
  <2>2. req'[o] = req[o] /\ req[o].user # u /\ holder[req[o].user] = o
    BY <1>2, <1>6, <2>1 DEF InsertsAreLocked
  <2>3. req[o].user \in Users
    BY <2>2 DEF ProfileTypeOK
  <2> QED BY <2>1, <2>2, <2>3 DEF Released, ProfileTypeOK
<1>8. CommitsAreFirst'
  <2> SUFFICES ASSUME NEW o \in Requests, req'[o].pc = "commit"
               PROVE  ~HasOwn(req[o])' /\ ~HasOther(req[o])'
    BY DEF CommitsAreFirst
  <2>1. o # r /\ req'[o] = req[o] /\ req[o].user # u
    BY <1>2, <1>6
  <2>2. req[o].kind \in Roles /\ Other(req[o].kind) \in Roles
    BY DEF ProfileTypeOK, Other, Roles
  <2> QED BY <1>1, <1>3, <2>1, <2>2 DEF CommitsAreFirst, HasOwn, HasOther
<1>9. GrantsMatch' /\ InsertsMatch'
  <2>1. \A o \in Requests : req'[o].pc # "idle" => req'[o] = req[o]
    BY <1>2
  <2> QED BY <2>1 DEF GrantsMatch, InsertsMatch
<1>10. (\A o \in Requests : AnswerIsTrue(req[o]))'
  <2> SUFFICES ASSUME NEW o \in Requests PROVE AnswerIsTrue(req[o])'
    OBVIOUS
  <2>1. req'[o].kind \in Roles /\ Other(req'[o].kind) \in Roles
    BY <1>2 DEF Other, Roles
  <2>2. CASE o = r
    <3>1. a = "created" => HasOwn(req[r])'
      BY <1>1, <1>2, <1>3 DEF HasOwn
    <3> QED BY <1>1, <1>2, <2>2, <3>1 DEF AnswerIsTrue
  <2>3. CASE o # r
    BY <1>2, <1>3, <2>1, <2>3 DEF AnswerIsTrue, HasOwn, HasOther
  <2> QED BY <2>2, <2>3
<1>11. CreatedOnce'
  <2>1. \A o \in Requests : req[o].answer = "created" => req[o].user # u \/ req[o].kind # k
    BY <1>1 DEF AnswerIsTrue, HasOwn
  <2>2. \A o \in Requests : req[o].answer = "created" => req[o].user # u
    BY <1>1, <2>1 DEF AnswerIsTrue, HasOwn, HasOther, Other, Roles, ProfileTypeOK
  <2> SUFFICES ASSUME NEW o \in Requests, NEW p \in Requests, o # p,
                      req'[o].answer = "created", req'[p].answer = "created",
                      req'[o].user = req'[p].user
               PROVE  FALSE
    BY DEF CreatedOnce
  <2>3. o # r /\ p # r
    BY <1>2, <2>2
  <2> QED BY <1>2, <2>3 DEF CreatedOnce
<1> QED BY <1>4, <1>5, <1>7, <1>8, <1>9, <1>10, <1>11

(* Every step keeps the invariant.                                         *)
LEMMA ProfileStep ==
  ASSUME ProfileInv, [ProfileNext]_profileVars
  PROVE  ProfileInv'
<1>1. CASE UNCHANGED profileVars
  BY <1>1, ProfileUnchanged DEF profileVars, ProfileInv, ProfileTypeOK
<1>2. ASSUME NEW r \in Requests, Commit(r) PROVE ProfileInv'
  BY <1>2, StoredStep DEF Commit, ProfileInv, ProfileTypeOK
<1>3. ASSUME NEW r \in Requests, CommitReportedAsFailed(r) PROVE ProfileInv'
  BY <1>3, StoredStep DEF CommitReportedAsFailed, Fault, ProfileInv, ProfileTypeOK
<1> QED BY <1>1, <1>2, <1>3, AccountStep, CreateStep, LockStep, InsertStep,
           EndingsStep DEF ProfileNext, Transaction

(* The invariant gives what the callers rely on: a profile that is         *)
(* answered to exist is not of the other kind, as there is one at most.    *)
LEMMA AnswersFollow == ProfileInv => AnswersAreTrue
<1> SUFFICES ASSUME ProfileInv, NEW r \in Requests
             PROVE  LET q == req[r]
                    IN  /\ q.answer = "created" =>
                             /\ HasOwn(q)
                             /\ q.user \in Unchecked \/ role[q.user] = q.kind
                             /\ \A o \in Requests \ {r} :
                                  ~(req[o].answer = "created" /\ req[o].user = q.user)
                        /\ q.answer = "exists" => HasOwn(q) /\ ~HasOther(q)
                        /\ q.answer = "conflict" => HasOther(q)
  BY DEF AnswersAreTrue
<1>1. AnswerIsTrue(req[r]) /\ req[r].kind \in Roles
  BY DEF ProfileInv, ProfileTypeOK
<1>2. \A o \in Requests \ {r} :
        req[r].answer = "created" =>
          ~(req[o].answer = "created" /\ req[o].user = req[r].user)
  BY DEF ProfileInv, CreatedOnce
<1>3. HasOwn(req[r]) => ~HasOther(req[r])
  BY <1>1 DEF ProfileInv, OneKindOfProfile, HasOwn, HasOther, Other, Roles
<1> QED BY <1>1, <1>2, <1>3 DEF AnswerIsTrue

(* No account ever has a profile of each kind (sql/schema/0005), for any   *)
(* accounts, overlapping requests and faults.                              *)
THEOREM ProfilesExclude == ProfileSpec => []OneKindOfProfile
<1>1. ProfileInv => OneKindOfProfile
  BY DEF ProfileInv
<1> QED BY <1>1, ProfileInitially, ProfileStep, PTL DEF ProfileSpec

(* What a request was told of a profile stays true (internal/employer,     *)
(* internal/employee).                                                     *)
THEOREM AnswersHold == ProfileSpec => []AnswersAreTrue
BY AnswersFollow, ProfileInitially, ProfileStep, PTL DEF ProfileSpec
=============================================================================
