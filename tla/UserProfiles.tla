---------------------------- MODULE UserProfiles ----------------------------
(***************************************************************************)
(* Accounts, their role, and the one profile each may have: of an employee *)
(* or of an employer (internal/user, internal/employer, the trigger of     *)
(* sql/schema/0005).  An insert of a profile takes the advisory lock of    *)
(* its account, looks for the other profile, meets UNIQUE (user_id), and   *)
(* holds the lock until its transaction ends.                              *)
(*                                                                         *)
(* The role of an account does not change, and the service compares it     *)
(* with the profile that is asked for, so through the service only         *)
(* accounts older than the roles (Legacy) meet the other profile.  The     *)
(* persistence promises exclusivity to every caller, concurrent ones       *)
(* included: inserts for the accounts of Unchecked skip the comparison.    *)
(*                                                                         *)
(* Faults: "db" a transaction that fails; "commitLost" one that commits    *)
(* and reports an error; "crash" the death of the process.                 *)
(***************************************************************************)
EXTENDS Naturals, FiniteSets

CONSTANTS
  Users,       \* accounts, registered or not: an email each
  Legacy,      \* accounts with an employee profile when roles were added
  Unchecked,   \* accounts whose inserts skip AuthorizeProfileRole
  Requests,    \* creations of profiles that may be under way at once
  NoOne,       \* nobody: the holder of a free lock
  MaxRequests, \* bound on the creations asked for
  Faults,      \* kinds of faults a behaviour may contain
  MaxFaults    \* and how many kinds of them

ASSUME ProfileAssumption ==
  /\ Legacy \subseteq Users
  /\ NoOne \notin Requests \cup Users
  /\ MaxRequests \in Nat
  /\ MaxFaults \in Nat

Roles == {"employee", "employer"}
Other(k) == IF k = "employee" THEN "employer" ELSE "employee"

Principals == [user: Users, role: Roles]
Answers == {"pending", "created", "exists", "conflict", "forbidden", "error"}

VARIABLES
  role,      \* role[u]: "none" until u is registered
  grants,    \* access tokens handed out
  profiles,  \* profiles[k]: accounts with a committed row in table k
  holder,    \* holder[u]: request that holds the advisory lock of u
  req,       \* req[r]: what request r is doing, and how it was answered
  asked,     \* creations asked for so far
  faults     \* kinds of faults so far

profileVars == <<role, grants, profiles, holder, req, asked, faults>>

Rest == [pc |-> "idle", user |-> NoOne, kind |-> "employee", answer |-> "pending"]

ProfileTypeOK ==
  /\ role \in [Users -> Roles \cup {"none"}]
  /\ grants \in SUBSET Principals
  /\ profiles \in [Roles -> SUBSET Users]
  /\ holder \in [Users -> Requests \cup {NoOne}]
  /\ req \in [Requests -> [pc: {"idle", "lock", "insert", "commit"},
                           user: Users \cup {NoOne}, kind: Roles, answer: Answers]]
  /\ \A r \in Requests : req[r].pc # "idle" => req[r].user \in Users
  /\ asked \in Nat
  /\ faults \in SUBSET Faults

ProfileInit ==
  /\ role = [u \in Users |-> IF u \in Legacy THEN "employer" ELSE "none"]
  /\ grants = {}
  /\ profiles = [k \in Roles |-> IF k = "employee" THEN Legacy ELSE {}]
  /\ holder = [u \in Users |-> NoOne]
  /\ req = [r \in Requests |-> Rest]
  /\ asked = 0
  /\ faults = {}

-----------------------------------------------------------------------------
(* Accounts and tokens.                                                    *)

(* The email is UNIQUE; the role is stored for good.                       *)
SaveUser(u, k) ==
  /\ role[u] = "none"
  /\ role' = [role EXCEPT ![u] = k]
  /\ UNCHANGED <<grants, profiles, holder, req, asked, faults>>

(* Variant: the role that was read is not validated.                       *)
Login_AnyRole(u) ==
  /\ [user |-> u, role |-> role[u]] \notin grants
  /\ grants' = grants \cup {[user |-> u, role |-> role[u]]}
  /\ UNCHANGED <<role, profiles, holder, req, asked, faults>>

(* A token carries the role of its account.                                *)
Login(u) ==
  /\ role[u] \in Roles
  /\ [user |-> u, role |-> role[u]] \notin grants
  /\ grants' = grants \cup {[user |-> u, role |-> role[u]]}
  /\ UNCHANGED <<role, profiles, holder, req, asked, faults>>

-----------------------------------------------------------------------------
(* Creation of a profile.                                                  *)

AuthorizeProfileRole(g, k) == g.role = k \/ g.user \in Unchecked

Answered(r, a) == [req EXCEPT ![r].pc = "idle", ![r].answer = a]

CreateProfile(r, g, k) ==
  /\ req[r].pc = "idle"
  /\ asked < MaxRequests
  /\ asked' = asked + 1
  /\ req' = [req EXCEPT ![r] =
       IF AuthorizeProfileRole(g, k)
       THEN [pc |-> "lock", user |-> g.user, kind |-> k, answer |-> "pending"]
       ELSE [pc |-> "idle", user |-> g.user, kind |-> k, answer |-> "forbidden"]]
  /\ UNCHANGED <<role, grants, profiles, holder, faults>>

(* Variant: the insert does not wait for the lock.                         *)
Lock_Never(r) ==
  /\ req[r].pc = "lock"
  /\ req' = [req EXCEPT ![r].pc = "insert"]
  /\ UNCHANGED <<role, grants, profiles, holder, asked, faults>>

(* pg_advisory_xact_lock: the trigger waits for the transaction that       *)
(* inserts a profile of the same account.                                  *)
Lock(r) ==
  /\ req[r].pc = "lock"
  /\ holder[req[r].user] = NoOne
  /\ holder' = [holder EXCEPT ![req[r].user] = r]
  /\ req' = [req EXCEPT ![r].pc = "insert"]
  /\ UNCHANGED <<role, grants, profiles, asked, faults>>

HasOther(q) == q.user \in profiles[Other(q.kind)]
HasOwn(q) == q.user \in profiles[q.kind]

(* Variant: the two are taken for one another.                             *)
Refusal_Swapped(q) ==
  CASE q.kind = "employee" -> "error"
    [] HasOther(q) -> "exists"
    [] OTHER -> "conflict"

(* The employer repository tells the two refusals apart by their SQLSTATE; *)
(* a refused employee is an error like any other.                          *)
Refusal(q) ==
  CASE q.kind = "employee" -> "error"
    [] HasOther(q) -> "conflict"
    [] OTHER -> "exists"

(* The lock goes with its transaction.                                     *)
Released(r) ==
  [u \in Users |-> IF holder[u] = r THEN NoOne ELSE holder[u]]

(* The trigger looks at the other table once it has the lock, and then the *)
(* index looks at its own.                                                 *)
Insert(r) ==
  /\ req[r].pc = "insert"
  /\ ~HasOther(req[r])
  /\ ~HasOwn(req[r])
  /\ req' = [req EXCEPT ![r].pc = "commit"]
  /\ UNCHANGED <<role, grants, profiles, holder, asked, faults>>

Refuse(r) ==
  /\ req[r].pc = "insert"
  /\ HasOther(req[r]) \/ HasOwn(req[r])
  /\ req' = Answered(r, Refusal(req[r]))
  /\ holder' = Released(r)
  /\ UNCHANGED <<role, grants, profiles, asked, faults>>

Stored(r) == [profiles EXCEPT ![req[r].kind] = @ \cup {req[r].user}]

Commit(r) ==
  /\ req[r].pc = "commit"
  /\ profiles' = Stored(r)
  /\ holder' = [holder EXCEPT ![req[r].user] = NoOne]
  /\ req' = Answered(r, "created")
  /\ UNCHANGED <<role, grants, asked, faults>>

-----------------------------------------------------------------------------
(* Faults.                                                                 *)

Fault(kind) ==
  /\ kind \in Faults
  /\ faults' = faults \cup {kind}
  /\ Cardinality(faults') <= MaxFaults

TransactionFails(r) ==
  /\ Fault("db")
  /\ req[r].pc # "idle"
  /\ req' = Answered(r, "error")
  /\ holder' = Released(r)
  /\ UNCHANGED <<role, grants, profiles, asked>>

CommitReportedAsFailed(r) ==
  /\ Fault("commitLost")
  /\ req[r].pc = "commit"
  /\ profiles' = Stored(r)
  /\ holder' = Released(r)
  /\ req' = Answered(r, "error")
  /\ UNCHANGED <<role, grants, asked>>

Crash(r) ==
  /\ Fault("crash")
  /\ req[r].pc # "idle"
  /\ holder' = Released(r)
  /\ req' = [req EXCEPT ![r] = Rest]
  /\ UNCHANGED <<role, grants, profiles, asked>>

Transaction(r) == Lock(r) \/ Insert(r) \/ Refuse(r) \/ Commit(r)

ProfileNext ==
  \/ \E u \in Users : Login(u) \/ \E k \in Roles : SaveUser(u, k)
  \/ \E r \in Requests :
       \/ \E g \in grants, k \in Roles : CreateProfile(r, g, k)
       \/ Transaction(r)
       \/ TransactionFails(r)
       \/ CommitReportedAsFailed(r)
       \/ Crash(r)

ProfileSpec == ProfileInit /\ [][ProfileNext]_profileVars

-----------------------------------------------------------------------------
(* No account has both profiles, however creations overlap and fail        *)
(* (enforce_exclusive_user_profile).                                       *)
OneKindOfProfile == profiles["employee"] \cap profiles["employer"] = {}

(* What a request was told is so: a profile that was created is there, was *)
(* created once and, through the service, is the one of the account's      *)
(* role; whoever hears that it has a profile has that one.                 *)
AnswersAreTrue ==
  \A r \in Requests :
    LET q == req[r]
    IN  /\ q.answer = "created" =>
             /\ HasOwn(q)
             /\ q.user \in Unchecked \/ role[q.user] = q.kind
             /\ \A o \in Requests \ {r} :
                  ~(req[o].answer = "created" /\ req[o].user = q.user)
        /\ q.answer = "exists" => HasOwn(q) /\ ~HasOther(q)
        /\ q.answer = "conflict" => HasOther(q)
=============================================================================
