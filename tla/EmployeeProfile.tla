--------------------------- MODULE EmployeeProfile ---------------------------
(***************************************************************************)
(* The five sections of one employee's profile and the ten writes that     *)
(* create or update them (internal/employee).  Every write is a handler,   *)
(* then a transaction, then publishIfComplete: a check that the five       *)
(* sections exist and, if they do, a notification to the producer of       *)
(* regeneration jobs.  Requests run concurrently under READ COMMITTED.     *)
(*                                                                         *)
(* A row is known by its table, by the write that stored it and by its     *)
(* place among the items of that write; its columns are left out.  Every   *)
(* list of items (connections, titles) has Items elements.                 *)
(*                                                                         *)
(* Faults: "db" a transaction that fails; "commitLost" one that commits    *)
(* and reports an error; "check" a completeness query that fails;          *)
(* "publish" a notification that fails; "crash" the death of the process.  *)
(***************************************************************************)
EXTENDS Naturals, FiniteSets

CONSTANTS
  Requests,   \* requests that may be under way at once
  Items,      \* places in a list of items
  MaxWrites,  \* bound on the writes accepted
  Faults,     \* kinds of faults a behaviour may contain
  MaxFaults   \* and how many of them

ASSUME ProfileAssumption ==
  /\ IsFiniteSet(Requests)
  /\ Items # {}
  /\ MaxWrites \in Nat
  /\ MaxFaults \in Nat

Sections == {"base", "location", "tech", "availability", "education"}
UniqueTables == {"employees", "employee_location", "employee_profile_tech",
                 "employee_profile_availability"}
ListTables == {"employee_internet_connections", "employee_education"}
Tables == UniqueTables \cup ListTables

Writes == 0..MaxWrites
Rows == [table: Tables, write: Writes, item: Items]
Modes == {"create", "update"}
Pcs == {"idle", "persist", "lock", "commit", "check", "announce"}

VARIABLES
  rows,       \* committed rows of the employee
  req,        \* req[r]: what request r is doing
  accepted,   \* writes accepted so far; the next one is accepted + 1
  commits,    \* history: writes persisted so far
  announced,  \* history: value of commits at the last notification
  missed,     \* history: a fault kept a persisted write from being notified
  faults      \* faults so far

vars == <<rows, req, accepted, commits, announced, missed, faults>>

Idle == [pc |-> "idle", section |-> "base", mode |-> "create",
         write |-> 0, old |-> {}]

TypeOK ==
  /\ rows \in SUBSET Rows
  /\ req \in [Requests -> [pc: Pcs, section: Sections, mode: Modes,
                           write: Writes, old: SUBSET Rows]]
  /\ accepted \in Writes
  /\ commits \in Writes
  /\ announced \in Writes
  /\ missed \in BOOLEAN
  /\ faults \in 0..MaxFaults

-----------------------------------------------------------------------------
(* Statements.                                                             *)

RowsOf(t) == {x \in rows : x.table = t}

(* The table of a section that completeness looks at.                      *)
MainTable(s) ==
  CASE s = "base" -> "employees"
    [] s = "location" -> "employee_location"
    [] s = "tech" -> "employee_profile_tech"
    [] s = "availability" -> "employee_profile_availability"
    [] s = "education" -> "employee_education"

ListTable(s) == IF s = "location" THEN "employee_internet_connections"
                                  ELSE "employee_education"
HasList(s) == s \in {"location", "education"}

(* One row in a table with UNIQUE (employee_id); one row per item in the   *)
(* others.                                                                 *)
Single(t, w) == [table: {t}, write: {w}, item: {CHOOSE i \in Items : TRUE}]
List(t, w) == [table: {t}, write: {w}, item: Items]

(* IsEmployeeProfileComplete: the rows exist, whatever they hold.          *)
Complete == \A s \in Sections : RowsOf(MainTable(s)) # {}

(* What a write stores.                                                    *)
Stored(s, w) ==
  (IF HasList(s) THEN List(ListTable(s), w) ELSE {})
    \cup (IF s = "education" THEN {} ELSE Single(MainTable(s), w))

(* An INSERT that meets UNIQUE (employee_id) or UNIQUE (user_id).          *)
Conflicts(s) == MainTable(s) \in UniqueTables /\ RowsOf(MainTable(s)) # {}

(* An upsert leaves one row; a list was deleted by the statement before.   *)
Overwritten(s) == IF s = "education" THEN {} ELSE RowsOf(MainTable(s))

Init ==
  /\ \E done \in SUBSET Sections :
       /\ done # {} => "base" \in done
       /\ rows = UNION {Stored(s, 0) : s \in done}
  /\ req = [r \in Requests |-> Idle]
  /\ accepted = 0
  /\ commits = 0
  /\ announced = 0
  /\ missed = FALSE
  /\ faults = 0

-----------------------------------------------------------------------------
(* Handlers: what is left of a request that decodes and validates.  All    *)
(* but the first pass the ownership middleware, which needs the employee.  *)

Accept(r, s, m) ==
  /\ req[r].pc = "idle"
  /\ accepted < MaxWrites
  /\ accepted' = accepted + 1
  /\ req' = [req EXCEPT ![r] = [pc |-> "persist", section |-> s, mode |-> m,
                                write |-> accepted + 1, old |-> {}]]
  /\ UNCHANGED <<rows, commits, announced, missed, faults>>

Owned == RowsOf("employees") # {}

CreateEmployee(r) == Accept(r, "base", "create")
UpdateEmployee(r) == Owned /\ Accept(r, "base", "update")
CreateLocation(r) == Owned /\ Accept(r, "location", "create")
UpdateLocation(r) == Owned /\ Accept(r, "location", "update")
CreateTech(r) == Owned /\ Accept(r, "tech", "create")
UpdateTech(r) == Owned /\ Accept(r, "tech", "update")
CreateAvailability(r) == Owned /\ Accept(r, "availability", "create")
UpdateAvailability(r) == Owned /\ Accept(r, "availability", "update")
CreateEducation(r) == Owned /\ Accept(r, "education", "create")
UpdateEducation(r) == Owned /\ Accept(r, "education", "update")

-----------------------------------------------------------------------------
(* Transactions.                                                           *)

ReplacesList(q) == q.mode = "update" /\ HasList(q.section)

(* The DELETE of an update of a list: it sees the rows committed when it   *)
(* starts ...                                                              *)
StartDelete(r) ==
  /\ req[r].pc = "persist"
  /\ ReplacesList(req[r])
  /\ req' = [req EXCEPT ![r].pc = "lock",
                        ![r].old = RowsOf(ListTable(req[r].section))]
  /\ UNCHANGED <<rows, accepted, commits, announced, missed, faults>>

LockedByAnother(r) ==
  \E o \in Requests \ {r} : req[o].pc = "commit" /\ req[o].old \cap req[r].old # {}

(* Variant: the DELETE commits on its own.                                 *)
FinishDelete_Autocommits(r) ==
  /\ req[r].pc = "lock"
  /\ ~LockedByAnother(r)
  /\ req' = [req EXCEPT ![r].pc = "commit", ![r].old = @ \cap rows]
  /\ rows' = rows \ req[r].old
  /\ UNCHANGED <<accepted, commits, announced, missed, faults>>

(* ... waits for whoever is deleting one of them, and skips those that are *)
(* gone by then.  The rows stored meanwhile are not seen.                  *)
FinishDelete(r) ==
  /\ req[r].pc = "lock"
  /\ ~LockedByAnother(r)
  /\ req' = [req EXCEPT ![r].pc = "commit", ![r].old = @ \cap rows]
  /\ UNCHANGED <<rows, accepted, commits, announced, missed, faults>>

(* The other statements of a write take effect with its commit: they wait  *)
(* for nothing but an uncommitted row of the same UNIQUE column.           *)
ReadyToCommit(r) ==
  \/ req[r].pc = "persist" /\ ~ReplacesList(req[r])
  \/ req[r].pc = "commit"

(* Variant: the old list is deleted after the new one was stored.          *)
RowsAfter_DeletesLast(q) ==
  LET overwritten == IF q.mode = "update" THEN Overwritten(q.section) ELSE {}
      stored == (rows \ overwritten) \cup Stored(q.section, q.write)
  IN  IF ReplacesList(q)
      THEN {x \in stored : x.table # ListTable(q.section)}
      ELSE stored

RowsAfter(q) ==
  LET overwritten == IF q.mode = "update" THEN Overwritten(q.section) ELSE {}
  IN  (rows \ (q.old \cup overwritten)) \cup Stored(q.section, q.write)

Inserts(r) == req[r].mode = "create" => ~Conflicts(req[r].section)

(* Variant: completeness is looked at before the write is persisted.       *)
Commit_ChecksFirst(r) ==
  /\ ReadyToCommit(r)
  /\ Inserts(r)
  /\ rows' = RowsAfter(req[r])
  /\ commits' = commits + 1
  /\ req' = [req EXCEPT ![r].pc = IF Complete THEN "announce" ELSE "idle"]
  /\ UNCHANGED <<accepted, announced, missed, faults>>

(* Variant: a write is persisted again.                                    *)
Commit_Retries(r) ==
  /\ ReadyToCommit(r)
  /\ Inserts(r)
  /\ rows' = RowsAfter(req[r])
  /\ commits' = commits + 1
  /\ req' = [req EXCEPT ![r].pc = "persist", ![r].old = {}]
  /\ UNCHANGED <<accepted, announced, missed, faults>>

Commit(r) ==
  /\ ReadyToCommit(r)
  /\ Inserts(r)
  /\ rows' = RowsAfter(req[r])
  /\ commits' = commits + 1
  /\ req' = [req EXCEPT ![r].pc = "check", ![r].old = {}]
  /\ UNCHANGED <<accepted, announced, missed, faults>>

(* A section that exists already is not created: everything rolls back.    *)
Conflict(r) ==
  /\ ReadyToCommit(r)
  /\ ~Inserts(r)
  /\ req' = [req EXCEPT ![r] = Idle]
  /\ UNCHANGED <<rows, accepted, commits, announced, missed, faults>>

-----------------------------------------------------------------------------
(* publishIfComplete.                                                      *)

(* Variant: only the last section of the form asks.                        *)
Check_LastSection(r) ==
  /\ req[r].pc = "check"
  /\ req' = [req EXCEPT ![r] =
       IF Complete /\ req[r].section = "education"
       THEN [req[r] EXCEPT !.pc = "announce"] ELSE Idle]
  /\ UNCHANGED <<rows, accepted, commits, announced, missed, faults>>

Check(r) ==
  /\ req[r].pc = "check"
  /\ req' = [req EXCEPT ![r] =
       IF Complete THEN [req[r] EXCEPT !.pc = "announce"] ELSE Idle]
  /\ UNCHANGED <<rows, accepted, commits, announced, missed, faults>>

Announce(r) ==
  /\ req[r].pc = "announce"
  /\ announced' = commits
  /\ missed' = FALSE
  /\ req' = [req EXCEPT ![r] = Idle]
  /\ UNCHANGED <<rows, accepted, commits, faults>>

-----------------------------------------------------------------------------
(* Faults.                                                                 *)

Fault(kind) ==
  /\ kind \in Faults
  /\ faults < MaxFaults
  /\ faults' = faults + 1

AbortWrite(r) ==
  /\ Fault("db")
  /\ req[r].pc \in {"persist", "lock", "commit"}
  /\ req' = [req EXCEPT ![r] = Idle]
  /\ UNCHANGED <<rows, accepted, commits, announced, missed>>

CommitReportedAsFailed(r) ==
  /\ Fault("commitLost")
  /\ ReadyToCommit(r)
  /\ Inserts(r)
  /\ rows' = RowsAfter(req[r])
  /\ commits' = commits + 1
  /\ missed' = TRUE
  /\ req' = [req EXCEPT ![r] = Idle]
  /\ UNCHANGED <<accepted, announced>>

(* Neither failure reaches the caller: the write is answered as a success. *)
NotNotified(r) ==
  /\ \/ req[r].pc = "check" /\ Fault("check")
     \/ req[r].pc = "announce" /\ Fault("publish")
  /\ missed' = TRUE
  /\ req' = [req EXCEPT ![r] = Idle]
  /\ UNCHANGED <<rows, accepted, commits, announced>>

Crash(r) ==
  /\ Fault("crash")
  /\ req[r].pc # "idle"
  /\ missed' = (missed \/ req[r].pc \in {"check", "announce"})
  /\ req' = [req EXCEPT ![r] = Idle]
  /\ UNCHANGED <<rows, accepted, commits, announced>>

(* The server waits for a request.                                         *)
Quiet ==
  /\ \A r \in Requests : req[r].pc = "idle"
  /\ UNCHANGED vars

Handler(r) ==
  \/ CreateEmployee(r) \/ UpdateEmployee(r)
  \/ CreateLocation(r) \/ UpdateLocation(r)
  \/ CreateTech(r) \/ UpdateTech(r)
  \/ CreateAvailability(r) \/ UpdateAvailability(r)
  \/ CreateEducation(r) \/ UpdateEducation(r)

Work(r) ==
  \/ StartDelete(r) \/ FinishDelete(r) \/ Commit(r) \/ Conflict(r)
  \/ Check(r) \/ Announce(r)

Failure(r) ==
  AbortWrite(r) \/ CommitReportedAsFailed(r) \/ NotNotified(r) \/ Crash(r)

Next == Quiet \/ \E r \in Requests : Handler(r) \/ Work(r) \/ Failure(r)

Spec == Init /\ [][Next]_vars

(* A request that was accepted goes on by itself.                          *)
FairSpec == Spec /\ \A r \in Requests : WF_vars(Work(r))

-----------------------------------------------------------------------------
(* A profile that is complete stays complete, whatever updates of its      *)
(* lists overlap: the DELETE of an update is never seen without its        *)
(* INSERTs (UpdateEducation, UpdateLocationWithConnections).               *)
CompleteStaysComplete == [][Complete => Complete']_vars

(* The lists that are shown are whole, and the location that is shown has  *)
(* the connections it was sent with, though overlapping updates may leave  *)
(* several lists together.                                                 *)
ShownSetsAreWhole ==
  /\ \A x \in rows : x.table \in ListTables => List(x.table, x.write) \subseteq rows
  /\ \A x \in RowsOf("employee_location") :
       List("employee_internet_connections", x.write) \subseteq rows

(* A complete profile has been announced with its latest write once no     *)
(* request is left to announce it, unless a fault was in the way: of two   *)
(* requests that store the last two sections at once, one sees both        *)
(* (publishIfComplete runs after the commit).                              *)
LatestIsAnnounced ==
  \/ ~Complete
  \/ announced = commits
  \/ missed
  \/ \E r \in Requests : req[r].pc \in {"check", "announce"}

(* Every persisted write of a complete profile is announced in the end.    *)
CompletionIsAnnounced ==
  (Complete /\ announced # commits) ~> (announced = commits \/ missed)
=============================================================================
