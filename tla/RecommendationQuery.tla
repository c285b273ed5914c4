------------------------- MODULE RecommendationQuery -------------------------
(***************************************************************************)
(* The reads of the recommendations, interleaved with their replacement:   *)
(* the two paginated queries (recommendation/service.go, repo.go), each    *)
(* four statements after the authorisation, and the access of an employer  *)
(* to the profile of a recommended employee (employee/authorization.go),   *)
(* decided by one statement and used by the next.  The tables change as in *)
(* RecommendationTables, which is what the pipeline implements.            *)
(*                                                                         *)
(* A principal is the user of a profile: an employee or an employer.  All  *)
(* scores are equal, so a set is ordered by its tie-break.                 *)
(***************************************************************************)
EXTENDS RecommendationTables

CONSTANTS
  Employers,
  Queries,   \* requests that may be under way at once
  Limit      \* size of a page

ASSUME QueryAssumption ==
  /\ Employees # {}
  /\ IsFiniteSet(Employees \cup Jobs)
  /\ Employers \cap Subjects = {}
  /\ Limit \in Nat \ {0}

VARIABLES
  owner,      \* job_positions.employer_id, whoever publishes the position
  rank,       \* order of employees.updated_at or job_positions.created_at,
              \* 1 for the latest
  query       \* query[q]: what request q is doing, or its last answer

vars == <<domain, store, owner, rank, query>>

Principals == Employees \cup Employers
Ranks == [Subjects -> 1..Cardinality(Subjects)]
NoAnswer == "no answer"
Idle == [pc |-> "idle", subject |-> None, by |-> None, offset |-> 0,
         status |-> NoAnswer, batch |-> 0, total |-> 0, items |-> {},
         seen |-> {}, linked |-> FALSE]

(* items: rows of the answer, by the counterpart; seen: those of the       *)
(* earlier pages of the same walk; linked: history, the employer was       *)
(* linked to the employee at some time since it asked for the profile.     *)
QueryState ==
  [pc: {"idle", "authorize", "current", "completed", "count", "list", "answered",
        "refused", "access", "read", "served"},
   subject: Subjects \cup {None}, by: Principals \cup {None}, offset: {0, Limit},
   status: BatchStatus \cup {"none", NoAnswer}, batch: BatchIds \cup {0},
   total: 0..(Cardinality(Subjects) - 1), items: SUBSET Subjects, seen: SUBSET Subjects,
   linked: BOOLEAN]

TypeOK ==
  /\ StoreTypeOK
  /\ owner \in [Jobs -> Employers]
  /\ rank \in Ranks
  /\ query \in [Queries -> QueryState]

Init ==
  /\ StoreInit
  /\ owner \in [Jobs -> Employers]
  /\ rank \in {f \in Ranks : \A s, t \in Subjects : f[s] = f[t] => s = t}
  /\ query = [q \in Queries |-> Idle]

-----------------------------------------------------------------------------
(* Statements.                                                             *)

RowsOf(b) == {r \in recs : r.batch = b}

(* The joins of the listings: rows whose job position is not deleted.      *)
Visible(b) ==
  {r \in RowsOf(b) : (r.other \in Jobs => r.other \in active)
                     /\ (subjectOf[b] \in Jobs => subjectOf[b] \in active)}

(* A page: score first, which is the same for all, then the tie-break.     *)
Page(b, offset) ==
  LET place(r) == Cardinality({o \in Visible(b) : rank[o.other] < rank[r.other]})
  IN  {r.other : r \in {x \in Visible(b) : place(x) \in offset..(offset + Limit - 1)}}

Owns(p, s) == IF s \in Employees THEN p = s ELSE p = owner[s]

(* Variant: deleted positions still give access.                           *)
HasAccess_Deleted(e, m) ==
  \E r \in RowsOf(LastCompletedBatch(e)) : owner[r.other] = m

(* EmployerHasCurrentRecommendationForEmployee: the position is in the     *)
(* current set of the employee, or the employee in that of the position.   *)
HasAccess(e, m) ==
  \/ \E r \in RowsOf(LastCompletedBatch(e)) : r.other \in active /\ owner[r.other] = m
  \/ \E j \in active : owner[j] = m /\ \E r \in RowsOf(LastCompletedBatch(j)) : r.other = e

-----------------------------------------------------------------------------
(* What changes while requests are under way.                              *)

(* A request for the profile of an employee by an employer, and the link   *)
(* it rests on, as the specification of the access words it: the employee  *)
(* and an active position of the employer are in the current set of one of *)
(* them.                                                                   *)
Shown(s) == {r.other : r \in Visible(LastCompletedBatch(s))}
Linked(e, m) == \E j \in active : owner[j] = m /\ (j \in Shown(e) \/ e \in Shown(j))

LinkedNext(q) ==
  \E e \in {query[q].subject}, m \in {query[q].by} : m \in Employers /\ Linked(e, m)'

Observe == query' = [q \in Queries |->
  IF query[q].pc \in {"access", "read"}
  THEN [query[q] EXCEPT !.linked = @ \/ LinkedNext(q)] ELSE query[q]]

MovedToFront(s) == [t \in Subjects |->
  IF t = s THEN 1 ELSE IF rank[t] < rank[s] THEN rank[t] + 1 ELSE rank[t]]

(* Only the base section of a profile touches employees.updated_at, and    *)
(* only the publication sets job_positions.created_at.                     *)
Reordered(s) ==
  IF s \in Employees THEN {rank, MovedToFront(s)}
  ELSE IF version[s] = 0 THEN {MovedToFront(s)} ELSE {rank}

Change ==
  /\ \/ \E s \in Subjects : Write(s) /\ rank' \in Reordered(s)
     \/ /\ \/ \E s \in Subjects : Request(s)
           \/ \E j \in Jobs : SoftDelete(j)
           \/ \E b \in BatchIds : Claim(b) \/ Complete(b) \/ Fail(b)
        /\ UNCHANGED rank
  /\ UNCHANGED owner
  /\ Observe

-----------------------------------------------------------------------------
(* The paginated queries.                                                  *)

Step(q, state) ==
  /\ query' = [query EXCEPT ![q] = state]
  /\ UNCHANGED <<domain, store, owner, rank>>

(* The role decides the direction before anything is read.                 *)
Ask(q, s, p) ==
  /\ query[q].pc \in {"idle", "answered", "refused", "served"}
  /\ p \in Employees <=> s \in Employees
  /\ Step(q, [Idle EXCEPT !.pc = "authorize", !.subject = s, !.by = p])

(* The client of an answered request asks for the next page of it.         *)
NextPage(q) ==
  /\ query[q].pc = "answered"
  /\ query[q].offset = 0
  /\ query[q].items # {}
  /\ Step(q, [Idle EXCEPT !.pc = "authorize", !.subject = query[q].subject,
                !.by = query[q].by, !.offset = Limit,
                !.batch = query[q].batch, !.seen = query[q].items])

(* EmployeeOwner, JobPositionOwner: a deleted position is not found.       *)
Authorize(q) ==
  LET s == query[q].subject IN
  /\ query[q].pc = "authorize"
  /\ Step(q, [query[q] EXCEPT !.pc =
       IF SubjectFound(s) /\ Owns(query[q].by, s) THEN "current" ELSE "refused"])

(* Variant: the status is that of the batch in flight.                     *)
ReadCurrent_InFlight(q) ==
  LET b == Newest(InFlightOf(query[q].subject)) IN
  /\ query[q].pc = "current"
  /\ Step(q, IF b = 0
             THEN [query[q] EXCEPT !.pc = "answered", !.status = "none", !.batch = 0]
             ELSE [query[q] EXCEPT !.pc = "completed", !.status = status[b]])

ReadCurrent(q) ==
  LET b == CurrentBatch(query[q].subject) IN
  /\ query[q].pc = "current"
  /\ Step(q, IF b = 0
             THEN [query[q] EXCEPT !.pc = "answered", !.status = "none", !.batch = 0]
             ELSE [query[q] EXCEPT !.pc = "completed", !.status = status[b]])

(* A walk that finds another set than its first page starts anew.          *)
ReadCompleted(q) ==
  LET b == LastCompletedBatch(query[q].subject) IN
  /\ query[q].pc = "completed"
  /\ Step(q, [query[q] EXCEPT !.pc = IF b = 0 THEN "answered" ELSE "count", !.batch = b,
                             !.seen = IF b = query[q].batch THEN @ ELSE {}])

(* Variant: the rows of every set are counted.                             *)
Count_AllSets(q) ==
  /\ query[q].pc = "count"
  /\ Step(q, [query[q] EXCEPT !.pc = "list", !.total = Cardinality(recs)])

Count(q) ==
  /\ query[q].pc = "count"
  /\ Step(q, [query[q] EXCEPT !.pc = "list", !.total = Cardinality(Visible(query[q].batch))])

(* Variant: the rows are those of the last completed batch by now.         *)
List_ResolvesAgain(q) ==
  LET b == LastCompletedBatch(query[q].subject) IN
  /\ query[q].pc = "list"
  /\ Step(q, [query[q] EXCEPT !.pc = "answered", !.items = Page(b, query[q].offset)])

List(q) ==
  /\ query[q].pc = "list"
  /\ Step(q, [query[q] EXCEPT !.pc = "answered",
                             !.items = Page(query[q].batch, query[q].offset)])

-----------------------------------------------------------------------------
(* The profile of an employee, and the download of its documents: the      *)
(* access is decided first, then the data is read.                         *)

AskProfile(q, e, p) ==
  /\ query[q].pc \in {"idle", "answered", "refused", "served"}
  /\ Step(q, [Idle EXCEPT !.pc = "access", !.subject = e, !.by = p,
                         !.linked = p \in Employers /\ Linked(e, p)])

AuthorizeProfile(q) ==
  LET e == query[q].subject
      p == query[q].by IN
  /\ query[q].pc = "access"
  /\ Step(q, [query[q] EXCEPT !.pc =
       IF p = e \/ (p \in Employers /\ HasAccess(e, p)) THEN "read" ELSE "refused"])

ReadProfile(q) ==
  /\ query[q].pc = "read"
  /\ Step(q, [query[q] EXCEPT !.pc = "served"])

Answer(q) ==
  \/ Authorize(q) \/ ReadCurrent(q) \/ ReadCompleted(q) \/ Count(q) \/ List(q)
  \/ AuthorizeProfile(q) \/ ReadProfile(q)

Next ==
  \/ Change
  \/ \E q \in Queries :
       \/ \E p \in Principals :
            \/ \E s \in Subjects : Ask(q, s, p)
            \/ \E e \in Employees : AskProfile(q, e, p)
       \/ NextPage(q)
       \/ Answer(q)

Spec == Init /\ [][Next]_vars

-----------------------------------------------------------------------------
(* A page of candidates is whole: as many rows as its total announces, or  *)
(* none when the set was replaced in between.  Count and rows are resolved *)
(* against one batch, and a set is discarded at once (CompleteBatch).      *)
PageIsWholeOrGone ==
  \A q \in Queries : query[q].items # {} /\ query[q].subject \in Jobs =>
    Cardinality(query[q].items) =
      IF query[q].total - query[q].offset < Limit
      THEN query[q].total - query[q].offset ELSE Limit

(* "none" is the answer for a subject that never asked for a generation,   *)
(* however its batches are discarded and replaced (ErrNoCurrentBatch).     *)
NoneMeansNever ==
  [][\A q \in Queries : query'[q].status = "none" /\ query[q].status # "none" =>
       \A b \in BatchIds : subjectOf[b] # query[q].subject]_vars

(* Whoever is told "completed" is shown a completed set: the status is     *)
(* read before the set, never after.                                       *)
CompletedHasASet ==
  \A q \in Queries :
    query[q].pc = "answered" /\ query[q].status = "completed" => query[q].batch # 0

(* A walk goes forward: its second page is of the set of the first or of   *)
(* one that took its place, never of an older one and never of none,       *)
(* whatever batches are opened, claimed, failed and completed in between   *)
(* (each query resolves the last completed batch anew).                    *)
WalksGoForward ==
  [][\A q \in Queries : query[q].offset # 0 /\ query'[q].offset # 0 =>
       query'[q].batch >= query[q].batch]_vars

(* An employer reads a profile only if the two were linked at some moment  *)
(* of its request.                                                         *)
ServedWasLinked ==
  \A q \in Queries :
    query[q].pc = "served" /\ query[q].by \in Employers => query[q].linked

-----------------------------------------------------------------------------
(* Successive pages of one set repeat nothing (recommendation-query-api).  *)
PagesDoNotRepeat ==
  \A q \in Queries : query[q].pc = "answered" => query[q].items \cap query[q].seen = {}
=============================================================================
