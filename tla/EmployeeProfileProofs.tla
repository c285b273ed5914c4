------------------------ MODULE EmployeeProfileProofs ------------------------
(***************************************************************************)
(* Proofs about the sections of a profile: what overlapping updates leave  *)
(* is complete and whole, and its completion is announced, for any         *)
(* requests, items and faults.                                             *)
(***************************************************************************)
EXTENDS EmployeeProfile, TLAPS, FiniteSetTheorems

ReqState == [pc: Pcs, section: Sections, mode: Modes, write: Writes, old: SUBSET Rows]

(* Types; commits is left to the count below.                              *)
BaseTypes ==
  /\ rows \in SUBSET Rows
  /\ req \in [Requests -> ReqState]
  /\ accepted \in Writes
  /\ commits \in Nat
  /\ announced \in 0..commits
  /\ missed \in BOOLEAN
  /\ faults \in 0..MaxFaults

(* Each write is persisted once: those that did not yet make up the        *)
(* difference to those accepted.                                           *)
Unpersisted(f) == {r \in Requests : f[r].pc \in {"persist", "lock", "commit"}}
CommitsAreAccepted == commits + Cardinality(Unpersisted(req)) <= accepted

(* Rows of t, of whole lists.                                              *)
Whole(S) == \A x \in S : x.table \in ListTables => List(x.table, x.write) \subseteq S

(* A request deletes only an update's own lists, whole ones.               *)
OldIsAList(q) ==
  /\ Whole(q.old)
  /\ q.old # {} => ReplacesList(q)
  /\ \A x \in q.old : x.table = ListTable(q.section)
OldAreLists == \A r \in Requests : OldIsAList(req[r])

Inv == BaseTypes /\ CommitsAreAccepted /\ OldAreLists /\ ShownSetsAreWhole /\ LatestIsAnnounced

(* The invariant has the types in it.                                      *)
LEMMA Types == Inv => TypeOK
<1> SUFFICES ASSUME Inv PROVE TypeOK
  OBVIOUS
<1>1. IsFiniteSet(Unpersisted(req))
  BY ProfileAssumption, FS_Subset DEF Unpersisted
<1>2. Cardinality(Unpersisted(req)) \in Nat
  BY <1>1, FS_CardinalityType
<1>3. commits \in Writes /\ announced \in Writes
  BY <1>2, ProfileAssumption DEF Inv, BaseTypes, CommitsAreAccepted, Writes
<1> QED BY <1>3 DEF Inv, BaseTypes, TypeOK, ReqState

-----------------------------------------------------------------------------
(* What a write stores.                                                    *)

(* A list has an item.                                                     *)
LEMMA FirstItem == (CHOOSE i \in Items : TRUE) \in Items
BY ProfileAssumption

(* A write stores whole lists of its own rows, and its main table.         *)
LEMMA StoredRows ==
  ASSUME NEW s \in Sections, NEW w \in Writes
  PROVE  /\ Stored(s, w) \in SUBSET Rows
         /\ \A x \in Stored(s, w) : x.write = w
         /\ Whole(Stored(s, w))
         /\ \E x \in Stored(s, w) : x.table = MainTable(s)
         /\ \A x \in Stored(s, w) : x.table = "employee_location" =>
              List("employee_internet_connections", w) \subseteq Stored(s, w)
<1>1. PICK i \in Items : i = CHOOSE k \in Items : TRUE
  BY FirstItem
<1>2. MainTable(s) \in Tables /\ ListTable(s) \in ListTables
      /\ (s # "education" => MainTable(s) \in UniqueTables)
      /\ MainTable("education") = "employee_education"
      /\ ListTable("education") = "employee_education"
      /\ ListTable("location") = "employee_internet_connections"
      /\ (MainTable(s) = "employee_location" <=> s = "location")
  BY DEF MainTable, ListTable, Tables, UniqueTables, ListTables, Sections
<1>3. UniqueTables \cap ListTables = {} /\ "employee_location" \notin ListTables
      /\ Tables = UniqueTables \cup ListTables
  BY DEF UniqueTables, ListTables, Tables
<1>4. Single(MainTable(s), w) = [table: {MainTable(s)}, write: {w}, item: {i}]
  BY <1>1 DEF Single
<1>5. /\ List(ListTable(s), w) = [table: {ListTable(s)}, write: {w}, item: Items]
      /\ \A x \in List(ListTable(s), w) : List(x.table, x.write) = List(ListTable(s), w)
  BY DEF List
<1>6. Stored(s, w) = (IF HasList(s) THEN List(ListTable(s), w) ELSE {})
                       \cup (IF s = "education" THEN {} ELSE Single(MainTable(s), w))
  BY DEF Stored
<1>7. Stored(s, w) \in SUBSET Rows /\ \A x \in Stored(s, w) : x.write = w
  <2>1. Single(MainTable(s), w) \in SUBSET Rows
        /\ \A x \in Single(MainTable(s), w) : x.write = w
    BY <1>2, <1>4 DEF Rows
  <2>2. List(ListTable(s), w) \in SUBSET Rows
        /\ \A x \in List(ListTable(s), w) : x.write = w
    BY <1>2, <1>3, <1>5 DEF Rows
  <2> QED BY <1>6, <2>1, <2>2
<1>8. Whole(Stored(s, w))
  <2> SUFFICES ASSUME NEW x \in Stored(s, w), x.table \in ListTables
               PROVE  List(x.table, x.write) \subseteq Stored(s, w)
    BY DEF Whole
  <2>1. x \notin Single(MainTable(s), w) \/ s = "education"
    BY <1>2, <1>3, <1>4
  <2> QED BY <1>5, <1>6, <2>1
<1>9. \E x \in Stored(s, w) : x.table = MainTable(s)
  <2> DEFINE x == [table |-> MainTable(s), write |-> w, item |-> i]
  <2>1. x.table = MainTable(s)
    OBVIOUS
  <2>2. x \in Stored(s, w)
    BY <1>2, <1>4, <1>5, <1>6 DEF HasList
  <2> QED BY <2>1, <2>2
<1>10. \A x \in Stored(s, w) : x.table = "employee_location" =>
         List("employee_internet_connections", w) \subseteq Stored(s, w)
  <2> SUFFICES ASSUME NEW x \in Stored(s, w), x.table = "employee_location"
               PROVE  s = "location"
    BY <1>2, <1>6 DEF HasList
  <2>1. x \notin List(ListTable(s), w)
    BY <1>2, <1>3, <1>5
  <2>2. x.table = MainTable(s)
    BY <1>4, <1>6, <2>1
  <2> QED BY <1>2, <2>2
<1> QED BY <1>7, <1>8, <1>9, <1>10

(* Sets of whole lists without, or with, other whole lists.                *)
LEMMA WholeSets ==
  ASSUME NEW S \in SUBSET Rows, NEW T \in SUBSET Rows, Whole(S), Whole(T)
  PROVE  Whole(S \ T) /\ Whole(S \cup T) /\ Whole(S \cap T)
<1>1. \A x \in Rows : x \in List(x.table, x.write)
  BY DEF Rows, List
<1>2. \A x \in Rows, y \in Rows : y \in List(x.table, x.write) =>
        y.table = x.table /\ List(y.table, y.write) = List(x.table, x.write)
  BY DEF List
<1>3. Whole(S \ T)
  <2> SUFFICES ASSUME NEW x \in S \ T, x.table \in ListTables,
                      NEW y \in List(x.table, x.write)
               PROVE  y \in S \ T
    BY DEF Whole
  <2>1. y \in S
    BY DEF Whole
  <2>2. y \notin T
    BY <1>1, <1>2, <2>1 DEF Whole
  <2> QED BY <2>1, <2>2
<1>4. Whole(S \cup T) /\ Whole(S \cap T)
  BY DEF Whole
<1> QED BY <1>3, <1>4

-----------------------------------------------------------------------------
(* What is committed: the rows a write leaves.                             *)

(* A commit leaves whole sets, and a complete profile complete.            *)
LEMMA RowsAfterWrite ==
  ASSUME Inv, NEW r \in Requests, ReadyToCommit(r), Inserts(r),
         rows' = RowsAfter(req[r])
  PROVE  /\ rows' \in SUBSET Rows
         /\ ShownSetsAreWhole'
         /\ Complete => Complete'
<1> DEFINE q == req[r]
           s == q.section
           over == IF q.mode = "update" THEN Overwritten(s) ELSE {}
           new == Stored(s, q.write)
<1>1. /\ rows \in SUBSET Rows /\ q \in ReqState
      /\ Whole(rows) /\ OldIsAList(q)
      /\ \A x \in RowsOf("employee_location") :
           List("employee_internet_connections", x.write) \subseteq rows
  BY DEF Inv, BaseTypes, OldAreLists, ShownSetsAreWhole, Whole
<1>2. s \in Sections /\ q.write \in Writes /\ q.old \in SUBSET Rows
  BY <1>1 DEF ReqState
<1>3. rows' = (rows \ (q.old \cup over)) \cup new
  BY DEF RowsAfter
<1>4. /\ new \in SUBSET Rows /\ Whole(new)
      /\ \E x \in new : x.table = MainTable(s)
      /\ \A x \in new : x.write = q.write
      /\ \A x \in new : x.table = "employee_location" =>
           List("employee_internet_connections", q.write) \subseteq new
  BY <1>2, StoredRows
<1>5. /\ over \in SUBSET Rows
      /\ \A x \in over : x.table = MainTable(s)
      /\ \A x \in over : x.table \notin ListTables
  BY <1>1, <1>2 DEF Overwritten, RowsOf, MainTable, Sections, ListTables
<1>6. Whole(over)
  BY <1>5 DEF Whole
<1> HIDE DEF over, new
<1>7. rows' \in SUBSET Rows /\ Whole(rows')
  <2>1. Whole(q.old \cup over) /\ q.old \cup over \in SUBSET Rows
    BY <1>1, <1>2, <1>5, <1>6, WholeSets DEF OldIsAList
  <2>2. Whole(rows \ (q.old \cup over))
    BY <1>1, <2>1, WholeSets
  <2>3. rows \ (q.old \cup over) \in SUBSET Rows
    BY <1>1
  <2> QED BY <1>3, <1>4, <2>2, <2>3, WholeSets
<1>8. \A x \in RowsOf("employee_location")' :
        List("employee_internet_connections", x.write) \subseteq rows'
  <2> SUFFICES ASSUME NEW x \in rows', x.table = "employee_location"
               PROVE  List("employee_internet_connections", x.write) \subseteq rows'
    BY DEF RowsOf
  <2>1. CASE x \in new
    BY <1>3, <1>4, <2>1
  <2>2. CASE x \notin new
    <3>1. /\ x \in rows /\ x \notin over /\ x \in RowsOf("employee_location")
          /\ List("employee_internet_connections", x.write) \subseteq rows
      BY <1>1, <1>3, <2>2 DEF RowsOf
    <3> SUFFICES ASSUME NEW y \in List("employee_internet_connections", x.write),
                        y \in q.old \cup over
                 PROVE  FALSE
      BY <1>3, <3>1
    <3>2. y.table = "employee_internet_connections"
      BY DEF List
    <3>3. y \in q.old
      BY <1>5, <3>2 DEF ListTables
    <3>4. q.mode = "update" /\ s = "location"
      BY <1>1, <3>2, <3>3 DEF OldIsAList, ReplacesList, HasList, ListTable
    <3>5. x \in over
      BY <3>1, <3>4 DEF over, Overwritten, MainTable
    <3> QED BY <3>1, <3>5
  <2> QED BY <2>1, <2>2
<1>9. Complete => Complete'
  <2> SUFFICES ASSUME Complete, NEW t \in Sections
               PROVE  \E x \in rows' : x.table = MainTable(t)
    BY DEF Complete, RowsOf
  <2>1. PICK x \in rows : x.table = MainTable(t)
    BY DEF Complete, RowsOf
  <2>2. CASE x \in rows'
    BY <2>1, <2>2
  <2>3. CASE x \notin rows'
    <3>1. x \in q.old \/ x \in over
      BY <1>3, <2>3
    <3>2. x \in over => MainTable(t) = MainTable(s)
      BY <1>5, <2>1
    <3>3. x \in q.old => MainTable(t) = MainTable(s)
      <4> SUFFICES ASSUME x \in q.old PROVE MainTable(t) = MainTable(s)
        OBVIOUS
      <4>1. MainTable(t) = ListTable(s) /\ s \in {"location", "education"}
        BY <1>1, <2>1 DEF OldIsAList, ReplacesList, HasList
      <4> QED BY <4>1 DEF MainTable, ListTable, Sections
    <3> QED BY <1>3, <1>4, <3>1, <3>2, <3>3
  <2> QED BY <2>2, <2>3
<1> QED BY <1>7, <1>8, <1>9 DEF ShownSetsAreWhole, Whole

-----------------------------------------------------------------------------
(* The count of the writes.                                                *)

(* The requests with an unpersisted write can be counted.                  *)
LEMMA Counting ==
  ASSUME BaseTypes
  PROVE  IsFiniteSet(Unpersisted(req)) /\ Cardinality(Unpersisted(req)) \in Nat
<1>1. IsFiniteSet(Unpersisted(req))
  BY ProfileAssumption, FS_Subset DEF Unpersisted
<1> QED BY <1>1, FS_CardinalityType

(* A request moves one write at most from accepted to persisted.           *)
LEMMA CountStep ==
  ASSUME BaseTypes, CommitsAreAccepted, NEW r \in Requests,
         NEW q \in ReqState, req' = [req EXCEPT ![r] = q],
         \/ q.pc \in {"persist", "lock", "commit"} /\ commits' = commits
            /\ \/ r \in Unpersisted(req) /\ accepted' = accepted
               \/ accepted' = accepted + 1
         \/ q.pc \notin {"persist", "lock", "commit"} /\ accepted' = accepted
            /\ \/ commits' = commits
               \/ r \in Unpersisted(req) /\ commits' = commits + 1
  PROVE  CommitsAreAccepted'
<1>1. Unpersisted(req)' = IF q.pc \in {"persist", "lock", "commit"}
                          THEN Unpersisted(req) \cup {r} ELSE Unpersisted(req) \ {r}
  BY DEF Unpersisted, BaseTypes
<1>2. IsFiniteSet(Unpersisted(req)) /\ Cardinality(Unpersisted(req)) \in Nat
      /\ commits \in Nat /\ accepted \in Nat
  BY Counting, ProfileAssumption DEF BaseTypes, Writes
<1>3. Cardinality(Unpersisted(req) \cup {r}) =
        IF r \in Unpersisted(req) THEN Cardinality(Unpersisted(req))
        ELSE Cardinality(Unpersisted(req)) + 1
  BY <1>2, FS_AddElement
<1>4. Cardinality(Unpersisted(req) \ {r}) =
        IF r \in Unpersisted(req) THEN Cardinality(Unpersisted(req)) - 1
        ELSE Cardinality(Unpersisted(req))
  BY <1>2, FS_RemoveElement
<1> DEFINE n == Cardinality(Unpersisted(req))
<1>5. n \in Nat /\ commits + n <= accepted
  BY <1>2 DEF CommitsAreAccepted
<1>6. CASE q.pc \in {"persist", "lock", "commit"}
  <2>1. n' = Cardinality(Unpersisted(req) \cup {r})
    BY <1>1, <1>6
  <2> HIDE DEF n
  <2>2. commits' + n' <= accepted'
    BY <1>2, <1>3, <1>5, <1>6, <2>1 DEF n
  <2> QED BY <2>2 DEF CommitsAreAccepted, n
<1>7. CASE q.pc \notin {"persist", "lock", "commit"}
  <2>1. n' = Cardinality(Unpersisted(req) \ {r})
    BY <1>1, <1>7
  <2> HIDE DEF n
  <2>2. commits' + n' <= accepted'
    BY <1>2, <1>4, <1>5, <1>7, <2>1 DEF n
  <2> QED BY <2>2 DEF CommitsAreAccepted, n
<1> QED BY <1>6, <1>7

-----------------------------------------------------------------------------
(* Steps.                                                                  *)

(* An empty profile satisfies the invariant.                               *)
LEMMA Initially == Init => Inv
<1> SUFFICES ASSUME Init PROVE Inv
  OBVIOUS
<1>1. PICK done \in SUBSET Sections : rows = UNION {Stored(s, 0) : s \in done}
  BY DEF Init
<1>2. 0 \in Writes /\ Idle \in ReqState
  BY ProfileAssumption DEF Idle, ReqState, Writes, Pcs, Sections, Modes
<1>3. \A s \in done : /\ Stored(s, 0) \in SUBSET Rows /\ Whole(Stored(s, 0))
                      /\ \A x \in Stored(s, 0) : x.write = 0
                      /\ \A x \in Stored(s, 0) : x.table = "employee_location" =>
                           List("employee_internet_connections", 0) \subseteq Stored(s, 0)
  BY <1>2, StoredRows
<1>4. rows \in SUBSET Rows /\ ShownSetsAreWhole
  BY <1>1, <1>3 DEF ShownSetsAreWhole, Whole, RowsOf
<1>5. BaseTypes
  <2>1. req \in [Requests -> ReqState] /\ accepted \in Writes /\ commits \in Nat
        /\ announced \in 0..commits /\ faults \in 0..MaxFaults
    BY <1>2, ProfileAssumption DEF Init
  <2>2. missed \in BOOLEAN
    BY DEF Init
  <2> QED BY <1>4, <2>1, <2>2 DEF BaseTypes
<1>6. Unpersisted(req) = {}
  BY DEF Init, Idle, Unpersisted
<1>7. CommitsAreAccepted
  BY <1>6, FS_EmptySet DEF Init, CommitsAreAccepted
<1>8. OldAreLists /\ LatestIsAnnounced
  BY DEF Init, Idle, OldAreLists, OldIsAList, Whole, LatestIsAnnounced
<1> QED BY <1>4, <1>5, <1>7, <1>8 DEF Inv

(* A request persists its write, and is to check, or was in the way of a   *)
(* fault.                                                                  *)
LEMMA PersistStep ==
  ASSUME Inv, NEW r \in Requests, ReadyToCommit(r), Inserts(r),
         rows' = RowsAfter(req[r]), commits' = commits + 1,
         UNCHANGED <<accepted, announced>>, faults' \in 0..MaxFaults,
         NEW q \in ReqState, req' = [req EXCEPT ![r] = q], q.old = {},
         \/ q.pc = "check" /\ missed' = missed
         \/ q.pc = "idle" /\ missed' = TRUE
  PROVE  Inv' /\ (Complete => Complete')
<1>1. /\ rows' \in SUBSET Rows /\ ShownSetsAreWhole' /\ (Complete => Complete')
  BY RowsAfterWrite
<1>2. BaseTypes'
  <2>1. /\ req' \in [Requests -> ReqState] /\ accepted' \in Writes
        /\ commits' \in Nat /\ announced' \in 0..commits'
    BY DEF Inv, BaseTypes
  <2>2. missed' \in BOOLEAN
    BY DEF Inv, BaseTypes
  <2> QED BY <1>1, <2>1, <2>2 DEF BaseTypes
<1>3. CommitsAreAccepted'
  <2>1. r \in Unpersisted(req)
    BY DEF ReadyToCommit, Unpersisted
  <2> QED BY <2>1, CountStep DEF Inv
<1>4. OldAreLists'
  BY DEF Inv, BaseTypes, OldAreLists, OldIsAList, Whole
<1>5. LatestIsAnnounced'
  BY DEF LatestIsAnnounced, Inv, BaseTypes
<1> QED BY <1>1, <1>2, <1>3, <1>4, <1>5 DEF Inv

(* A request goes on, or ends, without persisting anything: before its     *)
(* commit, after a check that found the profile incomplete, or in the way  *)
(* of a fault.                                                             *)
LEMMA QuietStep ==
  ASSUME Inv, NEW r \in Requests, UNCHANGED <<rows, commits, announced>>,
         missed' \in BOOLEAN, faults' \in 0..MaxFaults, accepted' \in Writes,
         NEW q \in ReqState, req' = [req EXCEPT ![r] = q], OldIsAList(q),
         \/ q.pc \in {"persist", "lock", "commit"}
            /\ \/ r \in Unpersisted(req) /\ accepted' = accepted
               \/ accepted' = accepted + 1
         \/ q.pc \notin {"persist", "lock", "commit"} /\ accepted' = accepted,
         \/ missed'
         \/ missed' = missed /\ (req[r].pc \in {"check", "announce"} =>
              q.pc \in {"check", "announce"} \/ ~Complete)
  PROVE  Inv'
<1>1. BaseTypes'
  BY DEF Inv, BaseTypes
<1>2. CommitsAreAccepted'
  BY CountStep DEF Inv
<1>3. OldAreLists'
  <2>1. \A o \in Requests : req'[o] = req[o] \/ req'[o] = q
    BY DEF Inv, BaseTypes
  <2> QED BY <2>1 DEF Inv, OldAreLists, OldIsAList, Whole, ReplacesList
<1>4. ShownSetsAreWhole'
  BY DEF Inv, ShownSetsAreWhole, RowsOf
<1>5. LatestIsAnnounced'
  <2>1. Complete' <=> Complete
    BY DEF Complete, RowsOf
  <2> QED BY <2>1 DEF Inv, BaseTypes, LatestIsAnnounced
<1> QED BY <1>1, <1>2, <1>3, <1>4, <1>5 DEF Inv

(* A request at rest holds no snapshot.                                    *)
LEMMA IdleIsFine == Idle \in ReqState /\ OldIsAList(Idle) /\ Idle.pc = "idle" /\ Idle.old = {}
BY ProfileAssumption
DEF Idle, ReqState, Writes, Pcs, Sections, Modes, OldIsAList, Whole

(* A handler that starts or fails keeps the invariant,                     *)
LEMMA HandlerStep ==
  ASSUME Inv, NEW r \in Requests, Handler(r)
  PROVE  Inv' /\ rows' = rows
<1>1. PICK s \in Sections, m \in Modes : Accept(r, s, m)
  BY DEF Handler, CreateEmployee, UpdateEmployee, CreateLocation, UpdateLocation,
         CreateTech, UpdateTech, CreateAvailability, UpdateAvailability,
         CreateEducation, UpdateEducation, Sections, Modes
<1> DEFINE q == [pc |-> "persist", section |-> s, mode |-> m,
                 write |-> accepted + 1, old |-> {}]
<1>2. /\ req[r].pc = "idle" /\ req' = [req EXCEPT ![r] = q]
      /\ accepted < MaxWrites /\ accepted' = accepted + 1
      /\ UNCHANGED <<rows, commits, announced, missed, faults>>
  BY <1>1 DEF Accept
<1>3. accepted' \in Writes
  BY <1>2, ProfileAssumption DEF Inv, BaseTypes, Writes
<1>4. q \in ReqState /\ q.pc = "persist" /\ OldIsAList(q)
  BY <1>2, <1>3 DEF ReqState, Pcs, OldIsAList, Whole
<1>5. missed' \in BOOLEAN /\ faults' \in 0..MaxFaults
  BY <1>2 DEF Inv, BaseTypes
<1> HIDE DEF q
<1> QED BY <1>2, <1>3, <1>4, <1>5, QuietStep

(* as does the deletion of a list in a transaction,                        *)
LEMMA DeleteStep ==
  ASSUME Inv, NEW r \in Requests, StartDelete(r) \/ FinishDelete(r)
  PROVE  Inv' /\ rows' = rows
<1>1. /\ UNCHANGED <<rows, accepted, commits, announced, missed, faults>>
      /\ missed' \in BOOLEAN /\ faults' \in 0..MaxFaults /\ accepted' \in Writes
  BY DEF StartDelete, FinishDelete, Inv, BaseTypes
<1>2. /\ rows \in SUBSET Rows /\ Whole(rows) /\ req[r] \in ReqState
      /\ OldIsAList(req[r])
  BY DEF Inv, BaseTypes, ShownSetsAreWhole, Whole, OldAreLists
<1>3. ASSUME NEW pc \in {"lock", "commit"}, NEW old \in SUBSET Rows,
             req[r].pc \in {"persist", "lock"},
             req' = [req EXCEPT ![r].pc = pc, ![r].old = old],
             Whole(old), old # {} => ReplacesList(req[r]),
             \A x \in old : x.table = ListTable(req[r].section)
      PROVE  Inv'
  <2> DEFINE q == [req[r] EXCEPT !.pc = pc, !.old = old]
  <2>1. req' = [req EXCEPT ![r] = q]
    BY <1>3 DEF Inv, BaseTypes
  <2>2. q \in ReqState /\ q.pc = pc /\ OldIsAList(q)
    BY <1>2, <1>3 DEF ReqState, Pcs, OldIsAList, ReplacesList, HasList
  <2>3. r \in Unpersisted(req)
    BY <1>3 DEF Unpersisted
  <2> HIDE DEF q
  <2> QED BY <1>1, <1>3, <2>1, <2>2, <2>3, QuietStep
<1>4. CASE StartDelete(r)
  <2> DEFINE old == RowsOf(ListTable(req[r].section))
  <2>1. /\ old \in SUBSET Rows
        /\ \A x \in old : x.table = ListTable(req[r].section)
    BY <1>2 DEF RowsOf
  <2>2. Whole(old)
    BY <1>2 DEF Whole, RowsOf, List
  <2> QED BY <1>3, <1>4, <2>1, <2>2 DEF StartDelete
<1>5. CASE FinishDelete(r)
  <2> DEFINE old == req[r].old \cap rows
  <2>1. Whole(old) /\ old \in SUBSET Rows
    BY <1>2, WholeSets DEF OldIsAList, ReqState
  <2>2. req' = [req EXCEPT ![r].pc = "commit", ![r].old = old]
    BY <1>5 DEF FinishDelete, Inv, BaseTypes
  <2> QED BY <1>2, <1>3, <1>5, <2>1, <2>2 DEF FinishDelete, OldIsAList
<1> QED BY <1>1, <1>4, <1>5

(* its commit, reported or not,                                            *)
LEMMA CommitStep ==
  ASSUME Inv, NEW r \in Requests, Commit(r) \/ CommitReportedAsFailed(r)
  PROVE  Inv' /\ (Complete => Complete')
<1>1. CASE Commit(r)
  <2> DEFINE q == [req[r] EXCEPT !.pc = "check", !.old = {}]
  <2>1. req' = [req EXCEPT ![r] = q] /\ faults' \in 0..MaxFaults
    BY <1>1 DEF Commit, Inv, BaseTypes
  <2>2. q \in ReqState /\ q.pc = "check" /\ q.old = {}
    BY DEF Inv, BaseTypes, ReqState, Pcs
  <2>3. /\ ReadyToCommit(r) /\ Inserts(r) /\ rows' = RowsAfter(req[r])
        /\ commits' = commits + 1 /\ UNCHANGED <<accepted, announced>>
        /\ missed' = missed
    BY <1>1 DEF Commit
  <2> HIDE DEF q
  <2> QED BY <2>1, <2>2, <2>3, PersistStep
<1>2. CASE CommitReportedAsFailed(r)
  <2>1. faults' \in 0..MaxFaults
    BY <1>2, ProfileAssumption DEF CommitReportedAsFailed, Fault, Inv, BaseTypes
  <2>2. /\ ReadyToCommit(r) /\ Inserts(r) /\ rows' = RowsAfter(req[r])
        /\ commits' = commits + 1 /\ UNCHANGED <<accepted, announced>>
        /\ missed' = TRUE /\ req' = [req EXCEPT ![r] = Idle]
    BY <1>2 DEF CommitReportedAsFailed
  <2> QED BY <2>1, <2>2, IdleIsFine, PersistStep
<1> QED BY <1>1, <1>2

(* the check of completeness after it                                      *)
LEMMA CheckStep ==
  ASSUME Inv, NEW r \in Requests, Check(r)
  PROVE  Inv' /\ rows' = rows
<1>1. /\ UNCHANGED <<rows, accepted, commits, announced, missed, faults>>
      /\ missed' \in BOOLEAN /\ faults' \in 0..MaxFaults /\ accepted' \in Writes
      /\ req[r].pc = "check"
  BY DEF Check, Inv, BaseTypes
<1>2. CASE Complete
  <2> DEFINE q == [req[r] EXCEPT !.pc = "announce"]
  <2>1. req' = [req EXCEPT ![r] = q]
    BY <1>2 DEF Check
  <2>2. q \in ReqState /\ q.pc = "announce" /\ OldIsAList(q)
    BY DEF Inv, BaseTypes, ReqState, Pcs, OldAreLists, OldIsAList, ReplacesList, HasList
  <2> HIDE DEF q
  <2> QED BY <1>1, <2>1, <2>2, QuietStep
<1>3. CASE ~Complete
  <2>1. req' = [req EXCEPT ![r] = Idle]
    BY <1>3 DEF Check
  <2> QED BY <1>1, <1>3, <2>1, IdleIsFine, QuietStep
<1> QED BY <1>2, <1>3

(* and the announcement.                                                   *)
LEMMA AnnounceStep ==
  ASSUME Inv, NEW r \in Requests, Announce(r)
  PROVE  Inv' /\ rows' = rows
<1>1. /\ UNCHANGED <<rows, accepted, commits, faults>>
      /\ announced' = commits /\ missed' = FALSE /\ req' = [req EXCEPT ![r] = Idle]
  BY DEF Announce
<1>2. BaseTypes'
  <2>1. req' \in [Requests -> ReqState] /\ announced' \in 0..commits'
    BY <1>1, IdleIsFine DEF Inv, BaseTypes
  <2>2. missed' \in BOOLEAN
    BY <1>1
  <2> QED BY <1>1, <2>1, <2>2 DEF Inv, BaseTypes
<1>3. CommitsAreAccepted'
  BY <1>1, IdleIsFine, CountStep DEF Inv
<1>4. OldAreLists'
  <2>1. \A o \in Requests : req'[o] = req[o] \/ req'[o] = Idle
    BY <1>1 DEF Inv, BaseTypes
  <2> QED BY <2>1, IdleIsFine DEF Inv, OldAreLists, OldIsAList, Whole, ReplacesList
<1>5. ShownSetsAreWhole' /\ LatestIsAnnounced'
  BY <1>1 DEF Inv, ShownSetsAreWhole, RowsOf, LatestIsAnnounced
<1> QED BY <1>1, <1>2, <1>3, <1>4, <1>5 DEF Inv

(* A request that stores nothing, or whose notification is lost, ends.     *)
LEMMA EndStep ==
  ASSUME Inv, NEW r \in Requests,
         Conflict(r) \/ AbortWrite(r) \/ NotNotified(r) \/ Crash(r)
  PROVE  Inv' /\ rows' = rows
<1>1. /\ UNCHANGED <<rows, accepted, commits, announced>>
      /\ req' = [req EXCEPT ![r] = Idle]
  BY DEF Conflict, AbortWrite, NotNotified, Crash
<1>2. faults' \in 0..MaxFaults /\ accepted' \in Writes
  BY <1>1, ProfileAssumption
  DEF Conflict, AbortWrite, NotNotified, Crash, Fault, Inv, BaseTypes
<1>3. \/ missed' = TRUE
      \/ missed' = missed /\ req[r].pc \notin {"check", "announce"}
  <2>1. CASE Conflict(r) \/ AbortWrite(r)
    BY <2>1 DEF Conflict, AbortWrite, ReadyToCommit
  <2>2. CASE NotNotified(r)
    BY <2>2 DEF NotNotified
  <2>3. CASE Crash(r)
    <3>1. missed' = (missed \/ req[r].pc \in {"check", "announce"})
          /\ missed \in BOOLEAN
      BY <2>3 DEF Crash, Inv, BaseTypes
    <3> QED BY <3>1
  <2> QED BY <2>1, <2>2, <2>3
<1>4. missed' \in BOOLEAN
  BY <1>3 DEF Inv, BaseTypes
<1> QED BY <1>1, <1>2, <1>3, <1>4, IdleIsFine, QuietStep

(* A step that changes nothing keeps the invariant.                        *)
LEMMA StutterStep ==
  ASSUME Inv, UNCHANGED vars
  PROVE  Inv' /\ rows' = rows
BY DEF vars, Inv, BaseTypes, CommitsAreAccepted, Unpersisted, OldAreLists, OldIsAList,
       Whole, ReplacesList, ShownSetsAreWhole, RowsOf, LatestIsAnnounced, Complete

(* Every step keeps the invariant, and a complete profile complete.        *)
LEMMA InvStep ==
  ASSUME Inv, [Next]_vars
  PROVE  Inv' /\ (Complete => Complete')
<1>1. ASSUME rows' = rows PROVE Complete => Complete'
  BY <1>1 DEF Complete, RowsOf
<1>2. CASE UNCHANGED vars \/ Quiet
  BY <1>1, <1>2, StutterStep DEF Quiet
<1>3. ASSUME NEW r \in Requests, Handler(r) \/ Work(r) \/ Failure(r)
      PROVE  Inv' /\ (Complete => Complete')
  <2>1. CASE Commit(r) \/ CommitReportedAsFailed(r)
    BY <2>1, CommitStep
  <2>2. CASE \/ Handler(r) \/ StartDelete(r) \/ FinishDelete(r) \/ Check(r) \/ Announce(r)
             \/ Conflict(r) \/ AbortWrite(r) \/ NotNotified(r) \/ Crash(r)
    BY <1>1, <2>2, HandlerStep, DeleteStep, CheckStep, AnnounceStep, EndStep
  <2> QED BY <1>3, <2>1, <2>2 DEF Work, Failure
<1> QED BY <1>2, <1>3 DEF Next

(* The invariant holds in every reachable state.                           *)
LEMMA Invariance == Spec => []Inv
BY Initially, InvStep, PTL DEF Spec

(* Types: a write is persisted once at most, so that the writes persisted  *)
(* and notified are among those accepted.                                  *)
THEOREM TypesHold == Spec => []TypeOK
BY Types, Invariance, PTL

(* The sets a profile shows are whole, however updates overlap             *)
(* (UpdateEducation, UpdateLocationWithConnections).                       *)
THEOREM ShownSetsHold == Spec => []ShownSetsAreWhole
<1>1. Inv => ShownSetsAreWhole
  BY DEF Inv
<1> QED BY <1>1, Invariance, PTL

(* The latest write of a complete profile was announced, or will be        *)
(* (publishIfComplete).                                                    *)
THEOREM LatestAnnounced == Spec => []LatestIsAnnounced
<1>1. Inv => LatestIsAnnounced
  BY DEF Inv
<1> QED BY <1>1, Invariance, PTL

(* A complete profile stays complete under any overlap of updates.         *)
THEOREM CompleteStays == Spec => CompleteStaysComplete
<1>1. ASSUME Inv, [Next]_vars PROVE [Complete => Complete']_vars
  BY <1>1, InvStep
<1> QED BY <1>1, Invariance, PTL DEF Spec, CompleteStaysComplete

(* When nothing is under way, a complete profile was announced with its    *)
(* latest write, whatever requests overlapped before: as long as commits   *)
(* are reported as they went, the notification is handed over and nothing  *)
(* dies in between.                                                        *)
THEOREM AnnouncedAtRest ==
  ASSUME Faults \cap {"commitLost", "check", "publish", "crash"} = {}
  PROVE  Spec => []((\A r \in Requests : req[r].pc = "idle") /\ Complete
                      => announced = commits)
<1>1. Init => ~missed
  BY DEF Init
<1>2. ASSUME ~missed, [Next]_vars PROVE ~missed'
  BY <1>2
  DEF Next, vars, Quiet, Handler, Work, Failure, Fault, CreateEmployee, UpdateEmployee,
      CreateLocation, UpdateLocation, CreateTech, UpdateTech, CreateAvailability,
      UpdateAvailability, CreateEducation, UpdateEducation, Accept, StartDelete,
      FinishDelete, Commit, Conflict, Check, Announce, AbortWrite,
      CommitReportedAsFailed, NotNotified, Crash
<1>3. Inv /\ ~missed => ((\A r \in Requests : req[r].pc = "idle") /\ Complete
                           => announced = commits)
  BY DEF Inv, LatestIsAnnounced
<1> QED BY <1>1, <1>2, <1>3, Invariance, PTL DEF Spec
=============================================================================
