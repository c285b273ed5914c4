----------------------- MODULE CertificationFilesProofs -----------------------
(***************************************************************************)
(* Proofs about the certifications of an employee: rows and objects agree, *)
(* no update is refused by the index and nothing is left behind, for any   *)
(* requests, names, objects and faults.                                    *)
(***************************************************************************)
EXTENDS CertificationFiles, TLAPS

(* What a request may be, given the tables: it uploads for certifications  *)
(* that ask for it, an object each; a creation keeps and drops nothing;    *)
(* an update that holds the lock drops what the rows say now.              *)
RequestIsSound(q) ==
  /\ \A n \in DOMAIN q.new : n \in DOMAIN q.certs /\ q.certs[n] = New
  /\ \A n, m \in DOMAIN q.new : q.new[n] = q.new[m] => n = m
  /\ q.isNew => Kept(q) = {} /\ q.pc \in {"upload", "commit"}
  /\ q.pc # "idle" /\ ~q.isNew => created
  /\ q.pc = "idle" => DOMAIN q.new = {}
  /\ q.drop = IF q.pc = "commit" /\ ~q.isNew THEN MarkUnkept(Kept(q)) ELSE {}

(* The lock of the row of employees.                                       *)
Locking(q) == q.pc \in {"mark", "commit"} /\ ~q.isNew
OneUpdate == \A r, o \in Requests : Locking(req[r]) /\ Locking(req[o]) => r = o

(* Keys are new: those not handed out are nowhere, and those a request     *)
(* uploaded are its own, stored, and without a row.                        *)
KeysAreFresh ==
  /\ \A o \in Objects : o >= nextObject =>
       files[o].status = "absent" /\ o \notin stored /\ o \notin trash
  /\ \A r \in Requests : \A o \in Uploaded(req[r]) :
       o < nextObject /\ o \in stored /\ o \notin trash /\ files[o].status = "absent"
  /\ \A r, s \in Requests : r # s => Uploaded(req[r]) \cap Uploaded(req[s]) = {}

(* A profile that does not exist has no certification.                     *)
NothingBefore == ~created => Active(files) = {}

Inv ==
  /\ TypeOK
  /\ \A r \in Requests : RequestIsSound(req[r])
  /\ OneUpdate
  /\ KeysAreFresh
  /\ NothingBefore
  /\ OfferedIsStored
  /\ NamesAreListed
  /\ UpdatesAreNotRefused
  /\ NoOrphans

-----------------------------------------------------------------------------
(* Requests.                                                               *)

(* A request is its five fields, each of its type.                         *)
LEMMA RequestFields ==
  ASSUME NEW q
  PROVE  q \in Request <=>
           /\ q = [pc |-> q.pc, isNew |-> q.isNew, certs |-> q.certs, new |-> q.new,
                   drop |-> q.drop]
           /\ q.pc \in Pcs /\ q.isNew \in BOOLEAN /\ q.drop \in SUBSET Objects
           /\ DOMAIN q.certs \in SUBSET Names /\ q.certs \in [DOMAIN q.certs -> Sources]
           /\ DOMAIN q.new \in SUBSET Names /\ q.new \in [DOMAIN q.new -> Objects]
BY DEF Request

(* A request at rest is sound and holds nothing.                           *)
LEMMA IdleIsSound ==
  Idle \in Request /\ Uploaded(Idle) = {} /\ RequestIsSound(Idle) /\ ~Locking(Idle)
<1>1. DOMAIN Empty = {} /\ Empty \in [{} -> Sources] /\ Empty \in [{} -> Objects]
  BY DEF Empty
<1>2. Kept(Idle) = {} /\ Uploaded(Idle) = {}
  BY <1>1 DEF Idle, Kept, Uploaded
<1>3. Idle.pc = "idle" /\ Idle.isNew = FALSE /\ Idle.drop = {}
      /\ Idle.certs = Empty /\ Idle.new = Empty
  BY DEF Idle
<1>4. Idle \in Request
  BY <1>1 DEF Idle, Request, Pcs
<1> QED BY <1>1, <1>2, <1>3, <1>4 DEF RequestIsSound, Locking

(* What a request keeps are objects, each under a name of its list.        *)
LEMMA KeptRows ==
  ASSUME NEW q \in Request
  PROVE  /\ Kept(q) \in SUBSET Objects /\ Uploaded(q) \in SUBSET Objects
         /\ \A o \in Kept(q) : /\ NameOf(q, o) \in DOMAIN q.certs
                               /\ NameOf(q, o) \in Names
                               /\ q.certs[NameOf(q, o)] = o
<1>1. /\ DOMAIN q.certs \in SUBSET Names /\ q.certs \in [DOMAIN q.certs -> Sources]
      /\ DOMAIN q.new \in SUBSET Names /\ q.new \in [DOMAIN q.new -> Objects]
  BY RequestFields
<1>2. Kept(q) \in SUBSET Objects /\ Uploaded(q) \in SUBSET Objects
  BY <1>1 DEF Kept, Uploaded, Sources
<1>3. ASSUME NEW o \in Kept(q)
      PROVE  NameOf(q, o) \in DOMAIN q.certs /\ q.certs[NameOf(q, o)] = o
  <2>1. PICK n \in DOMAIN q.certs : q.certs[n] = o
    BY <1>3 DEF Kept
  <2> QED BY <2>1 DEF NameOf
<1> QED BY <1>1, <1>2, <1>3

NewName(q, o) == CHOOSE n \in DOMAIN q.new : q.new[n] = o

(* What a request uploaded has one name of its list, asked for as new.     *)
LEMMA NewRows ==
  ASSUME NEW q \in Request, RequestIsSound(q), NEW o \in Uploaded(q)
  PROVE  /\ NewName(q, o) \in DOMAIN q.new /\ q.new[NewName(q, o)] = o
         /\ NewName(q, o) \in DOMAIN q.certs /\ NewName(q, o) \in Names
         /\ q.certs[NewName(q, o)] = New
<1>1. PICK n \in DOMAIN q.new : q.new[n] = o
  BY DEF Uploaded
<1>2. NewName(q, o) \in DOMAIN q.new /\ q.new[NewName(q, o)] = o
  BY <1>1 DEF NewName
<1> QED BY <1>2, RequestFields DEF RequestIsSound

-----------------------------------------------------------------------------
(* The table after the statements of an update.                            *)

Named(q, ids) == SetNames(ClearNames(Dropped(files, q.drop), Kept(q)), q, ids)

(* Marking and renaming drop what is to be dropped and name what is kept.  *)
LEMMA NamedRows ==
  ASSUME TypeOK, NEW q \in Request, NEW ids \in SUBSET Kept(q), NEW o \in Objects
  PROVE  /\ Named(q, ids)[o].status = IF o \in q.drop THEN "deleted" ELSE files[o].status
         /\ Named(q, ids)[o].name = IF o \in ids THEN NameOf(q, o)
                                    ELSE IF o \in Kept(q) THEN None ELSE files[o].name
         /\ Named(q, ids) \in [Objects -> File]
<1>1. files \in [Objects -> File]
  BY DEF TypeOK
<1>2. /\ Dropped(files, q.drop) \in [Objects -> File]
      /\ \A p \in Objects :
           /\ Dropped(files, q.drop)[p].status =
                IF p \in q.drop THEN "deleted" ELSE files[p].status
           /\ Dropped(files, q.drop)[p].name = files[p].name
  BY <1>1 DEF Dropped, File, Status
<1>3. /\ ClearNames(Dropped(files, q.drop), Kept(q)) \in [Objects -> File]
      /\ \A p \in Objects :
           /\ ClearNames(Dropped(files, q.drop), Kept(q))[p].status =
                Dropped(files, q.drop)[p].status
           /\ ClearNames(Dropped(files, q.drop), Kept(q))[p].name =
                IF p \in Kept(q) THEN None ELSE files[p].name
  BY <1>2 DEF ClearNames, File
<1>4. \A p \in ids : NameOf(q, p) \in Names
  BY KeptRows
<1>5. /\ Named(q, ids) \in [Objects -> File]
      /\ \A p \in Objects :
           /\ Named(q, ids)[p].status =
                ClearNames(Dropped(files, q.drop), Kept(q))[p].status
           /\ Named(q, ids)[p].name =
                IF p \in ids THEN NameOf(q, p)
                ELSE ClearNames(Dropped(files, q.drop), Kept(q))[p].name
  BY <1>3, <1>4 DEF Named, SetNames, File
<1> QED BY <1>2, <1>3, <1>5

(* Inserting adds what was uploaded to what marking and renaming left.     *)
LEMMA FinalRows ==
  ASSUME TypeOK, NEW q \in Request, RequestIsSound(q), NEW o \in Objects
  PROVE  /\ Final(q)[o].status = IF o \in Uploaded(q) THEN "uploaded"
                                 ELSE IF o \in q.drop THEN "deleted" ELSE files[o].status
         /\ Final(q)[o].name = IF o \in Uploaded(q) THEN NewName(q, o)
                               ELSE IF o \in Kept(q) THEN NameOf(q, o) ELSE files[o].name
         /\ Final(q) \in [Objects -> File]
<1>1. Final(q) = Inserted(Named(q, Kept(q)), q)
  BY DEF Final, Named
<1>2. /\ Named(q, Kept(q)) \in [Objects -> File]
      /\ Named(q, Kept(q))[o].status = IF o \in q.drop THEN "deleted" ELSE files[o].status
      /\ Named(q, Kept(q))[o].name = IF o \in Kept(q) THEN NameOf(q, o) ELSE files[o].name
  BY NamedRows
<1>3. Inserted(Named(q, Kept(q)), q) = [p \in Objects |->
        IF p \in Uploaded(q) THEN [status |-> "uploaded", name |-> NewName(q, p)]
        ELSE Named(q, Kept(q))[p]]
  BY DEF Inserted, NewName
<1>4. \A p \in Uploaded(q) : NewName(q, p) \in Names
  BY NewRows
<1>5. Final(q) \in [Objects -> File]
  BY <1>1, <1>2, <1>3, <1>4 DEF File, Status
<1> QED BY <1>1, <1>2, <1>3, <1>5

(* While an update holds the lock, the rows that are active once it        *)
(* dropped its own are those it keeps.                                     *)
LEMMA ActiveRows ==
  ASSUME TypeOK, NothingBefore, NEW q \in Request, RequestIsSound(q), q.pc = "commit",
         q.isNew => ~created, NEW o \in Active(files)
  PROVE  o \in q.drop \/ o \in Kept(q)
BY DEF RequestIsSound, MarkUnkept, NothingBefore

(* No statement of the transaction leaves two active rows with a name.     *)
LEMMA TablesHold ==
  ASSUME Inv, NEW q \in Request, RequestIsSound(q), q.pc = "commit", q.isNew => ~created,
         NEW f \in Tables(q)
  PROVE  IndexHolds(f)
<1>1. TypeOK /\ NothingBefore /\ IndexHolds(files) /\ files \in [Objects -> File]
  BY DEF Inv, NamesAreListed, TypeOK
<1>2. ASSUME NEW ids \in SUBSET Kept(q)
      PROVE  IndexHolds(Named(q, ids))
  <2> SUFFICES ASSUME NEW o \in Active(Named(q, ids)), NEW p \in Active(Named(q, ids)),
                      o # p
               PROVE  Named(q, ids)[o].name # Named(q, ids)[p].name
    BY DEF IndexHolds
  <2>1. \A x \in Active(Named(q, ids)) :
          x \in ids /\ Named(q, ids)[x].name = NameOf(q, x)
    <3> SUFFICES ASSUME NEW x \in Active(Named(q, ids))
                 PROVE  x \in ids /\ Named(q, ids)[x].name = NameOf(q, x)
      OBVIOUS
    <3>1. x \in Objects /\ Named(q, ids)[x].status = "uploaded"
          /\ Named(q, ids)[x].name # None
      BY DEF Active
    <3>2. /\ Named(q, ids)[x].status = IF x \in q.drop THEN "deleted" ELSE files[x].status
          /\ Named(q, ids)[x].name = IF x \in ids THEN NameOf(q, x)
                                     ELSE IF x \in Kept(q) THEN None ELSE files[x].name
      BY <1>1, <1>2, <3>1, NamedRows
    <3>3. CASE x \notin ids
      <4>1. x \notin Kept(q) /\ x \notin q.drop /\ x \in Active(files)
        BY <3>1, <3>2, <3>3 DEF Active
      <4> QED BY <1>1, <4>1, ActiveRows
    <3> QED BY <3>2, <3>3
  <2>2. o \in Kept(q) /\ p \in Kept(q)
    BY <2>1
  <2> QED BY <2>1, <2>2, KeptRows
<1>3. IndexHolds(Dropped(files, q.drop))
  BY <1>1 DEF IndexHolds, Active, Dropped, File
<1>4. ClearNames(Dropped(files, q.drop), Kept(q)) = Named(q, {})
  BY <1>1 DEF Named, SetNames, ClearNames
<1>5. IndexHolds(Final(q))
  <2> SUFFICES ASSUME NEW o \in Active(Final(q)), NEW p \in Active(Final(q)),
                      o # p
               PROVE  Final(q)[o].name # Final(q)[p].name
    BY DEF IndexHolds
  <2>1. \A x \in Active(Final(q)) :
          \/ x \in Uploaded(q) /\ Final(q)[x].name = NewName(q, x)
          \/ x \in Kept(q) /\ Final(q)[x].name = NameOf(q, x)
    <3> SUFFICES ASSUME NEW x \in Active(Final(q)), x \notin Uploaded(q)
                 PROVE  x \in Kept(q) /\ Final(q)[x].name = NameOf(q, x)
      BY <1>1, FinalRows DEF Active
    <3>1. x \in Objects /\ Final(q)[x].status = "uploaded" /\ Final(q)[x].name # None
      BY DEF Active
    <3>2. /\ Final(q)[x].status = IF x \in q.drop THEN "deleted" ELSE files[x].status
          /\ Final(q)[x].name = IF x \in Kept(q) THEN NameOf(q, x) ELSE files[x].name
      BY <1>1, <3>1, FinalRows
    <3>3. CASE x \notin Kept(q)
      <4>1. x \notin q.drop /\ x \in Active(files)
        BY <3>1, <3>2, <3>3 DEF Active
      <4> QED BY <1>1, <3>3, <4>1, ActiveRows
    <3> QED BY <3>2, <3>3
  <2>2. \A x \in Kept(q) : q.certs[NameOf(q, x)] = x /\ x # New
    BY KeptRows DEF Kept
  <2>3. \A x \in Uploaded(q) : q.certs[NewName(q, x)] = New /\ q.new[NewName(q, x)] = x
    BY NewRows
  <2> QED BY <2>1, <2>2, <2>3
<1>6. Tables(q) = {Dropped(files, q.drop), Named(q, {}), Final(q)}
                    \cup {Named(q, ids) : ids \in SUBSET Kept(q)}
  BY <1>4 DEF Tables, Final, Named
<1> QED BY <1>2, <1>3, <1>5, <1>6

-----------------------------------------------------------------------------
(* Steps.                                                                  *)

(* The empty bucket and the requests at rest satisfy the invariant.        *)
LEMMA Initially == Init => Inv
<1> SUFFICES ASSUME Init PROVE Inv
  OBVIOUS
<1>1. PICK legacy \in {{}, {1}} :
        /\ legacy # {} => created
        /\ files = [o \in Objects |->
             [status |-> IF o \in legacy THEN "uploaded" ELSE "absent", name |-> None]]
        /\ stored = legacy
  BY DEF Init
<1>2. /\ created \in BOOLEAN /\ listed = {} /\ nextObject = 2 /\ trash = {}
      /\ req = [r \in Requests |-> Idle] /\ accepted = 0 /\ refused = FALSE /\ faults = {}
  BY DEF Init
<1>3. 1 \in Objects /\ 2 \in 1..(MaxObjects + 1) /\ Objects \subseteq Nat
  BY FileStoreAssumption DEF Objects
<1>4. \A r \in Requests : req[r] = Idle
  BY <1>2
<1>5. TypeOK
  <2>1. files \in [Objects -> File]
    BY <1>1 DEF File, Status
  <2>2. req \in [Requests -> Request]
    BY <1>2, IdleIsSound
  <2>3. FileStoreTypeOK
    BY <1>1, <1>2, <1>3 DEF FileStoreTypeOK
  <2>4. accepted \in 0..MaxRequests
    BY <1>2, CertificationAssumption
  <2>5. refused \in BOOLEAN
    BY <1>2
  <2> QED BY <1>2, <2>1, <2>2, <2>3, <2>4, <2>5 DEF TypeOK
<1>6. (\A r \in Requests : RequestIsSound(req[r])) /\ OneUpdate
  BY <1>4, IdleIsSound DEF OneUpdate
<1>7. KeysAreFresh
  BY <1>1, <1>2, <1>3, <1>4, IdleIsSound DEF KeysAreFresh
<1>8. Active(files) = {}
  BY <1>1 DEF Active
<1>9. OfferedIsStored /\ NoOrphans
  BY <1>1, <1>2, <1>3 DEF OfferedIsStored, NoOrphans
<1> QED BY <1>2, <1>5, <1>6, <1>7, <1>8, <1>9
        DEF Inv, NothingBefore, NamesAreListed, IndexHolds, UpdatesAreNotRefused

(* A request moves on and touches nothing else.                            *)
LEMMA RequestStep ==
  ASSUME Inv, NEW r \in Requests, NEW q \in Request, req' = [req EXCEPT ![r] = q],
         RequestIsSound(q), Uploaded(q) = Uploaded(req[r]),
         Locking(q) => Locking(req[r]) \/ ~Locked(r),
         UNCHANGED <<bucket, created, listed, files, refused, faults>>,
         accepted' \in 0..MaxRequests
  PROVE  Inv'
<1>1. /\ \A o \in Requests : req'[o] = IF o = r THEN q ELSE req[o]
      /\ req' \in [Requests -> Request]
  BY DEF Inv, TypeOK
<1>2. TypeOK'
  <2>1. FileStoreTypeOK'
    BY DEF Inv, TypeOK, FileStoreTypeOK, bucket
  <2>2. created' \in BOOLEAN /\ refused' \in BOOLEAN
    BY DEF Inv, TypeOK
  <2> QED BY <1>1, <2>1, <2>2 DEF Inv, TypeOK
<1>3. \A o \in Requests : RequestIsSound(req[o])'
  <2>1. ASSUME NEW o \in Requests PROVE RequestIsSound(req'[o])
    BY <1>1 DEF Inv
  <2>2. ASSUME NEW p PROVE MarkUnkept(p)' = MarkUnkept(p')
    BY DEF MarkUnkept, Active
  <2> QED BY <2>1 DEF RequestIsSound, MarkUnkept, Active
<1>4. OneUpdate'
  <2>1. ~Locked(r) => \A o \in Requests \ {r} : ~Locking(req[o])
    BY DEF Locked, Locking
  <2>2. \A o \in Requests : Locking(req[o])' <=> Locking(req'[o])
    BY DEF Locking
  <2> QED BY <1>1, <2>1, <2>2 DEF Inv, OneUpdate
<1>5. \A o \in Requests : Uploaded(req[o])' = Uploaded(req[o])
  <2>1. \A o \in Requests : Uploaded(req'[o]) = Uploaded(req[o])
    BY <1>1
  <2> QED BY <2>1 DEF Uploaded
<1>6. KeysAreFresh'
  BY <1>5 DEF Inv, KeysAreFresh, bucket
<1>7. NothingBefore' /\ OfferedIsStored' /\ NamesAreListed' /\ UpdatesAreNotRefused'
  BY DEF Inv, NothingBefore, OfferedIsStored, NamesAreListed, UpdatesAreNotRefused,
         IndexHolds, Active, bucket
<1>8. NoOrphans'
  BY <1>5 DEF Inv, NoOrphans, Forgets, bucket
<1> QED BY <1>2, <1>3, <1>4, <1>6, <1>7, <1>8 DEF Inv

(* A request ends; what it uploaded is removed in the background.          *)
LEMMA GiveUpStep ==
  ASSUME Inv, NEW r \in Requests, GiveUp(r),
         UNCHANGED <<created, listed, files, accepted, refused>>,
         faults \subseteq faults', faults' \in SUBSET Faults
  PROVE  Inv'
<1>1. /\ req' = [req EXCEPT ![r] = Idle] /\ trash' = trash \cup Uploaded(req[r])
      /\ UNCHANGED <<nextObject, stored>>
  BY DEF GiveUp, Discard
<1>2. /\ \A o \in Requests : req'[o] = IF o = r THEN Idle ELSE req[o]
      /\ req' \in [Requests -> Request]
  BY <1>1, IdleIsSound DEF Inv, TypeOK
<1>3. Uploaded(req[r]) \in SUBSET Objects
  BY KeptRows DEF Inv, TypeOK
<1>4. TypeOK'
  <2>1. FileStoreTypeOK'
    BY <1>1, <1>3 DEF Inv, TypeOK, FileStoreTypeOK
  <2>2. created' \in BOOLEAN /\ refused' \in BOOLEAN
    BY DEF Inv, TypeOK
  <2> QED BY <1>2, <2>1, <2>2 DEF Inv, TypeOK
<1>5. \A o \in Requests : RequestIsSound(req[o])'
  <2>1. \A o \in Requests : RequestIsSound(req'[o])
    BY <1>2, IdleIsSound DEF Inv
  <2> QED BY <2>1 DEF RequestIsSound, MarkUnkept, Active
<1>6. OneUpdate'
  <2>1. \A o \in Requests : Locking(req[o])' => Locking(req[o])
    BY <1>2, IdleIsSound DEF Locking
  <2> QED BY <2>1 DEF Inv, OneUpdate
<1>7. \A o \in Requests : Uploaded(req[o])' = IF o = r THEN {} ELSE Uploaded(req[o])
  <2>1. \A o \in Requests : Uploaded(req'[o]) = IF o = r THEN {} ELSE Uploaded(req[o])
    BY <1>2, IdleIsSound
  <2> QED BY <2>1 DEF Uploaded
<1>8. KeysAreFresh'
  <2>1. \A o \in Uploaded(req[r]) : o < nextObject /\ nextObject \in Nat /\ o \in Nat
    BY <1>3, FileStoreAssumption DEF Inv, KeysAreFresh, TypeOK, FileStoreTypeOK, Objects
  <2> QED BY <1>1, <1>7, <2>1 DEF Inv, KeysAreFresh
<1>9. NothingBefore' /\ NamesAreListed' /\ UpdatesAreNotRefused'
  BY DEF Inv, NothingBefore, NamesAreListed, UpdatesAreNotRefused, IndexHolds, Active
<1>10. OfferedIsStored'
  BY <1>1 DEF Inv, OfferedIsStored, KeysAreFresh
<1>11. NoOrphans'
  BY <1>1, <1>7 DEF Inv, NoOrphans, Forgets
<1> QED BY <1>4, <1>5, <1>6, <1>8, <1>9, <1>10, <1>11 DEF Inv

(* A request that goes on is sound as it was, but for its program point    *)
(* and what it drops.                                                      *)
LEMMA ProceedStep ==
  ASSUME Inv, NEW r \in Requests, req[r].pc # "idle", NEW pc \in Pcs \ {"idle"},
         NEW drop \in SUBSET Objects,
         req' = [req EXCEPT ![r].pc = pc, ![r].drop = drop],
         req[r].isNew => pc \in {"upload", "commit"},
         drop = IF pc = "commit" /\ ~req[r].isNew THEN MarkUnkept(Kept(req[r])) ELSE {},
         Locking([req[r] EXCEPT !.pc = pc]) => Locking(req[r]) \/ ~Locked(r),
         UNCHANGED <<bucket, created, listed, files, accepted, refused, faults>>
  PROVE  Inv'
<1> DEFINE q == [req[r] EXCEPT !.pc = pc, !.drop = drop]
<1>1. req[r] \in Request /\ RequestIsSound(req[r])
  BY DEF Inv, TypeOK
<1>2. req' = [req EXCEPT ![r] = q]
  BY DEF Inv, TypeOK
<1>3. /\ q.pc = pc /\ q.drop = drop /\ q.isNew = req[r].isNew
      /\ q.certs = req[r].certs /\ q.new = req[r].new
      /\ q \in Request
  BY <1>1 DEF Request
<1>4. Kept(q) = Kept(req[r]) /\ Uploaded(q) = Uploaded(req[r])
  BY <1>3 DEF Kept, Uploaded
<1>5. RequestIsSound(q)
  BY <1>1, <1>3, <1>4 DEF RequestIsSound
<1>6. Locking(q) => Locking(req[r]) \/ ~Locked(r)
  <2>1. [req[r] EXCEPT !.pc = pc].pc = pc
        /\ [req[r] EXCEPT !.pc = pc].isNew = req[r].isNew
    BY <1>1 DEF Request
  <2> QED BY <1>3, <2>1 DEF Locking
<1>7. accepted' \in 0..MaxRequests
  BY DEF Inv, TypeOK
<1> HIDE DEF q
<1> QED BY <1>2, <1>3, <1>4, <1>5, <1>6, <1>7, RequestStep

(* Accepting a request keeps the invariant.                                *)
LEMMA AcceptStep ==
  ASSUME Inv, NEW r \in Requests, CreateEmployee(r) \/ UpdateEmployee(r)
  PROVE  Inv'
<1>1. PICK isNew \in BOOLEAN : Accept(r, isNew) /\ (~isNew => created)
  BY DEF CreateEmployee, UpdateEmployee
<1>2. PICK certs \in Forms :
        /\ isNew => \A n \in DOMAIN certs : certs[n] \in {New, None}
        /\ req' = [req EXCEPT ![r] = [Idle EXCEPT !.pc = "upload", !.isNew = isNew,
                                                  !.certs = certs]]
  BY <1>1 DEF Accept
<1>3. /\ req[r].pc = "idle" /\ accepted < MaxRequests /\ accepted' = accepted + 1
      /\ UNCHANGED <<bucket, created, listed, files, refused, faults>>
  BY <1>1 DEF Accept
<1> DEFINE q == [Idle EXCEPT !.pc = "upload", !.isNew = isNew, !.certs = certs]
<1>4. /\ q.pc = "upload" /\ q.isNew = isNew /\ q.certs = certs /\ q.new = Empty
      /\ q.drop = {}
      /\ q = [pc |-> q.pc, isNew |-> q.isNew, certs |-> q.certs, new |-> q.new,
              drop |-> q.drop]
  <2>1. Idle \in [pc: {"idle"}, isNew: BOOLEAN, certs: {Empty}, new: {Empty}, drop: {{}}]
    BY DEF Idle
  <2>2. q \in [pc: {"upload"}, isNew: BOOLEAN, certs: {certs}, new: {Empty}, drop: {{}}]
        /\ q.isNew = isNew
    BY <2>1
  <2> HIDE DEF q
  <2> QED BY <2>2
<1>5. DOMAIN certs \in SUBSET Names /\ certs \in [DOMAIN certs -> Sources]
  <2>1. PICK N \in SUBSET Names : certs \in [N -> (1..(nextObject - 1)) \cup {New, None}]
    BY DEF Forms
  <2>2. 1..(nextObject - 1) \subseteq Objects
    BY FileStoreAssumption DEF Inv, TypeOK, FileStoreTypeOK, Objects
  <2> QED BY <2>1, <2>2 DEF Sources
<1>6. DOMAIN Empty = {} /\ Empty \in [DOMAIN Empty -> Objects]
  BY DEF Empty
<1>7. q \in Request
  BY <1>4, <1>5, <1>6, RequestFields DEF Pcs
<1>8. Uploaded(q) = {} /\ (isNew => Kept(q) = {})
  BY <1>2, <1>4, <1>6 DEF Uploaded, Kept
<1>9. RequestIsSound(q) /\ ~Locking(q)
  BY <1>1, <1>4, <1>6, <1>8 DEF RequestIsSound, Locking
<1>10. Uploaded(req[r]) = {}
  BY <1>3 DEF Inv, RequestIsSound, Uploaded
<1>11. accepted' \in 0..MaxRequests
  BY <1>3, CertificationAssumption DEF Inv, TypeOK
<1> HIDE DEF q
<1> QED BY <1>2, <1>3, <1>7, <1>8, <1>9, <1>10, <1>11, RequestStep DEF q

(* So does storing one object, under a key nobody used.                    *)
LEMMA UploadStep ==
  ASSUME Inv, NEW r \in Requests, UploadOne(r)
  PROVE  Inv'
<1>1. PICK n \in ToUpload(req[r]) :
        req' = [req EXCEPT ![r].new = [m \in DOMAIN @ \cup {n} |->
                  IF m = n THEN nextObject ELSE @[m]]]
  BY DEF UploadOne
<1>2. /\ req[r].pc = "upload" /\ nextObject \in Objects
      /\ nextObject' = nextObject + 1 /\ stored' = stored \cup {nextObject}
      /\ UNCHANGED <<trash, created, listed, files, accepted, refused, faults>>
  BY DEF UploadOne, Upload
<1>3. req[r] \in Request /\ RequestIsSound(req[r])
  BY DEF Inv, TypeOK
<1> DEFINE new == [m \in DOMAIN req[r].new \cup {n} |->
                     IF m = n THEN nextObject ELSE req[r].new[m]]
           q == [req[r] EXCEPT !.new = new]
<1>4. req' = [req EXCEPT ![r] = q]
  BY <1>1 DEF Inv, TypeOK
<1>5. /\ n \in DOMAIN req[r].certs /\ req[r].certs[n] = New /\ n \notin DOMAIN req[r].new
  BY <1>1 DEF ToUpload
<1>6. /\ DOMAIN new = DOMAIN req[r].new \cup {n} /\ new[n] = nextObject
      /\ \A m \in DOMAIN req[r].new : new[m] = req[r].new[m]
  BY <1>5
<1>7. /\ DOMAIN req[r].certs \in SUBSET Names /\ req[r].certs \in [DOMAIN req[r].certs -> Sources]
      /\ DOMAIN req[r].new \in SUBSET Names /\ req[r].new \in [DOMAIN req[r].new -> Objects]
      /\ req[r].pc \in Pcs /\ req[r].isNew \in BOOLEAN /\ req[r].drop \in SUBSET Objects
      /\ req[r] = [pc |-> req[r].pc, isNew |-> req[r].isNew, certs |-> req[r].certs,
                   new |-> req[r].new, drop |-> req[r].drop]
  BY <1>3, RequestFields
<1>8. DOMAIN new \in SUBSET Names /\ new \in [DOMAIN new -> Objects]
  BY <1>2, <1>5, <1>7
<1> HIDE DEF new
<1>9. /\ q = [pc |-> req[r].pc, isNew |-> req[r].isNew, certs |-> req[r].certs,
              new |-> new, drop |-> req[r].drop]
  BY <1>7
<1> HIDE DEF q
<1>10. /\ q.pc = "upload" /\ q.isNew = req[r].isNew /\ q.certs = req[r].certs
       /\ q.new = new /\ q.drop = req[r].drop
       /\ q = [pc |-> q.pc, isNew |-> q.isNew, certs |-> q.certs, new |-> q.new,
               drop |-> q.drop]
  BY <1>2, <1>9
<1>11. q \in Request
  <2>1. q.pc \in Pcs /\ q.drop \in SUBSET Objects
    BY <1>7, <1>10 DEF Pcs
  <2>2. q.isNew \in BOOLEAN
    BY <1>7, <1>10
  <2>3. /\ DOMAIN q.certs \in SUBSET Names /\ q.certs \in [DOMAIN q.certs -> Sources]
        /\ DOMAIN q.new \in SUBSET Names /\ q.new \in [DOMAIN q.new -> Objects]
    BY <1>7, <1>8, <1>10
  <2> QED BY <1>10, <2>1, <2>2, <2>3, RequestFields
<1>12. Kept(q) = Kept(req[r]) /\ Uploaded(q) = Uploaded(req[r]) \cup {nextObject}
  <2>1. Kept(q) = Kept(req[r])
    BY <1>10 DEF Kept
  <2>2. Uploaded(q) = {new[m] : m \in DOMAIN new}
    BY <1>10 DEF Uploaded
  <2>3. \A o : o \in Uploaded(q) <=> o \in Uploaded(req[r]) \/ o = nextObject
    BY <1>6, <2>2 DEF Uploaded
  <2> QED BY <2>1, <2>3
<1>13. \A m \in DOMAIN req[r].new : req[r].new[m] \in Uploaded(req[r])
                                    /\ req[r].new[m] # nextObject
  <2>1. \A o \in Uploaded(req[r]) : o < nextObject
    BY DEF Inv, KeysAreFresh
  <2>2. nextObject \in Nat
    BY <1>2 DEF Objects
  <2>3. \A m \in DOMAIN req[r].new : req[r].new[m] \in Uploaded(req[r])
    BY DEF Uploaded
  <2> QED BY <2>1, <2>2, <2>3
<1>14. RequestIsSound(q)
  <2>1. \A m \in DOMAIN q.new : m \in DOMAIN q.certs /\ q.certs[m] = New
    BY <1>3, <1>5, <1>6, <1>10 DEF RequestIsSound
  <2>2. \A m, l \in DOMAIN q.new : q.new[m] = q.new[l] => m = l
    BY <1>3, <1>6, <1>10, <1>13 DEF RequestIsSound
  <2>3. /\ q.isNew => Kept(q) = {} /\ q.pc \in {"upload", "commit"}
        /\ q.pc # "idle" /\ ~q.isNew => created
        /\ q.drop = IF q.pc = "commit" /\ ~q.isNew THEN MarkUnkept(Kept(q)) ELSE {}
    BY <1>2, <1>3, <1>10, <1>12 DEF RequestIsSound
  <2> QED BY <1>10, <2>1, <2>2, <2>3 DEF RequestIsSound
<1>15. /\ \A o \in Requests : req'[o] = IF o = r THEN q ELSE req[o]
       /\ req' \in [Requests -> Request]
  BY <1>4, <1>11 DEF Inv, TypeOK
<1>16. TypeOK'
  <2>1. FileStoreTypeOK'
    BY <1>2, FileStoreAssumption DEF Inv, TypeOK, FileStoreTypeOK, Objects
  <2>2. created' \in BOOLEAN /\ refused' \in BOOLEAN
    BY <1>2 DEF Inv, TypeOK
  <2> QED BY <1>2, <1>15, <2>1, <2>2 DEF Inv, TypeOK
<1>17. \A o \in Requests : RequestIsSound(req[o])'
  <2>1. \A o \in Requests : RequestIsSound(req'[o])
    BY <1>14, <1>15 DEF Inv
  <2> QED BY <1>2, <2>1 DEF RequestIsSound, MarkUnkept, Active
<1>18. OneUpdate'
  <2>1. \A o \in Requests : Locking(req[o])' => Locking(req[o])
    BY <1>10, <1>15 DEF Locking
  <2> QED BY <2>1 DEF Inv, OneUpdate
<1>19. \A o \in Requests : Uploaded(req[o])' =
         IF o = r THEN Uploaded(req[o]) \cup {nextObject} ELSE Uploaded(req[o])
  <2>1. \A o \in Requests : Uploaded(req'[o]) =
          IF o = r THEN Uploaded(req[o]) \cup {nextObject} ELSE Uploaded(req[o])
    BY <1>12, <1>15
  <2> QED BY <2>1 DEF Uploaded
<1>20. KeysAreFresh'
  <2>1. nextObject \in Nat /\ Objects \subseteq Nat
    BY <1>2 DEF Objects
  <2>2. ASSUME NEW o \in Objects, o >= nextObject'
        PROVE  files'[o].status = "absent" /\ o \notin stored' /\ o \notin trash'
    <3>1. o >= nextObject /\ o # nextObject /\ KeysAreFresh
      BY <1>2, <2>1, <2>2 DEF Inv
    <3>2. files[o].status = "absent" /\ o \notin stored /\ o \notin trash
      BY <3>1 DEF KeysAreFresh
    <3> QED BY <1>2, <3>1, <3>2
  <2>3. \A o \in Requests : Uploaded(req[o]) \in SUBSET Objects
                            /\ nextObject \notin Uploaded(req[o])
    BY <2>1, KeptRows DEF Inv, KeysAreFresh, TypeOK
  <2>4. ASSUME NEW s \in Requests, NEW o \in Uploaded(req[s])'
        PROVE  o < nextObject' /\ o \in stored' /\ o \notin trash'
               /\ files'[o].status = "absent"
    <3>1. o \in Uploaded(req[s]) \/ o = nextObject
      BY <1>19
    <3>2. CASE o \in Uploaded(req[s])
      <4>1. o < nextObject /\ o \in stored /\ o \notin trash /\ files[o].status = "absent"
        BY <3>2 DEF Inv, KeysAreFresh
      <4>2. o \in Nat /\ nextObject \in Nat
        BY <2>1, <2>3, <3>2
      <4>3. o < nextObject'
        BY <1>2, <4>1, <4>2
      <4> QED BY <1>2, <4>1, <4>3
    <3>3. CASE o = nextObject
      <4>1. files[o].status = "absent" /\ o \notin trash
        BY <1>2, <2>1, <3>3 DEF Inv, KeysAreFresh
      <4> QED BY <1>2, <2>1, <3>3, <4>1
    <3> QED BY <3>1, <3>2, <3>3
  <2>5. ASSUME NEW s \in Requests, NEW t \in Requests, s # t
        PROVE  Uploaded(req[s])' \cap Uploaded(req[t])' = {}
    <3>1. Uploaded(req[s]) \cap Uploaded(req[t]) = {}
      BY <2>5 DEF Inv, KeysAreFresh
    <3>2. nextObject \notin Uploaded(req[s]) /\ nextObject \notin Uploaded(req[t])
      BY <2>3
    <3>3. /\ Uploaded(req[s])' = IF s = r THEN Uploaded(req[s]) \cup {nextObject}
                                ELSE Uploaded(req[s])
          /\ Uploaded(req[t])' = IF t = r THEN Uploaded(req[t]) \cup {nextObject}
                                ELSE Uploaded(req[t])
      BY <1>19
    <3> QED BY <2>5, <3>1, <3>2, <3>3
  <2> QED BY <2>2, <2>4, <2>5 DEF KeysAreFresh
<1>21. NothingBefore' /\ OfferedIsStored' /\ NamesAreListed' /\ UpdatesAreNotRefused'
  BY <1>2 DEF Inv, NothingBefore, OfferedIsStored, NamesAreListed, UpdatesAreNotRefused,
              IndexHolds, Active
<1>22. NoOrphans'
  <2>1. NoOrphans /\ \A o \in Requests : Uploaded(req[o]) \subseteq Uploaded(req[o])'
    BY <1>19 DEF Inv
  <2>2. nextObject \in Uploaded(req[r])'
    BY <1>19
  <2> QED BY <1>2, <2>1, <2>2 DEF NoOrphans, Forgets
<1> QED BY <1>16, <1>17, <1>18, <1>20, <1>21, <1>22 DEF Inv

(* The steps of a request between its uploads and its commit.              *)
LEMMA WorkStep ==
  ASSUME Inv, NEW r \in Requests,
         UploadsDone(r) \/ ListKept(r) \/ LockEmployee(r) \/ MarkDeleted(r)
  PROVE  Inv'
<1>1. /\ UNCHANGED <<bucket, created, listed, files, accepted, refused, faults>>
      /\ req[r].pc \in {"upload", "list", "update", "mark"}
  BY DEF UploadsDone, ListKept, LockEmployee, MarkDeleted
<1>2. req[r] \in Request /\ RequestIsSound(req[r]) /\ req \in [Requests -> Request]
  BY DEF Inv, TypeOK
<1>3. /\ req[r].drop = {} /\ (req[r].isNew => req[r].pc = "upload")
      /\ \A pc : [req[r] EXCEPT !.pc = pc].pc = pc
                 /\ [req[r] EXCEPT !.pc = pc].isNew = req[r].isNew
  BY <1>1, <1>2 DEF RequestIsSound, Request
<1>4. ASSUME NEW pc \in {"commit", "list", "update"}, req[r].pc \in {"upload", "list"},
             req' = [req EXCEPT ![r].pc = pc], req[r].isNew <=> pc = "commit"
      PROVE  Inv'
  <2>1. req' = [req EXCEPT ![r].pc = pc, ![r].drop = {}]
    BY <1>2, <1>3, <1>4 DEF Request
  <2>2. ~Locking([req[r] EXCEPT !.pc = pc])
    BY <1>3, <1>4 DEF Locking
  <2>3. pc \in Pcs \ {"idle"} /\ {} \in SUBSET Objects /\ req[r].pc # "idle"
    BY <1>4 DEF Pcs
  <2> QED BY <1>1, <1>4, <2>1, <2>2, <2>3, ProceedStep
<1>5. CASE UploadsDone(r)
  <2>1. /\ req[r].pc = "upload"
        /\ req' = [req EXCEPT ![r].pc = IF req[r].isNew THEN "commit"
                                        ELSE IF Kept(req[r]) = {} THEN "update" ELSE "list"]
    BY <1>5 DEF UploadsDone
  <2>2. CASE req[r].isNew
    BY <1>4, <2>1, <2>2
  <2>3. CASE ~req[r].isNew /\ Kept(req[r]) = {}
    BY <1>4, <2>1, <2>3
  <2>4. CASE ~req[r].isNew /\ Kept(req[r]) # {}
    BY <1>4, <2>1, <2>4
  <2> QED BY <2>2, <2>3, <2>4
<1>6. CASE ListKept(r)
  BY <1>3, <1>4, <1>6 DEF ListKept
<1>7. CASE LockEmployee(r)
  <2>1. /\ req[r].pc = "update" /\ ~Locked(r) /\ req' = [req EXCEPT ![r].pc = "mark"]
    BY <1>7 DEF LockEmployee
  <2>2. req' = [req EXCEPT ![r].pc = "mark", ![r].drop = {}]
    BY <1>2, <1>3, <2>1 DEF Request
  <2>3. "mark" \in Pcs \ {"idle"} /\ {} \in SUBSET Objects /\ ~req[r].isNew
    BY <1>3, <2>1 DEF Pcs
  <2> QED BY <1>1, <2>1, <2>2, <2>3, ProceedStep
<1>8. CASE MarkDeleted(r)
  <2> DEFINE drop == MarkUnkept(Kept(req[r]))
  <2>1. /\ req[r].pc = "mark"
        /\ req' = [req EXCEPT ![r].pc = "commit", ![r].drop = drop]
    BY <1>8 DEF MarkDeleted
  <2>2. drop \in SUBSET Objects
    BY DEF MarkUnkept, Active
  <2>3. "commit" \in Pcs \ {"idle"} /\ ~req[r].isNew /\ Locking(req[r])
    BY <1>3, <2>1 DEF Pcs, Locking
  <2> HIDE DEF drop
  <2>4. drop = IF "commit" = "commit" /\ ~req[r].isNew THEN MarkUnkept(Kept(req[r])) ELSE {}
    BY <2>3 DEF drop
  <2> QED BY <1>1, <2>1, <2>2, <2>3, <2>4, ProceedStep
<1> QED BY <1>5, <1>6, <1>7, <1>8

-----------------------------------------------------------------------------
(* The commit: what it leaves agrees, whoever else is under way.           *)

(* The partial unique index does not refuse an update.                     *)
LEMMA NotRefused ==
  ASSUME Inv, NEW r \in Requests, req[r].pc = "commit", ~req[r].isNew
  PROVE  ~Refused(r)
BY TablesHold DEF Refused, Inv, TypeOK

(* What a committed transaction leaves in the tables.                      *)
LEMMA PersistFacts ==
  ASSUME Inv, NEW r \in Requests, Persist(r)
  PROVE  /\ files' \in [Objects -> File]
         /\ \A o \in Objects :
              files'[o].status = IF o \in Uploaded(req[r]) THEN "uploaded"
                                 ELSE IF o \in req[r].drop THEN "deleted" ELSE files[o].status
         /\ IndexHolds(files') /\ \A o \in Active(files') : files'[o].name \in listed'
         /\ listed' \in SUBSET Names /\ created'
         /\ req[r].drop \in SUBSET Objects
         /\ \A o \in req[r].drop : files[o].status = "uploaded" /\ files[o].name # None
<1> DEFINE q == req[r]
<1>1. /\ q \in Request /\ RequestIsSound(q) /\ TypeOK /\ NothingBefore
      /\ q.pc = "commit" /\ ~Refused(r) /\ (q.isNew => ~created)
      /\ files' = Final(q) /\ listed' = DOMAIN q.certs /\ created' = TRUE
  BY DEF Inv, TypeOK, Persist, Refused
<1>2. /\ files' \in [Objects -> File]
      /\ \A o \in Objects :
           /\ files'[o].status = IF o \in Uploaded(q) THEN "uploaded"
                                 ELSE IF o \in q.drop THEN "deleted" ELSE files[o].status
           /\ files'[o].name = IF o \in Uploaded(q) THEN NewName(q, o)
                               ELSE IF o \in Kept(q) THEN NameOf(q, o) ELSE files[o].name
  <2>1. \A o \in Objects :
           /\ Final(q)[o].status = IF o \in Uploaded(q) THEN "uploaded"
                                   ELSE IF o \in q.drop THEN "deleted" ELSE files[o].status
           /\ Final(q)[o].name = IF o \in Uploaded(q) THEN NewName(q, o)
                                 ELSE IF o \in Kept(q) THEN NameOf(q, o) ELSE files[o].name
    BY <1>1, FinalRows
  <2>2. Final(q) \in [Objects -> File]
    <3>1. 1 \in Objects
      BY FileStoreAssumption DEF Objects
    <3> QED BY <1>1, <3>1, FinalRows
  <2> QED BY <1>1, <2>1, <2>2
<1>3. IndexHolds(files')
  <2>1. Final(q) \in Tables(q)
    BY DEF Tables, Final
  <2> QED BY <1>1, <2>1, TablesHold
<1>4. \A o \in Active(files') : files'[o].name \in listed'
  <2> SUFFICES ASSUME NEW o \in Active(files') PROVE files'[o].name \in DOMAIN q.certs
    BY <1>1
  <2>1. o \in Objects /\ files'[o].status = "uploaded" /\ files'[o].name # None
    BY DEF Active
  <2>2. CASE o \in Uploaded(q)
    BY <1>1, <1>2, <2>1, <2>2, NewRows
  <2>3. CASE o \notin Uploaded(q) /\ o \in Kept(q)
    BY <1>1, <1>2, <2>1, <2>3, KeptRows
  <2>4. CASE o \notin Uploaded(q) /\ o \notin Kept(q)
    <3>1. o \notin q.drop /\ o \in Active(files)
      BY <1>2, <2>1, <2>4 DEF Active
    <3> QED BY <1>1, <2>4, <3>1, ActiveRows
  <2> QED BY <2>2, <2>3, <2>4
<1>5. listed' \in SUBSET Names /\ q.drop \in SUBSET Objects
  BY <1>1, RequestFields
<1>6. \A o \in q.drop : files[o].status = "uploaded" /\ files[o].name # None
  BY <1>1 DEF RequestIsSound, MarkUnkept, Active
<1>7. created'
  BY <1>1
<1> QED BY <1>2, <1>3, <1>4, <1>5, <1>6, <1>7

(* gone: the objects whose removal the commit starts.                      *)
LEMMA PersistStep ==
  ASSUME Inv, NEW r \in Requests, Persist(r), req' = [req EXCEPT ![r] = Idle],
         UNCHANGED <<nextObject, stored, accepted, refused>>,
         faults \subseteq faults', faults' \in SUBSET Faults,
         NEW gone, Discard(gone),
         \/ gone = req[r].drop
         \/ gone = Uploaded(req[r]) /\ "commitLost" \in faults'
  PROVE  Inv'
<1>1. trash' = trash \cup gone
  BY DEF Discard
<1>2. /\ files' \in [Objects -> File]
      /\ \A o \in Objects :
           files'[o].status = IF o \in Uploaded(req[r]) THEN "uploaded"
                              ELSE IF o \in req[r].drop THEN "deleted" ELSE files[o].status
      /\ IndexHolds(files') /\ \A o \in Active(files') : files'[o].name \in listed'
      /\ listed' \in SUBSET Names /\ created'
      /\ req[r].drop \in SUBSET Objects
      /\ \A o \in req[r].drop : files[o].status = "uploaded" /\ files[o].name # None
  BY PersistFacts
<1>3. /\ \A o \in Requests : req'[o] = IF o = r THEN Idle ELSE req[o]
      /\ req' \in [Requests -> Request]
  BY IdleIsSound DEF Inv, TypeOK
<1>4. \A o \in Requests : Uploaded(req[o]) \in SUBSET Objects
  BY KeptRows DEF Inv, TypeOK
<1>5. \A o \in Requests : Uploaded(req[o])' = IF o = r THEN {} ELSE Uploaded(req[o])
  <2>1. \A o \in Requests : Uploaded(req'[o]) = IF o = r THEN {} ELSE Uploaded(req[o])
    BY <1>3, IdleIsSound
  <2> QED BY <2>1 DEF Uploaded
<1>6. TypeOK'
  <2>1. FileStoreTypeOK'
    BY <1>1, <1>2, <1>4 DEF Inv, TypeOK, FileStoreTypeOK
  <2>2. created' \in BOOLEAN
    BY <1>2
  <2>3. refused' \in BOOLEAN
    BY DEF Inv, TypeOK
  <2> QED BY <1>2, <1>3, <2>1, <2>2, <2>3 DEF Inv, TypeOK
<1>7. \A o \in Requests : RequestIsSound(req[o])'
  <2> SUFFICES ASSUME NEW o \in Requests PROVE RequestIsSound(req[o])'
    OBVIOUS
  <2>1. CASE o = r
    <3>1. RequestIsSound(Idle)
      BY IdleIsSound
    <3>2. Idle.pc = "idle"
      BY DEF Idle
    <3> QED BY <1>3, <2>1, <3>1, <3>2 DEF RequestIsSound, Kept
  <2>2. CASE o # r
    <3>1. req'[o] = req[o] /\ RequestIsSound(req[o])
      BY <1>3, <2>2 DEF Inv
    <3>2. ~(req[o].pc = "commit" /\ ~req[o].isNew)
      <4> SUFFICES ASSUME req[o].pc = "commit", ~req[o].isNew PROVE FALSE
        OBVIOUS
      <4>1. created
        BY <3>1 DEF RequestIsSound
      <4>2. req[r].pc = "commit" /\ ~req[r].isNew
        BY <4>1 DEF Persist, Refused
      <4> QED BY <2>2, <4>2 DEF Inv, OneUpdate, Locking
    <3>3. created' /\ Kept(req[o])' = Kept(req[o])
      BY <1>2, <3>1 DEF Kept
    <3>4. req[o].drop = {}
      BY <3>1, <3>2 DEF RequestIsSound
    <3>5. /\ \A n \in DOMAIN req'[o].new :
               n \in DOMAIN req'[o].certs /\ req'[o].certs[n] = New
          /\ \A n, m \in DOMAIN req'[o].new : req'[o].new[n] = req'[o].new[m] => n = m
          /\ req'[o].isNew => Kept(req[o])' = {} /\ req'[o].pc \in {"upload", "commit"}
          /\ req'[o].pc = "idle" => DOMAIN req'[o].new = {}
      BY <3>1, <3>3 DEF RequestIsSound
    <3>6. req'[o].drop = {} /\ ~(req'[o].pc = "commit" /\ ~req'[o].isNew)
      BY <3>1, <3>2, <3>4
    <3> QED BY <3>3, <3>5, <3>6 DEF RequestIsSound
  <2> QED BY <2>1, <2>2
<1>8. OneUpdate'
  <2>1. \A o \in Requests : Locking(req[o])' => Locking(req[o])
    BY <1>3, IdleIsSound DEF Locking
  <2> QED BY <2>1 DEF Inv, OneUpdate
<1>9. KeysAreFresh'
  <2>1. KeysAreFresh /\ nextObject \in Nat /\ Objects \subseteq Nat
    BY FileStoreAssumption DEF Inv, TypeOK, FileStoreTypeOK, Objects
  <2>2. ASSUME NEW o \in Objects, o >= nextObject
        PROVE  files'[o].status = "absent" /\ o \notin stored' /\ o \notin trash'
    <3>1. files[o].status = "absent" /\ o \notin stored /\ o \notin trash
      BY <2>1, <2>2 DEF KeysAreFresh
    <3>2. o \notin req[r].drop
      BY <1>2, <3>1
    <3>3. o \notin Uploaded(req[r])
      BY <2>1, <3>1 DEF KeysAreFresh
    <3> QED BY <1>1, <1>2, <3>1, <3>2, <3>3
  <2>3. ASSUME NEW s \in Requests, NEW o \in Uploaded(req[s])'
        PROVE  o < nextObject' /\ o \in stored' /\ o \notin trash'
               /\ files'[o].status = "absent"
    <3>1. s # r /\ o \in Uploaded(req[s])
      BY <1>5, <2>3
    <3>2. o < nextObject /\ o \in stored /\ o \notin trash /\ files[o].status = "absent"
          /\ o \in Objects
      BY <1>4, <2>1, <3>1 DEF KeysAreFresh
    <3>3. o \notin Uploaded(req[r])
      BY <2>1, <3>1 DEF KeysAreFresh
    <3>4. o \notin req[r].drop
      BY <1>2, <3>2
    <3> QED BY <1>1, <1>2, <3>2, <3>3, <3>4
  <2>4. \A s, t \in Requests : s # t => Uploaded(req[s])' \cap Uploaded(req[t])' = {}
    BY <1>5, <2>1 DEF KeysAreFresh
  <2> QED BY <2>2, <2>3, <2>4 DEF KeysAreFresh
<1>10. NothingBefore' /\ NamesAreListed' /\ UpdatesAreNotRefused'
  BY <1>2 DEF Inv, NothingBefore, NamesAreListed, UpdatesAreNotRefused, IndexHolds, Active
<1>11. OfferedIsStored'
  <2> SUFFICES ASSUME "commitLost" \notin faults', NEW o \in Objects,
                      files'[o].status = "uploaded"
               PROVE  o \in stored' /\ o \notin trash'
    BY DEF OfferedIsStored
  <2>1. trash' = trash \cup req[r].drop
    BY <1>1
  <2>2. CASE o \in Uploaded(req[r])
    <3>1. o \in stored /\ o \notin trash /\ files[o].status = "absent"
      BY <2>2 DEF Inv, KeysAreFresh
    <3> QED BY <1>2, <2>1, <3>1
  <2>3. CASE o \notin Uploaded(req[r])
    <3>1. o \notin req[r].drop /\ files[o].status = "uploaded"
      BY <1>2, <2>3
    <3> QED BY <2>1, <3>1 DEF Inv, OfferedIsStored
  <2> QED BY <2>2, <2>3
<1>12. NoOrphans'
  <2> SUFFICES ASSUME ~Forgets', NEW o \in stored
               PROVE  \/ files'[o].status = "uploaded"
                      \/ o \in trash'
                      \/ \E s \in Requests : o \in Uploaded(req[s])'
    BY DEF NoOrphans
  <2>1. ~Forgets /\ gone = req[r].drop /\ o \in Objects
    BY DEF Forgets, Inv, TypeOK, FileStoreTypeOK
  <2>2. \/ files[o].status = "uploaded" \/ o \in trash
        \/ \E s \in Requests : o \in Uploaded(req[s])
    BY <2>1 DEF Inv, NoOrphans
  <2> QED BY <1>1, <1>2, <1>5, <2>1, <2>2
<1> QED BY <1>6, <1>7, <1>8, <1>9, <1>10, <1>11, <1>12 DEF Inv

-----------------------------------------------------------------------------
(* The rest: refusals, faults and the background.                          *)

(* A request that fails before its transaction keeps the invariant.        *)
LEMMA EndStep ==
  ASSUME Inv, NEW r \in Requests,
         KeptNotFound(r) \/ Rollback(r) \/ UploadFails(r) \/ TransactionFails(r)
  PROVE  Inv'
<1>1. GiveUp(r) /\ UNCHANGED <<created, listed, files, accepted>>
      /\ faults \subseteq faults' /\ faults' \in SUBSET Faults
  BY DEF KeptNotFound, Rollback, UploadFails, TransactionFails, Fault, Inv, TypeOK
<1>2. refused' = refused
  <2>1. CASE Rollback(r)
    <3>1. req[r].isNew
      BY <2>1, NotRefused DEF Rollback
    <3>2. refused \in BOOLEAN /\ refused' = (refused \/ ~req[r].isNew)
      BY <2>1 DEF Rollback, Inv, TypeOK
    <3> QED BY <3>1, <3>2
  <2>2. CASE KeptNotFound(r) \/ UploadFails(r) \/ TransactionFails(r)
    BY <2>2 DEF KeptNotFound, UploadFails, TransactionFails
  <2> QED BY <2>1, <2>2
<1> QED BY <1>1, <1>2, GiveUpStep

(* So does the removal of an object, and its failure,                      *)
LEMMA BackgroundStep ==
  ASSUME Inv, NEW o \in Objects, Cleanup(o) \/ CleanupFails(o)
  PROVE  Inv'
<1>1. /\ o \in trash /\ trash' = trash \ {o}
      /\ UNCHANGED <<nextObject, created, listed, files, req, accepted, refused>>
      /\ faults \subseteq faults' /\ faults' \in SUBSET Faults
      /\ \/ stored' = stored \ {o}
         \/ stored' = stored /\ "delete" \in faults'
  BY DEF Cleanup, CleanupFails, Remove, RemoveFails, Fault, Inv, TypeOK
<1>2. TypeOK'
  <2>1. FileStoreTypeOK'
    BY <1>1 DEF Inv, TypeOK, FileStoreTypeOK
  <2>2. created' \in BOOLEAN /\ refused' \in BOOLEAN
    BY <1>1 DEF Inv, TypeOK
  <2> QED BY <1>1, <2>1, <2>2 DEF Inv, TypeOK
<1>3. (\A r \in Requests : RequestIsSound(req[r]))' /\ OneUpdate'
  <2>1. \A r \in Requests : RequestIsSound(req'[r])
    BY <1>1 DEF Inv
  <2>2. (\A r \in Requests : RequestIsSound(req[r]))'
    BY <1>1, <2>1 DEF RequestIsSound, MarkUnkept, Active
  <2>3. OneUpdate'
    BY <1>1 DEF Inv, OneUpdate, Locking
  <2> QED BY <2>2, <2>3
<1>4. \A r \in Requests : Uploaded(req[r])' = Uploaded(req[r])
  BY <1>1 DEF Uploaded
<1>5. KeysAreFresh'
  BY <1>1, <1>4 DEF Inv, KeysAreFresh
<1>6. NothingBefore' /\ NamesAreListed' /\ UpdatesAreNotRefused' /\ OfferedIsStored'
  BY <1>1 DEF Inv, NothingBefore, NamesAreListed, UpdatesAreNotRefused, IndexHolds,
              Active, OfferedIsStored
<1>7. NoOrphans'
  BY <1>1, <1>4 DEF Inv, NoOrphans, Forgets
<1> QED BY <1>2, <1>3, <1>5, <1>6, <1>7 DEF Inv

(* a crash, which forgets requests and removals,                           *)
LEMMA CrashStep ==
  ASSUME Inv, Crash
  PROVE  Inv'
<1>1. /\ req' = [r \in Requests |-> Idle] /\ trash' = {}
      /\ UNCHANGED <<nextObject, stored, created, listed, files, accepted, refused>>
      /\ faults \subseteq faults' /\ faults' \in SUBSET Faults /\ "crash" \in faults'
  BY DEF Crash, Fault, Inv, TypeOK
<1>2. TypeOK'
  <2>1. FileStoreTypeOK'
    BY <1>1 DEF Inv, TypeOK, FileStoreTypeOK
  <2>2. created' \in BOOLEAN /\ refused' \in BOOLEAN
    BY <1>1 DEF Inv, TypeOK
  <2>3. req' \in [Requests -> Request]
    BY <1>1, IdleIsSound
  <2> QED BY <1>1, <2>1, <2>2, <2>3 DEF Inv, TypeOK
<1>3. \A r \in Requests : req'[r] = Idle
  BY <1>1
<1>4. (\A r \in Requests : RequestIsSound(req[r]))'
  <2>1. \A r \in Requests : RequestIsSound(req'[r])
    BY <1>3, IdleIsSound
  <2> QED BY <1>1, <2>1 DEF RequestIsSound, MarkUnkept, Active, Kept
<1>5. OneUpdate'
  <2>1. \A r \in Requests : ~Locking(req[r])'
    BY <1>3, IdleIsSound DEF Locking
  <2> QED BY <2>1 DEF OneUpdate
<1>6. \A r \in Requests : Uploaded(req[r])' = {}
  <2>1. \A r \in Requests : Uploaded(req'[r]) = {}
    BY <1>3, IdleIsSound
  <2> QED BY <2>1 DEF Uploaded
<1>7. KeysAreFresh'
  BY <1>1, <1>6 DEF Inv, KeysAreFresh
<1>8. NothingBefore' /\ NamesAreListed' /\ UpdatesAreNotRefused' /\ OfferedIsStored'
  BY <1>1 DEF Inv, NothingBefore, NamesAreListed, UpdatesAreNotRefused, IndexHolds,
              Active, OfferedIsStored
<1>9. NoOrphans'
  BY <1>1 DEF NoOrphans, Forgets
<1> QED BY <1>2, <1>4, <1>5, <1>7, <1>8, <1>9 DEF Inv

(* and a step that changes nothing.                                        *)
LEMMA StutterStep ==
  ASSUME Inv, UNCHANGED vars
  PROVE  Inv'
<1>1. UNCHANGED <<nextObject, stored, trash, created, listed, files, req, accepted,
                  refused, faults>>
  BY DEF vars, bucket
<1>2. \A r \in Requests : Uploaded(req[r])' = Uploaded(req[r])
  BY <1>1 DEF Uploaded
<1>3. TypeOK'
  <2>1. FileStoreTypeOK'
    BY <1>1 DEF Inv, TypeOK, FileStoreTypeOK
  <2>2. created' \in BOOLEAN /\ refused' \in BOOLEAN
    BY <1>1 DEF Inv, TypeOK
  <2> QED BY <1>1, <2>1, <2>2 DEF Inv, TypeOK
<1>4. (\A r \in Requests : RequestIsSound(req[r]))' /\ OneUpdate'
  <2>1. \A r \in Requests : RequestIsSound(req'[r])
    BY <1>1 DEF Inv
  <2>2. (\A r \in Requests : RequestIsSound(req[r]))'
    BY <1>1, <2>1 DEF RequestIsSound, MarkUnkept, Active
  <2>3. OneUpdate'
    BY <1>1 DEF Inv, OneUpdate, Locking
  <2> QED BY <2>2, <2>3
<1>5. KeysAreFresh' /\ NoOrphans'
  BY <1>1, <1>2 DEF Inv, KeysAreFresh, NoOrphans, Forgets
<1>6. NothingBefore' /\ NamesAreListed' /\ UpdatesAreNotRefused' /\ OfferedIsStored'
  BY <1>1 DEF Inv, NothingBefore, NamesAreListed, UpdatesAreNotRefused, IndexHolds,
              Active, OfferedIsStored
<1> QED BY <1>3, <1>4, <1>5, <1>6 DEF Inv

(* Every step keeps the invariant.                                         *)
LEMMA InvStep ==
  ASSUME Inv, [Next]_vars
  PROVE  Inv'
<1>1. CASE UNCHANGED vars \/ Quiet
  BY <1>1, StutterStep DEF Quiet
<1>2. ASSUME NEW r \in Requests, Commit(r) PROVE Inv'
  <2>1. Persist(r) /\ req' = [req EXCEPT ![r] = Idle] /\ Discard(req[r].drop)
        /\ UNCHANGED <<nextObject, stored, accepted, refused>>
        /\ faults \subseteq faults' /\ faults' \in SUBSET Faults
    BY <1>2 DEF Commit, Inv, TypeOK
  <2> QED BY <2>1, PersistStep
<1>3. ASSUME NEW r \in Requests, CommitReportedAsFailed(r) PROVE Inv'
  <2>1. Persist(r) /\ req' = [req EXCEPT ![r] = Idle] /\ Discard(Uploaded(req[r]))
        /\ UNCHANGED <<nextObject, stored, accepted, refused>>
        /\ faults \subseteq faults' /\ faults' \in SUBSET Faults
        /\ "commitLost" \in faults'
    BY <1>3 DEF CommitReportedAsFailed, GiveUp, Fault, Inv, TypeOK
  <2> QED BY <2>1, PersistStep
<1>4. ASSUME NEW r \in Requests, CreateEmployee(r) \/ UpdateEmployee(r) \/ Work(r) \/ Failure(r)
      PROVE  Inv'
  <2>1. CASE CreateEmployee(r) \/ UpdateEmployee(r) \/ UploadOne(r)
    BY <2>1, AcceptStep, UploadStep
  <2>2. CASE UploadsDone(r) \/ ListKept(r) \/ LockEmployee(r) \/ MarkDeleted(r)
    BY <2>2, WorkStep
  <2>3. CASE KeptNotFound(r) \/ Rollback(r) \/ UploadFails(r) \/ TransactionFails(r)
    BY <2>3, EndStep
  <2> QED BY <1>2, <1>3, <1>4, <2>1, <2>2, <2>3 DEF Work, Failure
<1> QED BY <1>1, <1>4, CrashStep, BackgroundStep DEF Next

(* The invariant holds in every reachable state.                           *)
LEMMA Invariance == Spec => []Inv
BY Initially, InvStep, PTL DEF Spec

(* The state of files and requests has its types.                          *)
THEOREM TypesHold == Spec => []TypeOK
<1>1. Inv => TypeOK
  BY DEF Inv
<1> QED BY <1>1, Invariance, PTL

(* An offered PDF is in the bucket, and nobody is about to remove it       *)
(* (cleanupOrphanFile runs after the transaction).                         *)
THEOREM OfferedStored == Spec => []OfferedIsStored
<1>1. Inv => OfferedIsStored
  BY DEF Inv
<1> QED BY <1>1, Invariance, PTL

(* The certifications with a PDF are listed, with one each (repo.go).      *)
THEOREM NamesListed == Spec => []NamesAreListed
<1>1. Inv => NamesAreListed
  BY DEF Inv
<1> QED BY <1>1, Invariance, PTL

(* The partial unique index refuses no update (UpdateEmployee).            *)
THEOREM NotRefusedEver == Spec => []UpdatesAreNotRefused
<1>1. Inv => UpdatesAreNotRefused
  BY DEF Inv
<1> QED BY <1>1, Invariance, PTL

(* Nothing is left in the bucket that nobody will remove                   *)
(* (cleanupUploadedFiles).                                                 *)
THEOREM NoOrphansLeft == Spec => []NoOrphans
<1>1. Inv => NoOrphans
  BY DEF Inv
<1> QED BY <1>1, Invariance, PTL

(* No step drops a PDF that has no certification.                          *)
LEMMA UnassignedStep ==
  ASSUME Inv, [Next]_vars, NEW o \in Objects,
         files[o] = [status |-> "uploaded", name |-> None], files'[o] # files[o]
  PROVE  files'[o].status = "uploaded"
<1>1. PICK r \in Requests : Persist(r)
  BY DEF Next, Quiet, vars, Crash, Cleanup, CleanupFails, CreateEmployee, UpdateEmployee,
         Accept, Work, Failure, UploadOne, UploadsDone, ListKept, KeptNotFound, LockEmployee,
         MarkDeleted, Commit, Rollback, UploadFails, TransactionFails,
         CommitReportedAsFailed
<1>2. files[o].status = "uploaded" /\ files[o].name = None
  OBVIOUS
<1> QED BY <1>1, <1>2, PersistFacts

(* A PDF without a certification is never dropped (the marking looks at    *)
(* named rows alone).                                                      *)
THEOREM UnassignedKept == Spec => UnassignedIsKept
<1>1. ASSUME Inv, [Next]_vars
      PROVE  [\A o \in Objects :
                files[o] = [status |-> "uploaded", name |-> None] /\ files'[o] # files[o]
                  => files'[o].status = "uploaded"]_vars
  BY <1>1, UnassignedStep
<1> QED BY <1>1, Invariance, PTL DEF Spec, UnassignedIsKept

(* When nothing is under way, the bucket holds the PDFs the profile offers *)
(* and no other object, whatever requests overlapped before: as long as no *)
(* goroutine dies, no removal fails and commits are reported as they went. *)
THEOREM BucketAtRest ==
  ASSUME Faults \cap {"crash", "delete", "commitLost"} = {}
  PROVE  Spec => [](/\ \A r \in Requests : req[r].pc = "idle"
                    /\ trash = {}
                    => stored = {o \in Objects : files[o].status = "uploaded"})
<1>1. ASSUME Inv, trash = {}, \A r \in Requests : req[r].pc = "idle"
      PROVE  stored = {o \in Objects : files[o].status = "uploaded"}
  <2>1. ~Forgets /\ "commitLost" \notin faults /\ stored \subseteq Objects
    BY <1>1 DEF Inv, TypeOK, FileStoreTypeOK, Forgets
  <2>2. \A r \in Requests : DOMAIN req[r].new = {}
    BY <1>1 DEF Inv, RequestIsSound
  <2>3. \A r \in Requests : Uploaded(req[r]) = {}
    BY <2>2 DEF Uploaded
  <2> QED BY <1>1, <2>1, <2>3 DEF Inv, OfferedIsStored, NoOrphans
<1> QED BY <1>1, Invariance, PTL
=============================================================================
