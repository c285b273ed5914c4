-------------------------- MODULE CertificationFiles --------------------------
(***************************************************************************)
(* The certifications of one employee, the rows of their PDFs              *)
(* (employee_files) and the objects in the bucket, under the two writes of *)
(* the base section: CreateEmployee and UpdateEmployee.  A write uploads   *)
(* its new PDFs, replaces the set of certifications in one transaction,    *)
(* and removes in the background the objects that lost their row, or its   *)
(* own when the transaction fails.                                         *)
(*                                                                         *)
(* A row is known by the key of its object.  A request maps each of its    *)
(* certifications to the PDF it wants: New, the row it keeps, or None.     *)
(*                                                                         *)
(* Faults: "upload" an upload that fails; "db" a transaction that fails;   *)
(* "commitLost" one that commits and reports an error; "delete" a removal  *)
(* that fails; "crash" the death of the process.                           *)
(***************************************************************************)
EXTENDS FileStore

CONSTANTS
  Requests,    \* requests that may be under way at once
  Names,       \* certification names
  None, New,
  MaxRequests, \* bound on the requests accepted
  Faults,      \* kinds of faults a behaviour may contain
  MaxFaults    \* and how many of these kinds at once

ASSUME CertificationAssumption ==
  /\ None \notin Names
  /\ None \notin Nat /\ New \notin Nat /\ None # New
  /\ MaxRequests \in Nat
  /\ MaxFaults \in Nat

VARIABLES
  created,   \* the employees row exists
  listed,    \* employees.certifications
  files,     \* employee_files, by the key of the object
  req,       \* req[r]: what request r is doing
  accepted,  \* requests accepted so far
  refused,   \* history: the unique index refused a statement
  faults     \* kinds of faults so far

vars == <<bucket, created, listed, files, req, accepted, refused, faults>>

Status == {"absent", "uploaded", "deleted"}
File == [status: Status, name: Names \cup {None}]
Sources == Objects \cup {New, None}
Pcs == {"idle", "upload", "list", "update", "mark", "commit"}

(* certs: the request; new: the objects uploaded for it, by certification; *)
(* drop: rows its transaction marked as deleted.                           *)
Request == [pc: Pcs, isNew: BOOLEAN, certs: UNION {[N -> Sources] : N \in SUBSET Names},
            new: UNION {[N -> Objects] : N \in SUBSET Names}, drop: SUBSET Objects]

Empty == [n \in {} |-> None]
Idle == [pc |-> "idle", isNew |-> FALSE, certs |-> Empty, new |-> Empty, drop |-> {}]

TypeOK ==
  /\ FileStoreTypeOK
  /\ created \in BOOLEAN
  /\ listed \in SUBSET Names
  /\ files \in [Objects -> File]
  /\ req \in [Requests -> Request]
  /\ accepted \in 0..MaxRequests
  /\ refused \in BOOLEAN
  /\ faults \in SUBSET Faults

(* The profile is new, or was created before PDFs had a certification: its *)
(* PDF is then uploaded and unassigned.                                    *)
Init ==
  /\ created \in BOOLEAN
  /\ \E legacy \in IF created THEN {{}, {1}} ELSE {{}} :
       /\ files = [o \in Objects |->
            [status |-> IF o \in legacy THEN "uploaded" ELSE "absent", name |-> None]]
       /\ stored = legacy
  /\ listed = {}
  /\ nextObject = 2
  /\ trash = {}
  /\ req = [r \in Requests |-> Idle]
  /\ accepted = 0
  /\ refused = FALSE
  /\ faults = {}

-----------------------------------------------------------------------------
(* What a request asks for.                                                *)

Kept(q) == {q.certs[n] : n \in DOMAIN q.certs} \ {New, None}
ToUpload(q) == {n \in DOMAIN q.certs : q.certs[n] = New} \ DOMAIN q.new
Uploaded(q) == {q.new[n] : n \in DOMAIN q.new}
NameOf(q, o) == CHOOSE n \in DOMAIN q.certs : q.certs[n] = o

(* parseCertificationsForm: one entry per name, no row kept twice.  The    *)
(* identifiers a client may know are those handed out.                     *)
Forms ==
  {f \in UNION {[N -> (1..(nextObject - 1)) \cup {New, None}] : N \in SUBSET Names} :
     \A n, m \in DOMAIN f : n # m /\ f[n] \notin {New, None} => f[n] # f[m]}

-----------------------------------------------------------------------------
(* Statements on employee_files.                                           *)

(* UNIQUE (employee_id, certification_name) of the uploaded, named rows.   *)
Active(f) == {o \in Objects : f[o].status = "uploaded" /\ f[o].name # None}
IndexHolds(f) == \A o, p \in Active(f) : o # p => f[o].name # f[p].name

ListUploaded(ids) == {o \in ids : files[o].status = "uploaded"}

(* Variant: unassigned PDFs are dropped too.                               *)
MarkUnkept_Unassigned(kept) ==
  {o \in Objects : files[o].status = "uploaded" /\ o \notin kept}

MarkUnkept(kept) == {o \in Active(files) : o \notin kept}

Dropped(f, drop) == [o \in Objects |->
  IF o \in drop THEN [f[o] EXCEPT !.status = "deleted"] ELSE f[o]]

(* Variant: the names are not released first.                              *)
ClearNames_Skipped(f, kept) == f

ClearNames(f, kept) == [o \in Objects |->
  IF o \in kept THEN [f[o] EXCEPT !.name = None] ELSE f[o]]

SetNames(f, q, kept) == [o \in Objects |->
  IF o \in kept THEN [f[o] EXCEPT !.name = NameOf(q, o)] ELSE f[o]]

(* Variant: the rows are inserted without a status.                        *)
Inserted_NoStatus(f, q) == [o \in Objects |->
  IF o \in Uploaded(q)
  THEN [status |-> None, name |-> CHOOSE n \in DOMAIN q.new : q.new[n] = o]
  ELSE f[o]]

Inserted(f, q) == [o \in Objects |->
  IF o \in Uploaded(q)
  THEN [status |-> "uploaded", name |-> CHOOSE n \in DOMAIN q.new : q.new[n] = o]
  ELSE f[o]]

(* The table after each statement of the transaction, the kept rows being  *)
(* renamed one by one.                                                     *)
Tables(q) ==
  LET dropped == Dropped(files, q.drop)
      cleared == ClearNames(dropped, Kept(q))
      named(ids) == SetNames(cleared, q, ids)
  IN  {dropped, cleared, Inserted(named(Kept(q)), q)}
        \cup {named(ids) : ids \in SUBSET Kept(q)}

Final(q) ==
  Inserted(SetNames(ClearNames(Dropped(files, q.drop), Kept(q)), q, Kept(q)), q)

-----------------------------------------------------------------------------
(* The service.                                                            *)

Accept(r, isNew) ==
  /\ req[r].pc = "idle"
  /\ accepted < MaxRequests
  /\ accepted' = accepted + 1
  /\ \E certs \in Forms :
       /\ isNew => \A n \in DOMAIN certs : certs[n] \in {New, None}
       /\ req' = [req EXCEPT ![r] = [Idle EXCEPT !.pc = "upload", !.isNew = isNew,
                                                 !.certs = certs]]
  /\ UNCHANGED <<bucket, created, listed, files, refused, faults>>

(* An employee that does not exist keeps no PDF.                           *)
CreateEmployee(r) == Accept(r, TRUE)
UpdateEmployee(r) == created /\ Accept(r, FALSE)

UploadOne(r) ==
  /\ req[r].pc = "upload"
  /\ \E n \in ToUpload(req[r]) :
       req' = [req EXCEPT ![r].new = [m \in DOMAIN @ \cup {n} |->
                 IF m = n THEN nextObject ELSE @[m]]]
  /\ Upload
  /\ UNCHANGED <<trash, created, listed, files, accepted, refused, faults>>

UploadsDone(r) ==
  /\ req[r].pc = "upload"
  /\ ToUpload(req[r]) = {}
  /\ req' = [req EXCEPT ![r].pc =
       IF req[r].isNew THEN "commit" ELSE IF Kept(req[r]) = {} THEN "update" ELSE "list"]
  /\ UNCHANGED <<bucket, created, listed, files, accepted, refused, faults>>

(* Variant: the objects already uploaded are left behind.                  *)
GiveUp_LeavesObjects(r) ==
  /\ req' = [req EXCEPT ![r] = Idle]
  /\ UNCHANGED bucket

(* A request that fails removes what it uploaded.                          *)
GiveUp(r) ==
  /\ req' = [req EXCEPT ![r] = Idle]
  /\ Discard(Uploaded(req[r]))
  /\ UNCHANGED <<nextObject, stored>>

(* ListUploadedEmployeeFileIDs, before anything is locked.                 *)
ListKept(r) ==
  /\ req[r].pc = "list"
  /\ ListUploaded(Kept(req[r])) = Kept(req[r])
  /\ req' = [req EXCEPT ![r].pc = "update"]
  /\ UNCHANGED <<bucket, created, listed, files, accepted, refused, faults>>

KeptNotFound(r) ==
  /\ req[r].pc = "list"
  /\ ListUploaded(Kept(req[r])) # Kept(req[r])
  /\ GiveUp(r)
  /\ UNCHANGED <<created, listed, files, accepted, refused, faults>>

(* Variant: nothing serialises the updates of an employee.                 *)
Locked_Never(r) == FALSE

(* UPDATE employees takes the lock of its row until the transaction ends.  *)
Locked(r) == \E o \in Requests \ {r} : req[o].pc \in {"mark", "commit"} /\ ~req[o].isNew

LockEmployee(r) ==
  /\ req[r].pc = "update"
  /\ ~Locked(r)
  /\ req' = [req EXCEPT ![r].pc = "mark"]
  /\ UNCHANGED <<bucket, created, listed, files, accepted, refused, faults>>

(* Variant: the objects are removed while the transaction is open.         *)
MarkDeleted_Removes(r) ==
  /\ req[r].pc = "mark"
  /\ req' = [req EXCEPT ![r].pc = "commit", ![r].drop = MarkUnkept(Kept(req[r]))]
  /\ Discard(MarkUnkept(Kept(req[r])))
  /\ UNCHANGED <<nextObject, stored, created, listed, files, accepted, refused, faults>>

MarkDeleted(r) ==
  /\ req[r].pc = "mark"
  /\ req' = [req EXCEPT ![r].pc = "commit", ![r].drop = MarkUnkept(Kept(req[r]))]
  /\ UNCHANGED <<bucket, created, listed, files, accepted, refused, faults>>

(* UNIQUE (user_id) admits one employee.                                   *)
Refused(r) ==
  \/ req[r].isNew /\ created
  \/ \E f \in Tables(req[r]) : ~IndexHolds(f)

Persist(r) ==
  /\ req[r].pc = "commit"
  /\ ~Refused(r)
  /\ created' = TRUE
  /\ listed' = DOMAIN req[r].certs
  /\ files' = Final(req[r])

(* The rows dropped by the transaction lose their objects after it.        *)
Commit(r) ==
  /\ Persist(r)
  /\ req' = [req EXCEPT ![r] = Idle]
  /\ Discard(req[r].drop)
  /\ UNCHANGED <<nextObject, stored, accepted, refused, faults>>

Rollback(r) ==
  /\ req[r].pc = "commit"
  /\ Refused(r)
  /\ refused' = (refused \/ ~req[r].isNew)
  /\ GiveUp(r)
  /\ UNCHANGED <<created, listed, files, accepted, faults>>

-----------------------------------------------------------------------------
(* Faults.                                                                 *)

Fault(kind) ==
  /\ kind \in Faults
  /\ faults' = faults \cup {kind}
  /\ Cardinality(faults') <= MaxFaults

UploadFails(r) ==
  /\ Fault("upload")
  /\ req[r].pc = "upload"
  /\ ToUpload(req[r]) # {}
  /\ GiveUp(r)
  /\ UNCHANGED <<created, listed, files, accepted, refused>>

TransactionFails(r) ==
  /\ Fault("db")
  /\ req[r].pc \in {"list", "update", "mark", "commit"}
  /\ GiveUp(r)
  /\ UNCHANGED <<created, listed, files, accepted, refused>>

CommitReportedAsFailed(r) ==
  /\ Fault("commitLost")
  /\ Persist(r)
  /\ GiveUp(r)
  /\ UNCHANGED <<accepted, refused>>

Cleanup(o) ==
  /\ Remove(o)
  /\ UNCHANGED <<created, listed, files, req, accepted, refused, faults>>

CleanupFails(o) ==
  /\ Fault("delete")
  /\ RemoveFails(o)
  /\ UNCHANGED <<created, listed, files, req, accepted, refused>>

Crash ==
  /\ Fault("crash")
  /\ req' = [r \in Requests |-> Idle]
  /\ trash' = {}
  /\ UNCHANGED <<nextObject, stored, created, listed, files, accepted, refused>>

(* The server waits for a request.                                         *)
Quiet ==
  /\ \A r \in Requests : req[r].pc = "idle" \/ nextObject \notin Objects
  /\ UNCHANGED vars

Work(r) ==
  \/ UploadOne(r) \/ UploadsDone(r) \/ ListKept(r) \/ KeptNotFound(r)
  \/ LockEmployee(r) \/ MarkDeleted(r) \/ Commit(r) \/ Rollback(r)

Failure(r) == UploadFails(r) \/ TransactionFails(r) \/ CommitReportedAsFailed(r)

Next ==
  \/ Quiet
  \/ Crash
  \/ \E r \in Requests : CreateEmployee(r) \/ UpdateEmployee(r) \/ Work(r) \/ Failure(r)
  \/ \E o \in Objects : Cleanup(o) \/ CleanupFails(o)

Spec == Init /\ [][Next]_vars

-----------------------------------------------------------------------------
(* A PDF the profile offers is in the bucket and nobody is about to remove *)
(* it: its object is uploaded before its row and removed after it.  A      *)
(* commit that is reported as failed is the exception: its objects are     *)
(* removed as those of a failed request.                                   *)
OfferedIsStored ==
  "commitLost" \notin faults =>
    \A o \in Objects : files[o].status = "uploaded" => o \in stored \ trash

(* The certifications with a PDF are among those the profile lists, each   *)
(* with one: the two columns are replaced together under the row's lock.   *)
NamesAreListed ==
  /\ IndexHolds(files)
  /\ \A o \in Active(files) : files[o].name \in listed

(* The partial unique index never refuses an update, whatever it renames,  *)
(* swaps, drops or replaces, and whatever runs next to it: the statements  *)
(* of UpdateEmployee are in an order it tolerates.                         *)
UpdatesAreNotRefused == ~refused

(* No object is left that no row offers, unless a request is still to      *)
(* store its row or a goroutine to remove it, or one of them was lost.     *)
Forgets == faults \cap {"crash", "delete", "commitLost"} # {}

NoOrphans ==
  \/ Forgets
  \/ \A o \in stored :
       \/ files[o].status = "uploaded"
       \/ o \in trash
       \/ \E r \in Requests : o \in Uploaded(req[r])

(* A PDF that has no certification is modified only by a request that      *)
(* names it.                                                               *)
UnassignedIsKept ==
  [][\A o \in Objects :
       files[o] = [status |-> "uploaded", name |-> None] /\ files'[o] # files[o]
         => files'[o].status = "uploaded"]_vars

(* A request that is answered as done leaves the PDFs it keeps active and  *)
(* with the name it gave them.                                             *)
KeptStaysActive ==
  [][\A r \in Requests :
       Commit(r) => \A o \in Kept(req[r]) :
         files'[o] = [status |-> "uploaded", name |-> NameOf(req[r], o)]]_vars
=============================================================================
