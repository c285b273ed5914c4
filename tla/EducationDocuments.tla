------------------------- MODULE EducationDocuments -------------------------
(***************************************************************************)
(* The titles of one employee and their PDFs, under CreateEducation and    *)
(* UpdateEducation (internal/employee/crud_education.go).  The form is     *)
(* parsed with a budget of memory: the files that do not fit in what is    *)
(* left of it go to a temporary file on disk.  Every file is opened and    *)
(* checked, then uploaded, and its key is stored in the row of its title.  *)
(*                                                                         *)
(* A title is known by the write that stored it and by its place in the    *)
(* list.  A PDF is known by its size, and 0 stands for no PDF.             *)
(*                                                                         *)
(* Faults: "upload" an upload that fails; "db" a transaction that fails;   *)
(* "commitLost" one that commits and reports an error; "delete" a removal  *)
(* that fails; "crash" the death of the process.                           *)
(***************************************************************************)
EXTENDS FileStore, FiniteSetsExt

CONSTANTS
  Requests,     \* requests that may be under way at once
  Places,       \* places in a list of titles
  Budget,       \* memory for the files of a form, and limit of each file
  MaxRequests,  \* bound on the requests accepted
  Faults,       \* kinds of faults a behaviour may contain
  MaxFaults     \* and how many of these kinds at once

ASSUME EducationAssumption ==
  /\ Places \in SUBSET Nat
  /\ Budget \in Nat \ {0}
  /\ MaxRequests \in Nat
  /\ MaxFaults \in Nat

VARIABLES
  titles,    \* employee_education
  req,       \* req[r]: what request r is doing
  accepted,  \* requests accepted so far; the next one is accepted + 1
  sentFor,   \* history: the title each object was sent for
  offered,   \* history: objects that some row has referred to
  rejected,  \* history: a legal form was turned down, and nothing had failed
  faults     \* kinds of faults so far

vars == <<bucket, titles, req, accepted, sentFor, offered, rejected, faults>>

Writes == 0..MaxRequests
Keys == Objects \cup {0}
Title == [write: Writes, place: Places, key: Keys]
Forms == [Places -> 0..Budget]

(* memory: the PDFs held in memory; sent: those uploaded; keys: the object *)
(* of each title; old: the rows its DELETE found.                          *)
Request == [pc: {"idle", "upload", "delete", "commit"}, update: BOOLEAN, write: Writes,
            form: Forms, memory: SUBSET Places, sent: SUBSET Places,
            keys: [Places -> Keys], old: SUBSET Title]

Idle == [pc |-> "idle", update |-> FALSE, write |-> 0, form |-> [p \in Places |-> 0],
         memory |-> {}, sent |-> {}, keys |-> [p \in Places |-> 0], old |-> {}]

TypeOK ==
  /\ FileStoreTypeOK
  /\ titles \in SUBSET Title
  /\ req \in [Requests -> Request]
  /\ accepted \in Writes
  /\ sentFor \in [Objects -> Writes \X (Places \cup {0})]
  /\ offered \in SUBSET Objects
  /\ rejected \in BOOLEAN
  /\ faults \in SUBSET Faults

Init ==
  /\ titles = {}
  /\ nextObject = 1
  /\ stored = {}
  /\ trash = {}
  /\ req = [r \in Requests |-> Idle]
  /\ accepted = 0
  /\ sentFor = [o \in Objects |-> <<0, 0>>]
  /\ offered = {}
  /\ rejected = FALSE
  /\ faults = {}

-----------------------------------------------------------------------------
(* The form.                                                               *)

Documents(form) == {p \in Places : form[p] > 0}
Bytes(form, ps) == MapThenSumSet(LAMBDA p : form[p], ps)

(* ReadForm keeps each file in memory if it fits in what is left, in the   *)
(* order of the parts: whatever the order, none of the others would fit.   *)
InMemory(form) ==
  {ps \in SUBSET Documents(form) :
     /\ Bytes(form, ps) <= Budget
     /\ \A p \in Documents(form) \ ps : Bytes(form, ps) + form[p] > Budget}

(* getEducationDocumentsFromForm closes what it opened when it returns: a  *)
(* file in memory can still be read after that, a temporary file cannot.   *)
Readable(q, p) == p \in q.memory

Accept(r, update) ==
  /\ req[r].pc = "idle"
  /\ accepted < MaxRequests
  /\ accepted' = accepted + 1
  /\ \E form \in Forms : \E memory \in InMemory(form) :
       req' = [req EXCEPT ![r] = [Idle EXCEPT !.pc = "upload", !.update = update,
                 !.write = accepted + 1, !.form = form, !.memory = memory]]
  /\ UNCHANGED <<bucket, titles, sentFor, offered, rejected, faults>>

CreateEducation(r) == Accept(r, FALSE)
UpdateEducation(r) == Accept(r, TRUE)

-----------------------------------------------------------------------------
(* The uploads.                                                            *)

ToUpload(q) == Documents(q.form) \ q.sent

(* Variant: titles without a document are cleaned up too.                  *)
Uploaded_AllTitles(q) == {q.keys[p] : p \in Places}

Uploaded(q) == {q.keys[p] : p \in Places} \ {0}

(* Variant: the objects already uploaded are left behind.                  *)
GiveUp_LeavesObjects(r) ==
  /\ req' = [req EXCEPT ![r] = Idle]
  /\ UNCHANGED bucket

(* A request that fails removes what it uploaded.                          *)
GiveUp(r) ==
  /\ req' = [req EXCEPT ![r] = Idle]
  /\ Discard(Uploaded(req[r]))
  /\ UNCHANGED <<nextObject, stored>>

(* Variant: the place of a document among the documents.                   *)
Index_ByPosition(q, p) == Min(Places) + Cardinality({d \in Documents(q.form) : d < p})

(* The title a document belongs to.                                        *)
Index(q, p) == p

UploadDocument(r) ==
  /\ req[r].pc = "upload"
  /\ ToUpload(req[r]) # {}
  /\ LET p == Min(ToUpload(req[r])) IN
       /\ Readable(req[r], p)
       /\ req' = [req EXCEPT ![r].sent = @ \cup {p},
                            ![r].keys[Index(req[r], p)] = nextObject]
       /\ sentFor' = [sentFor EXCEPT ![nextObject] = <<req[r].write, p>>]
  /\ Upload
  /\ UNCHANGED <<trash, titles, accepted, offered, rejected, faults>>

CannotRead(r) ==
  /\ req[r].pc = "upload"
  /\ ToUpload(req[r]) # {}
  /\ ~Readable(req[r], Min(ToUpload(req[r])))
  /\ rejected' = TRUE
  /\ GiveUp(r)
  /\ UNCHANGED <<titles, accepted, sentFor, offered, faults>>

UploadsDone(r) ==
  /\ req[r].pc = "upload"
  /\ ToUpload(req[r]) = {}
  /\ req' = [req EXCEPT ![r].pc = IF req[r].update THEN "delete" ELSE "commit"]
  /\ UNCHANGED <<bucket, titles, accepted, sentFor, offered, rejected, faults>>

-----------------------------------------------------------------------------
(* The transaction.                                                        *)

(* Variant: the objects of the old titles are removed with the DELETE.     *)
DeleteTitles_RemovesObjects(r) ==
  /\ req[r].pc = "delete"
  /\ req' = [req EXCEPT ![r].pc = "commit", ![r].old = titles]
  /\ Discard({t.key : t \in titles} \ {0})
  /\ UNCHANGED <<nextObject, stored, titles, accepted, sentFor, offered, rejected, faults>>

(* It sees the titles committed so far, not those stored meanwhile.  Their *)
(* objects stay in the bucket.                                             *)
DeleteTitles(r) ==
  /\ req[r].pc = "delete"
  /\ req' = [req EXCEPT ![r].pc = "commit", ![r].old = titles]
  /\ UNCHANGED <<bucket, titles, accepted, sentFor, offered, rejected, faults>>

NewTitles(q) == {[write |-> q.write, place |-> p, key |-> q.keys[p]] : p \in Places}

(* The inserts and the COMMIT, whatever the client is told of it.          *)
Persist(r) ==
  /\ req[r].pc = "commit"
  /\ titles' = (titles \ req[r].old) \cup NewTitles(req[r])
  /\ offered' = offered \cup Uploaded(req[r])

Commit(r) ==
  /\ Persist(r)
  /\ req' = [req EXCEPT ![r] = Idle]
  /\ UNCHANGED <<bucket, accepted, sentFor, rejected, faults>>

-----------------------------------------------------------------------------
(* Faults.                                                                 *)

Fault(kind) ==
  /\ kind \in Faults
  /\ faults' = faults \cup {kind}
  /\ Cardinality(faults') <= MaxFaults

RequestFails(r) ==
  /\ \/ req[r].pc = "upload" /\ ToUpload(req[r]) # {} /\ Fault("upload")
     \/ req[r].pc \in {"delete", "commit"} /\ Fault("db")
  /\ GiveUp(r)
  /\ UNCHANGED <<titles, accepted, sentFor, offered, rejected>>

(* The service takes an error of the COMMIT for one of the transaction,    *)
(* and removes what the rows refer to.                                     *)
CommitReportedAsFailed(r) ==
  /\ Fault("commitLost")
  /\ Persist(r)
  /\ GiveUp(r)
  /\ UNCHANGED <<accepted, sentFor, rejected>>

Cleanup(o) ==
  /\ Remove(o)
  /\ UNCHANGED <<titles, req, accepted, sentFor, offered, rejected, faults>>

CleanupFails(o) ==
  /\ Fault("delete")
  /\ RemoveFails(o)
  /\ UNCHANGED <<titles, req, accepted, sentFor, offered, rejected>>

Crash ==
  /\ Fault("crash")
  /\ req' = [r \in Requests |-> Idle]
  /\ trash' = {}
  /\ UNCHANGED <<nextObject, stored, titles, accepted, sentFor, offered, rejected>>

(* The server waits for a request, or for keys beyond the bound.           *)
Quiet ==
  /\ \A r \in Requests : req[r].pc = "idle" \/ nextObject \notin Objects
  /\ UNCHANGED vars

Next ==
  \/ Quiet
  \/ Crash
  \/ \E r \in Requests :
       \/ CreateEducation(r) \/ UpdateEducation(r)
       \/ UploadDocument(r) \/ CannotRead(r) \/ UploadsDone(r)
       \/ DeleteTitles(r) \/ Commit(r)
       \/ RequestFails(r) \/ CommitReportedAsFailed(r)
  \/ \E o \in Objects : Cleanup(o) \/ CleanupFails(o)

Spec == Init /\ [][Next]_vars

-----------------------------------------------------------------------------
(* The PDF a title offers is in the bucket and nobody is about to remove   *)
(* it: the compensation of a failed request and overlapping replacements   *)
(* never touch an object some row refers to, unless the error of a commit  *)
(* that was applied made the service remove the PDFs of the rows it wrote. *)
DocumentsAreStored ==
  "commitLost" \notin faults =>
    \A t \in titles : t.key # 0 => t.key \in stored \ trash

(* A title offers the PDF that was sent for it, although only some titles  *)
(* have one and keys are written back by index (document.Index).           *)
DocumentsMatch ==
  \A t \in titles : t.key # 0 => sentFor[t.key] = <<t.write, t.place>>

(* An object that no row ever referred to is being uploaded for one or is  *)
(* about to be removed: failures are compensated                           *)
(* (cleanupUploadedDocuments), unless the request or the goroutine that    *)
(* had to remove it was lost.  Objects of replaced titles do stay.         *)
FailuresLeaveNothing ==
  \/ faults \cap {"crash", "delete"} # {}
  \/ stored \subseteq offered \cup trash \cup UNION {Uploaded(req[r]) : r \in Requests}

(* A request whose form is legal is stored unless something fails.         *)
LegalFormIsStored == ~rejected
=============================================================================
