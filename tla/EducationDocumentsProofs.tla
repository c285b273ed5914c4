----------------------- MODULE EducationDocumentsProofs -----------------------
(***************************************************************************)
(* Proofs about the PDFs of the titles of an employee: what a title offers *)
(* is stored and is the PDF sent for it, what fails leaves nothing behind, *)
(* and a list is replaced as a whole, for any requests, places, sizes,     *)
(* objects and faults.  Of a commit that is applied and reported as failed *)
(* no more is claimed than the code keeps: it may remove offered PDFs.     *)
(***************************************************************************)
EXTENDS EducationDocuments, TLAPS, WellFoundedInduction

(* The key of a title a request is to store, 0 until its PDF is uploaded,  *)
(* is that of the PDF sent for it.  Who does nothing uploaded nothing.     *)
KeysMatch(q) ==
  /\ \A p \in Places :
       q.keys[p] # 0 => p \in q.sent /\ sentFor[q.keys[p]] = <<q.write, p>>
  /\ q.pc = "idle" => Uploaded(q) = {}

(* Keys are new: those not handed out are nowhere, and those a request     *)
(* uploaded are its own, stored, and of no title so far.                   *)
KeysAreFresh ==
  /\ \A o \in Objects : o >= nextObject =>
       o \notin stored \cup trash \cup offered
  /\ \A r \in Requests : \A o \in Uploaded(req[r]) :
       o \in stored \ trash /\ o \notin offered
  /\ \A r, s \in Requests : r # s => Uploaded(req[r]) \cap Uploaded(req[s]) = {}

(* Every key of a title was offered.                                       *)
TitlesAreOffered == \A t \in titles : t.key # 0 => t.key \in offered

Inv ==
  /\ TypeOK
  /\ \A r \in Requests : KeysMatch(req[r])
  /\ KeysAreFresh
  /\ TitlesAreOffered
  /\ DocumentsAreStored
  /\ DocumentsMatch
  /\ FailuresLeaveNothing

-----------------------------------------------------------------------------
(* Requests.                                                               *)

(* A request at rest holds nothing.                                        *)
LEMMA IdleIsFine == Idle \in Request /\ Uploaded(Idle) = {} /\ KeysMatch(Idle)
<1>1. Idle.keys = [p \in Places |-> 0]
  BY DEF Idle
<1>2. Idle \in Request
  BY EducationAssumption DEF Idle, Request, Writes, Forms, Keys
<1> QED BY <1>1, <1>2 DEF Uploaded, KeysMatch

(* What a request uploaded are objects.                                    *)
LEMMA UploadedAreObjects ==
  ASSUME NEW q \in Request
  PROVE  Uploaded(q) \in SUBSET Objects
BY DEF Uploaded, Request, Keys

(* The key of a title without a PDF is none of an object.                  *)
LEMMA ZeroIsNoObject == 0 \notin Objects /\ Objects \subseteq Nat
BY FileStoreAssumption DEF Objects

(* The next PDF to upload is one of those that are left.                   *)
LEMMA NextIsLeft ==
  ASSUME NEW ps \in SUBSET Places, ps # {}
  PROVE  Min(ps) \in ps
<1> DEFINE less == {xy \in Nat \X Nat : xy[1] < xy[2]}
<1>1. IsWellFoundedOn(less, Nat)
  BY NatLessThanWellFounded DEF OpToRel
<1>2. PICK p \in ps : \A m \in ps : <<m, p>> \notin less
  <2> HIDE DEF less
  <2> QED BY <1>1, EducationAssumption, WFMin
<1>3. ps \subseteq Nat
  BY EducationAssumption
<1>4. ASSUME NEW m \in ps PROVE p <= m
  <2>1. m \in Nat /\ p \in Nat /\ <<m, p>> \notin less
    BY <1>2, <1>3
  <2>2. <<m, p>> \in Nat \X Nat /\ <<m, p>>[1] = m /\ <<m, p>>[2] = p
    BY <2>1
  <2>3. ~(m < p)
    BY <2>1, <2>2
  <2> QED BY <2>1, <2>3
<1> QED BY <1>4 DEF Min

-----------------------------------------------------------------------------
(* Steps.                                                                  *)

(* The empty bucket and the requests at rest satisfy the invariant.        *)
LEMMA Initially == Init => Inv
<1> SUFFICES ASSUME Init PROVE Inv
  OBVIOUS
<1>1. \A r \in Requests : req[r] = Idle
  BY DEF Init
<1>2. TypeOK
  <2>1. FileStoreTypeOK
    BY FileStoreAssumption DEF Init, FileStoreTypeOK, Objects
  <2>2. req \in [Requests -> Request]
    BY IdleIsFine DEF Init
  <2>3. accepted \in Writes /\ sentFor \in [Objects -> Writes \X (Places \cup {0})]
    BY EducationAssumption DEF Init, Writes
  <2>4. rejected \in BOOLEAN
    BY DEF Init
  <2> QED BY <2>1, <2>2, <2>3, <2>4 DEF Init, TypeOK
<1>3. KeysAreFresh /\ \A r \in Requests : KeysMatch(req[r])
  BY <1>1, IdleIsFine DEF Init, KeysAreFresh
<1>4. TitlesAreOffered /\ DocumentsAreStored /\ DocumentsMatch /\ FailuresLeaveNothing
  BY DEF Init, TitlesAreOffered, DocumentsAreStored, DocumentsMatch, FailuresLeaveNothing
<1> QED BY <1>2, <1>3, <1>4 DEF Inv

(* A request goes on with the keys it had, and touches nothing else.       *)
LEMMA RequestStep ==
  ASSUME Inv, NEW r \in Requests, NEW q \in Request, req' = [req EXCEPT ![r] = q],
         KeysMatch(q), Uploaded(q) = Uploaded(req[r]), accepted' \in Writes,
         UNCHANGED <<bucket, titles, sentFor, offered, rejected, faults>>
  PROVE  Inv'
<1>1. \A o \in Requests : req'[o] = IF o = r THEN q ELSE req[o]
  BY DEF Inv, TypeOK
<1>2. TypeOK'
  <2>1. req' \in [Requests -> Request] /\ FileStoreTypeOK'
    BY DEF Inv, TypeOK, FileStoreTypeOK, bucket
  <2>2. rejected' \in BOOLEAN
    BY DEF Inv, TypeOK
  <2> QED BY <2>1, <2>2 DEF Inv, TypeOK
<1>3. (\A o \in Requests : KeysMatch(req[o]))'
  <2>1. \A o \in Requests : KeysMatch(req'[o])
    BY <1>1 DEF Inv
  <2> QED BY <2>1 DEF KeysMatch
<1>4. \A o \in Requests : Uploaded(req[o])' = Uploaded(req[o])
  <2>1. \A o \in Requests : Uploaded(req'[o]) = Uploaded(req[o])
    BY <1>1
  <2> QED BY <2>1 DEF Uploaded
<1>5. KeysAreFresh' /\ FailuresLeaveNothing'
  BY <1>4 DEF Inv, KeysAreFresh, FailuresLeaveNothing, bucket
<1>6. TitlesAreOffered' /\ DocumentsAreStored' /\ DocumentsMatch'
  BY DEF Inv, TitlesAreOffered, DocumentsAreStored, DocumentsMatch, bucket
<1> QED BY <1>2, <1>3, <1>5, <1>6 DEF Inv

(* Accepting a request keeps the invariant.                                *)
LEMMA AcceptStep ==
  ASSUME Inv, NEW r \in Requests, NEW update \in BOOLEAN, Accept(r, update)
  PROVE  Inv'
<1>0. PICK form \in Forms : \E memory \in InMemory(form) :
        req' = [req EXCEPT ![r] = [Idle EXCEPT !.pc = "upload", !.update = update,
                  !.write = accepted + 1, !.form = form, !.memory = memory]]
  BY DEF Accept
<1>1. PICK memory \in InMemory(form) :
        req' = [req EXCEPT ![r] = [Idle EXCEPT !.pc = "upload", !.update = update,
                  !.write = accepted + 1, !.form = form, !.memory = memory]]
  BY <1>0
<1> DEFINE q == [Idle EXCEPT !.pc = "upload", !.update = update,
                   !.write = accepted + 1, !.form = form, !.memory = memory]
<1>2. accepted' \in Writes /\ accepted' = accepted + 1
      /\ UNCHANGED <<bucket, titles, sentFor, offered, rejected, faults>>
  BY EducationAssumption DEF Accept, Inv, TypeOK, Writes
<1>3. memory \in SUBSET Places
  BY DEF InMemory, Documents
<1>4. q \in Request /\ q.keys = Idle.keys
  BY <1>2, <1>3, IdleIsFine DEF Request
<1>5. Idle.keys = [p \in Places |-> 0]
  BY DEF Idle
<1>6. KeysMatch(q) /\ Uploaded(q) = {}
  BY <1>4, <1>5 DEF KeysMatch, Uploaded
<1>7. Uploaded(req[r]) = {}
  BY DEF Accept, Inv, KeysMatch
<1>8. req' = [req EXCEPT ![r] = q]
  BY <1>1
<1> HIDE DEF q
<1> QED BY <1>2, <1>4, <1>6, <1>7, <1>8, RequestStep
(* So does storing the PDF of a title, under a key nobody used,            *)
LEMMA UploadStep ==
  ASSUME Inv, NEW r \in Requests, UploadDocument(r)
  PROVE  Inv'
<1> DEFINE p == Min(ToUpload(req[r]))
           q == [req[r] EXCEPT !.sent = @ \cup {p}, !.keys[p] = nextObject]
<1>1. /\ req[r].pc = "upload" /\ ToUpload(req[r]) # {}
      /\ req' = [req EXCEPT ![r].sent = @ \cup {p}, ![r].keys[p] = nextObject]
      /\ sentFor' = [sentFor EXCEPT ![nextObject] = <<req[r].write, p>>]
      /\ nextObject \in Objects /\ nextObject' = nextObject + 1
      /\ stored' = stored \cup {nextObject}
      /\ UNCHANGED <<trash, titles, accepted, offered, rejected, faults>>
  BY DEF UploadDocument, Upload, Index
<1>2. p \in Places /\ p \notin req[r].sent
  <2>1. ToUpload(req[r]) \in SUBSET Places /\ \A x \in ToUpload(req[r]) : x \notin req[r].sent
    BY DEF ToUpload, Documents
  <2> QED BY <1>1, <2>1, NextIsLeft
<1> HIDE DEF p
<1>3. /\ req[r] \in Request /\ req[r].write \in Writes /\ req[r].keys \in [Places -> Keys]
      /\ req[r].sent \in SUBSET Places /\ KeysMatch(req[r])
      /\ \A x \in Places : req[r].keys[x] # 0 => req[r].keys[x] \in Uploaded(req[r])
  BY DEF Inv, TypeOK, Request, Uploaded
<1>4. /\ q.pc = "upload" /\ q.write = req[r].write
      /\ q.sent = req[r].sent \cup {p}
      /\ q.keys = [req[r].keys EXCEPT ![p] = nextObject]
      /\ q \in Request
  BY <1>1, <1>2, <1>3 DEF Request, Keys
<1>5. req' = [req EXCEPT ![r] = q]
  BY <1>1 DEF Inv, TypeOK
<1> HIDE DEF q
<1>6. req[r].keys[p] = 0
  BY <1>2, <1>3 DEF KeysMatch
<1>7. Uploaded(q) = Uploaded(req[r]) \cup {nextObject}
  <2>1. \A x \in Places : q.keys[x] = IF x = p THEN nextObject ELSE req[r].keys[x]
    BY <1>2, <1>3, <1>4
  <2>2. nextObject # 0
    BY <1>1, ZeroIsNoObject
  <2> QED BY <1>2, <1>6, <2>1, <2>2 DEF Uploaded
<1>8. /\ \A o \in Requests : req'[o] = IF o = r THEN q ELSE req[o]
      /\ req' \in [Requests -> Request]
  BY <1>4, <1>5 DEF Inv, TypeOK
<1>9. \A o \in Requests :
        Uploaded(req[o])' = Uploaded(req[o]) \cup (IF o = r THEN {nextObject} ELSE {})
  <2>1. \A o \in Requests :
          Uploaded(req'[o]) = Uploaded(req[o]) \cup (IF o = r THEN {nextObject} ELSE {})
    BY <1>7, <1>8
  <2> QED BY <2>1 DEF Uploaded
<1>10. /\ nextObject \notin stored \cup trash \cup offered
       /\ \A o \in Requests : nextObject \notin Uploaded(req[o])
       /\ \A t \in titles : t.key # nextObject
  <2>1. nextObject >= nextObject /\ nextObject # 0
    BY <1>1, ZeroIsNoObject
  <2>2. nextObject \notin stored \cup trash \cup offered
    BY <1>1, <2>1 DEF Inv, KeysAreFresh
  <2> QED BY <2>1, <2>2 DEF Inv, KeysAreFresh, TitlesAreOffered
<1>11. sentFor \in [Objects -> Writes \X (Places \cup {0})]
  BY DEF Inv, TypeOK
<1>12. TypeOK'
  <2>1. FileStoreTypeOK'
    BY <1>1, FileStoreAssumption DEF Inv, TypeOK, FileStoreTypeOK, Objects
  <2>2. sentFor' \in [Objects -> Writes \X (Places \cup {0})]
    BY <1>1, <1>2, <1>3, <1>11
  <2>3. rejected' \in BOOLEAN
    BY <1>1 DEF Inv, TypeOK
  <2> QED BY <1>1, <1>8, <2>1, <2>2, <2>3 DEF Inv, TypeOK
<1>13. (\A o \in Requests : KeysMatch(req[o]))'
  <2> SUFFICES ASSUME NEW o \in Requests
               PROVE  /\ \A x \in Places : req'[o].keys[x] # 0 =>
                           /\ x \in req'[o].sent
                           /\ sentFor'[req'[o].keys[x]] = <<req'[o].write, x>>
                      /\ req'[o].pc = "idle" => Uploaded(req[o])' = {}
    BY DEF KeysMatch
  <2>1. CASE o = r
    <3>1. req'[o] = q
      BY <1>8, <2>1
    <3>2. q.keys[p] = nextObject /\ sentFor'[nextObject] = <<q.write, p>>
      BY <1>1, <1>2, <1>3, <1>4, <1>11
    <3>3. ASSUME NEW x \in Places, q.keys[x] # 0, x # p
          PROVE  x \in q.sent /\ sentFor'[q.keys[x]] = <<q.write, x>>
      <4>1. q.keys[x] = req[r].keys[x] /\ req[r].keys[x] \in Uploaded(req[r])
        BY <1>3, <1>4, <3>3
      <4>2. req[r].keys[x] # nextObject /\ req[r].keys[x] \in Objects
        BY <1>3, <1>10, <4>1, UploadedAreObjects
      <4>3. sentFor[req[r].keys[x]] = <<req[r].write, x>> /\ x \in req[r].sent
        BY <1>3, <3>3, <4>1 DEF KeysMatch
      <4> QED BY <1>1, <1>4, <1>11, <4>1, <4>2, <4>3
    <3> QED BY <1>4, <3>1, <3>2, <3>3
  <2>2. CASE o # r
    <3>1. req'[o] = req[o] /\ req[o] \in Request /\ KeysMatch(req[o])
          /\ Uploaded(req[o])' = Uploaded(req[o])
      BY <1>8, <1>9, <2>2 DEF Inv, TypeOK
    <3>2. ASSUME NEW x \in Places, req[o].keys[x] # 0
          PROVE  sentFor'[req[o].keys[x]] = sentFor[req[o].keys[x]]
      <4>1. req[o].keys[x] \in Uploaded(req[o])
        BY <3>2 DEF Uploaded
      <4>2. req[o].keys[x] # nextObject /\ req[o].keys[x] \in Objects
        BY <1>10, <3>1, <4>1, UploadedAreObjects
      <4> QED BY <1>1, <1>11, <4>2
    <3> QED BY <3>1, <3>2 DEF KeysMatch
  <2> QED BY <2>1, <2>2
<1>14. KeysAreFresh'
  <2>1. \A o \in Objects : o >= nextObject' =>
          o \notin stored' \cup trash' \cup offered'
    BY <1>1, ZeroIsNoObject DEF Inv, KeysAreFresh
  <2>2. \A s \in Requests : \A o \in Uploaded(req[s])' :
          o \in stored' \ trash' /\ o \notin offered'
    BY <1>1, <1>9, <1>10 DEF Inv, KeysAreFresh
  <2>3. \A s, t \in Requests : s # t => Uploaded(req[s])' \cap Uploaded(req[t])' = {}
    BY <1>9, <1>10 DEF Inv, KeysAreFresh
  <2> QED BY <2>1, <2>2, <2>3 DEF KeysAreFresh
<1>15. TitlesAreOffered' /\ DocumentsAreStored'
  BY <1>1 DEF Inv, TitlesAreOffered, DocumentsAreStored
<1>16. DocumentsMatch'
  <2>1. \A t \in titles : t.key # 0 => t.key \in Objects
    BY DEF Inv, TypeOK, TitlesAreOffered
  <2> QED BY <1>1, <1>10, <1>11, <2>1 DEF Inv, DocumentsMatch
<1>17. FailuresLeaveNothing'
  <2>1. nextObject \in Uploaded(req[r])'
    BY <1>9
  <2>2. ASSUME NEW o \in Requests, NEW x \in Uploaded(req[o])
        PROVE  x \in Uploaded(req[o])'
    BY <1>9, <2>2
  <2>3. ASSUME NEW x \in stored', faults \cap {"crash", "delete"} = {}
        PROVE  x \in offered \/ x \in trash \/ \E o \in Requests : x \in Uploaded(req[o])'
    <3>1. CASE x = nextObject
      BY <2>1, <3>1
    <3>2. CASE x # nextObject
      BY <1>1, <2>2, <2>3, <3>2 DEF Inv, FailuresLeaveNothing
    <3> QED BY <3>1, <3>2
  <2> QED BY <1>1, <2>3 DEF FailuresLeaveNothing
<1> QED BY <1>12, <1>13, <1>14, <1>15, <1>16, <1>17 DEF Inv

(* going on to the transaction and deleting the titles,                    *)
LEMMA ProceedStep ==
  ASSUME Inv, NEW r \in Requests, UploadsDone(r) \/ DeleteTitles(r)
  PROVE  Inv'
<1>1. PICK pc \in {"delete", "commit"}, old \in SUBSET Title :
        req' = [req EXCEPT ![r].pc = pc, ![r].old = old]
  <2>1. req[r].old \in SUBSET Title /\ titles \in SUBSET Title
    BY DEF Inv, TypeOK, Request
  <2>2. CASE UploadsDone(r)
    <3>1. req' = [req EXCEPT ![r].pc = IF req[r].update THEN "delete" ELSE "commit",
                             ![r].old = req[r].old]
      BY <2>2 DEF UploadsDone, Inv, TypeOK, Request
    <3> QED BY <2>1, <3>1
  <2>3. CASE DeleteTitles(r)
    BY <2>1, <2>3 DEF DeleteTitles
  <2> QED BY <2>2, <2>3
<1> DEFINE q == [req[r] EXCEPT !.pc = pc, !.old = old]
<1>2. UNCHANGED <<bucket, titles, sentFor, offered, rejected, faults>> /\ accepted' \in Writes
  BY DEF UploadsDone, DeleteTitles, Inv, TypeOK
<1>3. /\ q \in Request /\ q.pc = pc /\ q.keys = req[r].keys /\ q.sent = req[r].sent
      /\ q.write = req[r].write
      /\ req' = [req EXCEPT ![r] = q]
  BY <1>1 DEF Inv, TypeOK, Request
<1> HIDE DEF q
<1>4. KeysMatch(q) /\ Uploaded(q) = Uploaded(req[r])
  BY <1>3 DEF Inv, KeysMatch, Uploaded
<1> QED BY <1>2, <1>3, <1>4, RequestStep

(* A request that fails; what it uploaded is removed in the background.    *)
LEMMA GiveUpStep ==
  ASSUME Inv, NEW r \in Requests, CannotRead(r) \/ RequestFails(r)
  PROVE  Inv'
<1>1. /\ req' = [req EXCEPT ![r] = Idle] /\ trash' = trash \cup Uploaded(req[r])
      /\ UNCHANGED <<nextObject, stored, titles, accepted, sentFor, offered>>
      /\ faults \subseteq faults' /\ faults' \in SUBSET Faults
  BY DEF CannotRead, RequestFails, GiveUp, Discard, Fault, Inv, TypeOK
<1>2. rejected' \in BOOLEAN
  BY DEF CannotRead, RequestFails, Inv, TypeOK
<1>3. /\ \A o \in Requests : req'[o] = IF o = r THEN Idle ELSE req[o]
      /\ req' \in [Requests -> Request]
  BY <1>1, IdleIsFine DEF Inv, TypeOK
<1>4. Uploaded(req[r]) \in SUBSET Objects
  BY UploadedAreObjects DEF Inv, TypeOK
<1>5. \A o \in Requests : Uploaded(req[o])' = IF o = r THEN {} ELSE Uploaded(req[o])
  <2>1. \A o \in Requests : Uploaded(req'[o]) = IF o = r THEN {} ELSE Uploaded(req[o])
    BY <1>3, IdleIsFine
  <2> QED BY <2>1 DEF Uploaded
<1>6. TypeOK'
  <2>1. FileStoreTypeOK'
    BY <1>1, <1>4 DEF Inv, TypeOK, FileStoreTypeOK
  <2> QED BY <1>1, <1>2, <1>3, <2>1 DEF Inv, TypeOK
<1>7. (\A o \in Requests : KeysMatch(req[o]))'
  <2>1. \A o \in Requests : KeysMatch(req'[o])
    BY <1>3, IdleIsFine DEF Inv
  <2> QED BY <1>1, <2>1 DEF KeysMatch, Uploaded
<1>8. KeysAreFresh'
  <2>1. \A o \in Objects : o >= nextObject' =>
          o \notin stored' \cup trash' \cup offered'
    BY <1>1 DEF Inv, KeysAreFresh
  <2>2. \A s \in Requests : \A o \in Uploaded(req[s])' :
          o \in stored' \ trash' /\ o \notin offered'
    BY <1>1, <1>5 DEF Inv, KeysAreFresh
  <2>3. \A s, t \in Requests : s # t => Uploaded(req[s])' \cap Uploaded(req[t])' = {}
    BY <1>5 DEF Inv, KeysAreFresh
  <2> QED BY <2>1, <2>2, <2>3 DEF KeysAreFresh
<1>9. TitlesAreOffered' /\ DocumentsMatch'
  BY <1>1 DEF Inv, TitlesAreOffered, DocumentsMatch
<1>10. DocumentsAreStored'
  BY <1>1 DEF Inv, DocumentsAreStored, TitlesAreOffered, KeysAreFresh
<1>11. FailuresLeaveNothing'
  BY <1>1, <1>5 DEF Inv, FailuresLeaveNothing
<1> QED BY <1>6, <1>7, <1>8, <1>9, <1>10, <1>11 DEF Inv

(* and committing, whether or not the service is told that it failed:      *)
LEMMA CommitStep ==
  ASSUME Inv, NEW r \in Requests, Commit(r) \/ CommitReportedAsFailed(r)
  PROVE  Inv'
<1>1. /\ req[r].pc = "commit" /\ req' = [req EXCEPT ![r] = Idle]
      /\ titles' = (titles \ req[r].old) \cup NewTitles(req[r])
      /\ offered' = offered \cup Uploaded(req[r])
      /\ UNCHANGED <<nextObject, stored, accepted, sentFor, rejected>>
      /\ faults \subseteq faults' /\ faults' \in SUBSET Faults
      /\ \/ trash' = trash
         \/ trash' = trash \cup Uploaded(req[r]) /\ "commitLost" \in faults'
  BY DEF Commit, CommitReportedAsFailed, Persist, GiveUp, Discard, Fault, bucket, Inv, TypeOK
<1>2. /\ \A o \in Requests : req'[o] = IF o = r THEN Idle ELSE req[o]
      /\ req' \in [Requests -> Request]
      /\ req[r] \in Request /\ KeysMatch(req[r])
  BY <1>1, IdleIsFine DEF Inv, TypeOK
<1>3. Uploaded(req[r]) \in SUBSET Objects
  BY <1>2, UploadedAreObjects
<1>4. \A o \in Requests : Uploaded(req[o])' = IF o = r THEN {} ELSE Uploaded(req[o])
  <2>1. \A o \in Requests : Uploaded(req'[o]) = IF o = r THEN {} ELSE Uploaded(req[o])
    BY <1>2, IdleIsFine
  <2> QED BY <2>1 DEF Uploaded
<1>5. ASSUME NEW t \in NewTitles(req[r])
      PROVE  /\ t \in Title
             /\ t.key # 0 => t.key \in Uploaded(req[r])
             /\ t.key # 0 => sentFor[t.key] = <<t.write, t.place>>
  <2>1. PICK p \in Places : t = [write |-> req[r].write, place |-> p, key |-> req[r].keys[p]]
    BY <1>5 DEF NewTitles
  <2>2. t \in Title
    BY <1>2, <2>1 DEF Title, Request
  <2>3. t.key = req[r].keys[p] /\ t.write = req[r].write /\ t.place = p
    BY <2>1
  <2> QED BY <1>2, <2>2, <2>3 DEF KeysMatch, Uploaded
<1>6. TypeOK'
  <2>1. FileStoreTypeOK' /\ offered' \in SUBSET Objects /\ titles' \in SUBSET Title
    BY <1>1, <1>3, <1>5 DEF Inv, TypeOK, FileStoreTypeOK
  <2>2. rejected' \in BOOLEAN
    BY <1>1 DEF Inv, TypeOK
  <2> QED BY <1>1, <1>2, <2>1, <2>2 DEF Inv, TypeOK
<1>7. (\A o \in Requests : KeysMatch(req[o]))'
  <2>1. \A o \in Requests : KeysMatch(req'[o])
    BY <1>2, IdleIsFine DEF Inv
  <2> QED BY <1>1, <2>1 DEF KeysMatch, Uploaded
<1>8. KeysAreFresh'
  <2>1. \A o \in Objects : o >= nextObject' =>
          o \notin stored' \cup trash' \cup offered'
    BY <1>1 DEF Inv, KeysAreFresh
  <2>2. \A s \in Requests : \A o \in Uploaded(req[s])' :
          o \in stored' \ trash' /\ o \notin offered'
    BY <1>1, <1>4 DEF Inv, KeysAreFresh
  <2>3. \A s, t \in Requests : s # t => Uploaded(req[s])' \cap Uploaded(req[t])' = {}
    BY <1>4 DEF Inv, KeysAreFresh
  <2> QED BY <2>1, <2>2, <2>3 DEF KeysAreFresh
<1>9. TitlesAreOffered'
  BY <1>1, <1>5 DEF Inv, TitlesAreOffered
<1>10. DocumentsAreStored'
  BY <1>1, <1>5 DEF Inv, DocumentsAreStored, KeysAreFresh
<1>11. DocumentsMatch'
  BY <1>1, <1>5 DEF Inv, DocumentsMatch
<1>12. FailuresLeaveNothing'
  BY <1>1, <1>4 DEF Inv, FailuresLeaveNothing
<1> QED BY <1>6, <1>7, <1>8, <1>9, <1>10, <1>11, <1>12 DEF Inv

(* An object is removed in the background, or nothing happens.             *)
LEMMA BackgroundStep ==
  ASSUME Inv, UNCHANGED <<nextObject, titles, req, accepted, sentFor, offered, rejected>>,
         faults \subseteq faults', faults' \in SUBSET Faults,
         NEW gone \in SUBSET trash, trash' = trash \ gone,
         \/ stored' = stored \ gone
         \/ stored' = stored /\ ("delete" \in faults' \/ gone = {})
  PROVE  Inv'
<1>1. \A r \in Requests : Uploaded(req[r])' = Uploaded(req[r])
  BY DEF Uploaded
<1>2. TypeOK'
  <2>1. FileStoreTypeOK'
    BY DEF Inv, TypeOK, FileStoreTypeOK
  <2>2. rejected' \in BOOLEAN
    BY DEF Inv, TypeOK
  <2> QED BY <2>1, <2>2 DEF Inv, TypeOK
<1>3. (\A r \in Requests : KeysMatch(req[r]))'
  BY <1>1 DEF Inv, KeysMatch
<1>4. KeysAreFresh'
  BY <1>1 DEF Inv, KeysAreFresh
<1>5. TitlesAreOffered' /\ DocumentsAreStored' /\ DocumentsMatch'
  BY DEF Inv, TitlesAreOffered, DocumentsAreStored, DocumentsMatch
<1>6. FailuresLeaveNothing'
  BY <1>1 DEF Inv, FailuresLeaveNothing
<1> QED BY <1>2, <1>3, <1>4, <1>5, <1>6 DEF Inv

(* and a crash, which forgets requests and removals.                       *)
LEMMA CrashStep ==
  ASSUME Inv, Crash
  PROVE  Inv'
<1>1. /\ req' = [r \in Requests |-> Idle] /\ trash' = {}
      /\ UNCHANGED <<nextObject, stored, titles, accepted, sentFor, offered, rejected>>
      /\ faults \subseteq faults' /\ faults' \in SUBSET Faults /\ "crash" \in faults'
  BY DEF Crash, Fault, Inv, TypeOK
<1>2. \A r \in Requests : req'[r] = Idle
  BY <1>1
<1>3. \A r \in Requests : Uploaded(req[r])' = {}
  <2>1. \A r \in Requests : Uploaded(req'[r]) = {}
    BY <1>2, IdleIsFine
  <2> QED BY <2>1 DEF Uploaded
<1>4. TypeOK'
  <2>1. FileStoreTypeOK' /\ req' \in [Requests -> Request]
    BY <1>1, IdleIsFine DEF Inv, TypeOK, FileStoreTypeOK
  <2>2. rejected' \in BOOLEAN
    BY <1>1 DEF Inv, TypeOK
  <2> QED BY <1>1, <2>1, <2>2 DEF Inv, TypeOK
<1>5. (\A r \in Requests : KeysMatch(req[r]))'
  <2>1. \A r \in Requests : KeysMatch(req'[r])
    BY <1>2, IdleIsFine
  <2> QED BY <1>1, <2>1 DEF KeysMatch, Uploaded
<1>6. KeysAreFresh'
  BY <1>1, <1>3 DEF Inv, KeysAreFresh
<1>7. TitlesAreOffered' /\ DocumentsAreStored' /\ DocumentsMatch' /\ FailuresLeaveNothing'
  BY <1>1 DEF Inv, TitlesAreOffered, DocumentsAreStored, DocumentsMatch,
              FailuresLeaveNothing
<1> QED BY <1>4, <1>5, <1>6, <1>7 DEF Inv

(* Every step keeps the invariant.                                         *)
LEMMA InvStep ==
  ASSUME Inv, [Next]_vars
  PROVE  Inv'
<1>1. CASE UNCHANGED vars \/ Quiet
  <2>1. UNCHANGED <<nextObject, stored, trash, titles, req, accepted, sentFor, offered,
                    rejected, faults>>
    BY <1>1 DEF Quiet, vars, bucket
  <2>2. faults' \in SUBSET Faults /\ {} \in SUBSET trash /\ trash' = trash \ {}
    BY <2>1 DEF Inv, TypeOK
  <2> QED BY <2>1, <2>2, BackgroundStep
<1>2. ASSUME NEW o \in Objects, Cleanup(o) \/ CleanupFails(o) PROVE Inv'
  <2>1. /\ {o} \in SUBSET trash /\ trash' = trash \ {o}
        /\ UNCHANGED <<nextObject, titles, req, accepted, sentFor, offered, rejected>>
        /\ faults \subseteq faults' /\ faults' \in SUBSET Faults
        /\ \/ stored' = stored \ {o}
           \/ stored' = stored /\ "delete" \in faults'
    BY <1>2 DEF Cleanup, CleanupFails, Remove, RemoveFails, Fault, Inv, TypeOK
  <2> QED BY <2>1, BackgroundStep
<1>3. ASSUME NEW r \in Requests,
             \/ CreateEducation(r) \/ UpdateEducation(r)
             \/ UploadDocument(r) \/ CannotRead(r) \/ UploadsDone(r)
             \/ DeleteTitles(r) \/ Commit(r)
             \/ RequestFails(r) \/ CommitReportedAsFailed(r)
      PROVE  Inv'
  <2>1. CASE CreateEducation(r) \/ UpdateEducation(r)
    BY <2>1, AcceptStep DEF CreateEducation, UpdateEducation
  <2>2. CASE UploadDocument(r)
    BY <2>2, UploadStep
  <2>3. CASE UploadsDone(r) \/ DeleteTitles(r)
    BY <2>3, ProceedStep
  <2>4. CASE CannotRead(r) \/ RequestFails(r)
    BY <2>4, GiveUpStep
  <2>5. CASE Commit(r) \/ CommitReportedAsFailed(r)
    BY <2>5, CommitStep
  <2> QED BY <1>3, <2>1, <2>2, <2>3, <2>4, <2>5
<1> QED BY <1>1, <1>2, <1>3, CrashStep DEF Next

(* The invariant holds in every reachable state.                           *)
LEMMA Invariance == Spec => []Inv
BY Initially, InvStep, PTL DEF Spec

(* Titles, requests and objects have their types.                          *)
THEOREM TypesHold == Spec => []TypeOK
<1>1. Inv => TypeOK
  BY DEF Inv
<1> QED BY <1>1, Invariance, PTL

(* The PDF of a title is in the bucket, and nobody is about to remove it:  *)
(* cleanupUploadedDocuments only takes what no row refers to, whatever     *)
(* fails, but for a commit that was applied and reported as failed.        *)
THEOREM DocumentsStored == Spec => []DocumentsAreStored
<1>1. Inv => DocumentsAreStored
  BY DEF Inv
<1> QED BY <1>1, Invariance, PTL

(* The PDF of a title is the one sent for it (document.Index).             *)
THEOREM DocumentsMatched == Spec => []DocumentsMatch
<1>1. Inv => DocumentsMatch
  BY DEF Inv
<1> QED BY <1>1, Invariance, PTL

(* What no row ever referred to is removed, or about to be                 *)
(* (CreateEducation, UpdateEducation).                                     *)
THEOREM NothingLeft == Spec => []FailuresLeaveNothing
<1>1. Inv => FailuresLeaveNothing
  BY DEF Inv
<1> QED BY <1>1, Invariance, PTL

-----------------------------------------------------------------------------
(* Lists.  A write is numbered when it is accepted, and until it commits   *)
(* no row bears its number;                                                *)
WritesAreNumbered ==
  /\ \A t \in titles : t.write <= accepted
  /\ \A r \in Requests : req[r].write <= accepted
  /\ \A r \in Requests : \A t \in req[r].old : t.write <= accepted

ListsAreNew ==
  \A r \in Requests : req[r].pc # "idle" =>
    /\ \A t \in titles : t.write # req[r].write
    /\ \A s \in Requests : \A t \in req[s].old : t.write # req[r].write
    /\ \A s \in Requests \ {r} : req[s].pc # "idle" => req[s].write # req[r].write

(* so the rows a deletion found are whole lists, as far as they are left,  *)
OldAreLists ==
  \A r \in Requests : \A t \in titles, o \in req[r].old : t.write = o.write => t \in req[r].old

(* and what it leaves has every place of a write, once, or none.           *)
ListsAreWhole ==
  /\ \A t \in titles : \A p \in Places : \E u \in titles : u.write = t.write /\ u.place = p
  /\ \A t, u \in titles : t.write = u.write /\ t.place = u.place => t = u

ListInv == WritesAreNumbered /\ ListsAreNew /\ OldAreLists /\ ListsAreWhole

(* Steps that end requests, or leave them and the rows they found.         *)
LEMMA ListsSurvive ==
  ASSUME ListInv, UNCHANGED <<titles, accepted>>, accepted \in Nat,
         \A r \in Requests :
           \/ req'[r] = Idle
           \/ /\ req'[r].pc # "idle" => req[r].pc # "idle"
              /\ req'[r].write = req[r].write /\ req'[r].old = req[r].old
  PROVE  ListInv'
<1>1. Idle.pc = "idle" /\ Idle.write = 0 /\ Idle.old = {}
  BY DEF Idle
<1>2. \A r \in Requests :
        /\ req'[r].old \subseteq req[r].old
        /\ req'[r].pc # "idle" => req[r].pc # "idle" /\ req'[r].write = req[r].write
        /\ req'[r].write <= accepted
  BY <1>1 DEF ListInv, WritesAreNumbered
<1>3. WritesAreNumbered'
  BY <1>2 DEF ListInv, WritesAreNumbered
<1>4. ListsAreNew'
  BY <1>2 DEF ListInv, ListsAreNew
<1>5. OldAreLists'
  <2>1. \A r \in Requests : req'[r].old = {} \/ req'[r].old = req[r].old
    BY <1>1
  <2> QED BY <2>1 DEF ListInv, OldAreLists
<1>6. ListsAreWhole'
  BY DEF ListInv, ListsAreWhole
<1> QED BY <1>3, <1>4, <1>5, <1>6 DEF ListInv

(* A request that is accepted takes a number of its own.                   *)
LEMMA ListsSurviveAccept ==
  ASSUME Inv, ListInv, NEW r \in Requests, NEW update \in BOOLEAN, Accept(r, update)
  PROVE  ListInv'
<1>0. PICK form \in Forms : \E memory \in InMemory(form) :
        req' = [req EXCEPT ![r] = [Idle EXCEPT !.pc = "upload", !.update = update,
                  !.write = accepted + 1, !.form = form, !.memory = memory]]
  BY DEF Accept
<1>1. PICK memory \in InMemory(form) :
        req' = [req EXCEPT ![r] = [Idle EXCEPT !.pc = "upload", !.update = update,
                  !.write = accepted + 1, !.form = form, !.memory = memory]]
  BY <1>0
<1>2. /\ req'[r].write = accepted + 1 /\ req'[r].old = {} /\ req'[r].pc = "upload"
      /\ \A s \in Requests \ {r} : req'[s] = req[s]
  BY <1>1 DEF Idle, Inv, TypeOK
<1>3. titles' = titles /\ accepted' = accepted + 1 /\ accepted \in Nat
  BY DEF Accept, Inv, TypeOK, Writes
<1>4. /\ \A t \in titles : t.write \in Nat
      /\ \A s \in Requests : req[s].write \in Nat /\ \A t \in req[s].old : t.write \in Nat
  BY DEF Inv, TypeOK, Request, Title, Writes
<1>5. WritesAreNumbered'
  BY <1>2, <1>3, <1>4 DEF ListInv, WritesAreNumbered
<1>6. ListsAreNew'
  BY <1>2, <1>3, <1>4 DEF ListInv, ListsAreNew, WritesAreNumbered
<1>7. OldAreLists'
  BY <1>2, <1>3 DEF ListInv, OldAreLists
<1>8. ListsAreWhole'
  BY <1>3 DEF ListInv, ListsAreWhole
<1> QED BY <1>5, <1>6, <1>7, <1>8 DEF ListInv

(* A deletion finds the rows there are: the numbers of all of them are     *)
(* taken.                                                                  *)
LEMMA ListsSurviveDelete ==
  ASSUME Inv, ListInv, NEW r \in Requests, DeleteTitles(r)
  PROVE  ListInv'
<1>1. /\ req'[r].pc = "commit" /\ req'[r].write = req[r].write /\ req'[r].old = titles
      /\ req[r].pc = "delete"
      /\ \A s \in Requests \ {r} : req'[s] = req[s]
      /\ UNCHANGED <<titles, accepted>>
  BY DEF DeleteTitles, Inv, TypeOK, Request
<1>2. \A s \in Requests : req'[s].write = req[s].write /\ (req'[s].pc # "idle" => req[s].pc # "idle")
  BY <1>1
<1>3. WritesAreNumbered'
  BY <1>1 DEF ListInv, WritesAreNumbered
<1>4. ListsAreNew'
  BY <1>1, <1>2 DEF ListInv, ListsAreNew
<1>5. OldAreLists'
  BY <1>1 DEF ListInv, OldAreLists
<1>6. ListsAreWhole'
  BY <1>1 DEF ListInv, ListsAreWhole
<1> QED BY <1>3, <1>4, <1>5, <1>6 DEF ListInv

(* A commit puts one row in every place, under a number no row had, and    *)
(* takes whole lists away.                                                 *)
LEMMA ListsSurviveCommit ==
  ASSUME Inv, ListInv, NEW r \in Requests, Commit(r) \/ CommitReportedAsFailed(r)
  PROVE  ListInv'
<1>1. /\ req[r].pc = "commit" /\ req'[r] = Idle
      /\ \A s \in Requests \ {r} : req'[s] = req[s]
      /\ titles' = (titles \ req[r].old) \cup NewTitles(req[r])
      /\ accepted' = accepted /\ accepted \in Nat
  BY DEF Commit, CommitReportedAsFailed, Persist, GiveUp, Inv, TypeOK, Writes
<1>2. Idle.pc = "idle" /\ Idle.write = 0 /\ Idle.old = {}
  BY DEF Idle
<1>3. /\ \A t \in NewTitles(req[r]) : t.write = req[r].write
      /\ \A p \in Places : \E t \in NewTitles(req[r]) : t.place = p
      /\ \A t, u \in NewTitles(req[r]) : t.place = u.place => t = u
  <2> DEFINE row(p) == [write |-> req[r].write, place |-> p, key |-> req[r].keys[p]]
  <2>1. NewTitles(req[r]) = {row(p) : p \in Places}
    BY DEF NewTitles
  <2>2. \A p \in Places : row(p).write = req[r].write /\ row(p).place = p
    OBVIOUS
  <2> HIDE DEF row
  <2> QED BY <2>1, <2>2
<1>4. \A t \in titles : t.write # req[r].write
  BY <1>1 DEF ListInv, ListsAreNew
<1>5. WritesAreNumbered'
  BY <1>1, <1>2, <1>3 DEF ListInv, WritesAreNumbered
<1>6. ListsAreNew'
  <2>1. SUFFICES ASSUME NEW s \in Requests \ {r}, req[s].pc # "idle"
                 PROVE  /\ \A t \in titles' : t.write # req[s].write
                        /\ \A v \in Requests : \A t \in req'[v].old : t.write # req[s].write
                        /\ \A v \in Requests \ {s} : req'[v].pc # "idle" => req'[v].write # req[s].write
    BY <1>1, <1>2 DEF ListsAreNew
  <2>2. req[r].write # req[s].write
    BY <1>1, <2>1 DEF ListInv, ListsAreNew
  <2>3. \A t \in titles' : t.write # req[s].write
    BY <1>1, <1>3, <2>1, <2>2 DEF ListInv, ListsAreNew
  <2> QED BY <1>1, <1>2, <2>1, <2>3 DEF ListInv, ListsAreNew
<1>7. OldAreLists'
  <2>1. SUFFICES ASSUME NEW s \in Requests \ {r}, NEW t \in titles', NEW o \in req[s].old,
                        t.write = o.write
                 PROVE  t \in req[s].old
    BY <1>1, <1>2 DEF OldAreLists
  <2>2. o.write # req[r].write
    BY <1>1 DEF ListInv, ListsAreNew
  <2> QED BY <1>1, <1>3, <2>1, <2>2 DEF ListInv, OldAreLists
<1>8. ASSUME NEW t \in titles', NEW p \in Places
      PROVE  \E u \in titles' : u.write = t.write /\ u.place = p
  <2>1. CASE t \in NewTitles(req[r])
    BY <1>1, <1>3, <2>1
  <2>2. CASE t \in titles \ req[r].old
    <3>1. PICK u \in titles : u.write = t.write /\ u.place = p
      BY <2>2 DEF ListInv, ListsAreWhole
    <3>2. u \notin req[r].old
      BY <2>2, <3>1 DEF ListInv, OldAreLists
    <3> QED BY <1>1, <3>1, <3>2
  <2> QED BY <1>1, <2>1, <2>2
<1>9. \A t, u \in titles' : t.write = u.write /\ t.place = u.place => t = u
  BY <1>1, <1>3, <1>4 DEF ListInv, ListsAreWhole
<1> QED BY <1>5, <1>6, <1>7, <1>8, <1>9 DEF ListInv, ListsAreWhole

LEMMA ListStep ==
  ASSUME Inv, ListInv, [Next]_vars
  PROVE  ListInv'
<1> accepted \in Nat
  BY DEF Inv, TypeOK, Writes
<1>1. CASE UNCHANGED vars \/ Quiet \/ Crash \/ \E o \in Objects : Cleanup(o) \/ CleanupFails(o)
  <2>1. /\ UNCHANGED <<titles, accepted>>
        /\ req' = req \/ req' = [r \in Requests |-> Idle]
    BY <1>1 DEF vars, Quiet, Crash, Cleanup, CleanupFails
  <2> QED BY <2>1, ListsSurvive
<1>2. ASSUME NEW r \in Requests, CreateEducation(r) \/ UpdateEducation(r) PROVE ListInv'
  BY <1>2, ListsSurviveAccept DEF CreateEducation, UpdateEducation
<1>3. ASSUME NEW r \in Requests, CannotRead(r) \/ RequestFails(r) PROVE ListInv'
  <2>1. req' = [req EXCEPT ![r] = Idle] /\ UNCHANGED <<titles, accepted>>
    BY <1>3 DEF CannotRead, RequestFails, GiveUp
  <2>2. \A s \in Requests : req'[s] = IF s = r THEN Idle ELSE req[s]
    BY <2>1 DEF Inv, TypeOK
  <2> QED BY <2>1, <2>2, ListsSurvive
<1>4. ASSUME NEW r \in Requests, UploadDocument(r) \/ UploadsDone(r) PROVE ListInv'
  <2>1. /\ req[r].pc = "upload" /\ UNCHANGED <<titles, accepted>>
        /\ req'[r].write = req[r].write /\ req'[r].old = req[r].old
        /\ \A s \in Requests \ {r} : req'[s] = req[s]
    BY <1>4 DEF UploadDocument, UploadsDone, Inv, TypeOK, Request
  <2> QED BY <2>1, ListsSurvive
<1> QED BY <1>1, <1>2, <1>3, <1>4, ListsSurviveDelete, ListsSurviveCommit DEF Next

(* However many requests overlap, every write the profile shows is there   *)
(* with all its titles, one in each place: a replacement takes whole lists *)
(* away, never part of one (UpdateEducation).                              *)
THEOREM ListsStayWhole == Spec => []ListsAreWhole
<1>1. Init => ListInv
  <2> SUFFICES ASSUME Init PROVE ListInv
    OBVIOUS
  <2>1. titles = {} /\ accepted = 0 /\ \A r \in Requests : req[r] = Idle
    BY DEF Init
  <2>2. Idle.pc = "idle" /\ Idle.write = 0 /\ Idle.old = {}
    BY DEF Idle
  <2> QED BY <2>1, <2>2 DEF ListInv, WritesAreNumbered, ListsAreNew, OldAreLists, ListsAreWhole
<1>2. ListInv => ListsAreWhole
  BY DEF ListInv
<1> QED BY <1>1, <1>2, ListStep, Invariance, PTL DEF Spec

-----------------------------------------------------------------------------
(* What a title has offered stays in the bucket, unless a commit is lost.  *)
OfferedStay == "commitLost" \notin faults => offered \subseteq stored \ trash

LEMMA OfferedStep ==
  ASSUME Inv, OfferedStay, [Next]_vars
  PROVE  OfferedStay'
<1>1. CASE UNCHANGED vars \/ Quiet \/ Crash \/ \E o \in Objects : Cleanup(o) \/ CleanupFails(o)
  BY <1>1 DEF vars, bucket, Quiet, Crash, Cleanup, CleanupFails, Remove, RemoveFails, Fault,
              OfferedStay
<1>2. ASSUME NEW r \in Requests,
             CreateEducation(r) \/ UpdateEducation(r) \/ UploadsDone(r) \/ DeleteTitles(r)
      PROVE  OfferedStay'
  <2>1. UNCHANGED bucket /\ UNCHANGED <<offered, faults>>
    BY <1>2 DEF CreateEducation, UpdateEducation, Accept, UploadsDone, DeleteTitles
  <2> QED BY <2>1 DEF bucket, OfferedStay
<1>3. ASSUME NEW r \in Requests, UploadDocument(r) PROVE OfferedStay'
  BY <1>3 DEF UploadDocument, Upload, OfferedStay
<1>4. ASSUME NEW r \in Requests, CannotRead(r) \/ RequestFails(r) PROVE OfferedStay'
  <2>1. /\ trash' = trash \cup Uploaded(req[r]) /\ UNCHANGED <<stored, offered>>
        /\ faults \subseteq faults'
    BY <1>4 DEF CannotRead, RequestFails, GiveUp, Discard, Fault
  <2>2. Uploaded(req[r]) \subseteq Objects
    BY UploadedAreObjects DEF Inv, TypeOK
  <2> QED BY <2>1, <2>2 DEF Inv, KeysAreFresh, OfferedStay
<1>5. ASSUME NEW r \in Requests, Commit(r) PROVE OfferedStay'
  BY <1>5 DEF Commit, Persist, bucket, Inv, KeysAreFresh, OfferedStay
<1>6. ASSUME NEW r \in Requests, CommitReportedAsFailed(r) PROVE OfferedStay'
  BY <1>6 DEF CommitReportedAsFailed, Fault, OfferedStay
<1> QED BY <1>1, <1>2, <1>3, <1>4, <1>5, <1>6 DEF Next

(* When nothing is under way, the bucket holds exactly the PDFs that some  *)
(* title offers or has offered: failures leave nothing, no PDF of a title  *)
(* is lost, and those of replaced titles pile up (UpdateEducation).  The   *)
(* premise names the faults it does not cover: a crash and a failed        *)
(* removal leave objects behind, a lost commit removes offered ones.       *)
THEOREM BucketAtRest ==
  ASSUME Faults \cap {"crash", "delete", "commitLost"} = {}
  PROVE  Spec => [](/\ \A r \in Requests : req[r].pc = "idle"
                    /\ trash = {}
                    => stored = offered)
<1>1. Init => OfferedStay
  BY DEF Init, OfferedStay
<1>2. ASSUME Inv, OfferedStay, trash = {}, \A r \in Requests : req[r].pc = "idle"
      PROVE  stored = offered
  <2>1. faults \cap {"crash", "delete"} = {} /\ "commitLost" \notin faults
    BY <1>2 DEF Inv, TypeOK
  <2>2. \A r \in Requests : Uploaded(req[r]) = {}
    BY <1>2 DEF Inv, KeysMatch
  <2> QED BY <1>2, <2>1, <2>2 DEF Inv, FailuresLeaveNothing, OfferedStay
<1> QED BY <1>1, <1>2, OfferedStep, Invariance, PTL DEF Spec
=============================================================================
