# laburi.to: a TLA+ model

laburi.to is a Go HTTP API over PostgreSQL that matches employees with job positions. Employees fill in a profile
in five sections, with PDFs kept in a bucket; employers publish positions. A write of a complete profile or of a
position asks for the recommendations of that *subject* to be regenerated; a queue (SQS) decouples the request from
a worker that reads the candidates, scores them and replaces the subject's set; both sides read their sets page by
page, and an employer may read the profiles that are recommended to it.

This directory specifies those parts, model-checks them with TLC on small instances and proves the safety
properties of its passing runs, all of them, with TLAPS for every value of the constants.

Source paths are relative to the repository root (`src/` here).

## 1. The system

### Components

| Component | State | Operations | What makes it correct |
|---|---|---|---|
| Recommendation store (`internal/recommendation/repo.go`, `sql/queries/recommendations.sql`, `sql/schema/0007_*.sql`) | `recommendation_batches`, `recommendations` | create, transition, claim, complete (one transaction), reads | one batch in flight and one completed batch per subject; replacement is atomic |
| Job publisher (`publisher.go`, `triggers.go`) | none between requests | `PublishJob`, `failBatch` | no message before its batch; a batch is left in flight without a message only by the faults named in section 3 |
| Worker (`worker.go`, `candidates.go`) | the current reception and message | receive, decode, read subject and pairs, probe scoring, claim, score, complete or fail, acknowledge, heartbeat | acknowledge only what is settled; redelivery never undoes closed work; a crash is recovered |
| Queue transport (`internal/queue`) | SQS queue and dead-letter queue | `Send`, `Receive`, `Delete`, `ExtendVisibility` | at least once; bounded deliveries, then the dead-letter queue |
| Recommendation queries (`service.go`, `handler.go`, `pagination.go`) | none | `List` for an employee and for a position | a page never mixes two sets; the status agrees with the set |
| Profile access (`employee/authorization.go`) | none | an employer reads a profile or a document | an employer sees only employees of a current set, in either direction |
| Employee profile (`internal/employee`) | `employees` and the tables of its sections | ten writes | overlapping writes keep lists whole; a complete profile is announced |
| Certification and title PDFs (`employee/certifications.go`, `crud_education.go`, `uploader`) | rows and objects | upload, replace, rename, discard, clean up | rows and objects agree in spite of failures |
| Users, sessions, employers (`user`, `auth`, `employer`, `sql/schema/0005_*.sql`) | `users`, `refresh_tokens`, `employers` | register, login, create a profile | an account has one kind of profile |
| Job positions (`internal/jobposition`) | `job_positions` (soft delete) | create, update, delete | only the owner writes; every write asks for a regeneration |
| Scoring contract (`internal/scoring`) | none | `Availability`, `ScoreAll`, levels, validation | eligible pairs only |
| Queue configuration (`queue/config.go`, `disabled.go`, `cmd/api.go`) | environment | `LoadConfig`, `LoadWorkerConfig`, `ShouldConsume` | none of its own: fixed at startup |
| Startup and shutdown (`cmd/main.go`, `cmd/api.go`) | goroutines | start, cancel | the message in progress is finished |
| Middleware, time zones, generated queries, migrations, test support | none of their own | plumbing | |

### How they interact

```
 employee / jobposition handler                               worker loop
   1 resolve the principal, check                               1 Receive (long poll)
   2 upload PDFs ──▶ bucket                                     2 GetBatch
   3 persist the write (transaction)                            3 subject, 4 candidates (reads)
   4 PublishJob ── CreateBatch ──▶ recommendation_batches ◀──── 5 ClaimBatch
        │                              ▲      ▲                 6 ScoreAll, CompleteBatch / failBatch
        └───────── Send ──▶ queue ─────┼──────┼──────────────▶  7 Delete (acknowledge)
        on error: failBatch ───────────┘      │
   5 go cleanupOrphanFile ──▶ bucket          └── status, completed set, count, page ── query handler
```

Requests are concurrent goroutines, several instances may run a worker, and what they share is the database, the
bucket and the queue. Each call of a repository is one autocommitted statement unless the code opens a transaction
(`CompleteBatch`, the profile writes, the profile inserts), and transactions run under READ COMMITTED.

### What is hard

* Interleaving: two writes of a subject at once; two updates of a list that delete the same old rows; the two kinds
  of profile of one account inserted at once; overlapping deliveries of one message.
* Stale state: the worker reads before it claims; an update checks the PDFs it keeps before it locks anything; an
  owner, a status or an access decision is read in one statement and used in another.
* Partial failure: an upload, a statement, a commit or a send fails, or succeeds and is reported as failed; the last
  resort (the transition to `failed`, the removal of an object) fails itself.
* Crash recovery: the publisher dies between batch and message, the worker in `processing`, a request
  between an object and its row.
* Delivery: redelivery after closing, lost acknowledgements, receipts of an older delivery, exhausted deliveries,
  bodies nobody can decode.

`PROJECT.json` lists each hazard with the line where it bites and the properties that cover it.

## 2. Modules

| Module | Models | Composition |
|---|---|---|
| `RecommendationStore` | the tables of batches and rows, and each statement on them | |
| `JobQueue` | `SendMessage`, `ReceiveMessage`, `DeleteMessage`, the redrive policy | extends the store |
| `RecommendationPipeline` | publishers and workers, one action per database or queue call | extends the queue |
| `RecommendationLifecycle` | abstract: what one subject asks for and is shown | implemented by the pipeline |
| `RecommendationTables` | abstract: what happens to the tables, whoever does it | extends the store; implemented by the pipeline, and by the positions for their part |
| `PipelineProperties` | the pipeline's properties and the two refinement mappings | extends the pipeline |
| `RecommendationQuery` | the paginated queries and the access of employers, statement by statement, beside the replacement of the sets | extends `RecommendationTables` |
| `EmployeeProfile` | the ten writes of a profile, completeness and its announcement | |
| `FileStore` | the bucket and the goroutines that remove objects | |
| `CertificationFiles` | certifications and their PDFs | extends `FileStore` |
| `EducationDocuments` | titles and their PDFs, and the parsed form | extends `FileStore` |
| `UserProfiles` | accounts, roles, tokens, and the two kinds of profile under the trigger's lock | |
| `JobPositions` | the writes of positions and their notification | extends `UserProfiles` |
| `PipelineProofs`, `PipelineRefinementProofs`, `RecommendationQueryProofs`, `EmployeeProfileProofs`, `CertificationFilesProofs`, `EducationDocumentsProofs`, `UserProfilesProofs`, `JobPositionProofs` | the theorems | extend the modules they are about |
| `MCPipeline`, `MCRecommendationQuery`, `MCEmployeeProfile`, `MCCertificationFiles`, `MCEducationDocuments`, `MCJobPositions` | instances for TLC: model values and symmetry | the `.cfg` files give the constants |

In every module a request or worker is a record whose `pc` names the program point between two calls. An action is one
call with the local work that follows it. Histories (marked so where they are declared) are read by properties only.

### The pipeline

* `version[s]` counts the persisted writes of a subject and stands for its data. `opened[b]` is a history:
  the version when batch `b` was opened. `active` are positions that are published and not soft-deleted.
  `status[b] = "absent"` is a batch with no row.
* `Write` persists and enters `PublishJob`; `Create`, `Send` and `Close` are its calls. An incomplete profile
  asks for nothing, which is `EmployeeProfile`'s subject; here every write of an employee is of a complete one.
* `Begin` is decode and `GetBatch`; `ReadSubject` and `ReadPairs` are the two queries of `PairsForEmployee` and
  `PairsForJobPosition` (the second with the probe of scoring after it); `Refuse`, `Claim`, `Score`, `Fail`, `Complete` and `Ack` are the
  calls that follow. `completeEmpty` is `Claim` then `Complete` with no pairs. The error classes that `acknowledges` tells apart are the
  `pc` that follows: `"ack"`, or `"idle"` when the message is left to be delivered again.
* A message that is `Held` by a worker is delivered again only by an `"expiry"`: this is what `keepVisible` is for. It renews
  only the message being processed; the others of a reception (`fetched`) may expire, which is the same fault.
  `ReceiveMessage` returns any subset of the visible messages, in no order. `DeleteMessage` with the receipt of an older delivery may or may not delete.
* `MaxFaults` counts occurrences; the head of the module lists the eleven kinds.

### The reads

`RecommendationQuery` reads while the tables change as `RecommendationTables` says: a batch is requested for a subject that has a row,
claimed, and closed once, with any candidates that have existed. It is not an assumption: the pipeline implements that module
(`ImplementsTables`), so what holds of the queries holds beside the pipeline. The requests of the pipeline come one step after the
write they follow, so a position may be deleted in between and a batch still be opened for it; `Request` allows that. A query is
`Authorize`, then the current batch, the completed one, the count and the page, each a step; `NextPage` continues
a walk. All scores are equal, so a set is ordered by its tie-break (`rank`), which an update of the counterpart changes
(`MovedToFront`). `AuthorizeProfile` decides on the sets of one moment and `ReadProfile` uses the decision later; profile and
downloads share them. `owner[j]` is the employer of a position; it does not change.

### Profiles

`EmployeeProfile` knows a row by its table, by the write that stored it and by its place among the items of that write. A write is
accepted (ownership resolved), persisted by a transaction, checked (`IsProfileComplete`) and announced. A list is
replaced by `StartDelete`, which fixes the rows the statement sees; `FinishDelete`, which waits for whoever locked one of them; and
`Commit`, which inserts. Rows that others inserted after the statement began survive: lists may add up, as
they do in the database. `announced` is the number of persisted writes at the last notification. `MaxFaults` counts occurrences.

### PDFs

* `FileStore`: keys are fresh UUIDs, handed out in order. An upload that fails is assumed to have stored nothing.
  `trash` holds the objects a `cleanupOrphanFile` goroutine is about to remove.
* `CertificationFiles`: a request maps each certification to the PDF it wants: `New`, a row it keeps, or `None`. `ListKept` reads the rows
  to keep in a statement of its own, `LockEmployee` is the update that locks the employee's row, `MarkDeleted` drops what is not kept, and
  `Persist` clears names, sets them and inserts, in the order the code has for the sake of the partial unique index (`Tables`
  lists the table after each statement). `Init` includes profiles from before PDFs had a certification.
* `EducationDocuments`: the form is parsed with a memory budget; files that do not fit are on disk. The code closes every file before the service
  reads it, which a file in memory survives and a file on disk does not: `Readable`. Titles without a PDF keep their place, and keys are
  written back by `Index`.
* `MaxFaults` counts kinds here: once a kind occurred it may occur again.

### Accounts and positions

`UserProfiles` is registration, login (the token carries the role), and the insert of a profile: advisory lock, look for the other
profile, unique constraint, commit. Through the service only accounts older than the roles (`Legacy`) meet the other profile. The
persistence promises more, to any caller (`openspec/specs`, "Creaciones concurrentes de perfiles opuestos"), so accounts in `Unchecked`
skip the service's comparison, as a direct caller of the repositories does; otherwise the lock would never be tried.
`JobPositions` resolves the employer, loads the position, writes with a statement that names active positions only, and notifies, each a
step. It extends `UserProfiles` because ownership rests on the employer profile. `MaxFaults` counts kinds.

### Variants

Definitions named `X_Suffix`, commented "Variant", are plausible mistakes in `X`: a dropped condition, a missing return, a swapped order.
Nothing uses them. Each is there to be put in the place of `X`, to see that a property notices; `PROJECT.json` pairs each with
the property it breaks.

## 3. What the runs check

`tlc -config <run>.cfg <module>`, with the module of the table's group.

| Run (`.cfg`) | Properties | Instance |
|---|---|---|
| **`MCPipeline`** | | |
| `Pipeline_any_fault` | `TypeOK`, `Bookkeeping`, `OneInFlight`, `OneCompleted`, `CoversRequest`, `NeverReopens` | 1 employee, 1 position, 2 batches, 2 versions, 2 publishers, 2 workers, receptions of 2, 2 faults of all 11 kinds |
| `Pipeline_no_overlap` | `TerminalIsFinal`, `PrunesOnlyOlder`, `CompletedSetIsFixed`, `ImplementsLifecycle`, `ImplementsTables` | 3 batches, 1 fault, not `expiry` or `sendLost` |
| `Pipeline_settles` | `Accounted`, `AckedIsSettled`, `Settles` | `FairSpec`, 1 version, 1 publisher, a foreign body, receptions of 1, 2 faults, not `close`, `createLost` or `crashPublisher` |
| `Pipeline_stale_claim` | `ClaimReadsLatest`: **violated** | 1 publisher, 1 worker, no fault |
| **`MCRecommendationQuery`** | | |
| `Query_recommendations` | `TypeOK`, `PageIsWholeOrGone`, `CompletedHasASet`, `ServedWasLinked`, `NoneMeansNever`, `WalksGoForward` | 2 employees, 1 position, 2 employers, 1 query, 2 batches, pages of 1 |
| `Query_pages` | `PagesDoNotRepeat`: **violated** | 1 employer, 1 batch |
| **`MCEmployeeProfile`** | | |
| `Profile_concurrent` | `TypeOK`, `ShownSetsAreWhole`, `LatestIsAnnounced`, `CompleteStaysComplete`, `CompletionIsAnnounced` | `FairSpec`, 2 requests, lists of 2, 3 writes, 1 fault of any kind |
| **`MCCertificationFiles`** | | |
| `Files_certifications` | `TypeOK`, `OfferedIsStored`, `NamesAreListed`, `UpdatesAreNotRefused`, `NoOrphans`, `UnassignedIsKept` | 2 requests at once, 3 in all, 2 names, 5 objects, 1 kind of fault |
| `Files_stale_keep` | `KeptStaysActive`: **violated** | the same, 4 objects, no fault |
| **`MCEducationDocuments`** | | |
| `Education_documents` | `TypeOK`, `DocumentsAreStored`, `DocumentsMatch`, `FailuresLeaveNothing` | 2 requests at once, 3 in all, 2 titles, budget 2, 4 objects, 2 kinds of fault |
| `Education_large_form` | `LegalFormIsStored`: **violated** | 1 request, no fault |
| **`MCJobPositions`** | | |
| `Employers_positions` | `TypeOK`, `OneKindOfProfile`, `AnswersAreTrue`, `WritesAreNotified`, `OnlyOwnersWrite` | 3 accounts (1 legacy, 2 unchecked), 2 creations, 2 calls at once, 3 in all, 1 kind of fault |

### What they show

*Pipeline.* The guarantees come in three strengths, and the difference is what the model says of the code:

1. Under **every** fault, overlapping deliveries included: at most one batch in flight and one completed per subject, a closed
   batch is never in flight again, and no recommendation is older than the request for it. These rest on the partial unique indexes,
   on the deletion inside `CompleteBatch` and on the condition of `ClaimBatch`.
2. When **deliveries do not overlap** and a failed send really sent nothing: closed is final, completing discards only older
   batches, a completed set is fixed, and the whole implements the lifecycle: request, success that replaces the set, failure that leaves it.
   What it does to the tables is what `RecommendationTables` allows; a worker that closed the batch of a deleted position
   without claiming it first (`completeEmpty`) would not.
   The code does not enforce the premise: `CompleteBatch` and `TransitionBatch` have no condition on the status, so only
   the heartbeat stands behind it.
3. When the **closing statement succeeds**, the insert reports its outcome and publishers do not die: every batch in
   flight is accounted for by a message or a publisher, what is acknowledged is settled, and with fairness every batch settles
   unless the deliveries of its message run out (it then goes to the dead-letter queue, and waits for an operator, as the code says).
   `Settles` says when they may: only when all `MaxReceive` deliveries were used and as many faults happened (`Exhausted`), so that no delivery is used up
   without a fault. The run has two faults and two deliveries, so it contains that end, and `Accounted` that the message is not lost in it.

*Queries.* A page is whole or empty though its set may be replaced between the statements; `completed` comes with a set; `none` is answered only
to a subject that never asked; the second page of a walk is of the set of the first or of a newer one, whatever happens to the batches in between. Whoever is read by
an employer was linked to it at some moment of the request, however sets are replaced and positions deleted meanwhile; that the decision is used one statement later,
when the link may be gone, is how the code works.

*Profiles.* However updates overlap, a list is the union of whole lists; a complete profile stays complete; of two writes
that complete a profile at once, at least one announces it, and in the end the latest write was announced. `missed` excuses the writes a
fault kept from being announced: the code only logs those.

*PDFs.* An offered PDF, of a certification or of a title, is in the bucket and not about to be removed (a lost commit excepted: the service takes its error for a
failed transaction and removes the objects of rows that did commit); no order of overlapping updates meets the partial unique index; every object is offered, being stored or about to be
removed (excepted a crash and a failed removal, and for certifications a lost commit); the PDF of a title is the one sent for it. An object whose title was replaced stays in the
bucket: the code does not collect it, so `FailuresLeaveNothing` is about objects that no title ever referred to.

*Accounts and positions.* No account has both profiles; what a request was told is so; only the owner writes, and never a deleted
position, though owner and position were read before; every write is notified once (excepted a lost commit and a crash). Deadlock checking shows that
no lock of an account is held for good.

### Bounds

Every bound is a constant. One employee and one position are enough for both kinds of subject and for the only relation between subjects (a pair);
pages take two employees. Two publishers (one in `Pipeline_settles`, to make room for the second fault: its requests for the two subjects still leave two batches in flight at once) and two workers are what an overlap takes, and two requests at once what a race between writes takes; the third request or
write of the other modules is what a race meets: a state that somebody stored before, or what comes after. Two batches of one subject (three in `Pipeline_no_overlap`) show
a batch next to the one it replaces. Two versions show a write after the request; `Pipeline_settles` takes one, because the data does not matter to it.
`MaxReceive` 2 is one redelivery, and exhaustion, which takes the two faults of `Pipeline_settles`; a reception of two messages, one of which waits without being renewed, is in `Pipeline_any_fault`. Two names are what a swap takes, and five objects let one legacy PDF and two requests of two PDFs coexist.
Two titles are a list where one has no PDF. A budget of 2 lets each PDF of 2 fit alone and not together.
Identifiers of batches are bounded by the guard of `Write`, which leaves one for every request under way, so the bound blocks no request.

Publishers, workers, requests, names, accounts other than by kind, and employers are symmetric; symmetry is not used in the two runs that check liveness.
No run turns deadlock checking off: a state where everything ended has an explicit stutter (`Quiet`), and an idle worker always polls.

### Fairness

`RecommendationPipeline!FairSpec` assumes weak fairness of each publisher's calls and of each worker's: goroutines that can run do run, and a worker polls as
long as it lives (`Run` never returns on an error; an instance that died is started again). `EmployeeProfile!FairSpec` assumes weak fairness of each accepted request.
Neither assumes anything of new requests, deletions, faults or the redrive. Weak fairness is enough because nothing keeps disabling an idle worker's
reception while a message is deliverable and unheld, and because a request that waits for a row waits for a transaction whose request is fair too.

### Disagreements with the documentation

Four statements of the repository are refuted by a run:

* The worker "reads the state when it claims, so an edit before the claim is in" (`docs/recommendation-queue.md:324`): it reads before it claims, and the edit in
  between is skipped as already in flight (`Pipeline_stale_claim`). What does hold is `CoversRequest`.
* A kept certification whose PDF is not loaded "returns `ErrInvalidCertifications` and persists nothing" (`employee/store.go:13`): the check precedes the lock, and a concurrent
  update drops the PDF in between (`Files_stale_keep`).
* A valid payload is stored and answered `200` (`openspec/specs/employee-profile-onboarding`): a form whose PDFs exceed the memory budget together is answered 400, because
  its files are closed before they are read (`Education_large_form`).
* Successive pages of one set "neither repeat nor omit an item" (`openspec/specs/recommendation-query-api`): the tie-break is a column that profile updates
  change (`Query_pages`).

Others follow from the model, and no run is kept for them; each is what stops holding when a premise is dropped:

* "Terminal states are definitive" (`repo.go:92`), `CompleteBatch` "discards the previous batches" (`repo.go:130`) and two overlapping processings "leave a coherent set"
  (`worker.go:285`): with `"expiry"`, a second delivery moves a batch between `failed` and `completed`, discards a newer batch in flight, and adds its rows to the set.
* "The outcome of the batch is already persisted" when a message is acknowledged (`worker.go:377`): not when the transition to `failed` fails too.
* The total and the page are two statements, so a total may count a set that the page no longer finds: `PageIsWholeOrGone` says "or gone".
* A lost commit of a profile update, or of the titles (`crud_education.go:274`, `305`), removes the objects that the committed rows refer to (`crud_education.go:203-206`,
  `234-237`): `OfferedIsStored` and `DocumentsAreStored` except it by name.
* A fault that nothing in the code answers leaves a subject blocked, or a write without its notification: the publisher dies before it sends, the insert of a batch reports an
  error after it committed, the transition to `failed` fails (`ClosersSucceed` names them); the process dies, or a commit is lost, between a write of a position and its notification.
  The models contain these faults; the properties about their consequences except them by name, and `PROJECT.json` lists them as hazards without a property.
* A legacy account has the role of an employer and a profile of an employee: through the role check it cannot read its own profile.

## 4. What is proved

The theorems hold for any subjects, requests and workers, any bounds and any faults that satisfy the `ASSUME`s of the
modules (finitely many requests where a property counts them), and the named premises below. All rest on an inductive invariant: `Init` implies it, every step keeps it, and the
properties follow. TLC checked each property first.

| Module | Theorems | Premise |
|---|---|---|
| `PipelineProofs` | `TypeCorrect`, `BookkeepingHolds`, `InFlightIsUnique`, `CompletedIsUnique`, `ClosedStaysClosed`, `RequestIsCovered` | |
| | `DeletedIsSettled`, `InFlightIsAccounted`, `SettledAtRest` | `ClosersSucceed` |
| `PipelineRefinementProofs` | `TerminalStays`, `OlderArePruned`, `CompletedSetStays`, `LifecycleImplemented`, `TablesImplemented`, `RowsAreOneSet` | `DeliveriesDoNotOverlap` |
| `RecommendationQueryProofs` | `TypesHold`, `CompletedIsShown`, `ServedWhileLinked`, `NoneIsNever`, `PagesAreWhole`, `PagesAreDisjoint`, `WalksAdvance` | |
| `EmployeeProfileProofs` | `TypesHold`, `ShownSetsHold`, `LatestAnnounced`, `CompleteStays` | |
| | `AnnouncedAtRest` | no fault that takes a notification |
| `CertificationFilesProofs` | `TypesHold`, `OfferedStored`, `NamesListed`, `NotRefusedEver`, `NoOrphansLeft`, `UnassignedKept` | |
| | `BucketAtRest` | no crash, failed removal or lost commit |
| `EducationDocumentsProofs` | `TypesHold`, `DocumentsStored`, `DocumentsMatched`, `NothingLeft`, `ListsStayWhole` | |
| | `BucketAtRest` | no crash, failed removal or lost commit |
| `UserProfilesProofs` | `ProfilesExclude`, `AnswersHold` | |
| `JobPositionProofs` | `TypesHold`, `OneKindHolds`, `AnswersStayTrue`, `OwnersWrite`, `WritesNotified`, `NotifiedAtRest`, `PositionsAreTheDomain` | |

### How the parts fit

`RecommendationTables` is where the parts meet, and two theorems about it replace a check of their product, which would be too large:

* `TablesImplemented`: every step of the pipeline is a write, a deletion, a request, a claim, a completion or a failure of that module,
  or leaves the tables alone. The `basis` of a row, which only the pipeline knows, is erased by the mapping. What makes it true is who holds a batch: a completion comes from
  `processing` because nobody but the one holder can have moved the batch since its claim (`Claimed`), its rows are of candidates that
  existed when they were read (`PairsAreCandidates`), and a request comes from somebody who wrote (`AskersWrote`).
* `PositionsAreTheDomain`: the calls on positions, with their three statements and their faults, write a position only while it is
  active, one at a time, and delete it for good. That no position is written more often than there are calls is `WritesAreCounted`.

The third side holds by construction and has no theorem: `RecommendationQuery!Change` is made of the actions of that module, and a read leaves the tables alone.

So what is proved of the queries holds of the system as long as deliveries do not overlap. `RowsAreOneSet` adds what the pages cannot see: all rows of a
subject come from one batch and from one version of its data.

### The invariants

Why the properties are not inductive as they stand, and what is added:

* *Pipeline.* `Bookkeeping`: a batch that was not created has no row and no message, and whoever acts on a batch acts on one that was created (`CreatedFirst`,
  `PublisherKnows`, `WorkerKnows`); what a worker is about to write was read after its batch was opened (`ReadsAfterOpening`); no row outlives its batch (`RowsOwned`). A worker that held an
  identifier not handed out yet could complete a batch before its request. `Next` has some twenty actions and the proofs do not repeat that case split: `StoreSteps`,
  `OpenSteps`, `WorkSteps`, `FetchedSteps`, `AckSteps`, `CloserSteps` and `MailSteps` say what a step can do to each part of the state, and each invariant splits on those few cases.
* *Refinement.* Under `DeliveriesDoNotOverlap`, `Holding`: a message is held once (`OneHolder`, `OneDelivery`, `HeldIsSent`), so whoever works on a batch works on one that is
  open and shares it with nobody (`WorkedOnIsOpen`, `OwnedIsOpen`, `OneOwner`), and it is the newest of its subject (`NewestIsOpen`). `phase`, `asked`, `served` and `shown` of the
  lifecycle are the current batch, its request, the last completed one, its request and its rows; a step either leaves them all, or is one request, success or failure of one subject.
* *Queries.* What a request carries stays true while the sets change: a subject keeps having a batch once it had one, a completed batch is followed by a completed batch, and `linked` was set when the
  decision was made (`SubjectsKeepABatch`, `CompletedStays`, `LinkIsNoted`). A walk advances because a batch in flight is newer than
  every completed one of its subject (`CompletedAreOlder`), so the set that replaces another is newer; no walk is ahead of the last completed batch (`NoneIsAhead`). A page takes an argument of its own. `rank` orders the subjects strictly whatever is updated
  (`RanksDiffer`), so the place of a row, the number of rows before it, is a bijection from the rows of a set to the places `0` to `total - 1`: an injection of a finite set into a
  set of its own size. A page is the inverse image of an interval of places, and has its size. Between the count and the rows the set must stay, or be gone: a set of employees
  changes only by being discarded, and no row is ever added to it (`TablesInv`, `PageInv`).
* *Profile.* The rows a deletion saw are whole lists (`OldAreLists`), so the rows it leaves are whole lists; at most as many writes are persisted as were accepted (`CommitsAreAccepted`).
* *PDFs.* At most one update is past the lock (`OneUpdate`), what it decided to drop is still so, and objects of requests are not in any row yet (`KeysAreFresh`). For titles, every key of
  a row has been offered (`TitlesAreOffered`), so no compensation removes it, except after a lost commit, which offers and removes at once. Lists stay whole because no row bears the number of a write under way
  (`ListsAreNew`), so what a deletion found is, of every write, all the rows there are (`OldAreLists`).
* *Accounts.* Whoever is past the check holds the lock (`InsertsAreLocked`) and both profiles are still absent (`CommitsAreFirst`). For positions, whoever
  is about to write is the owner of a position that exists (`WritersOwn`), new positions are numbered by their calls (`CreationsAreNew`), and the notifications of a position
  are its writes less those under way.

### What rests

The invariants allow for what requests under way still hold. Each component has a theorem that says what they come to when nothing is: no batch is in
flight (`SettledAtRest`), a complete profile was announced with its latest write (`AnnouncedAtRest`), positions were notified as often as written (`NotifiedAtRest`),
the bucket holds exactly the PDFs of certifications that are offered, and of titles exactly those that were ever offered (`BucketAtRest`, twice).

### What is only model-checked

`Settles` and `CompletionIsAnnounced`: liveness under fairness is out of the prover's reach. That the states at rest are reached is part of the first two; the theorems above say what they are like.
The size of a form (`Bytes`) is a sum over a set, whose value needs induction: the proofs use only that `InMemory` yields titles of the form.
The runs that refute something need no proof.

## 5. What is not modelled

* Wording and layout of answers, logging, validation of fields, columns that no decision reads, the numbers a scorer returns and the levels they map to. The levels and
  the validation of a score are pure functions of data the models leave out; unit tests cover them.
* Time: timeouts are events that may happen, tokens expire by not being used, and the backoff after a failed reception only delays.
* Refresh tokens: they are stored at login and the code never reads them back.
* Queue configuration and the consumer switch: read once at startup into booleans and durations. That some instance consumes is a fact of the deployment, not of the code.
* Reads of positions and of profiles by their owner: they change nothing and decide nothing later.
* The drain of the HTTP server at shutdown (that of `net/http`); the worker's part of a shutdown is modelled.
* HTTP middleware, time zones, migrations as a process, the test database. The constraints and the trigger the migrations create are in the models.
* Operators who move messages back from the dead-letter queue.
* The groups are composed through what one sees of the other: `RecommendationTables` between pipeline, queries and positions (section 4), the announcement of a complete
  profile as the `Write` of an employee, the employer profile as the owner of a position. They are not checked as one state machine: its instances would be too large to
  show more than the parts do.
