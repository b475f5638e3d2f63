# A formal model of the proposal workflow

The system turns a client intake into a proposal of six sections, lets Claude
write them and a salesperson edit, regenerate and approve them, renders the
approved proposal to a PDF, and emails the client a link to it. The backend is
one asyncio process (FastAPI, SQLAlchemy) on a PostgreSQL database. Nothing
locks or versions a row: what keeps a proposal right is the transition table,
the guards of the services and the order in which sessions commit. That is what
these modules are about.

Paths below are relative to `src/`; `app/` stands for `backend/app/`.

## 1. The system

| Part | State | Operations | Interacts with |
|---|---|---|---|
| Status machine, domain rules (`app/domain/`) | none: functions of a row | `transition_proposal`, `assert_owns_proposal`, `assert_can_regenerate_section`, ... | called by every service |
| Review and ownership requests (`app/services/proposal_service.py`, `approval_service.py`) | `proposals`, `proposal_sections` | edit, approve section, submit, approve all, request changes, reject, claim, unclaim, transfer | the web app; race with jobs and with each other |
| Full generation (`generation_service.py`) | the texts of all sections | start (request), six Claude calls and one commit (job), catch-all | Claude |
| Section regeneration (`regeneration_service.py`) | one section's text, approval, count, version, log | start (request), cap check, one Claude call, commit (job) | Claude |
| Document generation (`document_service.py`) | `document_artifacts`, a PDF in storage | start (request), render, upload, commit (job) | renderer, storage |
| Delivery (`delivery_service.py`) | `delivery_records`, emails sent | start (request), send, commit (job) | mail service |
| Database sessions (`app/core/database.py`) | the rows each session loaded | load, dirty-column commit, rollback | all of the above |
| Intake (`intake_service.py`) | `intake_submissions` | normalise, look up by key, insert | n8n webhook, retried; retention |
| Client responses (`client_response_service.py`) | `client_response_records` | look up by type, insert | the client's browser; retention; KPIs |
| Accounts (`salesperson_account_service.py`, `app/core/security.py`) | `salesperson_accounts` | self-register, approve, reject, rename | the gate of every authenticated request |
| Retention (`backend/scripts/enforce_retention.py`) | deletes old rows | dry run, run | the activity log, everything that cascades |
| Activity log, Claude call log | append-only rows | insert | every service; retention reads the newest entry |
| KPIs and filters (`proposal_filter_service.py`) | none | counts | proposals, client responses |
| Feedback, email drafts | one insert, or none | | |
| Web app (`web-app/`) | the row each page was rendered with | offers actions by status, polls | requests |

### What is hard here

* **A job works on a row it loaded long ago.** Its Claude, render or send call
  takes seconds to minutes, during which the salesperson edits, approves and
  starts other jobs. At the end it commits from the loaded row, and SQLAlchemy
  writes only the columns whose value differs from the loaded one. A late
  commit can therefore overwrite, or fail to overwrite, one column and not its
  neighbour.
* **Requests overlap.** Guards are evaluated on the row a request loaded.
* **Jobs live in the process.** A restart, or an exception no handler expects,
  ends a job; only the generation job has a catch-all.
* **Two systems, two commits.** The PDF is uploaded before its row is written,
  the email is sent before its record is.
* **Owner and name are two columns** read by different guards, and the name is
  a copy that a later rename does not reach.
* **Look-up, then insert.** Intake, client responses and registration look for
  a row and insert one in separate statements; two of the three have a unique
  constraint behind them.
* **The same rules twice.** The web app repeats the server's guards, and
  evaluates them on a page that may be old.
* **Retention selects, then deletes**, while the API goes on.
* **The cap** is a counter that several accepted regenerations race for.

`PROJECT.json` lists each hazard at its line with the property that covers it.

## 2. The modules

| Module | What it is |
|---|---|
| `ProposalDomain` | the rules on one row: for each request a guard (`...Allowed`) and the row it leaves; the transition table; what a commit writes (`Committed`) |
| `ProposalWorkflow` | one proposal, its salespeople and its background jobs; a request is one step, a job is several |
| `ProposalPromise` | the abstract specification of what a client is promised, which `ProposalWorkflow` implements |
| `ProposalSessions` | `ProposalWorkflow` with requests that overlap: load and commit are separate steps |
| `ProposalPage` | `ProposalWorkflow` used through the web app: tabs that show an earlier row and offer what they read there |
| `SectionHistory` | one section's text, origin, version, count and log under overlapping edits, regenerations and full generations |
| `ProposalTables` | the tables that intake, client responses and retention share, and what the rest of the system does to them |
| `IntakeKeys` | the key of an intake form, and when two forms are the same request |
| `Intake`, `ClientResponses`, `Retention` | each component's own state and steps over `ProposalTables` |
| `ProposalRecords` | the three of them composed, with the work on proposals beside them |
| `SalespersonAccounts` | accounts, the gate, and the proposal that accounts claim, release and hand over |
| `ProposalWorkflow_proofs` | theorems of `ProposalWorkflow`: types, the cap, ownership |
| `ProposalWaiting_proofs` | the same for statuses that wait for a job, documents, emails |
| `ProposalPromise_proofs` | the same for the sealed approval and the refinement of `ProposalPromise` |
| `ProposalSessions_proofs`, `ProposalPage_proofs`, `SectionHistory_proofs`, `ProposalRecords_proofs`, `SalespersonAccounts_proofs` | theorems about the module each is named after |
| `MC...` | constants and symmetry for TLC |

### One proposal

`proposal` is the stored row: `status`, `owner` (`salesperson_account_id`),
`name` (`salesperson_name`) and, for each section, `content`, `approval` and
`regenerations`. A display name is represented by its account, a name typed on
the form by `FormName`, NULL by `NoName`. `jobs[j]` is a background task: its
`phase` is `queued` (the request has been answered), `running` (the row is
loaded: `snapshot`), `uploaded` or `sent` (the external effect has happened,
the commit has not). `artifact` says whether the `document_artifacts` row
exists, `stored` holds the texts in the PDF at the proposal's storage path,
`delivery` counts the emails the mail service accepted and the SENT and FAILED
rows. `LinkOpens` is what the public link in the email opens. `signoff` is a
history variable: the texts the standing approval covered, and whether
anything overlapped it (`quiet`).

Each endpoint of `app/api/v1/endpoints/proposals.py` that changes state is one
action of `ProposalWorkflow` (`UpdateSection`, `ApproveSection`,
`SubmitForApproval`, `ApproveProposal`, `RequestChanges`, `Reject`, `Claim`,
`Unclaim`, `Transfer`, `StartGeneration`, `StartRegeneration`, `StartDocument`,
`StartDelivery`) and one `Commit...` action of `ProposalSessions`, where
`Open` is `get_proposal_by_id`, `Refuse` any guard that raises, and
`FindArtifact` the lookup `start_document_generation` does between its load and
its commit. Jobs are `Load`/`LoadDelivery`, then `GenerationSucceeds`,
`GenerationFails`, `RegenerationSucceeds`, `RegenerationFails`,
`UploadDocument`, `DocumentReady`, `DocumentFails`, `SendEmail`,
`RecordDelivery`, `SendFails`. `JobRaises` is an exception the job's handlers do
not name (for the generation job, `AbandonGeneration` is its catch-all);
`Restart` drops every job and open request. A call that raised may have had
its effect: `SendFails` may leave an accepted email behind
(`SentByFailedSend`), `DocumentFails` a replaced PDF (`AfterFailedUpload`).

`ProposalPage` adds `pages` (the row each tab shows), `editors` (the tabs in
which an editor or a regeneration's instruction may have been opened: it stays
open when a later rendering would not offer it) and `acted`, a history. Its
`Can...` operators are the functions of `web-app/lib/proposal-status.ts` and
the conditions of the page and its buttons. A click is the request of
`ProposalWorkflow` under what the tab offers, on the row as it was rendered; a
click that the server refuses changes nothing.

### The promise

`ProposalPromise` has a stage, an approval, a document and a count of emails,
and seven steps: approve, reopen, start the document, render (again, after a
failure), finish, send (again), deliver. A document that is rendered under a
quiet approval holds the approved texts; after `Finish` it does not change.
The refinement mapping is at the end of `ProposalWorkflow`: `Stage` reads the
stage off the status, `signoff` is the approval, `stored` the document,
`delivery.emails` the emails. Edits, regenerations, failures, records,
restarts and everything about ownership are stutters, or renderings and
sendings of the abstract specification.

### One section

`SectionHistory` looks at one row of `proposal_sections` and the columns
`ProposalWorkflow` leaves out. A writer (an edit, a regeneration or a full
generation) has a `phase` and, once it is `loaded`, the row it loaded
(`loaded[w]`), from which it computes and commits. A text is the sequence of
its parts, each standing for its writer; `Template` is what intake puts there.
A generation and a regeneration assemble the same parts, the fact first (scope)
or last (dates, prices), but from different sources: the regeneration takes the
fact from the intake (`PinnedPrefix`), the generation from the standing text.
`written` and `attempts` are histories: who committed a text, and how each
regeneration ended. `overlapped` remembers that two writers have been at work
at once. A request is `OpenEdit` and `SaveEdit`, `RequestRegeneration` or
`RequestGeneration`; a job is `Load...`, then `...Succeeds` or `...Fails`;
`Restart` ends whatever is in progress.

### The records

In `ProposalTables` a proposal is seen from afar: `DRAFT` or `DELIVERED`, with
its form, its key, `updated_at`, and the month of its newest log entry, which is
all retention reads of the log. `Work` stands for any commit of the workflow
that leaves the status out of account (it writes the row, the log, or both),
`Deliver` for the delivery job's; `touched` is the history of when either last
happened. `Intake` and `ClientResponses` have a record per request in flight
with a phase between the look-up and the insert; a post's answer may be lost,
and a retry is a further post. A text is a sequence of characters and
`NormalizeText` is the pipeline of the code on it; `SameRequest`, the reference
definition, says in terms of words what that pipeline is for. `Retention` keeps
the ids a run has selected until it commits (`CommitRun`) or fails
(`AbortRun`); deletions cascade.

### The accounts

`accounts` are the rows, `requests` what each request in progress has loaded:
the requester's name at the gate (`Arrive`), the target account (`LoadJudged`,
`LoadReceiver`), the proposal (`LoadProposal`), in the order the endpoint loads
them. A commit writes the columns that differ from the loaded ones (`Column`).
`held`, `decided` and `torn` are histories: the names a user has had, the last
decision about each account, and whether the last change to the proposal was
made on a stale copy. In `ProposalWorkflow` accounts are constants
(`Accounts`, `NamedAccounts`; the dev token is `NoAccount`): this module is
where they change.

### Abstractions

In the proposal modules a text is a member of a set and Claude may return any.
Section `version`, `content_origin` and `regeneration_log` are read by no guard
and are in `SectionHistory` only, where `EDITABLE` stands for `IN_REVIEW`,
`PENDING_APPROVAL` and `APPROVED`, the statuses in which a section may be
edited or regenerated. `assert_section_is_regenerable` is a no-op for every
section key. SHA-256 is taken to be injective. The wording of the activity log
is left out.

### Bounds

`JobIds` bounds the jobs outstanding, `SessionIds` the overlapping requests,
`MaxDeliveries` the emails and failures after which no delivery is started
(without it retries count up for ever), `MaxRegenerationAttempts` is at most 2
instead of 3. Two jobs are enough for a regeneration to race another one or a
job of another kind; with two attempts a section can be regenerated, be edited
and reach the cap. Two texts distinguish the approved text from any other.

In `SectionHistory` each writer writes once, so the sets of writers are the
bound: two edits, three regenerations and two generations, with a cap of 2,
reach every mark, a full count, a lost log entry and a generation of a section
that was edited and regenerated. Writers of one kind are interchangeable.

`ProposalRecords` has two proposals, posts and clicks, and three forms: two
that are the same request in other spacing, case and punctuation, and one that
differs from them in a blank only. The assumptions TLC evaluates first
are about every pair of texts of up to four characters (a letter in both cases,
a blank, a mark): enough for blanks and marks before, between and behind two
words. Time is three months (`MaxMonth = 2`) with
windows of 0 and 1 instead of 12 and 24: that is enough for a log entry, the
row and each cutoff to stand in every order. `SalespersonAccounts` has two
users, two names and two requests in progress, with any number of requests one
after the other. `ProposalPage` has two tabs and one job slot.

`RequestChangesFrom` is the set of statuses in which clients send
request-changes. The server takes it in every status with an edge to
`IN_REVIEW`, `GENERATING` included; the web app offers it in
`PENDING_APPROVAL` only (`web-app/lib/proposal-status.ts:279`). The workflow
runs use `PENDING_APPROVAL`, `APPROVED` and `REJECTED`; the sessions and the
page runs use every status, and in the page runs it is the page that narrows it.

## 3. What is checked

Deadlock is not checked: a delivered proposal is final, and so is one that
waits for a job that died; the bounded runs end when their posts, clicks and
months are used up.

| Run | Instance | Shows |
|---|---|---|
| `workflow_safety` | an owner and the dev token, 1 section, 2 jobs, cap 2, all faults | the cap; a waiting status belongs to exactly one job (`StatusWaitsForJob`); an undisturbed approval stays sealed through to what the client's link opens (`QuietApprovalIsSealed`); a link opens a document exactly from `DOCUMENT_READY` on; no email without its record; the transition table; the refinement of `ProposalPromise` (`KeepsPromise`) |
| `workflow_ownership` | 3 accounts (one unnamed), 2 sections, 1 job | a partly approved proposal cannot be sealed; someone who is not the owner changes nothing but start a generation |
| `workflow_liveness` | 2 jobs, fair jobs, exceptions in generation and regeneration | every waiting status and every accepted regeneration resolves |
| `sessions_safety` | 2 overlapping requests, 1 job, 2 texts, no regenerations, request-changes anywhere | the seal of an approval that nothing overlapped, and "delivered was emailed", need no locks |
| `sessions_ownership` | 2 overlapping requests of 2 accounts, 1 job, cap 1, restarts | account and name are never torn apart |
| `section_history` | 2 edits, 3 regenerations, 2 generations, cap 2, restarts | without overlap the row is the exact account of what happened (`SerialHistoryIsExact`); with overlap it may fall behind and never runs ahead: no attempt is charged that did not succeed, the log forgets and does not invent, the template's mark goes with the template; the fact stands once and in its place unless a person's text does (`PinnedFactStands`) |
| `records_lifecycle` | 2 proposals, 2 posts, 2 clicks, 3 forms, 3 months | one proposal per request, whoever is answered is given its own; an acknowledged answer is kept; a decision counts once and the won rate stays a rate, but for overlapping answers; retention deletes nothing recent, nothing it did not select, and keeps nothing too long |
| `accounts` | 2 users, 2 names, 2 overlapping requests, the bootstrap script | the label on a proposal is a name its owner has or had; an account's status and approver are of one decision; decided accounts stay decided; nobody but the owner gives a proposal away |
| `page_requests` | 2 salespeople with a tab each, 1 job, cap 1, restarts | a page that is up to date offers nothing the server refuses and always a way on; a proposal driven from one tab is safe from request-changes during a generation (`LoneTabIsSafe`) |

Three runs exhibit a disagreement between the code and what its documents say
(`findings` of `PROJECT.json` quotes them):

| Run | Violates | Because |
|---|---|---|
| `late_regeneration` | `RegenerationReopens` | reopening happens at the request, the new text arrives later; the approval reset is a no-op column write if the section was approved meanwhile |
| `deleted_while_active` | `OnlyInactiveIsDeleted` | expired log entries are deleted before the last activity is computed from what is left, so a section edit of 12 to 24 months ago counts for nothing |
| `stale_tabs` | `StatusFollowsTable` | the job's edge `GENERATING -> IN_REVIEW` is open to request-changes, which a stale tab still offers; the job commits its outcome over the status that is there |

### Met while modelling

Not each of these is wrong, and none has a run of its own.

* Jobs. A restart strands `GENERATING`, `DOCUMENT_GENERATING` and `DELIVERING`
  (add `"restart"` to `Faults` of `workflow_liveness`), and so does an
  exception the document job does not name (`document_service.py:117`, against
  its lines 6–10). Two overlapping deliver requests send two emails, and the
  second email's record is rolled back (`delivery_service.py:81`, against
  `models/delivery.py:20`). A generate-document request that loaded `APPROVED`
  before another one's job finished deletes that job's artifact: the emailed
  link then opens nothing until the next one is ready.
* Requests. `start_generation` does not check ownership
  (`generation_service.py:38`, against `domain/ownership.py:3`), and its
  docstring names `DRAFT` and `GENERATION_FAILED` where the table also takes
  `IN_REVIEW`. Approve endpoints take no version of what was seen
  (`docs/edge-cases.md:319`). No code enters `CLOSED`. Two overlapping claims
  both succeed and the last one owns the proposal.
* Sections. An edit that overlaps a regeneration of generated text leaves its
  mark on the regenerated text (`regeneration_service.py:200`, against
  `content_origin.py:16`). Of two regenerations that overlap, one log entry,
  one version and one charge are lost. A second full generation takes the
  standing text for the facts. Two regenerations accepted for the last attempt
  leave the second one dropped without a trace.
* Intake. Of two posts that overlap, one is answered with a 500, where
  `docs/intake-schema.md:25` speaks of an upsert. `foo .` and `foo` have
  different keys, since blanks are stripped before punctuation is.
* Client responses. A client can both accept and decline, page views are
  recorded each time, and overlapping acceptances make a won rate above 100%
  (`models/client_feedback.py` has "one row per proposal per response type").
  `api/v1/endpoints/client_respond.py` is not mounted.
* Accounts. A label outlives a rename, and another user may take the freed
  name. A transfer on a stale copy, to oneself, can tear owner and label. A
  rejected owner keeps the proposal and can no longer release it. The page
  offers a claim to an account without a display name.
* Retention. A dry run lists other proposals than a run deletes, since it
  leaves the expired entries in. The PDF in storage is not deleted.
* Elsewhere. `feedback_service.submit_feedback` flushes and leaves the commit
  to nobody; `generate_email_draft` calls `record_claude_call` without its
  session (`domain/aidraft.py:93`) and so fails always; the regeneration
  button's poll ends on any change of the version
  (`RegenerateSectionButton.tsx:55`).

### Fairness

`FairSpec` has weak fairness on each job's steps and on nothing else. A queued
background task is run by the event loop, Claude, storage and mail calls have
timeouts that raise, and rendering is a local computation, so a job does not
stay at one step forever. Which way a call ends is left open: no property
relies on Claude ever answering. Nothing obliges a salesperson to act.

## 4. What is proved

For any accounts, sections, texts, job slots, sessions, tabs, writers, forms,
windows and faults. *ClientsWait* marks the theorems whose hypothesis is
`"GENERATING" \notin RequestChangesFrom`, and *Keys* those whose hypothesis is
`KeysTellRequestsApart`.

| Theorem | States | Needs |
|---|---|---|
| `TypeCorrectness` | `Spec => []TypeOK` | |
| `CapNeverExceeded` | `Spec => []RegenerationCap` | |
| `OnlyOwnersAct` | `Spec => StrangersOnlyGenerate` | |
| `ProposalWaitsForJob` | `Spec => []StatusWaitsForJob` | *ClientsWait* |
| `TransitionTableHolds` | `Spec => StatusFollowsTable` | *ClientsWait* |
| `LinkOpensADocument` | `Spec => []DocumentBehindDelivery` | *ClientsWait* |
| `EmailsHaveRecords` | `Spec => []EmailsAreRecorded` | *ClientsWait* |
| `QuietApprovalStands` | `Spec => []QuietApprovalIsSealed` | *ClientsWait* |
| `WorkflowKeepsPromise` | `Spec => KeepsPromise`, the refinement of `ProposalPromise` | *ClientsWait* |
| `SessionsTypeCorrectness` | `SessionsSpec => []SessionsTypeOK` | |
| `OwnerStaysNamed` | `SessionsSpec => []OwnerIsNamed` | |
| `DeliveredMeansEmailed` | `SessionsSpec => []DeliveredWasEmailed` | |
| `QuietApprovalOutlastsOverlap` | `SessionsSpec => []QuietApprovalIsSealed` | |
| `OffersHold` | `PageSpec => []OffersAreAccepted` | |
| `PagesHaveNoDeadEnd` | `PageSpec => []NoDeadEnd` | |
| `OneTabIsSafe` | `PageSpec => []LoneTabIsSafe` | |
| `HistoryTypeCorrectness` | `Spec => []HistoryTypeOK` of `SectionHistory` | |
| `TemplateStaysMarked` | `Spec => []TemplateIsMarked` | |
| `NobodyIsOvercharged` | `Spec => []NeverOvercharged` | |
| `LogTellsTheTruth` | `Spec => []LogIsTruthful` | |
| `SerialWritersKeepTheBooks` | `Spec => []SerialHistoryIsExact` | |
| `FactsStayPinned` | `Spec => []PinnedFactStands` | |
| `RecordsAreTyped` | `Spec => []RecordsTypeOK` of `ProposalRecords` | |
| `RequestsHaveOneProposal` | `Spec => []OneProposalPerRequest` | *Keys* |
| `AnswersAreAboutTheRequest` | `Spec => []AnswersNameTheRequest` | *Keys* |
| `AcknowledgedAnswersStay` | `Spec => []AcknowledgedAnswersAreKept` | |
| `DecisionsAreCountedOnce` | `Spec => []DecisionsCountOnce` | |
| `WonRatesAreRates` | `Spec => []WonRateIsARate` | |
| `RetentionSparesTheRecent` | `Spec => NothingRecentIsDeleted` | |
| `RetentionKeepsNothingTooLong` | `Spec => NothingIsKeptTooLong` | |
| `AccountsAreTyped` | `Spec => []AccountsTypeOK` of `SalespersonAccounts` | |
| `LabelsNameTheOwner` | `Spec => []LabelIsTheOwners` | |
| `DecisionsAreWhole` | `Spec => []DecisionIsWhole` | |
| `DecisionsAreKept` | `Spec => DecisionsStand` | |
| `OwnersKeepTheirs` | `Spec => OwnersAreNotRobbed` | |

Each is in the `_proofs` module of its module; those with *ClientsWait* are in
`ProposalWaiting_proofs` and `ProposalPromise_proofs`.

### The arguments: one proposal

**Types.** `TypeOK` is not inductive: it does not say that a job past its load
holds a row, from which it is about to commit, or that a queued regeneration
names a section. `TypeInv` adds `JobShape`, which does. `SessionsInv` adds the
rows of the open sessions. The lemmas named `...Type` say that each rule of
`ProposalDomain`, and the column merge `Committed`, returns a row.

**The cap.** `RegenerationCap` is not inductive either: a job writes one more
than the count *it loaded*, so what it loaded matters. `RunningHasAttempt` says
that a running regeneration job loaded a count below the cap, which is the
job's own re-check (`regeneration_service.py:116`); the check at the request
plays no part. `CapInv` is the conjunction of the three.

**Waiting.** `StatusWaitsForJob` is inductive with the types (`WaitInv`). Each
request either leaves the waiting statuses alone (`Reviews`) or enters one of
them and queues its job (`Starts`), and enters from a status that is none of
them, where no such job is outstanding (`IdleStatus`). A job finds the status
it loaded, so its commit, of whatever row, is the transition of the stored one
(`CommitIsTransition`), and its effect is to `Resolve` the status it waited in.
From these effects follow the transition table, the document behind a delivery
(`DocumentInv`: an approval stands exactly in the sealed statuses, an upload
has left a document) and the records (`EmailInv`: until a delivery has sent,
all that was sent is recorded).

**The sealed approval.** `SealInv` adds what keeps the texts until the client
opens them: no regeneration is outstanding, a document job past its load has
loaded the approved texts, one past its upload has stored them, and so has
whoever wrote the artifact. A request that would change a section leaves a
sealed status (`SealedUntouched`), and only approving the whole enters one.

**The refinement.** With `SealInv` and `EmailInv` (`PromiseInv`) each step of
the workflow is one step of `ProposalPromise` under the mapping, or `Unseen`:
`ReviewsRefine` and `StartsRefine` for the requests, `JobStepRefines` for the
jobs. `SealInv` is what the step `Render` needs.

**Owner and name.** `OwnershipInv` says that the stored row and every row an
open session has loaded is `Coherent` (owned rows carry the owner's name). From
a coherent row a claim, release or transfer changes both columns or neither
(`ClaimedTogether`, `UnclaimedTogether`, `TransferredTogether`: here it is
needed that neither NULL is an account), so its commit writes both or neither,
and nothing else writes them. It follows that the row is coherent whatever is
stored when the commit lands. That coherent rows are owned by who is named on
them is also why a stranger can claim nothing (`OnlyOwnersAct`).

**Delivery.** `Underway` says what a job's phase proves: with an artifact, and
for a delivery past its load, there is a document in storage; past its send,
an email has been accepted. No request sets `DELIVERED` (`RulesDoNotDeliver`),
and a commit writes the status only where it changed it, so a session that
loaded `DELIVERED` and commits late cannot bring the status back.

**The seal without locks.** Under overlapping requests `StatusWaitsForJob`
fails, and so does the argument above. `Undisturbed` says what takes its
place: while the approval stands, not only the stored row but *every row in
flight*, of a session or of a job, is sealed, because whatever loaded since
loaded a sealed row and nothing was in flight at the approval. On a sealed row
the requests that would touch a section are refused or leave the sealed
statuses (`ReviewsUnseal`), and since such a request *changes* the status, its
commit writes it whatever is stored by then (`Unsealed`): the approval no
longer stands. The others set no column of a section, so their commits write
none (`CommittedSections`). A document of an earlier approval may still be
there (`OutdatedDocument`), but only until the first generate-document request,
which is why nothing before that request may have missed it in its lookup.

**The page.** A page that is up to date shows the stored row, so `OffersHold`
compares the web app's rules with the server's on one row, of any type-correct
kind. No dead end rests on `NeverRejected`: no step leaves a proposal in
`REJECTED`, the one status in which pages offer nothing. `OneTabIsSafe` needs
no hypothesis about clients: `SafeFrom(t)`, for every tab at once, says that a
proposal driven from `t` alone waits for its job, and that `t` does not show
`PENDING_APPROVAL` while it generates, so that its request-changes button is
not there. The hypothesis *ClientsWait* is what the page ensures.

### The arguments: one section

**The template's mark.** Text and origin are separate columns, so a commit
could change one and not the other. `MarkInv` adds `OnlyMovesAway`: while the
stored text (origin) is the template's, so is that of every row in flight.
Hence a column a writer finds already as it would set it, and leaves alone, is
one that has left the template in the stored row as well, and a writer that
finds the template's writes both columns.

**Any overlap.** `HistoryInv` says of the stored row and of every row in flight
that it `Fits` the history: no count above the successes, no version above the
writes, a log that is a subsequence of the attempts (`Remembers` names the
places), and the fact where it stands if nobody's edit does. Each is kept when
the history grows, so a column that an overlapping commit leaves in place or
takes from an older row fits just as well: the lemma is about one column at a
time. `NobodyIsOvercharged`, `LogTellsTheTruth` and most of `FactsStayPinned`
follow.

**No overlap.** `SerialInv` says that as long as no two writers overlapped, at
most one has loaded, what it loaded is what is stored (`Alone`), and the row is
`Exact`. A commit is then whole (`WholeCommit`). `LastText`, what the section
ought to read as, is the last whole text wrapped in the generations after it;
`WholeIsPlaced` and `WholeAppended` say how it grows by one writer.

### The arguments: records and accounts

**Tables.** `TablesInv` says that a row's key is that of its form and no two
rows share one (`KeysFit`), and that the last use of a proposal (`touched`) is
that of its row or of its newest log entry unless it has left the activity
window (`ClockFits`). `PostsInv` and `AnswersInv` tie what a caller was told to
the tables; steps elsewhere only have to let what is there `Persist`. `Once`
says that a decision that nothing overlapped is either recorded once, or being
recorded by one click. `RunInv` says that what a retention run has not selected
has been used in time; retention's two theorems need `ActivityWindow <=
ProposalWindow`, 12 and 24 months in the script.

**Keys.** That nobody gets two proposals, or another's, follows from the
look-up and the unique constraint for keys that tell requests apart. This is
the hypothesis `KeysTellRequestsApart`, since what `normalize_text` computes
is recursion over texts. `records_lifecycle` evaluates it for its forms
(`TestFormsAreToldApart` in `MCProposalRecords`), and the property of texts it
rests on, for texts of up to four characters (`TextsAreToldApart`). It fails for forms that differ in texts without a word (`.` and the
empty text have one key), and may fail where a field holds the `|` the fields
are joined with.

**Accounts.** `AccountsInv` relates what each request has loaded to the rows
and to the names each user has had (`RequestsFit`): the histories `held` and
`decided` only grow or follow the commits, so what was loaded keeps its meaning
while others commit. A rename adds a name and takes none away, which is why a
label outlives it. `DecisionsAreKept` and `OwnersKeepTheirs` are about single
steps and follow from it: a late registration inserts, and fails where there is
a row; a claim was granted on a row without a label.

### Assumptions

The proofs use these `ASSUME`s on constants, and TLC evaluates each in the
runs of its module: the four of `ProposalDomain`, `EnvironmentAssumption` and
`SignoffAssumption` (`ProposalWorkflow`), `PageAssumption` (`ProposalPage`),
`WritersAssumption` (`SectionHistory`), `TablesAssumption` and
`NoRowAssumption` (`ProposalTables`), `IntakeAssumption`,
`ResponsesAssumption`, `WindowsAssumption`, and `DistinctAssumption` and
`NoRowAssumption` (`SalespersonAccounts`). They ask that NULLs and placeholders
differ from the values they stand beside, that the template is a text, that
nobody is two kinds of writer, that keys of forms are keys, that bounds and
windows are numbers and the second window is not the shorter.

## 5. What is only model-checked

* Liveness: the four properties of `workflow_liveness` under `FairSpec`.
  Fairness and `ENABLED` are out of the prover's reach.
* `TextsAreToldApart`: what a recursive pipeline makes of every text needs an
  induction over texts, which the prover cannot instantiate.
* That the properties under *ClientsWait* are lost without it is what
  `stale_tabs` shows; the sessions runs and `QuietApprovalOutlastsOverlap`
  show which survive overlapping requests as well.

Every other invariant and action property that a passing run checks is a
theorem. The runs remain the check that the definitions are not vacuous: they
reach the states the theorems are about, and mutations of the code violate
each property there.

## 6. What is not modelled

* Prompts, HTML and email wording, list filters, the figures of the dashboard
  other than the won rate, and layout: formatting and read-only queries.
* The Claude call log and salesperson feedback: rows that nothing reads, or a
  single insert.
* Tokens: a request arrives with its user known. Of the bootstrap script the
  load and the commit are one step, and `approved_at` is left out.
* Calendar time: months are counted and a retention run is over within one.
* Several server processes: background tasks and sessions are modelled for one
  process, as the deployment has it; the database has one committed state.
* Migrations, configuration and logging: declarative or pure I/O.

## 7. Plan

What is left is to prove what the runs do not ask yet:

1. `RegenerationCap` for `SessionsSpec`: the counts are written by jobs only,
   but a regeneration's commit then meets rows that overlapping requests wrote.
2. What of `ProposalPromise` survives overlapping requests: its approval and
   rendering steps under a quiet approval, from `OverlapInv`.
3. The theorems of `ProposalWorkflow` under *ClientsWait* for a `PageSpec` in
   which no tab is stale, so that the hypothesis is discharged by the page.
