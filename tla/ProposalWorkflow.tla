-------------------------- MODULE ProposalWorkflow --------------------------
(***************************************************************************)
(* One proposal, the salespeople who act on it and the background jobs     *)
(* their requests start.  A request handler is one step: it loads the      *)
(* proposal, checks it and commits (two overlapping requests are the       *)
(* subject of ProposalSessions).  A background job is several: it is       *)
(* queued when its request commits, loads the proposal into a session of   *)
(* its own, calls out to Claude, the PDF renderer, storage or the mail     *)
(* service, and commits from the row it loaded, while requests and other   *)
(* jobs go on.  Jobs live in the server process and die with it.           *)
(***************************************************************************)
EXTENDS ProposalDomain, FiniteSets

CONSTANTS
    IntakeNames,            \* salesperson names the intake form may carry
    JobIds,                 \* bound: background jobs outstanding at once
    MaxDeliveries,          \* bound: no delivery is started after this many emails and failures
    RequestChangesFrom,     \* statuses in which clients send request-changes
    Faults,                 \* "restart", and the kinds of job that may raise unexpectedly
    NoSection, NoSnapshot, NoDocument, NoSignoff

ASSUME EnvironmentAssumption ==
    /\ IntakeNames \subseteq {FormName, NoName}
    /\ RequestChangesFrom \subseteq ProposalStatus
    /\ Faults \subseteq {"restart", "generation", "regeneration", "document", "delivery"}
    /\ MaxDeliveries \in Nat
    /\ NoSection \notin Sections
    /\ NoDocument \notin [Sections -> Contents]

VARIABLES
    proposal,   \* the stored row (Proposal of ProposalDomain)
    jobs,       \* the server's background tasks
    artifact,   \* whether a document_artifacts row exists
    stored,     \* the texts in the PDF held by storage, or NoDocument
    delivery,   \* emails accepted by the mail service; SENT and FAILED DeliveryRecord rows
    signoff     \* history: what the last approval covered, while it stands

vars == <<proposal, jobs, artifact, stored, delivery, signoff>>

Idle == [kind |-> "none", section |-> NoSection, phase |-> "idle", snapshot |-> NoSnapshot]

Job == [kind : {"none", "generation", "regeneration", "document", "delivery"},
        section : Sections \cup {NoSection},
        phase : {"idle", "queued", "running", "uploaded", "sent"},
        snapshot : Proposal \cup {NoSnapshot}]

Texts == [Sections -> Contents]

(* quiet: no regeneration was outstanding when the approval was given. *)
Signoff == [texts : Texts, quiet : BOOLEAN]

ASSUME SignoffAssumption == NoSignoff \notin Signoff

SealedStatuses == {"APPROVED", "DOCUMENT_GENERATING", "DOCUMENT_GENERATION_FAILED",
    "DOCUMENT_READY", "DELIVERING", "DELIVERY_FAILED", "DELIVERED", "CLOSED"}

DocumentStatuses == {"DOCUMENT_READY", "DELIVERING", "DELIVERY_FAILED", "DELIVERED"}

RegenerationOutstanding == \E j \in JobIds : jobs[j].kind = "regeneration"

(* What the link in the delivery email opens, to whoever has it.           *)
LinkOpens == IF artifact THEN stored ELSE NoDocument

(* The approval stands while the proposal stays approved or beyond. *)
KeepSignoff ==
    signoff' = IF proposal'.status \in SealedStatuses THEN signoff ELSE NoSignoff

Init ==
    /\ \E name \in IntakeNames : proposal = IntakeProposal(name)
    /\ jobs = [j \in JobIds |-> Idle]
    /\ artifact = FALSE
    /\ stored = NoDocument
    /\ delivery = [emails |-> 0, sent |-> 0, failed |-> 0]
    /\ signoff = NoSignoff

-----------------------------------------------------------------------------
(* Requests that only change the row *)

RowOnly == KeepSignoff /\ UNCHANGED <<jobs, artifact, stored, delivery>>

UpdateSection(a, s, text) ==
    /\ EditAllowed(proposal, a)
    /\ proposal' = Edited(proposal, s, text)
    /\ RowOnly

ApproveSection(a, s) ==
    /\ ApproveSectionAllowed(proposal, a)
    /\ proposal' = SectionApproved(proposal, s)
    /\ RowOnly

SubmitForApproval(a) ==
    /\ SubmitAllowed(proposal, a)
    /\ proposal' = Transitioned(proposal, "PENDING_APPROVAL")
    /\ RowOnly

ApproveProposal(a) ==
    /\ ApproveAllAllowed(proposal, a)
    /\ proposal' = WhollyApproved(proposal)
    /\ signoff' = [texts |-> ContentOf(proposal), quiet |-> ~RegenerationOutstanding]
    /\ UNCHANGED <<jobs, artifact, stored, delivery>>

RequestChanges(a) ==
    /\ proposal.status \in RequestChangesFrom
    /\ RequestChangesAllowed(proposal, a)
    /\ proposal' = Transitioned(proposal, "IN_REVIEW")
    /\ RowOnly

Reject(a) ==
    /\ RejectAllowed(proposal, a)
    /\ proposal' = Transitioned(proposal, "IN_REVIEW")
    /\ RowOnly

Claim(a) ==
    /\ ClaimAllowed(proposal, a)
    /\ proposal' = Claimed(proposal, a)
    /\ RowOnly

Unclaim(a) ==
    /\ UnclaimAllowed(proposal, a)
    /\ proposal' = Unclaimed(proposal)
    /\ RowOnly

Transfer(a, b) ==
    /\ TransferAllowed(proposal, a, b)
    /\ proposal' = Transferred(proposal, b)
    /\ RowOnly

-----------------------------------------------------------------------------
(* Requests that start a background job *)

Enqueue(kind, s) ==
    \E j \in JobIds :
        /\ jobs[j] = Idle
        /\ jobs' = [jobs EXCEPT ![j] =
              [kind |-> kind, section |-> s, phase |-> "queued", snapshot |-> NoSnapshot]]

StartGeneration(a) ==
    /\ StartGenerationAllowed(proposal, a)
    /\ proposal' = Transitioned(proposal, "GENERATING")
    /\ Enqueue("generation", NoSection)
    /\ KeepSignoff
    /\ UNCHANGED <<artifact, stored, delivery>>

(* The section keeps its approval and its text until the job succeeds. *)
StartRegeneration(a, s) ==
    /\ StartRegenerationAllowed(proposal, a, s)
    /\ proposal' = Reopened(proposal)
    /\ Enqueue("regeneration", s)
    /\ KeepSignoff
    /\ UNCHANGED <<artifact, stored, delivery>>

(* An artifact found here is taken to be stale and deleted. *)
StartDocument(a) ==
    /\ StartDocumentAllowed(proposal, a)
    /\ proposal' = Transitioned(proposal, "DOCUMENT_GENERATING")
    /\ artifact' = FALSE
    /\ Enqueue("document", NoSection)
    /\ KeepSignoff
    /\ UNCHANGED <<stored, delivery>>

StartDelivery(a) ==
    /\ StartDeliveryAllowed(proposal, a)
    /\ delivery.emails + delivery.failed < MaxDeliveries
    /\ proposal' = Transitioned(proposal, "DELIVERING")
    /\ Enqueue("delivery", NoSection)
    /\ KeepSignoff
    /\ UNCHANGED <<artifact, stored, delivery>>

SalespersonStep(a) ==
    \/ \E s \in Sections :
          \/ \E text \in Contents : UpdateSection(a, s, text)
          \/ ApproveSection(a, s)
          \/ StartRegeneration(a, s)
    \/ SubmitForApproval(a)
    \/ ApproveProposal(a)
    \/ RequestChanges(a)
    \/ Reject(a)
    \/ Claim(a)
    \/ Unclaim(a)
    \/ \E b \in Accounts : Transfer(a, b)
    \/ StartGeneration(a)
    \/ StartDocument(a)
    \/ StartDelivery(a)

-----------------------------------------------------------------------------
(* Background jobs *)

Ended(j) == jobs' = [jobs EXCEPT ![j] = Idle]

At(j, kind, phase) == jobs[j].kind = kind /\ jobs[j].phase = phase

(* The job commits `set`, computed from the row it loaded. *)
CommitJob(j, set) ==
    /\ proposal' = Committed(proposal, jobs[j].snapshot, set)
    /\ KeepSignoff

(* Mutant: the job trusts the check its request made. *)
LoadUnchecked(j) ==
    /\ jobs[j].phase = "queued"
    /\ jobs[j].kind # "delivery"
    /\ jobs' = [jobs EXCEPT ![j].phase = "running", ![j].snapshot = proposal]
    /\ UNCHANGED <<proposal, artifact, stored, delivery, signoff>>

(* Generation, document and regeneration jobs load the row and go on to    *)
(* their external call; the regeneration job first checks the cap again,   *)
(* and gives up without a trace when it is used up.                        *)
Load(j) ==
    /\ jobs[j].phase = "queued"
    /\ jobs[j].kind # "delivery"
    /\ IF jobs[j].kind = "regeneration" /\ ~CanRegenerate(proposal, jobs[j].section)
       THEN Ended(j)
       ELSE jobs' = [jobs EXCEPT ![j].phase = "running", ![j].snapshot = proposal]
    /\ UNCHANGED <<proposal, artifact, stored, delivery, signoff>>

(* The delivery job also looks the document up; with none there is nothing *)
(* to send and the delivery fails.                                         *)
LoadDelivery(j) ==
    /\ At(j, "delivery", "queued")
    /\ IF artifact
       THEN /\ jobs' = [jobs EXCEPT ![j].phase = "running", ![j].snapshot = proposal]
            /\ UNCHANGED <<proposal, signoff>>
       ELSE /\ Ended(j)
            /\ proposal' = IF CanTransition(proposal, "DELIVERY_FAILED")
                           THEN Transitioned(proposal, "DELIVERY_FAILED") ELSE proposal
            /\ KeepSignoff
    /\ UNCHANGED <<artifact, stored, delivery>>

(* Mutant: the catch-all logs and returns. *)
AbandonGenerationSilently == UNCHANGED <<proposal, signoff>>

(* run_generation_job's catch-all: roll back, reload, and fail the         *)
(* generation if the proposal is still generating.                         *)
AbandonGeneration ==
    /\ proposal' = IF proposal.status = "GENERATING"
                   THEN Transitioned(proposal, "GENERATION_FAILED") ELSE proposal
    /\ KeepSignoff

(* Claude answered for every section. *)
GenerationSucceeds(j) ==
    /\ At(j, "generation", "running")
    /\ IF CanTransition(jobs[j].snapshot, "IN_REVIEW")
       THEN \E texts \in Texts : CommitJob(j, Generated(jobs[j].snapshot, texts))
       ELSE AbandonGeneration
    /\ Ended(j)
    /\ UNCHANGED <<artifact, stored, delivery>>

(* One of the calls failed: nothing generated so far is kept. *)
GenerationFails(j) ==
    /\ At(j, "generation", "running")
    /\ IF CanTransition(jobs[j].snapshot, "GENERATION_FAILED")
       THEN CommitJob(j, Transitioned(jobs[j].snapshot, "GENERATION_FAILED"))
       ELSE AbandonGeneration
    /\ Ended(j)
    /\ UNCHANGED <<artifact, stored, delivery>>

RegenerationSucceeds(j) ==
    /\ At(j, "regeneration", "running")
    /\ \E text \in Contents :
          CommitJob(j, Regenerated(jobs[j].snapshot, jobs[j].section, text))
    /\ Ended(j)
    /\ UNCHANGED <<artifact, stored, delivery>>

(* Mutant: a failed call is put back in the queue. *)
RegenerationRetries(j) ==
    /\ At(j, "regeneration", "running")
    /\ jobs' = [jobs EXCEPT ![j].phase = "queued", ![j].snapshot = NoSnapshot]
    /\ UNCHANGED <<proposal, artifact, stored, delivery, signoff>>

(* A failed call is logged and costs no attempt. *)
RegenerationFails(j) ==
    /\ At(j, "regeneration", "running")
    /\ Ended(j)
    /\ UNCHANGED <<proposal, artifact, stored, delivery, signoff>>

(* The PDF holds the text of every section, in whatever order they were    *)
(* loaded; its layout and the texts around them are left out.              *)
Rendered(p) == ContentOf(p)

(* Mutant: the failure is logged only. *)
DocumentFailsSilently(j) ==
    /\ At(j, "document", "running")
    /\ Ended(j)
    /\ UNCHANGED <<proposal, artifact, stored, delivery, signoff>>

(* What storage holds once upload_pdf has raised: the upload was refused,  *)
(* or its answer was lost after it had replaced the file.                  *)
AfterFailedUpload(j) == {stored, Rendered(jobs[j].snapshot)}

(* Rendering or upload failed. *)
DocumentFails(j) ==
    /\ At(j, "document", "running")
    /\ IF CanTransition(jobs[j].snapshot, "DOCUMENT_GENERATION_FAILED")
       THEN CommitJob(j, Transitioned(jobs[j].snapshot, "DOCUMENT_GENERATION_FAILED"))
       ELSE UNCHANGED <<proposal, signoff>>
    /\ stored' \in AfterFailedUpload(j)
    /\ Ended(j)
    /\ UNCHANGED <<artifact, delivery>>

(* The PDF of the loaded row replaces whatever storage holds at the        *)
(* proposal's path.                                                        *)
UploadDocument(j) ==
    /\ At(j, "document", "running")
    /\ stored' = Rendered(jobs[j].snapshot)
    /\ jobs' = [jobs EXCEPT ![j].phase = "uploaded"]
    /\ UNCHANGED <<proposal, artifact, delivery, signoff>>

(* Mutant: the row is written before the upload. *)
DocumentReadyBeforeUpload(j) ==
    /\ At(j, "document", "running")
    /\ artifact' = TRUE
    /\ CommitJob(j, Transitioned(jobs[j].snapshot, "DOCUMENT_READY"))
    /\ Ended(j)
    /\ UNCHANGED <<stored, delivery>>

(* The artifact row and DOCUMENT_READY are one commit, which the unique    *)
(* constraint on proposal_id refuses when a row is already there.          *)
DocumentReady(j) ==
    /\ At(j, "document", "uploaded")
    /\ IF ~artifact /\ CanTransition(jobs[j].snapshot, "DOCUMENT_READY")
       THEN /\ artifact' = TRUE
            /\ CommitJob(j, Transitioned(jobs[j].snapshot, "DOCUMENT_READY"))
       ELSE UNCHANGED <<proposal, artifact, signoff>>
    /\ Ended(j)
    /\ UNCHANGED <<stored, delivery>>

(* How many emails left once send_email has raised: the mail service was   *)
(* not reached or refused, or its answer was lost after it had accepted.   *)
SentByFailedSend == {0, 1}

(* Mutant: the failure leaves no record. *)
SendFailsUnrecorded(j) ==
    /\ At(j, "delivery", "running")
    /\ \E accepted \in SentByFailedSend : delivery' = [delivery EXCEPT !.emails = @ + accepted]
    /\ CommitJob(j, Transitioned(jobs[j].snapshot, "DELIVERY_FAILED"))
    /\ Ended(j)
    /\ UNCHANGED <<artifact, stored>>

(* Mutant: the failure is logged only. *)
SendFailsSilently(j) ==
    /\ At(j, "delivery", "running")
    /\ Ended(j)
    /\ UNCHANGED <<proposal, artifact, stored, delivery, signoff>>

(* send_email raised. *)
SendFails(j) ==
    /\ At(j, "delivery", "running")
    /\ \E accepted \in SentByFailedSend :
          IF CanTransition(jobs[j].snapshot, "DELIVERY_FAILED")
          THEN /\ delivery' = [delivery EXCEPT !.emails = @ + accepted, !.failed = @ + 1]
               /\ CommitJob(j, Transitioned(jobs[j].snapshot, "DELIVERY_FAILED"))
          ELSE /\ delivery' = [delivery EXCEPT !.emails = @ + accepted]
               /\ UNCHANGED <<proposal, signoff>>
    /\ Ended(j)
    /\ UNCHANGED <<artifact, stored>>

SendEmail(j) ==
    /\ At(j, "delivery", "running")
    /\ delivery' = [delivery EXCEPT !.emails = @ + 1]
    /\ jobs' = [jobs EXCEPT ![j].phase = "sent"]
    /\ UNCHANGED <<proposal, artifact, stored, signoff>>

(* Mutant: the delivery is recorded before the email is sent. *)
RecordDeliveryFirst(j) ==
    /\ At(j, "delivery", "running")
    /\ delivery' = [delivery EXCEPT !.sent = @ + 1]
    /\ CommitJob(j, Transitioned(jobs[j].snapshot, "DELIVERED"))
    /\ Ended(j)
    /\ UNCHANGED <<artifact, stored>>

(* The SENT record and DELIVERED are one commit, lost together when the    *)
(* transition is refused.                                                  *)
RecordDelivery(j) ==
    /\ At(j, "delivery", "sent")
    /\ IF CanTransition(jobs[j].snapshot, "DELIVERED")
       THEN /\ delivery' = [delivery EXCEPT !.sent = @ + 1]
            /\ CommitJob(j, Transitioned(jobs[j].snapshot, "DELIVERED"))
       ELSE UNCHANGED <<proposal, delivery, signoff>>
    /\ Ended(j)
    /\ UNCHANGED <<artifact, stored>>

JobStep(j) ==
    \/ Load(j) \/ LoadDelivery(j)
    \/ GenerationSucceeds(j) \/ GenerationFails(j)
    \/ RegenerationSucceeds(j) \/ RegenerationFails(j)
    \/ UploadDocument(j) \/ DocumentReady(j) \/ DocumentFails(j)
    \/ SendEmail(j) \/ RecordDelivery(j) \/ SendFails(j)

-----------------------------------------------------------------------------
(* Faults *)

(* An exception no handler of the job expects, at any point after it has   *)
(* loaded the row.  Only the generation job has a catch-all.               *)
JobRaises(j) ==
    /\ jobs[j].kind \in Faults
    /\ jobs[j].phase \in {"running", "uploaded", "sent"}
    /\ IF jobs[j].kind = "generation" THEN AbandonGeneration ELSE UNCHANGED <<proposal, signoff>>
    /\ Ended(j)
    /\ UNCHANGED <<artifact, stored, delivery>>

(* The server process restarts: every queued or running job is gone. *)
Restart ==
    /\ "restart" \in Faults
    /\ \E j \in JobIds : jobs[j] # Idle
    /\ jobs' = [j \in JobIds |-> Idle]
    /\ UNCHANGED <<proposal, artifact, stored, delivery, signoff>>

Next ==
    \/ \E a \in Actors : SalespersonStep(a)
    \/ \E j \in JobIds : JobStep(j) \/ JobRaises(j)
    \/ Restart

Spec == Init /\ [][Next]_vars

(* A queued task is run by the event loop and every external call returns  *)
(* or times out, so a job does not stay at one step forever.  Nothing      *)
(* obliges a salesperson to act.                                           *)
FairSpec == Spec /\ \A j \in JobIds : WF_vars(JobStep(j))

-----------------------------------------------------------------------------
(* Properties *)

(* Every variable has the shape its table or queue gives it. *)
TypeOK ==
    /\ proposal \in Proposal
    /\ jobs \in [JobIds -> Job]
    /\ artifact \in BOOLEAN
    /\ stored \in Texts \cup {NoDocument}
    /\ delivery \in [emails : Nat, sent : Nat, failed : Nat]
    /\ signoff \in Signoff \cup {NoSignoff}

(* No section is ever charged more successful regenerations than the cap,  *)
(* however many regenerations of it were accepted before the first one     *)
(* finished (the job checks the cap again when it loads the row).          *)
RegenerationCap ==
    \A s \in Sections : proposal.sections[s].regenerations <= MaxRegenerationAttempts

(* An owned proposal shows its owner's name, the label that keeps a second *)
(* salesperson from claiming it: account and name are two columns, written *)
(* together by every claim, release and transfer.                          *)
OwnerIsNamed == proposal.owner # NoAccount => proposal.name = proposal.owner

BusyStatus(kind) ==
    CASE kind = "generation" -> "GENERATING"
      [] kind = "document"   -> "DOCUMENT_GENERATING"
      [] kind = "delivery"   -> "DELIVERING"

(* A generation, document or delivery job works on a proposal that waits   *)
(* for it: the status is the job's own for as long as the job is           *)
(* outstanding, it has not moved since the job loaded it, and no second    *)
(* such job is outstanding.  This is what makes the job's blind commit of  *)
(* its outcome right.                                                      *)
StatusWaitsForJob ==
    \A j \in JobIds : jobs[j].kind \in {"generation", "document", "delivery"} =>
        /\ proposal.status = BusyStatus(jobs[j].kind)
        /\ jobs[j].phase # "queued" => jobs[j].snapshot.status = proposal.status
        /\ \A i \in JobIds \ {j} : jobs[i].kind \in {"none", "regeneration"}

(* An approval given while no regeneration was outstanding is sealed: as   *)
(* long as it stands, the sections hold the approved texts and are marked  *)
(* approved, and once the document is made, the link in the delivery email *)
(* opens those texts or nothing.                                           *)
QuietApprovalIsSealed ==
    signoff # NoSignoff /\ signoff.quiet =>
        /\ ContentOf(proposal) = signoff.texts
        /\ PendingSections(proposal) = {}
        /\ proposal.status \in DocumentStatuses => LinkOpens \in {signoff.texts, NoDocument}

(* Whenever the proposal can be, is being or has been delivered, the link  *)
(* opens a document and the proposal was approved; before that nobody can  *)
(* open one.                                                               *)
DocumentBehindDelivery ==
    /\ artifact <=> proposal.status \in DocumentStatuses
    /\ artifact => LinkOpens # NoDocument /\ signoff # NoSignoff

(* Every email the mail service accepted has its DeliveryRecord, except    *)
(* one whose record the delivery under way has still to write, or lost     *)
(* with its process; and a proposal is DELIVERED by exactly one SENT       *)
(* record.                                                                 *)
EmailsAreRecorded ==
    /\ delivery.emails <= delivery.sent + delivery.failed
                          + (IF proposal.status = "DELIVERING" THEN 1 ELSE 0)
    /\ delivery.sent = (IF proposal.status = "DELIVERED" THEN 1 ELSE 0)
    /\ delivery.sent <= delivery.emails

(* The status changes along the edges of the transition table only, or     *)
(* from IN_REVIEW straight to APPROVED when the whole proposal is approved *)
(* in one call.                                                            *)
StatusFollowsTable ==
    [][proposal'.status # proposal.status =>
          \/ <<proposal.status, proposal'.status>> \in AllowedTransitions
          \/ proposal.status = "IN_REVIEW" /\ proposal'.status = "APPROVED"]_vars

(* A step open to someone who does not own the proposal changes nothing of *)
(* an owned proposal, except that anyone may start a full generation.      *)
StrangersOnlyGenerate ==
    [][\A a \in Actors :
          proposal.owner \notin {NoAccount, a} /\ SalespersonStep(a) =>
              proposal' = Transitioned(proposal, "GENERATING")]_vars

(* Work in progress ends: the proposal does not wait for a job forever,    *)
(* and an accepted regeneration does not stay outstanding forever.         *)
GenerationResolves == proposal.status = "GENERATING" ~> proposal.status # "GENERATING"
DocumentResolves ==
    proposal.status = "DOCUMENT_GENERATING" ~> proposal.status # "DOCUMENT_GENERATING"
DeliveryResolves == proposal.status = "DELIVERING" ~> proposal.status # "DELIVERING"
RegenerationResolves ==
    \A j \in JobIds : jobs[j].kind = "regeneration" ~> jobs[j].kind # "regeneration"

-----------------------------------------------------------------------------
(* Refinement *)

Stage ==
    CASE proposal.status = "APPROVED" -> "approved"
      [] proposal.status \in {"DOCUMENT_GENERATING", "DOCUMENT_GENERATION_FAILED"} -> "rendering"
      [] proposal.status \in {"DOCUMENT_READY", "DELIVERING", "DELIVERY_FAILED"} -> "ready"
      [] proposal.status \in {"DELIVERED", "CLOSED"} -> "delivered"
      [] OTHER -> "review"

Promise == INSTANCE ProposalPromise WITH
    NoApproval <- NoSignoff, stage <- Stage, approval <- signoff,
    document <- stored, emails <- delivery.emails

(* Whatever requests, jobs, failures and restarts interleave, the client   *)
(* sees one story: the document is made of the approved texts (when no     *)
(* regeneration was outstanding at the approval), is complete before it    *)
(* can be sent, never changes after that, and has been emailed before the  *)
(* proposal counts as delivered.                                           *)
KeepsPromise == Promise!Spec

-----------------------------------------------------------------------------
(* What the documentation promises and the code does not keep: each of     *)
(* these is the subject of a run that exhibits a counterexample.           *)

Regenerates(s) ==
    proposal'.sections[s].regenerations > proposal.sections[s].regenerations

(* docs/system-flow.md:114 - a regeneration while the proposal is pending  *)
(* approval or later forces it back to review and resets the section's     *)
(* approval, rather than leaving a stale approval against changed content. *)
RegenerationReopens ==
    [][\A s \in Sections :
          Regenerates(s) /\ proposal.status \in SealedStatuses \cup {"PENDING_APPROVAL"} =>
             /\ proposal'.status = "IN_REVIEW"
             /\ proposal'.sections[s].approval = "PENDING"]_vars

=============================================================================
