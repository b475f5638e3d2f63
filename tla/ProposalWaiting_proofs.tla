----------------------- MODULE ProposalWaiting_proofs -----------------------
(***************************************************************************)
(* Theorems of ProposalWorkflow about the statuses in which a proposal     *)
(* waits for a job.  They are about clients that leave a proposal alone    *)
(* while it is being generated, as the web app's page does: the server     *)
(* would take request-changes then.                                        *)
(***************************************************************************)
EXTENDS ProposalWorkflow_proofs

ClientsWait == "GENERATING" \notin RequestChangesFrom

WaitInv == TypeInv /\ StatusWaitsForJob

WaitingKinds == {"generation", "document", "delivery"}

BusyStatuses == {"GENERATING", "DOCUMENT_GENERATING", "DELIVERING"}

-----------------------------------------------------------------------------
(* What a step does to the status *)

(* A request that edits, reviews or hands over the proposal, or asks for a *)
(* regeneration.                                                           *)
ReviewMoves == {
    <<"IN_REVIEW", "PENDING_APPROVAL">>, <<"IN_REVIEW", "APPROVED">>,
    <<"PENDING_APPROVAL", "APPROVED">>, <<"PENDING_APPROVAL", "IN_REVIEW">>,
    <<"APPROVED", "IN_REVIEW">>, <<"REJECTED", "IN_REVIEW">>}

Reviews ==
    /\ \/ proposal'.status = proposal.status
       \/ <<proposal.status, proposal'.status>> \in ReviewMoves
    /\ \/ KeepSignoff /\ (proposal'.status = "APPROVED" => proposal.status = "APPROVED")
       \/ signoff' \in Signoff /\ proposal'.status = "APPROVED" /\ proposal.status # "APPROVED"
    /\ jobs' = jobs \/ \E s \in Sections : Enqueue("regeneration", s)
    /\ UNCHANGED <<artifact, stored, delivery>>

(* A request after which the proposal waits for a job. *)
Starts(kind) ==
    /\ <<proposal.status, BusyStatus(kind)>> \in AllowedTransitions
    /\ proposal' = Transitioned(proposal, BusyStatus(kind))
    /\ KeepSignoff
    /\ Enqueue(kind, NoSection)
    /\ artifact' = (artifact /\ kind # "document")
    /\ UNCHANGED <<stored, delivery>>

LEMMA RuleStatuses ==
    ASSUME NEW p \in Proposal
    PROVE  /\ \A t : Transitioned(p, t).status = t
           /\ Reopened(p).status = IF p.status \in {"PENDING_APPROVAL", "APPROVED"}
                                   THEN "IN_REVIEW" ELSE p.status
           /\ \A s \in Sections, text \in Contents :
                 Edited(p, s, text).status = Reopened(p).status
           /\ \A s \in Sections : SectionApproved(p, s).status = p.status
           /\ WhollyApproved(p).status = "APPROVED"
           /\ \A a : Claimed(p, a).status = p.status /\ Transferred(p, a).status = p.status
           /\ Unclaimed(p).status = p.status
           /\ \A s \in Sections : \A text : Regenerated(p, s, text).status = p.status
           /\ \A texts : Generated(p, texts).status = "IN_REVIEW"
<1>1. \A t : Transitioned(p, t).status = t
  BY DEF Transitioned, Proposal
<1>2. Reopened(p).status = IF p.status \in {"PENDING_APPROVAL", "APPROVED"}
                           THEN "IN_REVIEW" ELSE p.status
  BY DEF Reopened, RegenerationInvalidatesApproval, Transitioned, Proposal
<1>3. ASSUME NEW s \in Sections, NEW text \in Contents
      PROVE  Edited(p, s, text).status = Reopened(p).status
  <2> DEFINE q == [p EXCEPT !.sections[s].content = text, !.sections[s].approval = "PENDING"]
  <2>1. q.status = p.status /\ [q EXCEPT !.status = "IN_REVIEW"].status = "IN_REVIEW"
    BY DEF Proposal
  <2>2. QED
    BY <2>1 DEF Edited, Reopened, RegenerationInvalidatesApproval, Transitioned, Proposal
<1>4. /\ \A s \in Sections : SectionApproved(p, s).status = p.status
      /\ WhollyApproved(p).status = "APPROVED"
  BY DEF SectionApproved, WhollyApproved, AllSectionsApproved, Transitioned, Proposal
<1>5. /\ \A a : Claimed(p, a).status = p.status /\ Transferred(p, a).status = p.status
      /\ Unclaimed(p).status = p.status
  BY DEF Claimed, Transferred, Unclaimed, Proposal
<1>6. /\ \A s \in Sections : \A text : Regenerated(p, s, text).status = p.status
      /\ \A texts : Generated(p, texts).status = "IN_REVIEW"
  BY DEF Regenerated, Generated, Proposal
<1>7. QED
  BY <1>1, <1>2, <1>3, <1>4, <1>5, <1>6

(* Changes are not requested of a proposal that is being generated. *)
Considerate(a) == RequestChanges(a) => proposal.status # "GENERATING"

LEMMA ClientsAreConsiderate == ClientsWait => \A a : Considerate(a)
BY DEF ClientsWait, Considerate, RequestChanges

LEMMA RequestEffect ==
    ASSUME TypeOK, NEW a \in Actors, SalespersonStep(a), Considerate(a)
    PROVE  Reviews \/ \E kind \in WaitingKinds : Starts(kind)
<1>0. proposal \in Proposal /\ artifact \in BOOLEAN
  BY DEF TypeOK
<1>1. ASSUME NEW s \in Sections, NEW text \in Contents, UpdateSection(a, s, text)
      PROVE  Reviews
  BY <1>0, <1>1, RuleStatuses
     DEF UpdateSection, EditAllowed, EditableSectionStatuses, RowOnly, Reviews, ReviewMoves
<1>2. ASSUME NEW s \in Sections, ApproveSection(a, s) PROVE Reviews
  BY <1>0, <1>2, RuleStatuses DEF ApproveSection, RowOnly, Reviews
<1>3. ASSUME NEW s \in Sections, StartRegeneration(a, s) PROVE Reviews
  BY <1>0, <1>3, RuleStatuses DEF StartRegeneration, Reviews, ReviewMoves
<1>4. CASE SubmitForApproval(a)
  BY <1>0, <1>4, RuleStatuses
     DEF SubmitForApproval, SubmitAllowed, CanTransition, AllowedTransitions, RowOnly,
         Reviews, ReviewMoves
<1>5. CASE ApproveProposal(a)
  <2>1. signoff' \in Signoff
    BY <1>0, <1>5, ContentOfType DEF ApproveProposal, Signoff, RegenerationOutstanding
  <2>2. proposal'.status = "APPROVED" /\ proposal.status \in {"IN_REVIEW", "PENDING_APPROVAL"}
    BY <1>0, <1>5, RuleStatuses DEF ApproveProposal, ApproveAllAllowed
  <2>3. QED
    BY <1>5, <2>1, <2>2 DEF ApproveProposal, Reviews, ReviewMoves
<1>6. CASE RequestChanges(a)
  BY <1>0, <1>6, RuleStatuses
     DEF RequestChanges, RequestChangesAllowed, CanTransition, AllowedTransitions, RowOnly,
         Reviews, ReviewMoves, Considerate
<1>7. CASE Reject(a)
  BY <1>0, <1>7, RuleStatuses
     DEF Reject, RejectAllowed, CanTransition, AllowedTransitions, RowOnly, Reviews, ReviewMoves
<1>8. CASE Claim(a) \/ Unclaim(a) \/ \E b \in Accounts : Transfer(a, b)
  BY <1>0, <1>8, RuleStatuses DEF Claim, Unclaim, Transfer, RowOnly, Reviews
<1>9. CASE StartGeneration(a)
  BY <1>0, <1>9
     DEF StartGeneration, StartGenerationAllowed, CanTransition, Starts, BusyStatus, WaitingKinds
<1>10. CASE StartDocument(a)
  BY <1>0, <1>10
     DEF StartDocument, StartDocumentAllowed, CanTransition, Starts, BusyStatus, WaitingKinds
<1>11. CASE StartDelivery(a)
  BY <1>0, <1>11
     DEF StartDelivery, StartDeliveryAllowed, CanTransition, Starts, BusyStatus, WaitingKinds
<1>12. QED
  BY <1>1, <1>2, <1>3, <1>4, <1>5, <1>6, <1>7, <1>8, <1>9, <1>10, <1>11 DEF SalespersonStep

-----------------------------------------------------------------------------
(* What a job does to a proposal that waits for it *)

(* Nothing has happened to the status since the job loaded it, so that the *)
(* job's blind commit is the transition it intends.                        *)
LEMMA CommitIsTransition ==
    ASSUME NEW p \in Proposal, NEW q \in Proposal, NEW t, p.status = q.status
    PROVE  Committed(p, q, Transitioned(q, t)) = Transitioned(p, t)
<1>1. Transitioned(q, t) = [q EXCEPT !.status = t] /\ Transitioned(p, t) = [p EXCEPT !.status = t]
  BY DEF Transitioned
<1>2. \A s \in Sections :
         p.sections[s] = [content       |-> p.sections[s].content,
                          approval      |-> p.sections[s].approval,
                          regenerations |-> p.sections[s].regenerations]
  BY DEF Proposal, Section
<1>3. Committed(p, q, Transitioned(q, t)).sections = p.sections
  BY <1>1, <1>2 DEF Committed, Column, Proposal
<1>4. Committed(p, q, Transitioned(q, t)) =
         [status |-> t, owner |-> p.owner, name |-> p.name, sections |-> p.sections]
  BY <1>1, <1>3 DEF Committed, Column, Proposal
<1>5. QED
  BY <1>1, <1>4 DEF Proposal

LEMMA CommitStatus ==
    ASSUME NEW p \in Proposal, NEW q \in Proposal, NEW r \in Proposal
    PROVE  /\ p.status = q.status => Committed(p, q, r).status = r.status
           /\ q.status = r.status => Committed(p, q, r).status = p.status
BY DEF Committed, Column

(* The row a job for which the proposal waits has loaded. *)
LEMMA WaitedForSnapshot ==
    ASSUME WaitInv, NEW j \in JobIds, jobs[j].kind \in WaitingKinds,
           jobs[j].phase \in {"running", "uploaded", "sent"}
    PROVE  /\ jobs[j].snapshot \in Proposal
           /\ jobs[j].snapshot.status = proposal.status
           /\ proposal.status = BusyStatus(jobs[j].kind)
BY DEF WaitInv, TypeInv, JobShape, StatusWaitsForJob, WaitingKinds

(* The job commits a transition of the row it loaded. *)
LEMMA CommitsTransition ==
    ASSUME WaitInv, NEW j \in JobIds, jobs[j].kind \in WaitingKinds,
           jobs[j].phase \in {"running", "uploaded", "sent"},
           NEW t, CommitJob(j, Transitioned(jobs[j].snapshot, t))
    PROVE  proposal' = Transitioned(proposal, t) /\ KeepSignoff
BY WaitedForSnapshot, CommitIsTransition DEF CommitJob, WaitInv, TypeInv, TypeOK

LEMMA Edges ==
    /\ <<"GENERATING", "IN_REVIEW">> \in AllowedTransitions
    /\ <<"GENERATING", "GENERATION_FAILED">> \in AllowedTransitions
    /\ <<"DOCUMENT_GENERATING", "DOCUMENT_READY">> \in AllowedTransitions
    /\ <<"DOCUMENT_GENERATING", "DOCUMENT_GENERATION_FAILED">> \in AllowedTransitions
    /\ <<"DELIVERING", "DELIVERED">> \in AllowedTransitions
    /\ <<"DELIVERING", "DELIVERY_FAILED">> \in AllowedTransitions
BY DEF AllowedTransitions

LEMMA BusyStatusOf ==
    /\ BusyStatus("generation") = "GENERATING"
    /\ BusyStatus("document") = "DOCUMENT_GENERATING"
    /\ BusyStatus("delivery") = "DELIVERING"
BY DEF BusyStatus

(* How a job moves the proposal. *)
Resolves(from, to) ==
    proposal.status = from /\ proposal' = Transitioned(proposal, to) /\ KeepSignoff

LEMMA GenerationEffect ==
    ASSUME WaitInv, NEW j \in JobIds
    PROVE  /\ GenerationSucceeds(j) =>
                 /\ proposal.status = "GENERATING" /\ proposal'.status = "IN_REVIEW"
                 /\ KeepSignoff
           /\ GenerationFails(j) => Resolves("GENERATING", "GENERATION_FAILED")
           /\ JobRaises(j) => \/ Resolves("GENERATING", "GENERATION_FAILED")
                              \/ jobs[j].kind # "generation" /\ UNCHANGED <<proposal, signoff>>
<1>0. proposal \in Proposal
  BY DEF WaitInv, TypeInv, TypeOK
<1>1. ASSUME GenerationSucceeds(j)
      PROVE  /\ proposal.status = "GENERATING" /\ proposal'.status = "IN_REVIEW"
             /\ KeepSignoff
  <2>1. /\ jobs[j].snapshot \in Proposal
        /\ proposal.status = "GENERATING" /\ jobs[j].snapshot.status = "GENERATING"
    BY <1>1, WaitedForSnapshot, BusyStatusOf DEF GenerationSucceeds, At, WaitingKinds
  <2>2. CanTransition(jobs[j].snapshot, "IN_REVIEW")
    BY <2>1, Edges DEF CanTransition
  <2>3. PICK texts \in Texts : CommitJob(j, Generated(jobs[j].snapshot, texts))
    BY <1>1, <2>2 DEF GenerationSucceeds
  <2>4. Generated(jobs[j].snapshot, texts) \in Proposal
    BY <2>1, GeneratedType
  <2>5. Generated(jobs[j].snapshot, texts).status = "IN_REVIEW"
    BY <2>1, RuleStatuses
  <2>6. Committed(proposal, jobs[j].snapshot, Generated(jobs[j].snapshot, texts)).status = "IN_REVIEW"
    BY <1>0, <2>1, <2>4, <2>5, CommitStatus
  <2>7. QED
    BY <2>1, <2>3, <2>6 DEF CommitJob
<1>2. ASSUME GenerationFails(j) PROVE Resolves("GENERATING", "GENERATION_FAILED")
  <2>1. proposal.status = "GENERATING" /\ jobs[j].snapshot.status = "GENERATING"
    BY <1>2, WaitedForSnapshot, BusyStatusOf DEF GenerationFails, At, WaitingKinds
  <2>2. QED
    BY <1>2, <2>1, Edges, CommitsTransition
       DEF GenerationFails, CanTransition, At, WaitingKinds, Resolves
<1>3. ASSUME JobRaises(j)
      PROVE  \/ Resolves("GENERATING", "GENERATION_FAILED")
             \/ jobs[j].kind # "generation" /\ UNCHANGED <<proposal, signoff>>
  <2>1. jobs[j].kind = "generation" => proposal.status = "GENERATING"
    BY <1>3, WaitedForSnapshot, BusyStatusOf DEF JobRaises, WaitingKinds
  <2>2. QED
    BY <1>3, <2>1 DEF JobRaises, AbandonGeneration, Resolves
<1>4. QED
  BY <1>1, <1>2, <1>3

LEMMA RegenerationEffect ==
    ASSUME WaitInv, NEW j \in JobIds, RegenerationSucceeds(j)
    PROVE  proposal'.status = proposal.status /\ KeepSignoff
<1>0. proposal \in Proposal
  BY DEF WaitInv, TypeInv, TypeOK
<1>1. jobs[j].snapshot \in Proposal /\ jobs[j].section \in Sections
  BY DEF RegenerationSucceeds, At, WaitInv, TypeInv, JobShape
<1>2. QED
  BY <1>0, <1>1, RegeneratedType, RuleStatuses, CommitStatus DEF RegenerationSucceeds, CommitJob

LEMMA DocumentEffect ==
    ASSUME WaitInv, NEW j \in JobIds
    PROVE  /\ DocumentReady(j) /\ ~artifact =>
                 Resolves("DOCUMENT_GENERATING", "DOCUMENT_READY") /\ artifact' = TRUE
           /\ DocumentReady(j) /\ artifact => UNCHANGED <<proposal, artifact, signoff>>
           /\ DocumentFails(j) => Resolves("DOCUMENT_GENERATING", "DOCUMENT_GENERATION_FAILED")
<1>1. ASSUME At(j, "document", "uploaded") \/ At(j, "document", "running")
      PROVE  /\ proposal.status = "DOCUMENT_GENERATING"
             /\ jobs[j].snapshot.status = "DOCUMENT_GENERATING"
  BY <1>1, WaitedForSnapshot, BusyStatusOf DEF At, WaitingKinds
<1>2. ASSUME DocumentReady(j)
      PROVE  IF artifact THEN UNCHANGED <<proposal, artifact, signoff>>
             ELSE Resolves("DOCUMENT_GENERATING", "DOCUMENT_READY") /\ artifact' = TRUE
  BY <1>1, <1>2, Edges, CommitsTransition
     DEF DocumentReady, CanTransition, At, WaitingKinds, Resolves
<1>3. ASSUME DocumentFails(j)
      PROVE  Resolves("DOCUMENT_GENERATING", "DOCUMENT_GENERATION_FAILED")
  BY <1>1, <1>3, Edges, CommitsTransition
     DEF DocumentFails, CanTransition, At, WaitingKinds, Resolves
<1>4. QED
  BY <1>2, <1>3

LEMMA DeliveryEffect ==
    ASSUME WaitInv, NEW j \in JobIds
    PROVE  /\ LoadDelivery(j) /\ ~artifact => Resolves("DELIVERING", "DELIVERY_FAILED")
           /\ RecordDelivery(j) => /\ Resolves("DELIVERING", "DELIVERED")
                                   /\ delivery' = [delivery EXCEPT !.sent = @ + 1]
           /\ SendFails(j) =>
                 /\ Resolves("DELIVERING", "DELIVERY_FAILED")
                 /\ \E accepted \in SentByFailedSend :
                       delivery' = [delivery EXCEPT !.emails = @ + accepted, !.failed = @ + 1]
<1>1. ASSUME At(j, "delivery", "sent") \/ At(j, "delivery", "running")
      PROVE  proposal.status = "DELIVERING" /\ jobs[j].snapshot.status = "DELIVERING"
  BY <1>1, WaitedForSnapshot, BusyStatusOf DEF At, WaitingKinds
<1>2. LoadDelivery(j) => proposal.status = "DELIVERING"
  BY BusyStatusOf DEF LoadDelivery, At, WaitInv, StatusWaitsForJob
<1>3. LoadDelivery(j) /\ ~artifact => Resolves("DELIVERING", "DELIVERY_FAILED")
  BY <1>2, Edges DEF LoadDelivery, CanTransition, Resolves
<1>4. RecordDelivery(j) => /\ Resolves("DELIVERING", "DELIVERED")
                           /\ delivery' = [delivery EXCEPT !.sent = @ + 1]
  BY <1>1, Edges, CommitsTransition
     DEF RecordDelivery, CanTransition, At, WaitingKinds, Resolves
<1>5. SendFails(j) =>
         /\ Resolves("DELIVERING", "DELIVERY_FAILED")
         /\ \E accepted \in SentByFailedSend :
               delivery' = [delivery EXCEPT !.emails = @ + accepted, !.failed = @ + 1]
  BY <1>1, Edges, CommitsTransition
     DEF SendFails, CanTransition, At, WaitingKinds, Resolves
<1>6. QED
  BY <1>3, <1>4, <1>5

-----------------------------------------------------------------------------
(* The status waits for its job *)

(* No job is outstanding for which a proposal would wait. *)
NoneWaitedFor == \A j \in JobIds : jobs[j].kind \notin WaitingKinds

LEMMA IdleStatus ==
    ASSUME StatusWaitsForJob, proposal.status \notin BusyStatuses
    PROVE  NoneWaitedFor
BY BusyStatusOf DEF StatusWaitsForJob, NoneWaitedFor, WaitingKinds, BusyStatuses

LEMMA EndedKeepsWait ==
    ASSUME WaitInv, NEW j \in JobIds, Ended(j),
           jobs[j].kind \in WaitingKinds \/ proposal'.status = proposal.status
    PROVE  StatusWaitsForJob'
BY DEF WaitInv, TypeInv, TypeOK, StatusWaitsForJob, WaitingKinds, Ended, Idle, Job

LEMMA AdvanceKeepsWait ==
    ASSUME WaitInv, NEW j \in JobIds, NEW job \in Job, jobs' = [jobs EXCEPT ![j] = job],
           job.kind = jobs[j].kind, UNCHANGED proposal,
           job.kind \in WaitingKinds /\ job.phase # "queued" => job.snapshot.status = proposal.status
    PROVE  StatusWaitsForJob'
BY DEF WaitInv, TypeInv, TypeOK, StatusWaitsForJob, WaitingKinds

LEMMA ReviewsKeepWait ==
    ASSUME WaitInv, Reviews
    PROVE  StatusWaitsForJob'
<1>0. jobs \in [JobIds -> Job]
  BY DEF WaitInv, TypeInv, TypeOK
<1>1. CASE proposal'.status = proposal.status
  BY <1>0, <1>1 DEF WaitInv, StatusWaitsForJob, Reviews, Enqueue, Idle
<1>2. CASE proposal'.status # proposal.status
  <2>1. proposal.status \notin BusyStatuses
    BY <1>2 DEF Reviews, ReviewMoves, BusyStatuses
  <2>2. NoneWaitedFor
    BY <2>1, IdleStatus DEF WaitInv
  <2>3. NoneWaitedFor'
    BY <1>0, <2>2 DEF NoneWaitedFor, Reviews, Enqueue, WaitingKinds
  <2>4. QED
    BY <2>3 DEF NoneWaitedFor, StatusWaitsForJob, WaitingKinds
<1>3. QED
  BY <1>1, <1>2

LEMMA StartsKeepWait ==
    ASSUME WaitInv, NEW kind \in WaitingKinds, Starts(kind)
    PROVE  StatusWaitsForJob'
<1>0. jobs \in [JobIds -> Job] /\ proposal \in Proposal
  BY DEF WaitInv, TypeInv, TypeOK
<1>1. proposal.status \notin BusyStatuses
  BY BusyStatusOf DEF Starts, WaitingKinds, AllowedTransitions, BusyStatuses
<1>2. NoneWaitedFor
  BY <1>1, IdleStatus DEF WaitInv
<1>3. proposal'.status = BusyStatus(kind)
  BY <1>0, RuleStatuses DEF Starts
<1>4. PICK j \in JobIds : jobs' = [jobs EXCEPT ![j] =
         [kind |-> kind, section |-> NoSection, phase |-> "queued", snapshot |-> NoSnapshot]]
  BY DEF Starts, Enqueue
<1>5. jobs'[j].kind = kind /\ jobs'[j].phase = "queued"
  BY <1>0, <1>4
<1>6. \A i \in JobIds \ {j} : jobs'[i].kind \in {"none", "regeneration"}
  BY <1>0, <1>2, <1>4 DEF NoneWaitedFor, WaitingKinds, Job
<1>7. QED
  BY <1>3, <1>5, <1>6 DEF StatusWaitsForJob

LEMMA JobStepKeepsWait ==
    ASSUME WaitInv, NEW j \in JobIds, JobStep(j) \/ JobRaises(j)
    PROVE  StatusWaitsForJob'
<1>0. jobs \in [JobIds -> Job] /\ proposal \in Proposal
  BY DEF WaitInv, TypeInv, TypeOK
<1>1. CASE Load(j) \/ LoadDelivery(j)
  <2> DEFINE job == [jobs[j] EXCEPT !.phase = "running", !.snapshot = proposal]
  <2>1. CASE jobs' = [jobs EXCEPT ![j].phase = "running", ![j].snapshot = proposal]
    <3>1. UNCHANGED proposal
      BY <1>0, <1>1, <2>1 DEF Load, LoadDelivery, Ended, Idle, Job
    <3>2. job \in Job /\ job.kind = jobs[j].kind /\ job.snapshot.status = proposal.status
      BY <1>0 DEF Job
    <3>3. jobs' = [jobs EXCEPT ![j] = job]
      BY <1>0, <2>1 DEF Job
    <3>4. QED
      BY <3>1, <3>2, <3>3, AdvanceKeepsWait
  <2>2. CASE Ended(j)
    BY <1>1, <2>2, EndedKeepsWait DEF Load, LoadDelivery, At, WaitingKinds
  <2>3. QED
    BY <1>1, <2>1, <2>2 DEF Load, LoadDelivery
<1>2. CASE UploadDocument(j) \/ SendEmail(j)
  <2>1. PICK phase \in {"uploaded", "sent"} : jobs' = [jobs EXCEPT ![j].phase = phase]
    BY <1>2 DEF UploadDocument, SendEmail
  <2> DEFINE job == [jobs[j] EXCEPT !.phase = phase]
  <2>2. job \in Job /\ job.kind = jobs[j].kind /\ job.snapshot = jobs[j].snapshot
    BY <1>0 DEF Job
  <2>3. jobs' = [jobs EXCEPT ![j] = job]
    BY <1>0, <2>1
  <2>4. jobs[j].snapshot.status = proposal.status /\ UNCHANGED proposal
    BY <1>2, WaitedForSnapshot DEF UploadDocument, SendEmail, At, WaitingKinds
  <2>5. QED
    BY <2>2, <2>3, <2>4, AdvanceKeepsWait
<1>3. CASE \/ GenerationSucceeds(j) \/ GenerationFails(j) \/ DocumentReady(j)
           \/ DocumentFails(j) \/ RecordDelivery(j) \/ SendFails(j)
  BY <1>3, EndedKeepsWait
     DEF GenerationSucceeds, GenerationFails, DocumentReady, DocumentFails, RecordDelivery,
         SendFails, At, WaitingKinds
<1>4. CASE RegenerationSucceeds(j) \/ RegenerationFails(j)
  BY <1>4, RegenerationEffect, EndedKeepsWait DEF RegenerationSucceeds, RegenerationFails
<1>5. CASE JobRaises(j)
  BY <1>5, EndedKeepsWait DEF JobRaises, WaitingKinds
<1>6. QED
  BY <1>1, <1>2, <1>3, <1>4, <1>5 DEF JobStep

LEMMA WaitInvInit == Init => WaitInv
BY InitTypeInv DEF WaitInv, Init, Idle, StatusWaitsForJob

LEMMA RequestsKeepWait ==
    ASSUME WaitInv, NEW a \in Actors, SalespersonStep(a), Considerate(a)
    PROVE  StatusWaitsForJob'
BY RequestEffect, ReviewsKeepWait, StartsKeepWait DEF WaitInv, TypeInv

LEMMA WaitInvKept == ClientsWait /\ WaitInv /\ [Next]_vars => WaitInv'
<1> SUFFICES ASSUME ClientsWait, WaitInv, [Next]_vars PROVE WaitInv'
  OBVIOUS
<1>0. TypeInv'
  BY TypeInvKept DEF WaitInv
<1>1. ASSUME NEW a \in Actors, SalespersonStep(a) PROVE StatusWaitsForJob'
  BY <1>1, ClientsAreConsiderate, RequestsKeepWait
<1>2. ASSUME NEW j \in JobIds, JobStep(j) \/ JobRaises(j) PROVE StatusWaitsForJob'
  BY <1>2, JobStepKeepsWait
<1>3. CASE Restart
  BY <1>0, <1>3 DEF Restart, Idle, StatusWaitsForJob, WaitInv
<1>4. CASE UNCHANGED vars
  BY <1>0, <1>4 DEF vars, WaitInv, StatusWaitsForJob
<1>5. QED
  BY <1>0, <1>1, <1>2, <1>3, <1>4 DEF Next, WaitInv

LEMMA AlwaysWaitInv == ASSUME ClientsWait PROVE Spec => []WaitInv
BY WaitInvInit, WaitInvKept, PTL DEF Spec

(* Whatever requests, jobs and faults interleave, a generation, document   *)
(* or delivery job works on a proposal that waits for it, alone, and that  *)
(* has not moved since the job loaded it: the job's blind commit does not  *)
(* undo anybody's decision.                                                *)
THEOREM ProposalWaitsForJob == ASSUME ClientsWait PROVE Spec => []StatusWaitsForJob
<1>1. WaitInv => StatusWaitsForJob
  BY DEF WaitInv
<1>2. QED
  BY <1>1, AlwaysWaitInv, PTL

(* The status takes the edges of the table only, or the shortcut of        *)
(* approving the whole proposal: no commit of a job moves a proposal from  *)
(* a status its job did not see.                                           *)
THEOREM TransitionTableHolds == ASSUME ClientsWait PROVE Spec => StatusFollowsTable
<1> DEFINE Follows == proposal'.status # proposal.status =>
       \/ <<proposal.status, proposal'.status>> \in AllowedTransitions
       \/ proposal.status = "IN_REVIEW" /\ proposal'.status = "APPROVED"
<1>1. ASSUME WaitInv, Next PROVE Follows
  <2>0. TypeOK /\ proposal \in Proposal
    BY <1>1 DEF WaitInv, TypeInv, TypeOK
  <2>1. Reviews => Follows
    BY DEF Reviews, ReviewMoves, AllowedTransitions
  <2>2. ASSUME NEW kind \in WaitingKinds, Starts(kind) PROVE Follows
    BY <2>0, <2>2, RuleStatuses DEF Starts
  <2>3. ASSUME NEW from, NEW to, Resolves(from, to) PROVE proposal.status = from /\ proposal'.status = to
    BY <2>0, <2>3, RuleStatuses DEF Resolves
  <2>4. ASSUME NEW j \in JobIds, JobStep(j) \/ JobRaises(j) PROVE Follows
    <3>1. CASE Load(j) \/ RegenerationFails(j) \/ UploadDocument(j) \/ SendEmail(j)
      BY <3>1 DEF Load, RegenerationFails, UploadDocument, SendEmail
    <3>2. CASE LoadDelivery(j)
      BY <1>1, <2>3, <3>2, DeliveryEffect, Edges DEF LoadDelivery
    <3>3. CASE GenerationSucceeds(j) \/ GenerationFails(j) \/ JobRaises(j)
      BY <1>1, <2>3, <3>3, GenerationEffect, Edges
    <3>4. CASE RegenerationSucceeds(j)
      BY <1>1, <3>4, RegenerationEffect
    <3>5. CASE DocumentReady(j) \/ DocumentFails(j)
      BY <1>1, <2>0, <2>3, <3>5, DocumentEffect, Edges
    <3>6. CASE RecordDelivery(j) \/ SendFails(j)
      BY <1>1, <2>3, <3>6, DeliveryEffect, Edges
    <3>7. QED
      BY <2>4, <3>1, <3>2, <3>3, <3>4, <3>5, <3>6 DEF JobStep
  <2>5. Restart => Follows
    BY DEF Restart
  <2>6. QED
    BY <1>1, <2>0, <2>1, <2>2, <2>4, <2>5, ClientsAreConsiderate, RequestEffect DEF Next
<1>2. WaitInv /\ [Next]_vars => [Follows]_vars
  BY <1>1
<1>3. QED
  BY <1>2, AlwaysWaitInv, PTL DEF Spec, StatusFollowsTable

-----------------------------------------------------------------------------
(* The document behind a delivery *)

(* An approval stands exactly while the proposal is sealed, and a document *)
(* job that has uploaded has left a document.                              *)
ApprovalStands == proposal.status \in SealedStatuses <=> signoff # NoSignoff

UploadedIsStored == \A j \in JobIds : At(j, "document", "uploaded") => stored # NoDocument

DocumentInv == WaitInv /\ DocumentBehindDelivery /\ ApprovalStands /\ UploadedIsStored

(* A status that stays, or goes along one of these, keeps the approval.    *)
LEMMA KeepSignoffStands ==
    ASSUME ApprovalStands, KeepSignoff,
           proposal'.status \in SealedStatuses => proposal.status \in SealedStatuses
    PROVE  ApprovalStands'
BY DEF ApprovalStands, KeepSignoff

(* The jobs and the storage of a step that uploads nothing. *)
LEMMA NothingUploaded ==
    ASSUME UploadedIsStored, stored # NoDocument => stored' # NoDocument,
           \A j \in JobIds : At(j, "document", "uploaded")' => At(j, "document", "uploaded")
    PROVE  UploadedIsStored'
BY DEF UploadedIsStored

LEMMA EndedUploadsNothing ==
    ASSUME TypeOK, NEW j \in JobIds, Ended(j)
    PROVE  \A i \in JobIds : At(i, "document", "uploaded")' => At(i, "document", "uploaded")
BY DEF TypeOK, Ended, Idle, At

LEMMA EnqueueUploadsNothing ==
    ASSUME TypeOK, NEW kind, NEW s, Enqueue(kind, s)
    PROVE  \A i \in JobIds : At(i, "document", "uploaded")' => At(i, "document", "uploaded")
BY DEF TypeOK, Enqueue, At

(* PDFs are texts, which are not NoDocument. *)
LEMMA RenderedIsDocument ==
    ASSUME TypeInv, NEW j \in JobIds, jobs[j].phase \in {"running", "uploaded", "sent"}
    PROVE  Rendered(jobs[j].snapshot) # NoDocument
BY ContentOfType, EnvironmentAssumption DEF TypeInv, JobShape, Rendered, Texts

LEMMA ReviewsKeepDocument ==
    ASSUME DocumentInv, Reviews
    PROVE  DocumentBehindDelivery' /\ ApprovalStands' /\ UploadedIsStored'
<1>0. TypeOK
  BY DEF DocumentInv, WaitInv, TypeInv
<1>1. ApprovalStands'
  BY SignoffAssumption, KeepSignoffStands
     DEF DocumentInv, Reviews, ReviewMoves, SealedStatuses, ApprovalStands
<1>2. UploadedIsStored'
  BY <1>0, NothingUploaded, EnqueueUploadsNothing DEF DocumentInv, Reviews, At
<1>3. proposal'.status \in DocumentStatuses <=> proposal.status \in DocumentStatuses
  BY DEF Reviews, ReviewMoves, DocumentStatuses
<1>4. proposal'.status \in DocumentStatuses => proposal'.status \in SealedStatuses
  BY DEF SealedStatuses, DocumentStatuses
<1>5. QED
  BY <1>1, <1>2, <1>3, <1>4
     DEF DocumentInv, Reviews, DocumentBehindDelivery, LinkOpens, ApprovalStands

LEMMA StartsKeepDocument ==
    ASSUME DocumentInv, NEW kind \in WaitingKinds, Starts(kind)
    PROVE  DocumentBehindDelivery' /\ ApprovalStands' /\ UploadedIsStored'
<1>0. TypeOK /\ proposal \in Proposal /\ artifact \in BOOLEAN
  BY DEF DocumentInv, WaitInv, TypeInv, TypeOK
<1>1. proposal'.status = BusyStatus(kind)
  BY <1>0, RuleStatuses DEF Starts
<1>2. \/ kind = "generation" /\ proposal.status \in {"DRAFT", "GENERATION_FAILED", "IN_REVIEW"}
      \/ kind = "document" /\ proposal.status \in {"APPROVED", "DOCUMENT_GENERATION_FAILED"}
      \/ kind = "delivery" /\ proposal.status \in {"DOCUMENT_READY", "DELIVERY_FAILED"}
  BY BusyStatusOf DEF Starts, AllowedTransitions, WaitingKinds
<1>3. ApprovalStands'
  BY <1>1, <1>2, BusyStatusOf, KeepSignoffStands DEF DocumentInv, Starts, SealedStatuses
<1>4. UploadedIsStored'
  BY <1>0, NothingUploaded, EnqueueUploadsNothing DEF DocumentInv, Starts
<1>5. artifact' <=> proposal'.status \in DocumentStatuses
  BY <1>0, <1>1, <1>2, BusyStatusOf DEF DocumentInv, DocumentBehindDelivery, Starts, DocumentStatuses
<1>6. QED
  BY <1>0, <1>3, <1>4, <1>5
     DEF DocumentInv, Starts, DocumentBehindDelivery, LinkOpens, ApprovalStands,
         DocumentStatuses, SealedStatuses

(* Where a waiting proposal may go. *)
Outcomes == {
    <<"GENERATING", "GENERATION_FAILED">>,
    <<"DOCUMENT_GENERATING", "DOCUMENT_GENERATION_FAILED">>,
    <<"DELIVERING", "DELIVERED">>, <<"DELIVERING", "DELIVERY_FAILED">>}

LEMMA ResolvesKeepsDocument ==
    ASSUME DocumentInv, NEW from, NEW to, <<from, to>> \in Outcomes, Resolves(from, to),
           UNCHANGED artifact, stored # NoDocument => stored' # NoDocument
    PROVE  DocumentBehindDelivery' /\ ApprovalStands'
<1>0. proposal \in Proposal
  BY DEF DocumentInv, WaitInv, TypeInv, TypeOK
<1>1. proposal.status = from /\ proposal'.status = to
  BY <1>0, RuleStatuses DEF Resolves
<1>2. ApprovalStands'
  BY <1>1, KeepSignoffStands DEF DocumentInv, Resolves, Outcomes, SealedStatuses
<1>3. proposal'.status \in DocumentStatuses <=> proposal.status \in DocumentStatuses
  BY <1>1 DEF Outcomes, DocumentStatuses
<1>4. proposal'.status \in DocumentStatuses => proposal'.status \in SealedStatuses
  BY DEF SealedStatuses, DocumentStatuses
<1>5. QED
  BY <1>2, <1>3, <1>4
     DEF DocumentInv, DocumentBehindDelivery, LinkOpens, ApprovalStands

LEMMA JobStepKeepsDocument ==
    ASSUME DocumentInv, NEW j \in JobIds, JobStep(j) \/ JobRaises(j)
    PROVE  DocumentBehindDelivery' /\ ApprovalStands' /\ UploadedIsStored'
<1>0. /\ WaitInv /\ TypeInv /\ TypeOK /\ ApprovalStands /\ UploadedIsStored
      /\ proposal \in Proposal /\ artifact \in BOOLEAN
  BY DEF DocumentInv, WaitInv, TypeInv, TypeOK
<1>1. ASSUME UNCHANGED <<proposal, signoff, artifact>>, stored # NoDocument => stored' # NoDocument
      PROVE  DocumentBehindDelivery' /\ ApprovalStands'
  BY <1>1 DEF DocumentInv, DocumentBehindDelivery, LinkOpens, ApprovalStands
<1>2. ASSUME Ended(j), stored # NoDocument => stored' # NoDocument PROVE UploadedIsStored'
  BY <1>0, <1>2, EndedUploadsNothing, NothingUploaded
<1>3. CASE Load(j) \/ (LoadDelivery(j) /\ artifact) \/ SendEmail(j)
  <2>1. \A i \in JobIds : At(i, "document", "uploaded")' => At(i, "document", "uploaded")
    BY <1>0, <1>3, EndedUploadsNothing DEF Load, LoadDelivery, SendEmail, At, TypeOK, Job
  <2>2. QED
    BY <1>0, <1>1, <1>3, <2>1, NothingUploaded DEF Load, LoadDelivery, SendEmail
<1>4. CASE LoadDelivery(j) /\ ~artifact
  <2>1. Resolves("DELIVERING", "DELIVERY_FAILED")
    BY <1>0, <1>4, DeliveryEffect
  <2>2. <<"DELIVERING", "DELIVERY_FAILED">> \in Outcomes
    BY DEF Outcomes
  <2>3. UNCHANGED <<artifact, stored>> /\ Ended(j)
    BY <1>4 DEF LoadDelivery
  <2>4. QED
    BY <1>2, <2>1, <2>2, <2>3, ResolvesKeepsDocument
<1>5. CASE GenerationSucceeds(j)
  <2>1. /\ proposal.status = "GENERATING" /\ proposal'.status = "IN_REVIEW" /\ KeepSignoff
        /\ UNCHANGED <<artifact, stored>> /\ Ended(j)
    BY <1>0, <1>5, GenerationEffect DEF GenerationSucceeds
  <2>2. ApprovalStands'
    BY <1>0, <2>1, KeepSignoffStands DEF SealedStatuses
  <2>3. QED
    BY <1>2, <2>1, <2>2 DEF DocumentInv, DocumentBehindDelivery, DocumentStatuses
<1>6. CASE GenerationFails(j) \/ JobRaises(j)
  BY <1>0, <1>1, <1>2, <1>6, GenerationEffect, ResolvesKeepsDocument
     DEF GenerationFails, JobRaises, Outcomes
<1>7. CASE RegenerationSucceeds(j)
  <2>1. /\ proposal'.status = proposal.status /\ KeepSignoff
        /\ UNCHANGED <<artifact, stored>> /\ Ended(j)
    BY <1>0, <1>7, RegenerationEffect DEF RegenerationSucceeds
  <2>2. ApprovalStands'
    BY <1>0, <2>1, KeepSignoffStands
  <2>3. proposal'.status \in DocumentStatuses => proposal'.status \in SealedStatuses
    BY DEF SealedStatuses, DocumentStatuses
  <2>4. QED
    BY <1>2, <2>1, <2>2, <2>3 DEF DocumentInv, DocumentBehindDelivery, LinkOpens, ApprovalStands
<1>8. CASE RegenerationFails(j)
  BY <1>1, <1>2, <1>8 DEF RegenerationFails
<1>9. CASE UploadDocument(j)
  <2>1. stored' # NoDocument /\ UNCHANGED <<proposal, signoff, artifact>>
    BY <1>0, <1>9, RenderedIsDocument DEF UploadDocument, At
  <2>2. QED
    BY <1>1, <2>1 DEF UploadedIsStored
<1>10. CASE DocumentReady(j)
  <2>1. stored # NoDocument /\ UNCHANGED stored /\ Ended(j)
    BY <1>0, <1>10 DEF DocumentReady, UploadedIsStored
  <2>2. CASE artifact
    BY <1>0, <1>1, <1>2, <1>10, <2>1, <2>2, DocumentEffect
  <2>3. CASE ~artifact
    <3>1. Resolves("DOCUMENT_GENERATING", "DOCUMENT_READY") /\ artifact' = TRUE
      BY <1>0, <1>10, <2>3, DocumentEffect
    <3>2. proposal'.status = "DOCUMENT_READY"
      BY <1>0, <3>1, RuleStatuses DEF Resolves
    <3>3. ApprovalStands'
      BY <1>0, <3>1, <3>2, KeepSignoffStands DEF Resolves, SealedStatuses
    <3>4. QED
      BY <1>2, <2>1, <3>1, <3>2, <3>3
         DEF DocumentBehindDelivery, LinkOpens, DocumentStatuses, SealedStatuses, ApprovalStands
  <2>4. QED
    BY <2>2, <2>3
<1>11. CASE DocumentFails(j)
  <2>1. stored # NoDocument => stored' # NoDocument
    BY <1>0, <1>11, RenderedIsDocument DEF DocumentFails, AfterFailedUpload, At
  <2>2. Resolves("DOCUMENT_GENERATING", "DOCUMENT_GENERATION_FAILED")
    BY <1>0, <1>11, DocumentEffect
  <2>3. <<"DOCUMENT_GENERATING", "DOCUMENT_GENERATION_FAILED">> \in Outcomes
    BY DEF Outcomes
  <2>4. UNCHANGED artifact /\ Ended(j)
    BY <1>11 DEF DocumentFails
  <2>5. QED
    BY <1>2, <2>1, <2>2, <2>3, <2>4, ResolvesKeepsDocument
<1>12. CASE RecordDelivery(j) \/ SendFails(j)
  <2>1. PICK to \in {"DELIVERED", "DELIVERY_FAILED"} : Resolves("DELIVERING", to)
    BY <1>0, <1>12, DeliveryEffect
  <2>2. <<"DELIVERING", to>> \in Outcomes
    BY DEF Outcomes
  <2>3. UNCHANGED <<artifact, stored>> /\ Ended(j)
    BY <1>12 DEF RecordDelivery, SendFails
  <2>4. QED
    BY <1>2, <2>1, <2>2, <2>3, ResolvesKeepsDocument
<1>13. QED
  BY <1>3, <1>4, <1>5, <1>6, <1>7, <1>8, <1>9, <1>10, <1>11, <1>12 DEF JobStep

LEMMA DocumentInvInit == Init => DocumentInv
BY WaitInvInit
   DEF Init, IntakeProposal, Idle, DocumentInv, DocumentBehindDelivery, ApprovalStands,
       UploadedIsStored, At, LinkOpens, DocumentStatuses, SealedStatuses

LEMMA DocumentInvKept == ClientsWait /\ DocumentInv /\ [Next]_vars => DocumentInv'
<1> SUFFICES ASSUME ClientsWait, DocumentInv, [Next]_vars PROVE DocumentInv'
  OBVIOUS
<1>0. WaitInv'
  BY WaitInvKept DEF DocumentInv
<1> DEFINE Rest == DocumentBehindDelivery /\ ApprovalStands /\ UploadedIsStored
<1>1. ASSUME NEW a \in Actors, SalespersonStep(a) PROVE Rest'
  BY <1>1, ClientsAreConsiderate, RequestEffect, ReviewsKeepDocument, StartsKeepDocument
     DEF DocumentInv, WaitInv, TypeInv
<1>2. ASSUME NEW j \in JobIds, JobStep(j) \/ JobRaises(j) PROVE Rest'
  BY <1>2, JobStepKeepsDocument
<1>3. ASSUME Restart \/ UNCHANGED vars PROVE Rest'
  BY <1>3
     DEF Restart, vars, Idle, DocumentInv, DocumentBehindDelivery, LinkOpens, ApprovalStands,
         UploadedIsStored, At
<1>4. QED
  BY <1>0, <1>1, <1>2, <1>3 DEF Next, DocumentInv

LEMMA AlwaysDocumentInv == ASSUME ClientsWait PROVE Spec => []DocumentInv
BY DocumentInvInit, DocumentInvKept, PTL DEF Spec

(* A link opens a document exactly from DOCUMENT_READY on, and never for a *)
(* proposal that was not approved: the artifact row, the file in storage   *)
(* and the status are written in separate steps, and fail separately.      *)
THEOREM LinkOpensADocument == ASSUME ClientsWait PROVE Spec => []DocumentBehindDelivery
<1>1. DocumentInv => DocumentBehindDelivery
  BY DEF DocumentInv
<1>2. QED
  BY <1>1, AlwaysDocumentInv, PTL

-----------------------------------------------------------------------------
(* Emails and their records *)

(* Until a delivery job has sent its email, every email accepted so far is *)
(* recorded; a job past its send has sent one.                             *)
JobsAccountForEmails ==
    \A j \in JobIds :
        /\ jobs[j].kind = "delivery" /\ jobs[j].phase \in {"queued", "running"} =>
              delivery.emails <= delivery.sent + delivery.failed
        /\ At(j, "delivery", "sent") => delivery.emails > 0

EmailInv == WaitInv /\ EmailsAreRecorded /\ JobsAccountForEmails

LEMMA EndedKeepsEmails ==
    ASSUME EmailInv, NEW j \in JobIds, Ended(j), UNCHANGED delivery
    PROVE  JobsAccountForEmails'
BY DEF EmailInv, WaitInv, TypeInv, TypeOK, JobsAccountForEmails, Ended, Idle, At

(* Two jobs never deliver at once. *)
LEMMA OneDelivery ==
    ASSUME WaitInv, NEW j \in JobIds, jobs[j].kind = "delivery"
    PROVE  /\ proposal.status = "DELIVERING"
           /\ \A i \in JobIds \ {j} : jobs[i].kind # "delivery"
BY BusyStatusOf DEF WaitInv, StatusWaitsForJob

LEMMA ReviewsKeepEmails ==
    ASSUME EmailInv, Reviews
    PROVE  EmailsAreRecorded' /\ JobsAccountForEmails'
<1>1. /\ proposal'.status = "DELIVERING" <=> proposal.status = "DELIVERING"
      /\ proposal'.status = "DELIVERED" <=> proposal.status = "DELIVERED"
  BY DEF Reviews, ReviewMoves
<1>2. JobsAccountForEmails'
  BY DEF EmailInv, WaitInv, TypeInv, TypeOK, JobsAccountForEmails, Reviews, Enqueue, At
<1>3. QED
  BY <1>1, <1>2 DEF EmailInv, EmailsAreRecorded, Reviews

LEMMA StartsKeepEmails ==
    ASSUME EmailInv, NEW kind \in WaitingKinds, Starts(kind)
    PROVE  EmailsAreRecorded' /\ JobsAccountForEmails'
<1>0. /\ proposal \in Proposal /\ jobs \in [JobIds -> Job]
      /\ delivery.emails \in Nat /\ delivery.sent \in Nat /\ delivery.failed \in Nat
  BY DEF EmailInv, WaitInv, TypeInv, TypeOK
<1>1. proposal'.status = BusyStatus(kind)
  BY <1>0, RuleStatuses DEF Starts
<1>2. /\ proposal.status \notin {"DELIVERING", "DELIVERED"}
      /\ proposal'.status # "DELIVERED"
  BY <1>1, BusyStatusOf DEF Starts, AllowedTransitions, WaitingKinds
<1>3. delivery.emails <= delivery.sent + delivery.failed
  BY <1>0, <1>2 DEF EmailInv, EmailsAreRecorded
<1>4. EmailsAreRecorded'
  BY <1>0, <1>2, <1>3 DEF EmailInv, EmailsAreRecorded, Starts
<1>5. JobsAccountForEmails'
  BY <1>0, <1>3 DEF EmailInv, JobsAccountForEmails, Starts, Enqueue, At
<1>6. QED
  BY <1>4, <1>5

LEMMA JobStepKeepsEmails ==
    ASSUME EmailInv, NEW j \in JobIds, JobStep(j) \/ JobRaises(j)
    PROVE  EmailsAreRecorded' /\ JobsAccountForEmails'
<1>0. /\ WaitInv /\ TypeOK /\ EmailsAreRecorded /\ JobsAccountForEmails
      /\ proposal \in Proposal /\ jobs \in [JobIds -> Job]
      /\ delivery \in [emails : Nat, sent : Nat, failed : Nat]
      /\ delivery.emails \in Nat /\ delivery.sent \in Nat /\ delivery.failed \in Nat
  BY DEF EmailInv, WaitInv, TypeInv, TypeOK
<1>1. ASSUME UNCHANGED delivery, proposal'.status = proposal.status PROVE EmailsAreRecorded'
  BY <1>1 DEF EmailInv, EmailsAreRecorded
<1>2. ASSUME NEW from, NEW to, Resolves(from, to)
      PROVE  proposal.status = from /\ proposal'.status = to
  BY <1>0, <1>2, RuleStatuses DEF Resolves
<1>3. ASSUME Ended(j), UNCHANGED delivery PROVE JobsAccountForEmails'
  BY <1>3, EndedKeepsEmails
<1>4. CASE Load(j) \/ UploadDocument(j)
  <2>1. JobsAccountForEmails'
    BY <1>0, <1>3, <1>4 DEF Load, UploadDocument, JobsAccountForEmails, At, Job
  <2>2. QED
    BY <1>1, <1>4, <2>1 DEF Load, UploadDocument
<1>5. CASE LoadDelivery(j)
  <2>1. CASE artifact
    <3>1. JobsAccountForEmails'
      BY <1>0, <1>5, <2>1 DEF LoadDelivery, JobsAccountForEmails, At, Job
    <3>2. QED
      BY <1>1, <1>5, <2>1, <3>1 DEF LoadDelivery
  <2>2. CASE ~artifact
    <3>1. proposal.status = "DELIVERING" /\ proposal'.status = "DELIVERY_FAILED"
      BY <1>0, <1>2, <1>5, <2>2, DeliveryEffect
    <3>2. delivery.emails <= delivery.sent + delivery.failed
      BY <1>0, <1>5 DEF LoadDelivery, JobsAccountForEmails, At
    <3>3. QED
      BY <1>0, <1>3, <1>5, <2>2, <3>1, <3>2 DEF LoadDelivery, EmailsAreRecorded
  <2>3. QED
    BY <2>1, <2>2
<1>6. CASE GenerationSucceeds(j) \/ GenerationFails(j)
  <2>1. proposal.status = "GENERATING" /\ proposal'.status \notin {"DELIVERING", "DELIVERED"}
    BY <1>0, <1>2, <1>6, GenerationEffect
  <2>2. UNCHANGED delivery /\ Ended(j)
    BY <1>6 DEF GenerationSucceeds, GenerationFails
  <2>3. QED
    BY <1>0, <1>3, <2>1, <2>2 DEF EmailsAreRecorded
<1>7. CASE RegenerationSucceeds(j) \/ RegenerationFails(j)
  BY <1>0, <1>1, <1>3, <1>7, RegenerationEffect DEF RegenerationSucceeds, RegenerationFails
<1>8. CASE JobRaises(j)
  <2>1. \/ proposal.status = "GENERATING" /\ proposal'.status = "GENERATION_FAILED"
        \/ proposal'.status = proposal.status
    BY <1>0, <1>2, <1>8, GenerationEffect
  <2>2. UNCHANGED delivery /\ Ended(j)
    BY <1>8 DEF JobRaises
  <2>3. QED
    BY <1>0, <1>1, <1>3, <2>1, <2>2 DEF EmailsAreRecorded
<1>9. CASE DocumentReady(j) \/ DocumentFails(j)
  <2>1. \/ /\ proposal.status = "DOCUMENT_GENERATING"
           /\ proposal'.status \notin {"DELIVERING", "DELIVERED"}
        \/ proposal'.status = proposal.status
    <3>1. \/ Resolves("DOCUMENT_GENERATING", "DOCUMENT_READY")
          \/ Resolves("DOCUMENT_GENERATING", "DOCUMENT_GENERATION_FAILED")
          \/ UNCHANGED proposal
      BY <1>0, <1>9, DocumentEffect
    <3>2. QED
      BY <1>2, <3>1
  <2>2. UNCHANGED delivery /\ Ended(j)
    BY <1>9 DEF DocumentReady, DocumentFails
  <2>3. QED
    BY <1>0, <1>1, <1>3, <2>1, <2>2 DEF EmailsAreRecorded
<1>10. CASE SendEmail(j)
  <2>1. /\ proposal.status = "DELIVERING" /\ UNCHANGED proposal
        /\ \A i \in JobIds \ {j} : jobs[i].kind # "delivery"
    BY <1>0, <1>10, OneDelivery DEF SendEmail, At
  <2>2. delivery.emails <= delivery.sent + delivery.failed
    BY <1>0, <1>10 DEF SendEmail, JobsAccountForEmails, At
  <2>3. delivery' = [delivery EXCEPT !.emails = @ + 1]
    BY <1>10 DEF SendEmail
  <2>4. /\ delivery'.emails = delivery.emails + 1
        /\ delivery'.sent = delivery.sent /\ delivery'.failed = delivery.failed
    BY <1>0, <2>3
  <2>5. EmailsAreRecorded'
    BY <1>0, <2>1, <2>2, <2>4 DEF EmailsAreRecorded
  <2>6. JobsAccountForEmails'
    BY <1>0, <1>10, <2>1, <2>4 DEF SendEmail, JobsAccountForEmails, At, Job
  <2>7. QED
    BY <2>5, <2>6
<1>11. CASE RecordDelivery(j) \/ SendFails(j)
  <2>1. /\ Ended(j) /\ jobs[j].kind = "delivery"
        /\ proposal.status = "DELIVERING"
        /\ \A i \in JobIds \ {j} : jobs[i].kind # "delivery"
    BY <1>0, <1>11, OneDelivery DEF RecordDelivery, SendFails, At
  <2>2. JobsAccountForEmails'
    BY <1>0, <2>1 DEF Ended, Idle, JobsAccountForEmails, At
  <2>3. EmailsAreRecorded'
    <3>1. CASE RecordDelivery(j)
      <4>1. /\ proposal'.status = "DELIVERED"
            /\ delivery' = [delivery EXCEPT !.sent = @ + 1]
        BY <1>0, <1>2, <3>1, DeliveryEffect
      <4>2. delivery.emails > 0
        BY <1>0, <3>1 DEF RecordDelivery, JobsAccountForEmails
      <4>3. /\ delivery'.sent = delivery.sent + 1
            /\ delivery'.emails = delivery.emails /\ delivery'.failed = delivery.failed
        BY <1>0, <4>1
      <4>4. QED
        BY <1>0, <2>1, <4>1, <4>2, <4>3 DEF EmailsAreRecorded
    <3>2. CASE SendFails(j)
      <4>1. proposal'.status = "DELIVERY_FAILED"
        BY <1>0, <1>2, <3>2, DeliveryEffect
      <4>2. PICK accepted \in SentByFailedSend :
               delivery' = [delivery EXCEPT !.emails = @ + accepted, !.failed = @ + 1]
        BY <1>0, <3>2, DeliveryEffect
      <4>3. /\ accepted \in {0, 1}
            /\ delivery'.emails = delivery.emails + accepted
            /\ delivery'.failed = delivery.failed + 1 /\ delivery'.sent = delivery.sent
        BY <1>0, <4>2 DEF SentByFailedSend
      <4>4. delivery.emails <= delivery.sent + delivery.failed
        BY <1>0, <3>2 DEF SendFails, JobsAccountForEmails, At
      <4>5. QED
        BY <1>0, <2>1, <4>1, <4>3, <4>4 DEF EmailsAreRecorded
    <3>3. QED
      BY <1>11, <3>1, <3>2
  <2>4. QED
    BY <2>2, <2>3
<1>12. QED
  BY <1>4, <1>5, <1>6, <1>7, <1>8, <1>9, <1>10, <1>11 DEF JobStep

LEMMA EmailInvInit == Init => EmailInv
BY WaitInvInit
   DEF Init, IntakeProposal, Idle, EmailInv, EmailsAreRecorded, JobsAccountForEmails, At

LEMMA EmailInvKept == ClientsWait /\ EmailInv /\ [Next]_vars => EmailInv'
<1> SUFFICES ASSUME ClientsWait, EmailInv, [Next]_vars PROVE EmailInv'
  OBVIOUS
<1>0. WaitInv'
  BY WaitInvKept DEF EmailInv
<1> DEFINE Rest == EmailsAreRecorded /\ JobsAccountForEmails
<1>1. ASSUME NEW a \in Actors, SalespersonStep(a) PROVE Rest'
  BY <1>1, ClientsAreConsiderate, RequestEffect, ReviewsKeepEmails, StartsKeepEmails DEF EmailInv, WaitInv, TypeInv
<1>2. ASSUME NEW j \in JobIds, JobStep(j) \/ JobRaises(j) PROVE Rest'
  BY <1>2, JobStepKeepsEmails
<1>3. ASSUME Restart \/ UNCHANGED vars PROVE Rest'
  BY <1>3
     DEF Restart, vars, Idle, EmailInv, EmailsAreRecorded, JobsAccountForEmails, At
<1>4. QED
  BY <1>0, <1>1, <1>2, <1>3 DEF Next, EmailInv

(* No email without a record, but for one lost with its process, and no    *)
(* proposal delivered by less or more than one recorded email: the send    *)
(* and the record are two steps, and a crash or a lost answer may come in  *)
(* between.                                                                *)
THEOREM EmailsHaveRecords == ASSUME ClientsWait PROVE Spec => []EmailsAreRecorded
<1>1. ClientsWait => (Spec => []EmailInv)
  BY EmailInvInit, EmailInvKept, PTL DEF Spec
<1>2. EmailInv => EmailsAreRecorded
  BY DEF EmailInv
<1>3. QED
  BY <1>1, <1>2, PTL

=============================================================================
