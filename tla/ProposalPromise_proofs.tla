----------------------- MODULE ProposalPromise_proofs -----------------------
(***************************************************************************)
(* Theorems of ProposalWorkflow about what the client gets: an undisturbed *)
(* approval is sealed, and the workflow implements ProposalPromise.        *)
(***************************************************************************)
EXTENDS ProposalWaiting_proofs

Quiet == signoff # NoSignoff /\ signoff.quiet

(* What keeps the approved texts as they are until the client opens them.  *)
SealKept ==
    /\ ContentOf(proposal) = signoff.texts
    /\ PendingSections(proposal) = {}
    /\ ~RegenerationOutstanding
    /\ \A j \in JobIds : jobs[j].kind = "document" /\ jobs[j].phase # "queued" =>
          ContentOf(jobs[j].snapshot) = signoff.texts
    /\ \A j \in JobIds : At(j, "document", "uploaded") => stored = signoff.texts
    /\ artifact => stored = signoff.texts

SealInv == DocumentInv /\ (Quiet => SealKept)

-----------------------------------------------------------------------------
(* A sealed proposal that stays sealed *)

LEMMA SameSections ==
    ASSUME NEW p, NEW q, p.sections = q.sections
    PROVE  ContentOf(p) = ContentOf(q) /\ PendingSections(p) = PendingSections(q)
BY DEF ContentOf, PendingSections

LEMMA RulesKeepSections ==
    ASSUME NEW p \in Proposal
    PROVE  /\ \A t : Transitioned(p, t).sections = p.sections
           /\ \A a : Claimed(p, a).sections = p.sections /\ Transferred(p, a).sections = p.sections
           /\ Unclaimed(p).sections = p.sections
BY DEF Transitioned, Claimed, Transferred, Unclaimed, Proposal

(* No request touches a section of a sealed proposal, or queues a          *)
(* regeneration, without unsealing it.                                     *)
LEMMA SealedUntouched ==
    ASSUME TypeOK, NEW a \in Actors, SalespersonStep(a),
           proposal.status \in SealedStatuses, proposal'.status \in SealedStatuses
    PROVE  /\ proposal'.sections = proposal.sections
           /\ signoff' = signoff
           /\ jobs' = jobs \/ \E kind \in WaitingKinds : Enqueue(kind, NoSection)
<1>0. proposal \in Proposal
  BY DEF TypeOK
<1>1. \A s \in Sections : ~StartRegeneration(a, s)
  BY <1>0, RuleStatuses
     DEF StartRegeneration, StartRegenerationAllowed, EditableSectionStatuses, SealedStatuses
<1>2. \A s \in Sections, text \in Contents : ~UpdateSection(a, s, text)
  BY <1>0, RuleStatuses
     DEF UpdateSection, EditAllowed, EditableSectionStatuses, SealedStatuses
<1>3. (\A s \in Sections : ~ApproveSection(a, s)) /\ ~ApproveProposal(a)
  BY DEF ApproveSection, ApproveSectionAllowed, ApproveProposal, ApproveAllAllowed, SealedStatuses
<1>4. CASE SubmitForApproval(a) \/ RequestChanges(a) \/ Reject(a)
  BY <1>0, <1>4, RulesKeepSections
     DEF SubmitForApproval, RequestChanges, Reject, RowOnly, KeepSignoff
<1>5. CASE Claim(a) \/ Unclaim(a) \/ \E b \in Accounts : Transfer(a, b)
  BY <1>0, <1>5, RulesKeepSections DEF Claim, Unclaim, Transfer, RowOnly, KeepSignoff
<1>6. CASE StartGeneration(a) \/ StartDocument(a) \/ StartDelivery(a)
  BY <1>0, <1>6, RulesKeepSections
     DEF StartGeneration, StartDocument, StartDelivery, KeepSignoff, WaitingKinds
<1>7. QED
  BY <1>1, <1>2, <1>3, <1>4, <1>5, <1>6 DEF SalespersonStep

(* Only approving the whole proposal seals it. *)
LEMMA OnlyApprovalSeals ==
    ASSUME TypeOK, NEW a \in Actors, SalespersonStep(a),
           proposal.status \notin SealedStatuses, proposal'.status \in SealedStatuses
    PROVE  ApproveProposal(a)
<1>0. proposal \in Proposal
  BY DEF TypeOK
<1>1. \A s \in Sections, text \in Contents : ~UpdateSection(a, s, text)
  BY <1>0, RuleStatuses DEF UpdateSection, SealedStatuses
<1>2. \A s \in Sections : ~ApproveSection(a, s) /\ ~StartRegeneration(a, s)
  BY <1>0, RuleStatuses DEF ApproveSection, StartRegeneration, SealedStatuses
<1>3. ~SubmitForApproval(a) /\ ~RequestChanges(a) /\ ~Reject(a) /\ ~StartGeneration(a)
  BY <1>0, RuleStatuses
     DEF SubmitForApproval, RequestChanges, Reject, StartGeneration, SealedStatuses
<1>4. ~Claim(a) /\ ~Unclaim(a) /\ \A b \in Accounts : ~Transfer(a, b)
  BY <1>0, RuleStatuses DEF Claim, Unclaim, Transfer, SealedStatuses
<1>5. ~StartDocument(a) /\ ~StartDelivery(a)
  BY DEF StartDocument, StartDocumentAllowed, StartDelivery, StartDeliveryAllowed,
         CanTransition, AllowedTransitions, SealedStatuses
<1>6. QED
  BY <1>1, <1>2, <1>3, <1>4, <1>5 DEF SalespersonStep

(* An approval that nothing overlaps is sealed from the start. *)
LEMMA ApprovalSeals ==
    ASSUME DocumentInv, NEW a \in Actors, ApproveProposal(a), Quiet'
    PROVE  SealKept'
<1> DEFINE p == proposal
<1>0. p \in Proposal /\ p.status \in {"IN_REVIEW", "PENDING_APPROVAL"}
  BY DEF DocumentInv, WaitInv, TypeInv, TypeOK, ApproveProposal, ApproveAllAllowed
<1>1. \A s \in Sections :
         /\ WhollyApproved(p).sections[s].content = p.sections[s].content
         /\ WhollyApproved(p).sections[s].approval = "APPROVED"
  BY <1>0 DEF WhollyApproved, AllSectionsApproved, Transitioned, Proposal, Section
<1>2. ContentOf(proposal') = signoff'.texts /\ PendingSections(proposal') = {}
  BY <1>1 DEF ApproveProposal, ContentOf, PendingSections
<1>3. signoff'.quiet /\ signoff'.quiet = ~RegenerationOutstanding
  BY DEF ApproveProposal, Quiet
<1>4. ~RegenerationOutstanding'
  BY <1>3 DEF ApproveProposal, RegenerationOutstanding
<1>5. NoneWaitedFor
  BY <1>0, IdleStatus DEF DocumentInv, WaitInv, BusyStatuses
<1>6. ~artifact
  BY <1>0 DEF DocumentInv, DocumentBehindDelivery, DocumentStatuses
<1>7. QED
  BY <1>2, <1>4, <1>5, <1>6 DEF ApproveProposal, SealKept, NoneWaitedFor, WaitingKinds, At

LEMMA RequestKeepsSeal ==
    ASSUME ClientsWait, SealInv, DocumentInv', NEW a \in Actors, SalespersonStep(a), Quiet'
    PROVE  SealKept'
<1>0. /\ DocumentInv /\ TypeOK /\ jobs \in [JobIds -> Job]
      /\ proposal'.status \in SealedStatuses
  BY DEF SealInv, DocumentInv, WaitInv, TypeInv, TypeOK, Quiet, ApprovalStands
<1>1. CASE proposal.status \notin SealedStatuses
  BY <1>0, <1>1, OnlyApprovalSeals, ApprovalSeals
<1>2. CASE proposal.status \in SealedStatuses
  <2>1. /\ proposal'.sections = proposal.sections
        /\ signoff' = signoff
        /\ jobs' = jobs \/ \E kind \in WaitingKinds : Enqueue(kind, NoSection)
    BY <1>0, <1>2, SealedUntouched
  <2>2. SealKept
    BY <2>1 DEF SealInv, Quiet
  <2>3. ContentOf(proposal') = signoff'.texts /\ PendingSections(proposal') = {}
    BY <2>1, <2>2, SameSections DEF SealKept
  <2>4. stored' = stored /\ (artifact' => artifact)
    BY <1>0, ClientsAreConsiderate, RequestEffect DEF Reviews, Starts
  <2>5. QED
    BY <1>0, <2>1, <2>2, <2>3, <2>4
       DEF SealKept, RegenerationOutstanding, Enqueue, WaitingKinds, At
<1>3. QED
  BY <1>1, <1>2

-----------------------------------------------------------------------------
(* The jobs of a sealed proposal *)

LEMMA QuietBefore ==
    ASSUME SealInv, Quiet', KeepSignoff \/ UNCHANGED signoff
    PROVE  Quiet /\ SealKept /\ signoff' = signoff /\ proposal.status \in SealedStatuses
BY DEF SealInv, Quiet, KeepSignoff, DocumentInv, ApprovalStands

(* A job that ends and leaves the texts alone. *)
LEMMA EndedKeepsSeal ==
    ASSUME SealInv, NEW j \in JobIds, Ended(j), SealKept, signoff' = signoff,
           proposal'.sections = proposal.sections, UNCHANGED stored, artifact' => artifact
    PROVE  SealKept'
<1>0. jobs \in [JobIds -> Job]
  BY DEF SealInv, DocumentInv, WaitInv, TypeInv, TypeOK
<1>1. ContentOf(proposal') = signoff'.texts /\ PendingSections(proposal') = {}
  BY SameSections DEF SealKept
<1>2. QED
  BY <1>0, <1>1 DEF SealKept, RegenerationOutstanding, Ended, Idle, At

LEMMA ResolvesKeepsSections ==
    ASSUME TypeOK, NEW from, NEW to, Resolves(from, to)
    PROVE  proposal'.sections = proposal.sections
BY RulesKeepSections DEF TypeOK, Resolves

LEMMA JobStepKeepsSeal ==
    ASSUME SealInv, NEW j \in JobIds, JobStep(j) \/ JobRaises(j), Quiet'
    PROVE  SealKept'
<1>0. /\ WaitInv /\ TypeOK /\ proposal \in Proposal /\ jobs \in [JobIds -> Job]
      /\ DocumentBehindDelivery /\ artifact \in BOOLEAN
  BY DEF SealInv, DocumentInv, WaitInv, TypeInv, TypeOK
<1>1. CASE Load(j)
  <2>1. SealKept /\ signoff' = signoff /\ UNCHANGED <<proposal, stored, artifact>>
    BY <1>1, QuietBefore DEF Load
  <2>2. CASE Ended(j)
    BY <2>1, <2>2, EndedKeepsSeal
  <2>3. CASE jobs' = [jobs EXCEPT ![j].phase = "running", ![j].snapshot = proposal]
    BY <1>0, <2>1, <2>3 DEF SealKept, RegenerationOutstanding, At, Job
  <2>4. QED
    BY <1>1, <2>2, <2>3 DEF Load
<1>2. CASE LoadDelivery(j)
  <2>1. SealKept /\ signoff' = signoff /\ UNCHANGED <<stored, artifact>>
    BY <1>2, QuietBefore DEF LoadDelivery
  <2>2. CASE artifact
    BY <1>0, <1>2, <2>1, <2>2 DEF LoadDelivery, SealKept, RegenerationOutstanding, At, Job
  <2>3. CASE ~artifact
    <3>1. Resolves("DELIVERING", "DELIVERY_FAILED")
      BY <1>0, <1>2, <2>3, DeliveryEffect
    <3>2. proposal'.sections = proposal.sections
      BY <1>0, <3>1, ResolvesKeepsSections
    <3>3. Ended(j)
      BY <1>2, <2>3 DEF LoadDelivery
    <3>4. QED
      BY <2>1, <3>2, <3>3, EndedKeepsSeal
  <2>4. QED
    BY <2>2, <2>3
<1>3. ~GenerationSucceeds(j) /\ ~GenerationFails(j)
  <2>1. ASSUME GenerationSucceeds(j) \/ GenerationFails(j)
        PROVE  proposal.status = "GENERATING" /\ KeepSignoff
    BY <1>0, <2>1, GenerationEffect DEF Resolves
  <2>2. QED
    BY <2>1, QuietBefore DEF SealedStatuses
<1>4. CASE RegenerationSucceeds(j) \/ RegenerationFails(j)
  <2>1. KeepSignoff \/ UNCHANGED signoff
    BY <1>0, <1>4, RegenerationEffect DEF RegenerationFails
  <2>2. ~RegenerationOutstanding
    BY <2>1, QuietBefore DEF SealKept
  <2>3. QED
    BY <1>4, <2>2 DEF RegenerationSucceeds, RegenerationFails, At, RegenerationOutstanding
<1>5. CASE JobRaises(j)
  <2>1. CASE Resolves("GENERATING", "GENERATION_FAILED")
    BY <2>1, QuietBefore DEF Resolves, SealedStatuses
  <2>2. CASE UNCHANGED <<proposal, signoff>>
    BY <1>5, <2>2, QuietBefore, EndedKeepsSeal DEF JobRaises
  <2>3. QED
    BY <1>0, <1>5, <2>1, <2>2, GenerationEffect
<1>6. CASE UploadDocument(j)
  <2>1. SealKept /\ signoff' = signoff /\ UNCHANGED <<proposal, artifact>>
    BY <1>6, QuietBefore DEF UploadDocument
  <2>2. stored' = signoff.texts
    BY <1>6, <2>1 DEF UploadDocument, Rendered, SealKept, At
  <2>3. QED
    BY <1>0, <1>6, <2>1, <2>2 DEF UploadDocument, SealKept, RegenerationOutstanding, At, Job
<1>7. CASE DocumentReady(j)
  <2>1. /\ proposal'.sections = proposal.sections
        /\ KeepSignoff \/ UNCHANGED signoff
    BY <1>0, <1>7, DocumentEffect, ResolvesKeepsSections DEF Resolves
  <2>2. SealKept /\ signoff' = signoff
    BY <2>1, QuietBefore
  <2>3. stored = signoff.texts /\ UNCHANGED stored /\ Ended(j)
    BY <1>7, <2>2 DEF DocumentReady, SealKept
  <2>4. ContentOf(proposal') = signoff'.texts /\ PendingSections(proposal') = {}
    BY <2>1, <2>2, SameSections DEF SealKept
  <2>5. QED
    BY <1>0, <2>2, <2>3, <2>4 DEF SealKept, RegenerationOutstanding, Ended, Idle, At
<1>8. CASE DocumentFails(j)
  <2>1. Resolves("DOCUMENT_GENERATING", "DOCUMENT_GENERATION_FAILED")
    BY <1>0, <1>8, DocumentEffect
  <2>2. SealKept /\ signoff' = signoff
    BY <2>1, QuietBefore DEF Resolves
  <2>3. ~artifact /\ ~artifact'
    BY <1>0, <1>8, <2>1 DEF DocumentFails, Resolves, DocumentBehindDelivery, DocumentStatuses
  <2>4. proposal'.sections = proposal.sections
    BY <1>0, <2>1, ResolvesKeepsSections
  <2>5. ContentOf(proposal') = signoff'.texts /\ PendingSections(proposal') = {}
    BY <2>2, <2>4, SameSections DEF SealKept
  <2>6. \A i \in JobIds \ {j} : jobs[i].kind # "document"
    BY <1>0, <1>8 DEF DocumentFails, At, WaitInv, StatusWaitsForJob
  <2>7. QED
    BY <1>0, <1>8, <2>2, <2>3, <2>5, <2>6
       DEF DocumentFails, SealKept, RegenerationOutstanding, Ended, Idle, At
<1>9. CASE SendEmail(j)
  <2>1. SealKept /\ signoff' = signoff /\ UNCHANGED <<proposal, stored, artifact>>
    BY <1>9, QuietBefore DEF SendEmail
  <2>2. QED
    BY <1>0, <1>9, <2>1 DEF SendEmail, SealKept, RegenerationOutstanding, At, Job
<1>10. CASE RecordDelivery(j) \/ SendFails(j)
  <2>1. proposal'.sections = proposal.sections /\ KeepSignoff
    BY <1>0, <1>10, DeliveryEffect, ResolvesKeepsSections DEF Resolves
  <2>2. SealKept /\ signoff' = signoff
    BY <2>1, QuietBefore
  <2>3. Ended(j) /\ UNCHANGED <<stored, artifact>>
    BY <1>10 DEF RecordDelivery, SendFails
  <2>4. QED
    BY <2>1, <2>2, <2>3, EndedKeepsSeal
<1>11. QED
  BY <1>1, <1>2, <1>3, <1>4, <1>5, <1>6, <1>7, <1>8, <1>9, <1>10 DEF JobStep

LEMMA SealInvKept == ClientsWait /\ SealInv /\ [Next]_vars => SealInv'
<1> SUFFICES ASSUME ClientsWait, SealInv, [Next]_vars PROVE SealInv'
  OBVIOUS
<1>0. DocumentInv'
  BY DocumentInvKept DEF SealInv
<1> SUFFICES ASSUME Quiet' PROVE SealKept'
  BY <1>0 DEF SealInv
<1>1. ASSUME NEW a \in Actors, SalespersonStep(a) PROVE SealKept'
  BY <1>0, <1>1, RequestKeepsSeal
<1>2. ASSUME NEW j \in JobIds, JobStep(j) \/ JobRaises(j) PROVE SealKept'
  BY <1>2, JobStepKeepsSeal
<1>3. CASE Restart \/ UNCHANGED vars
  <2>1. SealKept /\ UNCHANGED <<proposal, signoff, stored, artifact>>
    BY <1>3, QuietBefore DEF Restart, vars
  <2>2. QED
    BY <1>3, <2>1 DEF Restart, vars, SealKept, RegenerationOutstanding, Idle, At
<1>4. QED
  BY <1>1, <1>2, <1>3 DEF Next

LEMMA AlwaysSealInv == ASSUME ClientsWait PROVE Spec => []SealInv
<1>1. Init => SealInv
  BY DocumentInvInit DEF Init, SealInv, Quiet
<1>2. QED
  BY <1>1, SealInvKept, PTL DEF Spec

(* An approval given while nothing else was under way is sealed: as long   *)
(* as it stands, no job and no request changes an approved text or its     *)
(* mark, and what the emailed link opens is those texts or nothing.        *)
THEOREM QuietApprovalStands == ASSUME ClientsWait PROVE Spec => []QuietApprovalIsSealed
<1>1. SealInv => QuietApprovalIsSealed
  BY DEF SealInv, SealKept, Quiet, QuietApprovalIsSealed, LinkOpens
<1>2. QED
  BY <1>1, AlwaysSealInv, PTL

-----------------------------------------------------------------------------
(* The refinement *)

PromiseInv == SealInv /\ EmailInv

LEMMA PromiseInvParts ==
    ASSUME PromiseInv
    PROVE  /\ WaitInv /\ TypeInv /\ TypeOK /\ ApprovalStands /\ DocumentBehindDelivery
           /\ UploadedIsStored /\ JobsAccountForEmails
           /\ proposal \in Proposal /\ jobs \in [JobIds -> Job] /\ artifact \in BOOLEAN
           /\ signoff \in Signoff \cup {NoSignoff} /\ stored \in Texts \cup {NoDocument}
           /\ delivery \in [emails : Nat, sent : Nat, failed : Nat]
BY DEF PromiseInv, SealInv, EmailInv, DocumentInv, WaitInv, TypeInv, TypeOK

(* The stage as a function of the status. *)
StageOf(status) ==
    CASE status = "APPROVED" -> "approved"
      [] status \in {"DOCUMENT_GENERATING", "DOCUMENT_GENERATION_FAILED"} -> "rendering"
      [] status \in {"DOCUMENT_READY", "DELIVERING", "DELIVERY_FAILED"} -> "ready"
      [] status \in {"DELIVERED", "CLOSED"} -> "delivered"
      [] OTHER -> "review"

LEMMA Stages ==
    /\ Stage = StageOf(proposal.status) /\ Stage' = StageOf(proposal'.status)
    /\ \A status \in {"DRAFT", "GENERATING", "GENERATION_FAILED", "IN_REVIEW",
                      "PENDING_APPROVAL", "REJECTED"} : StageOf(status) = "review"
    /\ StageOf("APPROVED") = "approved"
    /\ \A status \in {"DOCUMENT_GENERATING", "DOCUMENT_GENERATION_FAILED"} :
          StageOf(status) = "rendering"
    /\ \A status \in {"DOCUMENT_READY", "DELIVERING", "DELIVERY_FAILED"} :
          StageOf(status) = "ready"
    /\ StageOf("DELIVERED") = "delivered"
<1>1. Stage = StageOf(proposal.status) /\ Stage' = StageOf(proposal'.status)
  BY DEF Stage, StageOf
<1>2. QED
  BY <1>1 DEF StageOf

Unseen == UNCHANGED <<Stage, signoff, stored, delivery.emails>>

(* While a proposal is in review there is no approval to lose. *)
LEMMA SignoffKept ==
    ASSUME ApprovalStands, KeepSignoff,
           proposal.status \in SealedStatuses => proposal'.status \in SealedStatuses
    PROVE  signoff' = signoff
BY DEF ApprovalStands, KeepSignoff

LEMMA ReviewsRefine ==
    ASSUME PromiseInv, Reviews
    PROVE  Promise!Approve \/ Promise!Reopen \/ Unseen
<1>1. CASE proposal'.status = "APPROVED" /\ proposal.status # "APPROVED"
  <2>1. proposal.status \in {"IN_REVIEW", "PENDING_APPROVAL"} /\ signoff' \in Signoff
    BY <1>1 DEF Reviews, ReviewMoves
  <2>2. QED
    BY <1>1, <2>1, Stages DEF Reviews, Promise!Approve, Promise!Approval, Signoff
<1>2. CASE proposal.status = "APPROVED" /\ proposal'.status # "APPROVED"
  <2>1. proposal'.status = "IN_REVIEW" /\ signoff' = NoSignoff
    BY <1>2 DEF Reviews, ReviewMoves, KeepSignoff, SealedStatuses
  <2>2. QED
    BY <1>2, <2>1, Stages DEF Reviews, Promise!Reopen
<1>3. CASE proposal.status = "APPROVED" <=> proposal'.status = "APPROVED"
  <2>1. KeepSignoff /\ UNCHANGED <<stored, delivery>>
    BY <1>3 DEF Reviews
  <2>2. proposal.status \in SealedStatuses => proposal'.status \in SealedStatuses
    BY <1>3 DEF Reviews, ReviewMoves, SealedStatuses
  <2>3. Stage' = Stage
    BY <1>3, Stages DEF Reviews, ReviewMoves
  <2>4. QED
    BY <2>1, <2>2, <2>3, PromiseInvParts, SignoffKept DEF Unseen
<1>4. QED
  BY <1>1, <1>2, <1>3

LEMMA StartsRefine ==
    ASSUME PromiseInv, NEW kind \in WaitingKinds, Starts(kind)
    PROVE  Promise!StartDocument \/ Unseen
<1>0. proposal'.status = BusyStatus(kind)
  BY PromiseInvParts, RuleStatuses DEF Starts
<1>1. \/ kind = "generation" /\ proposal.status \in {"DRAFT", "GENERATION_FAILED", "IN_REVIEW"}
      \/ kind = "document" /\ proposal.status \in {"APPROVED", "DOCUMENT_GENERATION_FAILED"}
      \/ kind = "delivery" /\ proposal.status \in {"DOCUMENT_READY", "DELIVERY_FAILED"}
  BY BusyStatusOf DEF Starts, AllowedTransitions, WaitingKinds
<1>2. signoff' = signoff
  <2>1. proposal.status \in SealedStatuses => proposal'.status \in SealedStatuses
    BY <1>0, <1>1, BusyStatusOf DEF SealedStatuses
  <2>2. QED
    BY <2>1, PromiseInvParts, SignoffKept DEF Starts
<1>3. UNCHANGED <<stored, delivery>>
  BY DEF Starts
<1>4. CASE proposal.status = "APPROVED"
  <2>1. proposal'.status = "DOCUMENT_GENERATING"
    BY <1>0, <1>1, <1>4, BusyStatusOf
  <2>2. QED
    BY <1>2, <1>3, <1>4, <2>1, Stages DEF Promise!StartDocument
<1>5. CASE proposal.status # "APPROVED"
  <2>1. Stage' = Stage
    BY <1>0, <1>1, <1>5, BusyStatusOf, Stages
  <2>2. QED
    BY <1>2, <1>3, <2>1 DEF Unseen
<1>6. QED
  BY <1>4, <1>5

LEMMA JobStepRefines ==
    ASSUME PromiseInv, NEW j \in JobIds, JobStep(j) \/ JobRaises(j)
    PROVE  \/ Promise!Render \/ Promise!Finish \/ Promise!Send \/ Promise!Deliver
           \/ Unseen
<1>0. /\ WaitInv /\ TypeInv /\ TypeOK /\ ApprovalStands /\ DocumentBehindDelivery
      /\ UploadedIsStored /\ JobsAccountForEmails
      /\ proposal \in Proposal /\ jobs \in [JobIds -> Job] /\ artifact \in BOOLEAN
      /\ delivery \in [emails : Nat, sent : Nat, failed : Nat]
  BY PromiseInvParts
<1>1. ASSUME NEW from, NEW to, Resolves(from, to)
      PROVE  /\ proposal.status = from /\ proposal'.status = to
             /\ (from \in SealedStatuses => to \in SealedStatuses) => signoff' = signoff
  BY <1>0, <1>1, RuleStatuses, SignoffKept DEF Resolves
<1>2. ASSUME UNCHANGED <<proposal, signoff, stored, delivery>> PROVE Unseen
  BY <1>2, Stages DEF Unseen
<1>3. ASSUME At(j, "document", "running"), Quiet
      PROVE  Rendered(jobs[j].snapshot) = signoff.texts
  BY <1>3 DEF At, Rendered, PromiseInv, SealInv, SealKept
<1>4. ASSUME At(j, "document", "running") \/ At(j, "document", "uploaded")
      PROVE  /\ proposal.status = "DOCUMENT_GENERATING" /\ signoff # NoSignoff
             /\ Stage = "rendering" /\ Rendered(jobs[j].snapshot) \in Texts
  <2>1. proposal.status = "DOCUMENT_GENERATING" /\ jobs[j].snapshot \in Proposal
    BY <1>0, <1>4, WaitedForSnapshot, BusyStatusOf DEF At, WaitingKinds
  <2>2. QED
    BY <1>0, <2>1, Stages, ContentOfType DEF ApprovalStands, SealedStatuses, Rendered
<1>5. CASE Load(j) \/ RegenerationFails(j)
  BY <1>2, <1>5 DEF Load, RegenerationFails
<1>6. CASE LoadDelivery(j)
  <2>1. CASE artifact
    BY <1>2, <1>6, <2>1 DEF LoadDelivery
  <2>2. CASE ~artifact
    <3>1. Resolves("DELIVERING", "DELIVERY_FAILED") /\ UNCHANGED <<stored, delivery>>
      BY <1>0, <1>6, <2>2, DeliveryEffect DEF LoadDelivery
    <3>2. signoff' = signoff
      BY <1>1, <3>1 DEF SealedStatuses
    <3>3. QED
      BY <1>1, <3>1, <3>2, Stages DEF Unseen
  <2>3. QED
    BY <2>1, <2>2
<1>7. CASE GenerationSucceeds(j) \/ GenerationFails(j)
  <2>1. /\ proposal.status = "GENERATING"
        /\ proposal'.status \in {"IN_REVIEW", "GENERATION_FAILED"}
        /\ KeepSignoff
    BY <1>0, <1>1, <1>7, GenerationEffect DEF Resolves
  <2>2. signoff' = signoff
    BY <1>0, <2>1, SignoffKept DEF SealedStatuses
  <2>3. QED
    BY <1>7, <2>1, <2>2, Stages DEF GenerationSucceeds, GenerationFails, Unseen
<1>8. CASE JobRaises(j)
  <2>1. UNCHANGED <<stored, delivery>>
    BY <1>8 DEF JobRaises
  <2>2. CASE Resolves("GENERATING", "GENERATION_FAILED")
    <3>1. signoff' = signoff
      BY <1>1, <2>2 DEF SealedStatuses
    <3>2. QED
      BY <1>1, <2>1, <2>2, <3>1, Stages DEF Unseen
  <2>3. CASE UNCHANGED <<proposal, signoff>>
    BY <1>2, <2>1, <2>3
  <2>4. QED
    BY <1>0, <1>8, <2>2, <2>3, GenerationEffect
<1>9. CASE RegenerationSucceeds(j)
  <2>1. proposal'.status = proposal.status /\ KeepSignoff
    BY <1>0, <1>9, RegenerationEffect
  <2>2. QED
    BY <1>0, <1>9, <2>1, Stages, SignoffKept DEF RegenerationSucceeds, Unseen
<1>10. CASE UploadDocument(j)
  <2>1. /\ At(j, "document", "running") /\ stored' = Rendered(jobs[j].snapshot)
        /\ UNCHANGED <<proposal, delivery, signoff>>
    BY <1>10 DEF UploadDocument
  <2>2. signoff.quiet => stored' = signoff.texts
    BY <1>3, <1>4, <2>1 DEF Quiet
  <2>3. Stage = "rendering" /\ Stage' = Stage /\ stored' \in Texts
    BY <1>4, <2>1, Stages
  <2>4. QED
    BY <2>1, <2>2, <2>3 DEF Promise!Render
<1>11. CASE DocumentFails(j)
  <2>1. /\ At(j, "document", "running") /\ UNCHANGED delivery
        /\ stored' \in {stored, Rendered(jobs[j].snapshot)}
    BY <1>11 DEF DocumentFails, AfterFailedUpload
  <2>2. /\ proposal.status = "DOCUMENT_GENERATING"
        /\ proposal'.status = "DOCUMENT_GENERATION_FAILED"
        /\ signoff' = signoff
    <3>1. Resolves("DOCUMENT_GENERATING", "DOCUMENT_GENERATION_FAILED")
      BY <1>0, <1>11, DocumentEffect
    <3>2. QED
      BY <1>1, <3>1 DEF SealedStatuses
  <2>3. Stage = "rendering" /\ Stage' = Stage
    BY <2>2, Stages
  <2>4. CASE stored' = stored
    BY <2>1, <2>2, <2>3, <2>4 DEF Unseen
  <2>5. CASE stored' = Rendered(jobs[j].snapshot)
    <3>1. signoff.quiet => stored' = signoff.texts
      BY <1>3, <1>4, <2>1, <2>5 DEF Quiet
    <3>2. QED
      BY <1>4, <2>1, <2>2, <2>3, <2>5, <3>1 DEF Promise!Render
  <2>6. QED
    BY <2>1, <2>4, <2>5
<1>12. CASE DocumentReady(j)
  <2>1. proposal.status = "DOCUMENT_GENERATING" /\ UNCHANGED <<stored, delivery>> /\ stored # NoDocument
    BY <1>0, <1>4, <1>12 DEF DocumentReady, UploadedIsStored
  <2>2. ~artifact
    BY <1>0, <2>1 DEF DocumentBehindDelivery, DocumentStatuses
  <2>3. proposal'.status = "DOCUMENT_READY" /\ signoff' = signoff
    BY <1>0, <1>1, <1>12, <2>2, DocumentEffect DEF SealedStatuses
  <2>4. QED
    BY <2>1, <2>3, Stages DEF Promise!Finish
<1>13. CASE SendEmail(j)
  <2>1. proposal.status = "DELIVERING"
    BY <1>0, <1>13, OneDelivery DEF SendEmail, At
  <2>2. /\ UNCHANGED <<proposal, stored, signoff>>
        /\ delivery'.emails = delivery.emails + 1
    BY <1>0, <1>13 DEF SendEmail
  <2>3. QED
    BY <2>1, <2>2, Stages DEF Promise!Send
<1>14. CASE SendFails(j)
  <2>1. PICK accepted \in SentByFailedSend :
           delivery' = [delivery EXCEPT !.emails = @ + accepted, !.failed = @ + 1]
    BY <1>0, <1>14, DeliveryEffect
  <2>2. /\ proposal.status = "DELIVERING" /\ proposal'.status = "DELIVERY_FAILED"
        /\ signoff' = signoff /\ UNCHANGED stored
    BY <1>0, <1>1, <1>14, DeliveryEffect DEF SealedStatuses, SendFails
  <2>3. accepted \in {0, 1} /\ delivery'.emails = delivery.emails + accepted /\ delivery.emails \in Nat
    BY <1>0, <2>1 DEF SentByFailedSend
  <2>4. Stage = "ready" /\ Stage' = "ready"
    BY <2>2, Stages
  <2>5. QED
    BY <2>2, <2>3, <2>4 DEF Unseen, Promise!Send
<1>15. CASE RecordDelivery(j)
  <2>1. delivery' = [delivery EXCEPT !.sent = @ + 1] /\ delivery.emails > 0
    BY <1>0, <1>15, DeliveryEffect DEF RecordDelivery, JobsAccountForEmails
  <2>2. /\ proposal.status = "DELIVERING" /\ proposal'.status = "DELIVERED"
        /\ signoff' = signoff /\ UNCHANGED stored
    <3>1. Resolves("DELIVERING", "DELIVERED") /\ UNCHANGED stored
      BY <1>0, <1>15, DeliveryEffect DEF RecordDelivery
    <3>2. QED
      BY <1>1, <3>1 DEF SealedStatuses
  <2>3. delivery'.emails = delivery.emails
    BY <1>0, <2>1
  <2>4. QED
    BY <2>1, <2>2, <2>3, Stages DEF Promise!Deliver
<1>16. QED
  BY <1>0, <1>5, <1>6, <1>7, <1>8, <1>9, <1>10, <1>11, <1>12, <1>13, <1>14, <1>15 DEF JobStep

(* The workflow implements the promise: with any requests, jobs, failures  *)
(* and restarts, what happens to the approval, the stored document and the *)
(* emails is a behaviour of ProposalPromise.  Reviewing, waiting and       *)
(* retrying are invisible; each visible step is one of its actions.        *)
THEOREM WorkflowKeepsPromise == ASSUME ClientsWait PROVE Spec => KeepsPromise
<1>1. Init => Promise!Init
  BY Stages DEF Init, IntakeProposal, Promise!Init
<1>2. PromiseInv /\ [Next]_vars => [Promise!Next]_(Promise!vars)
  <2> SUFFICES ASSUME PromiseInv, [Next]_vars PROVE Promise!Next \/ Unseen
    BY DEF Unseen, Promise!vars
  <2>1. ASSUME NEW a \in Actors, SalespersonStep(a) PROVE Promise!Next \/ Unseen
    BY <2>1, PromiseInvParts, ClientsAreConsiderate, RequestEffect, ReviewsRefine, StartsRefine DEF Promise!Next
  <2>2. ASSUME NEW j \in JobIds, JobStep(j) \/ JobRaises(j) PROVE Promise!Next \/ Unseen
    BY <2>2, JobStepRefines DEF Promise!Next
  <2>3. CASE Restart \/ UNCHANGED vars
    BY <2>3, Stages DEF Restart, vars, Unseen
  <2>4. QED
    BY <2>1, <2>2, <2>3 DEF Next
<1>3. ClientsWait => (Spec => []PromiseInv)
  <2>1. SealInv /\ EmailInv => PromiseInv
    BY DEF PromiseInv
  <2>2. QED
    BY <2>1, AlwaysSealInv, EmailInvInit, EmailInvKept, PTL DEF Spec
<1>4. QED
  BY <1>1, <1>2, <1>3, PTL DEF Spec, KeepsPromise, Promise!Spec

=============================================================================
