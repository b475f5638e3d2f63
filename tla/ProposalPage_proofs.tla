------------------------ MODULE ProposalPage_proofs ------------------------
(***************************************************************************)
(* Theorems of ProposalPage, for any tabs and viewers, and for a server    *)
(* that takes request-changes wherever its table allows it.                *)
(***************************************************************************)
EXTENDS ProposalPage, ProposalWaiting_proofs, FiniteSetTheorems

(* Whatever is clicked is a step of the server: a page adds guards to      *)
(* requests and none to jobs.                                              *)
LEMMA ClickIsRequest ==
    ASSUME NEW t \in Tabs, Click(t)
    PROVE  SalespersonStep(Viewer[t]) /\ Viewer[t] \in Actors
<1>1. Viewer[t] \in Actors
  BY PageAssumption
<1>2. \A b \in Candidates(Viewer[t]) : b \in Accounts
  BY AccountsAssumption DEF Candidates
<1>3. ASSUME NEW s \in Sections, ClickSection(t, s) PROVE SalespersonStep(Viewer[t])
  BY <1>3 DEF ClickSection, SalespersonStep
<1>4. QED
  BY <1>1, <1>2, <1>3 DEF Click, ClickApprovalPanel, ClickJob, ClickOwnership, SalespersonStep

LEMMA PageStepIsStep == [PageNext]_pageVars => [Next]_vars
<1>1. ASSUME NEW t \in Tabs, Render(t) PROVE UNCHANGED vars
  BY <1>1 DEF Render, vars
<1>2. ASSUME NEW t \in Tabs, Click(t) PROVE Next
  BY <1>2, ClickIsRequest DEF Next
<1>3. ServerStep => Next
  BY DEF ServerStep, Next
<1>4. UNCHANGED pageVars => UNCHANGED vars
  BY DEF pageVars, vars
<1>5. QED
  BY <1>1, <1>2, <1>3, <1>4 DEF PageNext

LEMMA AlwaysTyped == PageSpec => []TypeInv
<1>1. PageInit => TypeInv
  BY InitTypeInv DEF PageInit
<1>2. TypeInv /\ [PageNext]_pageVars => TypeInv'
  BY TypeInvKept, PageStepIsStep
<1>3. QED
  BY <1>1, <1>2, PTL DEF PageSpec

(* To someone who may change the proposal, a page that is up to date       *)
(* offers nothing the server would refuse.                                 *)
THEOREM OffersHold == PageSpec => []OffersAreAccepted
<1>1. TypeInv => OffersAreAccepted
  <2> SUFFICES ASSUME TypeInv, NEW t \in Tabs, pages[t] = proposal,
                      OwnsProposal(proposal, Viewer[t])
               PROVE  LET p == proposal
                          a == Viewer[t]
                      IN /\ CanEditSection(p) => EditAllowed(p, a)
                         /\ \A s \in Sections :
                               CanRegenerateSection(p, s) => StartRegenerationAllowed(p, a, s)
                         /\ \A s \in Sections : CanApproveSection(p, s) => ApproveSectionAllowed(p, a)
                         /\ CanSubmitForApproval(p) => SubmitAllowed(p, a)
                         /\ CanApproveProposal(p) => ApproveAllAllowed(p, a)
                         /\ CanRequestChangesOrReject(p) =>
                               RequestChangesAllowed(p, a) /\ RejectAllowed(p, a)
                         /\ CanTriggerGeneration(p) => StartGenerationAllowed(p, a)
                         /\ CanGenerateDocument(p) => StartDocumentAllowed(p, a)
                         /\ CanDeliver(p) => StartDeliveryAllowed(p, a)
                         /\ CanClaim(p) /\ a \in NamedAccounts => ClaimAllowed(p, a)
                         /\ IsOwner(p, a) =>
                               /\ UnclaimAllowed(p, a)
                               /\ \A b \in Candidates(a) : TransferAllowed(p, a, b)
    BY DEF OffersAreAccepted
  <2> DEFINE p == proposal
             a == Viewer[t]
  <2>0. p \in Proposal
    BY DEF TypeInv, TypeOK
  <2>1. /\ CanEditSection(p) => EditAllowed(p, a)
        /\ \A s \in Sections : CanRegenerateSection(p, s) => StartRegenerationAllowed(p, a, s)
        /\ \A s \in Sections : CanApproveSection(p, s) => ApproveSectionAllowed(p, a)
    BY DEF CanEditSection, EditAllowed, CanRegenerateSection, StartRegenerationAllowed,
           CanRegenerate, CanApproveSection, ApproveSectionAllowed, EditableSectionStatuses
  <2>2. /\ CanSubmitForApproval(p) => SubmitAllowed(p, a)
        /\ CanRequestChangesOrReject(p) => RequestChangesAllowed(p, a)
        /\ CanTriggerGeneration(p) => StartGenerationAllowed(p, a)
        /\ CanGenerateDocument(p) => StartDocumentAllowed(p, a)
        /\ CanDeliver(p) => StartDeliveryAllowed(p, a)
    BY DEF CanSubmitForApproval, SubmitAllowed, CanRequestChangesOrReject, RequestChangesAllowed,
           CanTriggerGeneration, StartGenerationAllowed, CanGenerateDocument,
           StartDocumentAllowed, CanDeliver, StartDeliveryAllowed, CanTransition, AllowedTransitions
  <2>3. CanRequestChangesOrReject(p) => RejectAllowed(p, a)
    BY <2>0, RuleStatuses
       DEF CanRequestChangesOrReject, RejectAllowed, CanTransition, AllowedTransitions
  <2>4. CanApproveProposal(p) => ApproveAllAllowed(p, a)
    <3> DEFINE q == Transitioned(AllSectionsApproved(p), "PENDING_APPROVAL")
    <3>1. q.status = "PENDING_APPROVAL" /\ PendingSections(q) = {}
      BY <2>0 DEF Transitioned, AllSectionsApproved, PendingSections, Proposal, Section
    <3>2. CanTransition(q, "APPROVED")
      BY <3>1 DEF CanTransition, AllowedTransitions
    <3>3. QED
      BY <3>2 DEF CanApproveProposal, ApproveAllAllowed
  <2>5. /\ CanClaim(p) /\ a \in NamedAccounts => ClaimAllowed(p, a)
        /\ IsOwner(p, a) => /\ UnclaimAllowed(p, a)
                            /\ \A b \in Candidates(a) : TransferAllowed(p, a, b)
    BY DEF CanClaim, ClaimAllowed, IsOwner, UnclaimAllowed, TransferAllowed, Candidates
  <2>6. QED
    BY <2>1, <2>2, <2>3, <2>4, <2>5
<1>2. QED
  BY <1>1, AlwaysTyped, PTL

-----------------------------------------------------------------------------
(* What a step of the server can make of the status *)

(* No job's commit brings a status but those its outcomes have: a column   *)
(* it has not set keeps what is stored.                                    *)
OutcomeStatuses == {
    "IN_REVIEW", "GENERATION_FAILED", "DOCUMENT_READY", "DOCUMENT_GENERATION_FAILED",
    "DELIVERED", "DELIVERY_FAILED"}

Unmoved == proposal'.status = proposal.status

LEMMA JobMovesStatus ==
    ASSUME TypeInv, NEW j \in JobIds, JobStep(j) \/ JobRaises(j)
    PROVE  Unmoved \/ proposal'.status \in OutcomeStatuses
<1> DEFINE q == jobs[j].snapshot
<1>0. proposal \in Proposal /\ jobs \in [JobIds -> Job]
  BY DEF TypeInv, TypeOK
<1>1. ASSUME NEW r, CommitJob(j, r), r.status = q.status \/ r.status \in OutcomeStatuses
      PROVE  Unmoved \/ proposal'.status \in OutcomeStatuses
  BY <1>1 DEF CommitJob, Committed, Column, Unmoved
<1>2. jobs[j].phase \in {"running", "uploaded", "sent"} /\ jobs[j].kind # "none" => q \in Proposal
  BY DEF TypeInv, JobShape
<1>3. ASSUME AbandonGeneration PROVE Unmoved \/ proposal'.status \in OutcomeStatuses
  BY <1>0, <1>3, RuleStatuses DEF AbandonGeneration, Unmoved, OutcomeStatuses
<1>4. CASE Load(j) \/ RegenerationFails(j) \/ UploadDocument(j) \/ SendEmail(j)
  BY <1>4 DEF Load, RegenerationFails, UploadDocument, SendEmail, Unmoved
<1>5. CASE LoadDelivery(j)
  BY <1>0, <1>5, RuleStatuses DEF LoadDelivery, Unmoved, OutcomeStatuses
<1>6. CASE GenerationSucceeds(j)
  BY <1>1, <1>2, <1>3, <1>6, RuleStatuses DEF GenerationSucceeds, At, OutcomeStatuses
<1>7. CASE GenerationFails(j)
  BY <1>1, <1>2, <1>3, <1>7, RuleStatuses DEF GenerationFails, At, OutcomeStatuses
<1>8. CASE RegenerationSucceeds(j)
  <2>1. q \in Proposal /\ jobs[j].section \in Sections
    BY <1>8 DEF RegenerationSucceeds, At, TypeInv, JobShape
  <2>2. QED
    BY <1>1, <1>8, <2>1, RuleStatuses DEF RegenerationSucceeds
<1>9. CASE DocumentReady(j) \/ DocumentFails(j)
  BY <1>1, <1>2, <1>9, RuleStatuses DEF DocumentReady, DocumentFails, At, OutcomeStatuses, Unmoved
<1>10. CASE RecordDelivery(j) \/ SendFails(j)
  BY <1>1, <1>2, <1>10, RuleStatuses DEF RecordDelivery, SendFails, At, OutcomeStatuses, Unmoved
<1>11. CASE JobRaises(j)
  BY <1>3, <1>11 DEF JobRaises, Unmoved
<1>12. QED
  BY <1>4, <1>5, <1>6, <1>7, <1>8, <1>9, <1>10, <1>11 DEF JobStep

LEMMA RequestMovesStatus ==
    ASSUME TypeInv, NEW a \in Actors, SalespersonStep(a)
    PROVE  \/ Unmoved
           \/ proposal'.status \in
                 {"IN_REVIEW", "PENDING_APPROVAL", "APPROVED", "DOCUMENT_GENERATING", "DELIVERING"}
           \/ proposal'.status = "GENERATING" /\ StartGeneration(a)
<1> DEFINE Goal == \/ Unmoved
                   \/ proposal'.status \in {"IN_REVIEW", "PENDING_APPROVAL", "APPROVED",
                                            "DOCUMENT_GENERATING", "DELIVERING"}
                   \/ proposal'.status = "GENERATING" /\ StartGeneration(a)
<1>0. proposal \in Proposal
  BY DEF TypeInv, TypeOK
<1>1. ASSUME NEW s \in Sections, NEW text \in Contents, UpdateSection(a, s, text) PROVE Goal
  BY <1>0, <1>1, RuleStatuses DEF UpdateSection, Unmoved
<1>2. ASSUME NEW s \in Sections, ApproveSection(a, s) \/ StartRegeneration(a, s) PROVE Goal
  BY <1>0, <1>2, RuleStatuses DEF ApproveSection, StartRegeneration, Unmoved
<1>3. CASE SubmitForApproval(a) \/ ApproveProposal(a) \/ RequestChanges(a) \/ Reject(a)
  BY <1>0, <1>3, RuleStatuses DEF SubmitForApproval, ApproveProposal, RequestChanges, Reject
<1>4. CASE Claim(a) \/ Unclaim(a) \/ \E b \in Accounts : Transfer(a, b)
  BY <1>0, <1>4, RuleStatuses DEF Claim, Unclaim, Transfer, Unmoved
<1>5. CASE StartGeneration(a) \/ StartDocument(a) \/ StartDelivery(a)
  BY <1>0, <1>5, RuleStatuses DEF StartGeneration, StartDocument, StartDelivery
<1>6. QED
  BY <1>1, <1>2, <1>3, <1>4, <1>5 DEF SalespersonStep

-----------------------------------------------------------------------------
(* No dead end: a rejected proposal is back in review within the request   *)
(* that rejects it, and no job's commit brings a rejection back.           *)
NeverRejected == proposal.status # "REJECTED"

LEMMA RejectionPasses == TypeInv /\ NeverRejected /\ [Next]_vars => NeverRejected'
<1>1. ASSUME NeverRejected, Unmoved \/ proposal'.status \in OutcomeStatuses PROVE NeverRejected'
  BY <1>1 DEF NeverRejected, Unmoved, OutcomeStatuses
<1>2. ASSUME TypeInv, NeverRejected, NEW a \in Actors, SalespersonStep(a) PROVE NeverRejected'
  BY <1>2, RequestMovesStatus DEF NeverRejected, Unmoved
<1>3. ASSUME NeverRejected, Restart \/ UNCHANGED vars PROVE NeverRejected'
  BY <1>3 DEF Restart, vars, NeverRejected
<1>4. QED
  BY <1>1, <1>2, <1>3, JobMovesStatus DEF Next

(* Unless a job works on it or it is delivered, a page that is up to date  *)
(* offers a way on that changes the proposal's status.                     *)
THEOREM PagesHaveNoDeadEnd == PageSpec => []NoDeadEnd
<1>1. PageInit => TypeInv /\ NeverRejected
  BY InitTypeInv DEF PageInit, Init, IntakeProposal, NeverRejected
<1>2. TypeInv /\ NeverRejected /\ [PageNext]_pageVars => (TypeInv /\ NeverRejected)'
  BY TypeInvKept, RejectionPasses, PageStepIsStep
<1>3. TypeInv /\ NeverRejected => NoDeadEnd
  <2> SUFFICES ASSUME TypeInv, NeverRejected PROVE NoDeadEnd
    OBVIOUS
  <2>1. proposal.status \in ProposalStatus \ {"REJECTED"}
    BY DEF TypeInv, TypeOK, Proposal, NeverRejected
  <2>2. QED
    BY <2>1 DEF NoDeadEnd, ProposalStatus, CanSubmitForApproval, CanApproveProposal,
                CanTriggerGeneration, CanGenerateDocument, CanDeliver
<1>4. QED
  BY <1>1, <1>2, <1>3, PTL DEF PageSpec

-----------------------------------------------------------------------------
(* One tab.  While everything that was accepted came from one tab, the     *)
(* page there never shows a proposal to be approved when it is being       *)
(* generated: the generation was started from that page, which showed a    *)
(* draft or a failed generation, and has shown the truth since.            *)
SafeFrom(t) ==
    acted \subseteq {t} =>
        /\ StatusWaitsForJob
        /\ t \in Tabs /\ pages[t] # Blank /\ proposal.status = "GENERATING" =>
              pages[t].status # "PENDING_APPROVAL"

LoneInv ==
    /\ TypeInv
    /\ IsFiniteSet(acted) /\ pages \in [Tabs -> Proposal \cup {Blank}]
    /\ \A t : SafeFrom(t)

LEMMA RenderIsSafe ==
    ASSUME LoneInv, NEW u \in Tabs, Render(u), NEW t
    PROVE  SafeFrom(t)'
<1>1. CASE acted \subseteq {t}
  <2>1. SafeFrom(t) /\ UNCHANGED vars /\ UNCHANGED acted
    BY DEF LoneInv, Render
  <2>2. StatusWaitsForJob'
    BY <1>1, <2>1 DEF SafeFrom, vars, StatusWaitsForJob
  <2>3. t \in Tabs => pages'[t] = pages[t] \/ pages'[t] = proposal
    BY DEF LoneInv, Render
  <2>4. QED
    BY <1>1, <2>1, <2>2, <2>3 DEF SafeFrom, vars
<1>2. CASE ~(acted \subseteq {t})
  BY <1>2 DEF Render, SafeFrom
<1>3. QED
  BY <1>1, <1>2

(* A page that moves a proposal out of a generation shows it waiting for   *)
(* approval, and one that starts a generation shows a draft or a failure.  *)
LEMMA ClickMovesStatus ==
    ASSUME TypeInv, NEW u \in Tabs, Click(u)
    PROVE  /\ proposal.status = "GENERATING" /\ ~Unmoved => pages[u].status = "PENDING_APPROVAL"
           /\ proposal'.status = "GENERATING" /\ ~Unmoved =>
                 pages[u].status \in {"DRAFT", "GENERATION_FAILED"}
<1> DEFINE a == Viewer[u]
           Goal == /\ proposal.status = "GENERATING" /\ ~Unmoved =>
                         pages[u].status = "PENDING_APPROVAL"
                   /\ proposal'.status = "GENERATING" /\ ~Unmoved =>
                         pages[u].status \in {"DRAFT", "GENERATION_FAILED"}
<1>0. proposal \in Proposal
  BY DEF TypeInv, TypeOK
<1>1. ASSUME NEW s \in Sections, ClickSection(u, s) PROVE Goal
  <2>1. ASSUME NEW text \in Contents, UpdateSection(a, s, text) PROVE Goal
    BY <1>0, <2>1, RuleStatuses DEF UpdateSection, EditAllowed, EditableSectionStatuses, Unmoved
  <2>2. ASSUME StartRegeneration(a, s) PROVE Goal
    BY <1>0, <2>2, RuleStatuses
       DEF StartRegeneration, StartRegenerationAllowed, EditableSectionStatuses, Unmoved
  <2>3. ASSUME ApproveSection(a, s) PROVE Goal
    BY <1>0, <2>3, RuleStatuses DEF ApproveSection, Unmoved
  <2>4. QED
    BY <1>1, <2>1, <2>2, <2>3 DEF ClickSection
<1>2. CASE ClickApprovalPanel(u)
  <2>1. SubmitForApproval(a) => Goal
    BY <1>0, RuleStatuses DEF SubmitForApproval, SubmitAllowed, CanTransition, AllowedTransitions
  <2>2. ApproveProposal(a) => Goal
    BY <1>0, RuleStatuses DEF ApproveProposal, ApproveAllAllowed
  <2>3. CanRequestChangesOrReject(pages[u]) /\ (RequestChanges(a) \/ Reject(a)) => Goal
    BY <1>0, RuleStatuses DEF RequestChanges, Reject, CanRequestChangesOrReject
  <2>4. QED
    BY <1>2, <2>1, <2>2, <2>3 DEF ClickApprovalPanel
<1>3. CASE ClickJob(u)
  <2>1. CanTriggerGeneration(pages[u]) /\ StartGeneration(a) => Goal
    BY <1>0, RuleStatuses
       DEF StartGeneration, StartGenerationAllowed, CanTransition, AllowedTransitions,
           CanTriggerGeneration
  <2>2. StartDocument(a) => Goal
    BY <1>0, RuleStatuses DEF StartDocument, StartDocumentAllowed, CanTransition, AllowedTransitions
  <2>3. StartDelivery(a) => Goal
    BY <1>0, RuleStatuses DEF StartDelivery, StartDeliveryAllowed, CanTransition, AllowedTransitions
  <2>4. QED
    BY <1>3, <2>1, <2>2, <2>3 DEF ClickJob
<1>4. CASE ClickOwnership(u)
  BY <1>0, <1>4, RuleStatuses DEF ClickOwnership, Claim, Unclaim, Transfer, Unmoved
<1>5. QED
  BY <1>1, <1>2, <1>3, <1>4 DEF Click

LEMMA ClickIsSafe ==
    ASSUME LoneInv, NEW u \in Tabs, Click(u), NEW t
    PROVE  SafeFrom(t)'
<1> SUFFICES ASSUME acted' \subseteq {t}
             PROVE  /\ StatusWaitsForJob'
                    /\ t \in Tabs /\ pages'[t] # Blank /\ proposal'.status = "GENERATING" =>
                          pages'[t].status # "PENDING_APPROVAL"
  BY DEF SafeFrom
<1>1. u = t /\ acted \subseteq {t} /\ UNCHANGED pages /\ pages[u] # Blank
  BY DEF Click
<1>2. /\ WaitInv
      /\ proposal.status = "GENERATING" => pages[u].status # "PENDING_APPROVAL"
  BY <1>1 DEF LoneInv, SafeFrom, WaitInv
<1>3. SalespersonStep(Viewer[u]) /\ Viewer[u] \in Actors
  BY ClickIsRequest
<1>4. /\ proposal.status = "GENERATING" /\ ~Unmoved => pages[u].status = "PENDING_APPROVAL"
      /\ proposal'.status = "GENERATING" /\ ~Unmoved =>
            pages[u].status \in {"DRAFT", "GENERATION_FAILED"}
  BY ClickMovesStatus DEF LoneInv
<1>5. Considerate(Viewer[u])
  <2> SUFFICES ASSUME RequestChanges(Viewer[u]), proposal.status = "GENERATING" PROVE FALSE
    BY DEF Considerate
  <2>1. proposal'.status = "IN_REVIEW"
    BY RuleStatuses DEF RequestChanges, LoneInv, TypeInv, TypeOK
  <2>2. QED
    BY <1>2, <1>4, <2>1 DEF Unmoved
<1>6. StatusWaitsForJob'
  BY <1>2, <1>3, <1>5, RequestsKeepWait
<1>7. QED
  BY <1>1, <1>2, <1>4, <1>6 DEF Unmoved

LEMMA ServerStepIsSafe ==
    ASSUME LoneInv, ServerStep, NEW t
    PROVE  SafeFrom(t)'
<1>1. UNCHANGED <<pages, acted>>
  BY DEF ServerStep
<1>2. CASE acted \subseteq {t}
  <2>1. WaitInv
    BY <1>2 DEF LoneInv, SafeFrom, WaitInv
  <2>2. StatusWaitsForJob'
    <3>1. CASE Restart
      BY <2>1, <3>1 DEF Restart, WaitInv, StatusWaitsForJob, Idle
    <3>2. ASSUME NEW j \in JobIds, JobStep(j) \/ JobRaises(j) PROVE StatusWaitsForJob'
      BY <2>1, <3>2, JobStepKeepsWait
    <3>3. QED
      BY <3>1, <3>2 DEF ServerStep
  <2>3. Unmoved \/ proposal'.status \in OutcomeStatuses
    BY JobMovesStatus DEF ServerStep, Restart, Unmoved, LoneInv
  <2>4. QED
    BY <1>1, <1>2, <2>2, <2>3 DEF LoneInv, SafeFrom, Unmoved, OutcomeStatuses
<1>3. CASE ~(acted \subseteq {t})
  BY <1>1, <1>3 DEF SafeFrom
<1>4. QED
  BY <1>2, <1>3

LEMMA LoneInvKept == LoneInv /\ [PageNext]_pageVars => LoneInv'
<1> SUFFICES ASSUME LoneInv, [PageNext]_pageVars PROVE LoneInv'
  OBVIOUS
<1>1. TypeInv'
  BY TypeInvKept, PageStepIsStep DEF LoneInv
<1>2. /\ IsFiniteSet(acted')
      /\ pages' \in [Tabs -> Proposal \cup {Blank}]
  <2>1. ASSUME NEW u \in Tabs, Click(u) PROVE IsFiniteSet(acted') /\ UNCHANGED pages
    BY <2>1, FS_AddElement DEF Click, LoneInv
  <2>2. ASSUME NEW u \in Tabs, Render(u)
        PROVE  UNCHANGED acted /\ pages' \in [Tabs -> Proposal \cup {Blank}]
    BY <2>2 DEF Render, LoneInv, TypeInv, TypeOK
  <2>3. ServerStep \/ UNCHANGED pageVars => UNCHANGED <<acted, pages>>
    BY DEF ServerStep, pageVars
  <2>4. QED
    BY <2>1, <2>2, <2>3 DEF PageNext, LoneInv
<1>3. ASSUME NEW t PROVE SafeFrom(t)'
  <2>1. CASE UNCHANGED pageVars
    BY <2>1 DEF pageVars, LoneInv, SafeFrom, StatusWaitsForJob
  <2>2. QED
    BY <2>1, RenderIsSafe, ClickIsSafe, ServerStepIsSafe DEF PageNext
<1>4. QED
  BY <1>1, <1>2, <1>3 DEF LoneInv

LEMMA LoneInvInit == PageInit => LoneInv
<1> SUFFICES ASSUME PageInit PROVE LoneInv
  OBVIOUS
<1>1. TypeInv /\ IsFiniteSet(acted) /\ pages \in [Tabs -> Proposal \cup {Blank}]
  BY InitTypeInv, FS_EmptySet DEF PageInit
<1>2. StatusWaitsForJob
  BY DEF PageInit, Init, Idle, StatusWaitsForJob
<1>3. \A t : SafeFrom(t)
  BY <1>2 DEF PageInit, SafeFrom
<1>4. QED
  BY <1>1, <1>3 DEF LoneInv

(* A proposal driven from a single tab, however stale, is safe from what   *)
(* request-changes does to a proposal that is being generated, although    *)
(* the server would take the request.                                      *)
THEOREM OneTabIsSafe == PageSpec => []LoneTabIsSafe
<1>1. LoneInv => LoneTabIsSafe
  <2> SUFFICES ASSUME LoneInv, Cardinality(acted) <= 1 PROVE StatusWaitsForJob
    BY DEF LoneTabIsSafe
  <2>1. IsFiniteSet(acted) /\ Cardinality(acted) \in {0, 1}
    BY FS_CardinalityType DEF LoneInv
  <2>2. \E t : acted \subseteq {t}
    BY <2>1, FS_EmptySet, FS_Singleton
  <2>3. QED
    BY <2>2 DEF LoneInv, SafeFrom
<1>2. QED
  BY <1>1, LoneInvInit, LoneInvKept, PTL DEF PageSpec

=============================================================================
