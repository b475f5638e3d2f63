---------------------------- MODULE ProposalPage ----------------------------
(***************************************************************************)
(* ProposalWorkflow used through the web app.  A tab shows the proposal as *)
(* it was when the page was rendered, and offers what that rendering says  *)
(* may be done; the server applies its own rules to the stored row.  A tab *)
(* is rendered anew after a request, when it finds a job ended by polling, *)
(* and when someone reloads it; a poll that gives up, or a rendering that  *)
(* has not arrived, leaves it as it is, so a tab may be stale for as long  *)
(* as it likes.  A click the server refuses changes nothing.               *)
(***************************************************************************)
EXTENDS ProposalWorkflow

CONSTANTS
    Tabs,     \* bound: the tabs open on the proposal
    Viewer,   \* the actor signed in to each tab
    Blank     \* a tab before it is first rendered

ASSUME PageAssumption == Viewer \in [Tabs -> Actors]

VARIABLES
    pages,     \* the row each tab shows
    editors,   \* the tabs in which a section's editor may have been opened
    acted      \* history: the tabs whose clicks the server has accepted

pageVars == <<proposal, jobs, artifact, stored, delivery, signoff, pages, editors, acted>>

PageInit ==
    /\ Init
    /\ pages = [t \in Tabs |-> Blank]
    /\ editors = {}
    /\ acted = {}

-----------------------------------------------------------------------------
(* What the web app offers on the row it shows *)

CanEditSection(p) == p.status \in {"IN_REVIEW", "PENDING_APPROVAL", "APPROVED"}

CanRegenerateSection(p, s) ==
    CanEditSection(p) /\ p.sections[s].regenerations < MaxRegenerationAttempts

CanApproveSection(p, s) == p.status = "IN_REVIEW" /\ p.sections[s].approval # "APPROVED"

CanSubmitForApproval(p) == p.status = "IN_REVIEW"

CanApproveProposal(p) == p.status \in {"IN_REVIEW", "PENDING_APPROVAL"}

(* Mutant: changes may be requested wherever the server's table allows it. *)
CanRequestChangesByTable(p) == CanTransition(p, "IN_REVIEW")

CanRequestChangesOrReject(p) == p.status = "PENDING_APPROVAL"

CanTriggerGeneration(p) == p.status \in {"DRAFT", "GENERATION_FAILED"}

(* Mutant: a document that failed is not offered again. *)
CanGenerateDocumentOnce(p) == p.status = "APPROVED"

CanGenerateDocument(p) == p.status \in {"APPROVED", "DOCUMENT_GENERATION_FAILED"}

(* Mutant: a delivered proposal may be delivered again. *)
CanDeliverAgain(p) == p.status \in {"DOCUMENT_READY", "DELIVERY_FAILED", "DELIVERED"}

CanDeliver(p) == p.status \in {"DOCUMENT_READY", "DELIVERY_FAILED"}

CanClaim(p) == p.name = NoName

IsOwner(p, a) == a # NoAccount /\ p.owner = a

(* The colleagues the proposal can be handed to. *)
Candidates(a) == NamedAccounts \ {a}

-----------------------------------------------------------------------------
(* Tabs *)

Render(t) ==
    /\ pages[t] # proposal
    /\ pages' = [pages EXCEPT ![t] = proposal]
    /\ editors' = IF CanEditSection(proposal) THEN editors \cup {t} ELSE editors
    /\ UNCHANGED <<vars, acted>>

(* An editor, or a regeneration's instruction, that was opened while the   *)
(* page offered it stays open when a later rendering no longer would.      *)
ClickSection(t, s) ==
    \/ t \in editors /\ \E text \in Contents : UpdateSection(Viewer[t], s, text)
    \/ t \in editors /\ StartRegeneration(Viewer[t], s)
    \/ CanApproveSection(pages[t], s) /\ ApproveSection(Viewer[t], s)

ClickApprovalPanel(t) ==
    \/ CanSubmitForApproval(pages[t]) /\ SubmitForApproval(Viewer[t])
    \/ CanApproveProposal(pages[t]) /\ ApproveProposal(Viewer[t])
    \/ CanRequestChangesOrReject(pages[t]) /\ (RequestChanges(Viewer[t]) \/ Reject(Viewer[t]))

ClickJob(t) ==
    \/ CanTriggerGeneration(pages[t]) /\ StartGeneration(Viewer[t])
    \/ CanGenerateDocument(pages[t]) /\ StartDocument(Viewer[t])
    \/ CanDeliver(pages[t]) /\ StartDelivery(Viewer[t])

ClickOwnership(t) ==
    \/ CanClaim(pages[t]) /\ Claim(Viewer[t])
    \/ IsOwner(pages[t], Viewer[t]) /\ Unclaim(Viewer[t])
    \/ /\ IsOwner(pages[t], Viewer[t])
       /\ \E b \in Candidates(Viewer[t]) : Transfer(Viewer[t], b)

Click(t) ==
    /\ pages[t] # Blank
    /\ (\E s \in Sections : ClickSection(t, s)) \/ ClickApprovalPanel(t)
          \/ ClickJob(t) \/ ClickOwnership(t)
    /\ acted' = acted \cup {t}
    /\ UNCHANGED <<pages, editors>>

ServerStep ==
    /\ (\E j \in JobIds : JobStep(j) \/ JobRaises(j)) \/ Restart
    /\ UNCHANGED <<pages, editors, acted>>

PageNext == (\E t \in Tabs : Render(t) \/ Click(t)) \/ ServerStep

PageSpec == PageInit /\ [][PageNext]_pageVars

-----------------------------------------------------------------------------
(* Properties *)

(* The web app's copy of the rules agrees with the server's: to someone    *)
(* who may change the proposal, a page that is up to date offers nothing   *)
(* the server would refuse, but for a claim without a display name.        *)
OffersAreAccepted ==
    \A t \in Tabs :
        LET p == pages[t]
            a == Viewer[t]
        IN p = proposal /\ OwnsProposal(p, a) =>
            /\ CanEditSection(p) => EditAllowed(p, a)
            /\ \A s \in Sections : CanRegenerateSection(p, s) => StartRegenerationAllowed(p, a, s)
            /\ \A s \in Sections : CanApproveSection(p, s) => ApproveSectionAllowed(p, a)
            /\ CanSubmitForApproval(p) => SubmitAllowed(p, a)
            /\ CanApproveProposal(p) => ApproveAllAllowed(p, a)
            /\ CanRequestChangesOrReject(p) => RequestChangesAllowed(p, a) /\ RejectAllowed(p, a)
            /\ CanTriggerGeneration(p) => StartGenerationAllowed(p, a)
            /\ CanGenerateDocument(p) => StartDocumentAllowed(p, a)
            /\ CanDeliver(p) => StartDeliveryAllowed(p, a)
            /\ CanClaim(p) /\ a \in NamedAccounts => ClaimAllowed(p, a)
            /\ IsOwner(p, a) => /\ UnclaimAllowed(p, a)
                               /\ \A b \in Candidates(a) : TransferAllowed(p, a, b)

(* A proposal driven from a single tab, however stale that tab may be, is  *)
(* safe from what request-changes does to a proposal that is generating:   *)
(* jobs find the status they commit over, because the web app offers less  *)
(* than the server takes.  With a second tab this is lost (stale_tabs).    *)
LoneTabIsSafe == Cardinality(acted) <= 1 => StatusWaitsForJob

(* The web app has no dead end: unless a job works on the proposal or it   *)
(* is delivered, a page that is up to date offers its viewer a way on that *)
(* changes the proposal's status.                                          *)
NoDeadEnd ==
    \A t \in Tabs : pages[t] = proposal =>
        \/ proposal.status \in {"GENERATING", "DOCUMENT_GENERATING", "DELIVERING",
                                "DELIVERED", "CLOSED"}
        \/ CanSubmitForApproval(pages[t]) \/ CanApproveProposal(pages[t])
        \/ CanTriggerGeneration(pages[t])
        \/ CanGenerateDocument(pages[t]) \/ CanDeliver(pages[t])

=============================================================================
