--------------------------- MODULE ProposalDomain ---------------------------
(***************************************************************************)
(* The rules of one proposal, as functions of its row: what a request may  *)
(* do to a proposal it has loaded (an ...Allowed operator, the guards the  *)
(* service raises on) and the row it then leaves in its session (the       *)
(* operator named for the outcome).  Nothing here says when a row is       *)
(* loaded or committed: that is the business of the modules that use it.   *)
(*                                                                         *)
(* A row holds the columns of `proposals` and `proposal_sections` that a   *)
(* guard reads or that the properties are about.  The text of a section is *)
(* a member of Contents; origin, version and regeneration log are left     *)
(* out (no guard reads them).                                              *)
(***************************************************************************)
EXTENDS Naturals

CONSTANTS
    Accounts,                 \* approved salesperson accounts
    NamedAccounts,            \* those that have set a display name
    NoAccount,                \* NULL salesperson_account_id; also the dev token's identity
    FormName,                 \* a salesperson_name typed on the intake form
    NoName,                   \* NULL salesperson_name
    Sections,                 \* SectionKey
    Contents,                 \* texts a section can hold
    Template,                 \* the text intake puts in every section
    MaxRegenerationAttempts   \* 3 in the code

ASSUME AccountsAssumption == NamedAccounts \subseteq Accounts /\ NoAccount \notin Accounts
ASSUME NamesAssumption == NoName # FormName /\ NoName \notin Accounts
ASSUME TemplateAssumption == Template \in Contents
ASSUME AttemptsAssumption == MaxRegenerationAttempts \in Nat

(* Whoever holds a valid session: an account, or the dev token, which has  *)
(* no account row.                                                         *)
Actors == Accounts \cup {NoAccount}

-----------------------------------------------------------------------------
(* Statuses and transitions *)

ProposalStatus == {"DRAFT", "GENERATING", "GENERATION_FAILED", "IN_REVIEW",
    "PENDING_APPROVAL", "APPROVED", "DOCUMENT_GENERATING",
    "DOCUMENT_GENERATION_FAILED", "DOCUMENT_READY", "DELIVERING",
    "DELIVERY_FAILED", "DELIVERED", "REJECTED", "CLOSED"}

AllowedTransitions == {
    <<"DRAFT", "GENERATING">>,
    <<"GENERATING", "IN_REVIEW">>, <<"GENERATING", "GENERATION_FAILED">>,
    <<"GENERATION_FAILED", "GENERATING">>,
    <<"IN_REVIEW", "GENERATING">>, <<"IN_REVIEW", "PENDING_APPROVAL">>,
    <<"PENDING_APPROVAL", "IN_REVIEW">>, <<"PENDING_APPROVAL", "APPROVED">>,
    <<"PENDING_APPROVAL", "REJECTED">>, <<"REJECTED", "IN_REVIEW">>,
    <<"APPROVED", "DOCUMENT_GENERATING">>, <<"APPROVED", "IN_REVIEW">>,
    <<"DOCUMENT_GENERATING", "DOCUMENT_READY">>,
    <<"DOCUMENT_GENERATING", "DOCUMENT_GENERATION_FAILED">>,
    <<"DOCUMENT_GENERATION_FAILED", "DOCUMENT_GENERATING">>,
    <<"DOCUMENT_READY", "DELIVERING">>,
    <<"DELIVERING", "DELIVERED">>, <<"DELIVERING", "DELIVERY_FAILED">>,
    <<"DELIVERY_FAILED", "DELIVERING">>, <<"DELIVERED", "CLOSED">>}

EditableSectionStatuses == {"IN_REVIEW", "PENDING_APPROVAL", "APPROVED"}

ContentOf(p) == [s \in Sections |-> p.sections[s].content]

PendingSections(p) == {s \in Sections : p.sections[s].approval # "APPROVED"}

(* transition_proposal: the edge is in the table, and a target of APPROVED *)
(* needs every section approved.                                           *)
CanTransition(p, target) ==
    /\ <<p.status, target>> \in AllowedTransitions
    /\ target = "APPROVED" => PendingSections(p) = {}

Transitioned(p, target) == [p EXCEPT !.status = target]

(* assert_owns_proposal: an unclaimed proposal is open to every actor. *)
OwnsProposal(p, a) == p.owner \in {NoAccount, a}

RegenerationInvalidatesApproval(status) == status \in {"PENDING_APPROVAL", "APPROVED"}

(* Mutant: the return to review writes a status the enum does not have. *)
ReopenedMisnamed(p) ==
    IF RegenerationInvalidatesApproval(p.status)
    THEN Transitioned(p, "APPROVAL_INVALIDATED") ELSE p

(* The forced return to review that edits and regenerations share. *)
Reopened(p) ==
    IF RegenerationInvalidatesApproval(p.status) THEN Transitioned(p, "IN_REVIEW") ELSE p

-----------------------------------------------------------------------------
(* The row *)

Section == [content : Contents, approval : {"PENDING", "APPROVED"}, regenerations : Nat]

(* The display name of an account stands for itself: it is the account.    *)
Proposal == [status : ProposalStatus, owner : Accounts \cup {NoAccount},
             name : NamedAccounts \cup {FormName, NoName},
             sections : [Sections -> Section]]

(* A proposal as intake creates it: the form may or may not name a         *)
(* salesperson, and never sets the owning account.                         *)
IntakeProposal(name) ==
    [status |-> "DRAFT", owner |-> NoAccount, name |-> name,
     sections |-> [s \in Sections |->
        [content |-> Template, approval |-> "PENDING", regenerations |-> 0]]]

-----------------------------------------------------------------------------
(* Section edits, approvals and review decisions *)

EditAllowed(p, a) == OwnsProposal(p, a) /\ p.status \in EditableSectionStatuses

(* Mutant: an edit leaves the proposal approved. *)
EditedInPlace(p, s, text) ==
    [p EXCEPT !.sections[s].content = text, !.sections[s].approval = "PENDING"]

Edited(p, s, text) ==
    Reopened([p EXCEPT !.sections[s].content = text, !.sections[s].approval = "PENDING"])

ApproveSectionAllowed(p, a) == OwnsProposal(p, a) /\ p.status = "IN_REVIEW"

SectionApproved(p, s) == [p EXCEPT !.sections[s].approval = "APPROVED"]

(* Mutant: submitting checks that the sections are editable, not the table. *)
SubmitAllowedWhileEditable(p, a) == OwnsProposal(p, a) /\ p.status \in EditableSectionStatuses

SubmitAllowed(p, a) == OwnsProposal(p, a) /\ CanTransition(p, "PENDING_APPROVAL")

(* approve_entire_proposal marks every section approved, then walks the    *)
(* proposal through PENDING_APPROVAL (from IN_REVIEW) to APPROVED.         *)
AllSectionsApproved(p) ==
    [p EXCEPT !.sections = [s \in Sections |-> [@[s] EXCEPT !.approval = "APPROVED"]]]

ApproveAllAllowed(p, a) ==
    /\ OwnsProposal(p, a)
    /\ p.status \in {"IN_REVIEW", "PENDING_APPROVAL"}
    /\ CanTransition(Transitioned(AllSectionsApproved(p), "PENDING_APPROVAL"), "APPROVED")

(* Mutant: the proposal is approved, its sections are not. *)
WhollyApprovedLeavingSections(p) == Transitioned(p, "APPROVED")

WhollyApproved(p) == Transitioned(AllSectionsApproved(p), "APPROVED")

(* request_changes relies on the table alone, so it is open from every     *)
(* status with an edge to IN_REVIEW, GENERATING among them.                *)
RequestChangesAllowed(p, a) == OwnsProposal(p, a) /\ CanTransition(p, "IN_REVIEW")

(* PENDING_APPROVAL -> REJECTED -> IN_REVIEW in one call. *)
RejectAllowed(p, a) ==
    /\ OwnsProposal(p, a)
    /\ CanTransition(p, "REJECTED")
    /\ CanTransition(Transitioned(p, "REJECTED"), "IN_REVIEW")

-----------------------------------------------------------------------------
(* Ownership *)

(* Only an account with a display name claims, and only a proposal that    *)
(* carries no salesperson name.                                            *)
ClaimAllowed(p, a) == a \in NamedAccounts /\ p.name = NoName

Claimed(p, a) == [p EXCEPT !.owner = a, !.name = a]

(* Mutant: anyone may release a claimed proposal. *)
UnclaimAllowedToAnyone(p, a) == p.owner # NoAccount

UnclaimAllowed(p, a) == p.owner # NoAccount /\ OwnsProposal(p, a)

(* Mutant: a release clears the name and keeps the account. *)
UnclaimedKeepingOwner(p) == [p EXCEPT !.name = NoName]

Unclaimed(p) == [p EXCEPT !.owner = NoAccount, !.name = NoName]

(* Accounts holds approved accounts only, so the approval half of the      *)
(* target check is the membership of b in it.                              *)
TransferAllowed(p, a, b) == p.owner # NoAccount /\ OwnsProposal(p, a) /\ b \in NamedAccounts

Transferred(p, b) == [p EXCEPT !.owner = b, !.name = b]

-----------------------------------------------------------------------------
(* Background work *)

(* start_generation has no ownership check. *)
StartGenerationAllowed(p, a) == CanTransition(p, "GENERATING")

CanRegenerate(p, s) == p.sections[s].regenerations < MaxRegenerationAttempts

StartRegenerationAllowed(p, a, s) ==
    /\ OwnsProposal(p, a)
    /\ p.status \in EditableSectionStatuses
    /\ CanRegenerate(p, s)

(* Mutant: a second document may be asked for while one is generating. *)
StartDocumentAllowedAgain(p, a) ==
    /\ OwnsProposal(p, a)
    /\ \/ CanTransition(p, "DOCUMENT_GENERATING")
       \/ p.status = "DOCUMENT_GENERATING"

StartDocumentAllowed(p, a) == OwnsProposal(p, a) /\ CanTransition(p, "DOCUMENT_GENERATING")

StartDeliveryAllowed(p, a) == OwnsProposal(p, a) /\ CanTransition(p, "DELIVERING")

(* Full generation replaces every text and nothing else of a section. *)
Generated(p, texts) ==
    [p EXCEPT !.status = "IN_REVIEW",
              !.sections = [s \in Sections |-> [@[s] EXCEPT !.content = texts[s]]]]

Regenerated(p, s, text) ==
    [p EXCEPT !.sections[s] = [content |-> text, approval |-> "PENDING",
                               regenerations |-> @.regenerations + 1]]

(* What a commit does to the stored row: the session writes a column only  *)
(* if its value differs from the value loaded, so a column set to what it  *)
(* was when loaded keeps whatever was committed meanwhile.                 *)
Column(stored, loaded, set) == IF set = loaded THEN stored ELSE set

Committed(stored, loaded, set) ==
    [status   |-> Column(stored.status, loaded.status, set.status),
     owner    |-> Column(stored.owner, loaded.owner, set.owner),
     name     |-> Column(stored.name, loaded.name, set.name),
     sections |-> [s \in Sections |->
        LET now == stored.sections[s]
            old == loaded.sections[s]
            new == set.sections[s]
        IN [content       |-> Column(now.content, old.content, new.content),
            approval      |-> Column(now.approval, old.approval, new.approval),
            regenerations |-> Column(now.regenerations, old.regenerations, new.regenerations)]]]

=============================================================================
