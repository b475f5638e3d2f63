--------------------------- MODULE ProposalPromise ---------------------------
(***************************************************************************)
(* What the workflow promises a client, without sections, jobs, requests   *)
(* or records: texts are approved, one document is made of them, and that  *)
(* document, never another, is emailed before the proposal counts as       *)
(* delivered.  ProposalWorkflow implements it.                             *)
(***************************************************************************)
EXTENDS Naturals

CONSTANTS Texts, NoDocument, NoApproval

VARIABLES
    stage,      \* how far the proposal is
    approval,   \* the texts approved; quiet if nothing was still rewriting them
    document,   \* the document in storage
    emails      \* emails that reached the mail service

vars == <<stage, approval, document, emails>>

Stages == {"review", "approved", "rendering", "ready", "delivered"}

Approval == [texts : Texts, quiet : BOOLEAN]

Init ==
    /\ stage = "review"
    /\ approval = NoApproval
    /\ document = NoDocument
    /\ emails = 0

Approve ==
    /\ stage = "review"
    /\ stage' = "approved"
    /\ approval' \in Approval
    /\ UNCHANGED <<document, emails>>

Reopen ==
    /\ stage = "approved"
    /\ stage' = "review"
    /\ approval' = NoApproval
    /\ UNCHANGED <<document, emails>>

StartDocument ==
    /\ stage = "approved"
    /\ stage' = "rendering"
    /\ UNCHANGED <<approval, document, emails>>

(* Also again, after a failure. *)
Render ==
    /\ stage = "rendering"
    /\ document' \in Texts
    /\ approval.quiet => document' = approval.texts
    /\ UNCHANGED <<stage, approval, emails>>

Finish ==
    /\ stage = "rendering"
    /\ document # NoDocument
    /\ stage' = "ready"
    /\ UNCHANGED <<approval, document, emails>>

(* Also again, after a failure. *)
Send ==
    /\ stage = "ready"
    /\ emails' = emails + 1
    /\ UNCHANGED <<stage, approval, document>>

Deliver ==
    /\ stage = "ready"
    /\ emails > 0
    /\ stage' = "delivered"
    /\ UNCHANGED <<approval, document, emails>>

Next == Approve \/ Reopen \/ StartDocument \/ Render \/ Finish \/ Send \/ Deliver

Spec == Init /\ [][Next]_vars

=============================================================================
