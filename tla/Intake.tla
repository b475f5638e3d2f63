------------------------------- MODULE Intake -------------------------------
(***************************************************************************)
(* POST /intake, called by n8n for every row of the form's sheet.  The     *)
(* look-up by key and the insert are separate statements, so posts         *)
(* overlap; the unique constraint on intake_key refuses the later insert,  *)
(* which is an error to the caller.  A retry by n8n (of a post that        *)
(* failed, or whose answer was lost) and a client who fills in the form    *)
(* again are further posts.                                                *)
(***************************************************************************)
EXTENDS ProposalTables, IntakeKeys

CONSTANTS
    Posts,          \* bound: posts sent, retries included
    NoForm, NoProposal

ASSUME IntakeAssumption == \A form \in Forms : ComputeIntakeKey(form) \in Keys

VARIABLE posts      \* the caller's view of each post

Post == [phase : {"unsent", "inserting", "answered", "failed"},
         form : Forms \cup {NoForm}, proposal : ProposalIds \cup {NoProposal}]

IntakeInit ==
    posts = [q \in Posts |-> [phase |-> "unsent", form |-> NoForm, proposal |-> NoProposal]]

Fail(q) ==
    posts' = [posts EXCEPT ![q] = [phase |-> "failed", form |-> NoForm, proposal |-> NoProposal]]

IntakeKey == [form \in Forms |-> ComputeIntakeKey(form)]

(* Mutant: the look-up goes by the company alone. *)
HoldersOfCompany(form) ==
    {p \in ProposalIds : Exists(p) /\ proposals[p].form.company_name = form.company_name}

Holders(form) == {p \in ProposalIds : Exists(p) /\ proposals[p].key = IntakeKey[form]}

(* The answer names the proposal, and may be lost on its way. *)
Answer(q, form, p) ==
    \/ posts' = [posts EXCEPT ![q] = [phase |-> "answered", form |-> form, proposal |-> p]]
    \/ Fail(q)

(* A post arrives and its key is looked up. *)
LookUp(q, form) ==
    /\ posts[q].phase = "unsent"
    /\ IF Holders(form) # {}
       THEN \E p \in Holders(form) : Answer(q, form, p)
       ELSE posts' = [posts EXCEPT ![q] = [@ EXCEPT !.phase = "inserting", !.form = form]]
    /\ UNCHANGED tables

(* Proposal, sections, submission and log entry are one commit. *)
CreateProposal(q) == \E p \in ProposalIds \ issued :
    /\ Commit(p, [key |-> IntakeKey[posts[q].form], form |-> posts[q].form,
                  status |-> "DRAFT", updated |-> now, entry |-> now])
    /\ issued' = issued \cup {p}
    /\ Answer(q, posts[q].form, p)

(* Mutant: intake_key is not unique. *)
InsertUnconstrained(q) ==
    /\ posts[q].phase = "inserting"
    /\ CreateProposal(q)
    /\ UNCHANGED <<now, responses>>

Insert(q) ==
    /\ posts[q].phase = "inserting"
    /\ Holders(posts[q].form) = {}
    /\ CreateProposal(q)
    /\ UNCHANGED <<now, responses>>

(* IntegrityError: nothing is stored and the caller gets a 500. *)
InsertConflicts(q) ==
    /\ posts[q].phase = "inserting"
    /\ Holders(posts[q].form) # {}
    /\ Fail(q)
    /\ UNCHANGED tables

(* The server goes down before anything is stored. *)
PostLost(q) ==
    /\ posts[q].phase = "inserting"
    /\ Fail(q)
    /\ UNCHANGED tables

IntakeStep == \E q \in Posts :
    \/ \E form \in Forms : LookUp(q, form)
    \/ Insert(q) \/ InsertConflicts(q) \/ PostLost(q)

-----------------------------------------------------------------------------
SameRequests == {pair \in Forms \X Forms : SameRequest(pair[1], pair[2])}

(* What the key is for: two forms have the same key exactly if they are    *)
(* the same request.  It depends on the texts: a field may hold the mark   *)
(* that joins the fields, and a text may have no word.                     *)
KeysTellRequestsApart ==
    \A form, other \in Forms :
        <<form, other>> \in SameRequests <=> IntakeKey[form] = IntakeKey[other]

(* A request has one proposal at a time, however often and however         *)
(* overlapping it is posted and retried, and however differently it is     *)
(* spaced, capitalised and punctuated: no second proposal is generated,    *)
(* priced and sent to the same client.                                     *)
OneProposalPerRequest ==
    \A p, o \in ProposalIds : p # o /\ Exists(p) /\ Exists(o) =>
        <<proposals[p].form, proposals[o].form>> \notin SameRequests

(* Whoever is answered is given the proposal of its own request, as long   *)
(* as retention leaves that one alone: a key never swallows a different    *)
(* request.                                                                *)
AnswersNameTheRequest ==
    \A q \in Posts : posts[q].phase = "answered" /\ Exists(posts[q].proposal) =>
        <<proposals[posts[q].proposal].form, posts[q].form>> \in SameRequests

=============================================================================
