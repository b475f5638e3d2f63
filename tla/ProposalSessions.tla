-------------------------- MODULE ProposalSessions --------------------------
(***************************************************************************)
(* ProposalWorkflow with requests that overlap.  A request handler loads   *)
(* the proposal into its database session, checks what it loaded and       *)
(* commits what it changed; between the load and the commit it awaits, and *)
(* other requests and background jobs of the same server commit.  No row   *)
(* is locked or versioned, so a commit lands on whatever is stored by then *)
(* (Committed of ProposalDomain).                                          *)
(*                                                                         *)
(* The load is the same for every request, so which request a session      *)
(* serves, and for whom, is chosen when it goes on from its load.          *)
(***************************************************************************)
EXTENDS ProposalWorkflow

CONSTANTS
    SessionIds,   \* bound: requests in progress at once
    Closed

VARIABLE sessions   \* what each request in progress has loaded

allVars == <<proposal, jobs, artifact, stored, delivery, signoff, sessions>>

(* found: what the artifact lookup of generate-document returned. *)
Session == [row : Proposal, found : {"unread", "none", "artifact"}]

SessionsInit == Init /\ sessions = [q \in SessionIds |-> Closed]

Row(q) == sessions[q].row

Loaded(q, found) == sessions[q] # Closed /\ sessions[q].found \in found

Open(q) ==
    /\ sessions[q] = Closed
    /\ sessions' = [sessions EXCEPT ![q] = [row |-> proposal, found |-> "unread"]]
    /\ UNCHANGED vars

CloseSession(q) == sessions' = [sessions EXCEPT ![q] = Closed]

(* The request is refused, by a guard or for want of the row. *)
Refuse(q) ==
    /\ sessions[q] # Closed
    /\ CloseSession(q)
    /\ UNCHANGED vars

(* The session writes what its request changed of the row it loaded. *)
Commit(q, set) ==
    /\ proposal' = Committed(proposal, Row(q), set)
    /\ CloseSession(q)

-----------------------------------------------------------------------------
(* Requests that only change the row *)

RowRequest(q, set) == Commit(q, set) /\ RowOnly

CommitUpdateSection(q, a) ==
    /\ Loaded(q, {"unread"})
    /\ EditAllowed(Row(q), a)
    /\ \E s \in Sections, text \in Contents : RowRequest(q, Edited(Row(q), s, text))

CommitApproveSection(q, a) ==
    /\ Loaded(q, {"unread"})
    /\ ApproveSectionAllowed(Row(q), a)
    /\ \E s \in Sections : RowRequest(q, SectionApproved(Row(q), s))

CommitSubmit(q, a) ==
    /\ Loaded(q, {"unread"})
    /\ SubmitAllowed(Row(q), a)
    /\ RowRequest(q, Transitioned(Row(q), "PENDING_APPROVAL"))

(* Nothing overlaps the approval: no job and no other request is in        *)
(* progress, and the row is still as the request loaded it.                *)
NothingOverlaps(q) ==
    /\ \A j \in JobIds : jobs[j] = Idle
    /\ \A r \in SessionIds \ {q} : sessions[r] = Closed
    /\ proposal = Row(q)

CommitApproveProposal(q, a) ==
    /\ Loaded(q, {"unread"})
    /\ ApproveAllAllowed(Row(q), a)
    /\ Commit(q, WhollyApproved(Row(q)))
    /\ signoff' = [texts |-> ContentOf(Row(q)), quiet |-> NothingOverlaps(q)]
    /\ UNCHANGED <<jobs, artifact, stored, delivery>>

CommitRequestChanges(q, a) ==
    /\ Loaded(q, {"unread"})
    /\ Row(q).status \in RequestChangesFrom
    /\ RequestChangesAllowed(Row(q), a)
    /\ RowRequest(q, Transitioned(Row(q), "IN_REVIEW"))

CommitReject(q, a) ==
    /\ Loaded(q, {"unread"})
    /\ RejectAllowed(Row(q), a)
    /\ RowRequest(q, Transitioned(Row(q), "IN_REVIEW"))

CommitClaim(q, a) ==
    /\ Loaded(q, {"unread"})
    /\ ClaimAllowed(Row(q), a)
    /\ RowRequest(q, Claimed(Row(q), a))

CommitUnclaim(q, a) ==
    /\ Loaded(q, {"unread"})
    /\ UnclaimAllowed(Row(q), a)
    /\ RowRequest(q, Unclaimed(Row(q)))

CommitTransfer(q, a) ==
    /\ Loaded(q, {"unread"})
    /\ \E b \in Accounts :
          TransferAllowed(Row(q), a, b) /\ RowRequest(q, Transferred(Row(q), b))

-----------------------------------------------------------------------------
(* Requests that start a background job: the job is queued once the        *)
(* request has committed and been answered.                                *)

CommitStartGeneration(q, a) ==
    /\ Loaded(q, {"unread"})
    /\ StartGenerationAllowed(Row(q), a)
    /\ Commit(q, Transitioned(Row(q), "GENERATING"))
    /\ Enqueue("generation", NoSection)
    /\ KeepSignoff
    /\ UNCHANGED <<artifact, stored, delivery>>

CommitStartRegeneration(q, a) ==
    /\ Loaded(q, {"unread"})
    /\ \E s \in Sections :
          /\ StartRegenerationAllowed(Row(q), a, s)
          /\ Commit(q, Reopened(Row(q)))
          /\ Enqueue("regeneration", s)
    /\ KeepSignoff
    /\ UNCHANGED <<artifact, stored, delivery>>

(* Generate-document looks the artifact up in a step of its own, before it *)
(* checks the transition.                                                  *)
FindArtifact(q, a) ==
    /\ Loaded(q, {"unread"})
    /\ StartDocumentAllowed(Row(q), a)
    /\ sessions' = [sessions EXCEPT ![q].found = IF artifact THEN "artifact" ELSE "none"]
    /\ UNCHANGED vars

(* Only an artifact that the lookup found is deleted. *)
CommitStartDocument(q) ==
    /\ Loaded(q, {"none", "artifact"})
    /\ Commit(q, Transitioned(Row(q), "DOCUMENT_GENERATING"))
    /\ artifact' = (artifact /\ sessions[q].found = "none")
    /\ Enqueue("document", NoSection)
    /\ KeepSignoff
    /\ UNCHANGED <<stored, delivery>>

CommitStartDelivery(q, a) ==
    /\ Loaded(q, {"unread"})
    /\ StartDeliveryAllowed(Row(q), a)
    /\ delivery.emails + delivery.failed < MaxDeliveries
    /\ Commit(q, Transitioned(Row(q), "DELIVERING"))
    /\ Enqueue("delivery", NoSection)
    /\ KeepSignoff
    /\ UNCHANGED <<artifact, stored, delivery>>

-----------------------------------------------------------------------------

RequestStep(q) ==
    \/ Open(q) \/ Refuse(q) \/ CommitStartDocument(q)
    \/ \E a \in Actors :
          \/ CommitUpdateSection(q, a) \/ CommitApproveSection(q, a)
          \/ CommitSubmit(q, a) \/ CommitApproveProposal(q, a)
          \/ CommitRequestChanges(q, a) \/ CommitReject(q, a)
          \/ CommitClaim(q, a) \/ CommitUnclaim(q, a) \/ CommitTransfer(q, a)
          \/ CommitStartGeneration(q, a) \/ CommitStartRegeneration(q, a)
          \/ FindArtifact(q, a) \/ CommitStartDelivery(q, a)

SessionsNext ==
    \/ \E q \in SessionIds : RequestStep(q)
    \/ (\E j \in JobIds : JobStep(j) \/ JobRaises(j)) /\ UNCHANGED sessions
    \/ Restart /\ sessions' = [q \in SessionIds |-> Closed]

SessionsSpec == SessionsInit /\ [][SessionsNext]_allVars

-----------------------------------------------------------------------------
(* Properties *)

(* What a session holds is a row it once loaded. *)
SessionsTypeOK == TypeOK /\ sessions \in [SessionIds -> Session \cup {Closed}]

(* No email, no delivery: a proposal shown as DELIVERED was emailed, with a *)
(* document in storage behind its link, whatever requests overlap.         *)
DeliveredWasEmailed ==
    proposal.status = "DELIVERED" => delivery.emails > 0 /\ stored # NoDocument

=============================================================================
