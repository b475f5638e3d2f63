---------------------- MODULE ProposalSessions_proofs ----------------------
(***************************************************************************)
(* Theorems of ProposalSessions: what holds without locks, however many    *)
(* requests and jobs overlap.                                              *)
(***************************************************************************)
EXTENDS ProposalSessions, ProposalPromise_proofs

SessionsInv == TypeInv /\ SessionsTypeOK

LEMMA LoadedRowType ==
    ASSUME SessionsInv, NEW q \in SessionIds, sessions[q] # Closed
    PROVE  Row(q) \in Proposal
BY DEF SessionsInv, SessionsTypeOK, Session, Row

LEMMA CloseSessionType ==
    ASSUME SessionsInv, NEW q \in SessionIds, CloseSession(q)
    PROVE  sessions' \in [SessionIds -> Session \cup {Closed}]
BY DEF SessionsInv, SessionsTypeOK, CloseSession

LEMMA CommitType ==
    ASSUME SessionsInv, NEW q \in SessionIds, sessions[q] # Closed,
           NEW set \in Proposal, Commit(q, set)
    PROVE  proposal' \in Proposal /\ sessions' \in [SessionIds -> Session \cup {Closed}]
BY LoadedRowType, CloseSessionType, CommittedType
   DEF SessionsInv, TypeInv, TypeOK, Commit

LEMMA RowRequestType ==
    ASSUME SessionsInv, NEW q \in SessionIds, sessions[q] # Closed,
           NEW set \in Proposal, RowRequest(q, set)
    PROVE  SessionsInv'
BY CommitType, KeepSignoffType
   DEF RowRequest, RowOnly, SessionsInv, SessionsTypeOK, TypeInv, TypeOK, JobShape

(* Every step of a request keeps the types. *)
LEMMA RequestStepType ==
    ASSUME SessionsInv, NEW q \in SessionIds, RequestStep(q)
    PROVE  SessionsInv'
<1> DEFINE row == Row(q)
<1>0. sessions[q] # Closed => row \in Proposal
  BY LoadedRowType
<1>1. CASE Open(q)
  BY <1>1 DEF Open, vars, Session, SessionsInv, SessionsTypeOK, TypeInv, TypeOK, JobShape
<1>2. CASE Refuse(q)
  BY <1>2, CloseSessionType
     DEF Refuse, vars, SessionsInv, SessionsTypeOK, TypeInv, TypeOK, JobShape
<1>3. CASE CommitStartDocument(q)
  <2>1. Transitioned(row, "DOCUMENT_GENERATING") \in Proposal
    BY <1>0, <1>3, TransitionedType DEF CommitStartDocument, Loaded, ProposalStatus
  <2>2. proposal' \in Proposal /\ sessions' \in [SessionIds -> Session \cup {Closed}]
    BY <1>3, <2>1, CommitType DEF CommitStartDocument, Loaded
  <2>3. jobs' \in [JobIds -> Job] /\ JobShape'
    BY <1>3, EnqueueType DEF CommitStartDocument, SessionsInv
  <2>4. artifact' \in BOOLEAN
    BY <1>3 DEF CommitStartDocument, SessionsInv, TypeInv, TypeOK
  <2>5. QED
    BY <1>3, <2>2, <2>3, <2>4, KeepSignoffType
       DEF CommitStartDocument, SessionsInv, SessionsTypeOK, TypeInv, TypeOK
<1>4. ASSUME NEW a \in Actors, CommitUpdateSection(q, a) PROVE SessionsInv'
  BY <1>0, <1>4, EditedType, RowRequestType DEF CommitUpdateSection, Loaded
<1>5. ASSUME NEW a \in Actors, CommitApproveSection(q, a) PROVE SessionsInv'
  BY <1>0, <1>5, SectionApprovedType, RowRequestType DEF CommitApproveSection, Loaded
<1>6. ASSUME NEW a \in Actors,
             CommitSubmit(q, a) \/ CommitRequestChanges(q, a) \/ CommitReject(q, a)
      PROVE  SessionsInv'
  BY <1>0, <1>6, TransitionedType, RowRequestType
     DEF CommitSubmit, CommitRequestChanges, CommitReject, Loaded, ProposalStatus
<1>7. ASSUME NEW a \in Actors, CommitApproveProposal(q, a) PROVE SessionsInv'
  <2>1. row \in Proposal /\ WhollyApproved(row) \in Proposal
    BY <1>0, <1>7, WhollyApprovedType DEF CommitApproveProposal, Loaded
  <2>2. proposal' \in Proposal /\ sessions' \in [SessionIds -> Session \cup {Closed}]
    BY <1>7, <2>1, CommitType DEF CommitApproveProposal, Loaded
  <2>3. signoff' \in Signoff
    BY <1>7, <2>1, ContentOfType DEF CommitApproveProposal, NothingOverlaps, Signoff
  <2>4. QED
    BY <1>7, <2>2, <2>3
       DEF CommitApproveProposal, SessionsInv, SessionsTypeOK, TypeInv, TypeOK, JobShape
<1>8. ASSUME NEW a \in Actors, CommitClaim(q, a) PROVE SessionsInv'
  BY <1>0, <1>8, OwnershipType, RowRequestType DEF CommitClaim, ClaimAllowed, Loaded
<1>9. ASSUME NEW a \in Actors, CommitUnclaim(q, a) PROVE SessionsInv'
  BY <1>0, <1>9, UnclaimedType, RowRequestType DEF CommitUnclaim, Loaded
<1>10. ASSUME NEW a \in Actors, CommitTransfer(q, a) PROVE SessionsInv'
  BY <1>0, <1>10, OwnershipType, RowRequestType DEF CommitTransfer, TransferAllowed, Loaded
<1>11. ASSUME NEW a \in Actors, CommitStartGeneration(q, a) PROVE SessionsInv'
  <2>1. Transitioned(row, "GENERATING") \in Proposal
    BY <1>0, <1>11, TransitionedType DEF CommitStartGeneration, Loaded, ProposalStatus
  <2>2. proposal' \in Proposal /\ sessions' \in [SessionIds -> Session \cup {Closed}]
    BY <1>11, <2>1, CommitType DEF CommitStartGeneration, Loaded
  <2>3. jobs' \in [JobIds -> Job] /\ JobShape'
    BY <1>11, EnqueueType DEF CommitStartGeneration, SessionsInv
  <2>4. QED
    BY <1>11, <2>2, <2>3, KeepSignoffType
       DEF CommitStartGeneration, SessionsInv, SessionsTypeOK, TypeInv, TypeOK
<1>12. ASSUME NEW a \in Actors, CommitStartRegeneration(q, a) PROVE SessionsInv'
  <2>1. Reopened(row) \in Proposal
    BY <1>0, <1>12, ReopenedType DEF CommitStartRegeneration, Loaded
  <2>2. PICK s \in Sections : Commit(q, Reopened(row)) /\ Enqueue("regeneration", s)
    BY <1>12 DEF CommitStartRegeneration
  <2>3. proposal' \in Proposal /\ sessions' \in [SessionIds -> Session \cup {Closed}]
    BY <1>12, <2>1, <2>2, CommitType DEF CommitStartRegeneration, Loaded
  <2>4. jobs' \in [JobIds -> Job] /\ JobShape'
    BY <2>2, EnqueueType DEF SessionsInv
  <2>5. QED
    BY <1>12, <2>3, <2>4, KeepSignoffType
       DEF CommitStartRegeneration, SessionsInv, SessionsTypeOK, TypeInv, TypeOK
<1>13. ASSUME NEW a \in Actors, FindArtifact(q, a) PROVE SessionsInv'
  <2>1. [sessions EXCEPT ![q].found = IF artifact THEN "artifact" ELSE "none"]
           \in [SessionIds -> Session \cup {Closed}]
    BY <1>13 DEF FindArtifact, Loaded, Session, SessionsInv, SessionsTypeOK
  <2>2. QED
    BY <1>13, <2>1
       DEF FindArtifact, vars, SessionsInv, SessionsTypeOK, TypeInv, TypeOK, JobShape
<1>14. ASSUME NEW a \in Actors, CommitStartDelivery(q, a) PROVE SessionsInv'
  <2>1. Transitioned(row, "DELIVERING") \in Proposal
    BY <1>0, <1>14, TransitionedType DEF CommitStartDelivery, Loaded, ProposalStatus
  <2>2. proposal' \in Proposal /\ sessions' \in [SessionIds -> Session \cup {Closed}]
    BY <1>14, <2>1, CommitType DEF CommitStartDelivery, Loaded
  <2>3. jobs' \in [JobIds -> Job] /\ JobShape'
    BY <1>14, EnqueueType DEF CommitStartDelivery, SessionsInv
  <2>4. QED
    BY <1>14, <2>2, <2>3, KeepSignoffType
       DEF CommitStartDelivery, SessionsInv, SessionsTypeOK, TypeInv, TypeOK
<1>15. QED
  BY <1>1, <1>2, <1>3, <1>4, <1>5, <1>6, <1>7, <1>8, <1>9, <1>10, <1>11, <1>12, <1>13, <1>14
     DEF RequestStep

LEMMA SessionsInitInv == SessionsInit => SessionsInv
BY InitTypeInv DEF SessionsInit, SessionsInv, SessionsTypeOK, TypeInv

LEMMA SessionsInvKept == SessionsInv /\ [SessionsNext]_allVars => SessionsInv'
<1> SUFFICES ASSUME SessionsInv, [SessionsNext]_allVars PROVE SessionsInv'
  OBVIOUS
<1>1. ASSUME NEW q \in SessionIds, RequestStep(q) PROVE SessionsInv'
  BY <1>1, RequestStepType
<1>2. CASE (\E j \in JobIds : JobStep(j) \/ JobRaises(j)) /\ UNCHANGED sessions
  <2>1. TypeInv'
    BY <1>2, JobStepType, FaultType DEF SessionsInv
  <2>2. QED
    BY <1>2, <2>1 DEF SessionsInv, SessionsTypeOK, TypeInv
<1>3. CASE Restart /\ sessions' = [q \in SessionIds |-> Closed]
  <2>1. TypeInv'
    BY <1>3, FaultType DEF SessionsInv
  <2>2. QED
    BY <1>3, <2>1 DEF SessionsInv, SessionsTypeOK, TypeInv
<1>4. CASE UNCHANGED allVars
  BY <1>4 DEF allVars, SessionsInv, SessionsTypeOK, TypeInv, TypeOK, JobShape
<1>5. QED
  BY <1>1, <1>2, <1>3, <1>4 DEF SessionsNext

(* Type correctness with overlapping requests: a commit that merges the    *)
(* columns of three rows still leaves a row.                               *)
THEOREM SessionsTypeCorrectness == SessionsSpec => []SessionsTypeOK
<1>1. SessionsInv => SessionsTypeOK
  BY DEF SessionsInv
<1>2. QED
  BY <1>1, SessionsInitInv, SessionsInvKept, PTL DEF SessionsSpec

-----------------------------------------------------------------------------
(* Ownership.  The two columns are written together, so what has to be     *)
(* coherent is the stored row and every row a request has loaded: relative *)
(* to a coherent row, a claim, a release or a transfer changes both        *)
(* columns or neither, and the commit writes both or neither.              *)

OwnershipInv ==
    /\ SessionsInv
    /\ Coherent(proposal)
    /\ \A q \in SessionIds : sessions[q] # Closed => Coherent(Row(q))

LEMMA CommitCoherent ==
    ASSUME OwnershipInv, NEW q \in SessionIds, sessions[q] # Closed, NEW set, Commit(q, set),
           Coherent(set), BothOrNeither(Row(q), set)
    PROVE  Coherent(proposal')
BY CommittedCoherent DEF OwnershipInv, Commit

LEMMA CommitSameOwnership ==
    ASSUME OwnershipInv, NEW q \in SessionIds, sessions[q] # Closed, NEW set, Commit(q, set),
           SameOwnership(Row(q), set)
    PROVE  Coherent(proposal')
BY CommitCoherent, SameOwnershipCoherent DEF OwnershipInv

(* Every request leaves a coherent row. *)
LEMMA RequestStepCoherent ==
    ASSUME OwnershipInv, NEW q \in SessionIds, RequestStep(q)
    PROVE  Coherent(proposal')
<1> DEFINE row == Row(q)
<1>0. sessions[q] # Closed => row \in Proposal /\ Coherent(row)
  BY LoadedRowType DEF OwnershipInv
<1>1. CASE Open(q) \/ Refuse(q)
  BY <1>1 DEF Open, Refuse, vars, OwnershipInv
<1>2. CASE CommitStartDocument(q)
  BY <1>0, <1>2, RulesKeepOwnership, CommitSameOwnership
     DEF CommitStartDocument, Loaded, ProposalStatus
<1>3. ASSUME NEW a \in Actors, CommitUpdateSection(q, a) PROVE Coherent(proposal')
  BY <1>0, <1>3, RulesKeepOwnership, CommitSameOwnership
     DEF CommitUpdateSection, RowRequest, Loaded
<1>4. ASSUME NEW a \in Actors, CommitApproveSection(q, a) PROVE Coherent(proposal')
  BY <1>0, <1>4, RulesKeepOwnership, CommitSameOwnership
     DEF CommitApproveSection, RowRequest, Loaded
<1>5. ASSUME NEW a \in Actors,
             CommitSubmit(q, a) \/ CommitRequestChanges(q, a) \/ CommitReject(q, a)
      PROVE  Coherent(proposal')
  BY <1>0, <1>5, RulesKeepOwnership, CommitSameOwnership
     DEF CommitSubmit, CommitRequestChanges, CommitReject, RowRequest, Loaded, ProposalStatus
<1>6. ASSUME NEW a \in Actors, CommitApproveProposal(q, a) PROVE Coherent(proposal')
  BY <1>0, <1>6, RulesKeepOwnership, CommitSameOwnership DEF CommitApproveProposal, Loaded
<1>7. ASSUME NEW a \in Actors, CommitClaim(q, a) PROVE Coherent(proposal')
  <2>1. a \in Accounts
    BY <1>7, AccountsAssumption DEF CommitClaim, ClaimAllowed
  <2>2. QED
    BY <1>0, <1>7, <2>1, ClaimedTogether, CommitCoherent DEF CommitClaim, RowRequest, Loaded
<1>8. ASSUME NEW a \in Actors, CommitUnclaim(q, a) PROVE Coherent(proposal')
  BY <1>0, <1>8, UnclaimedTogether, CommitCoherent DEF CommitUnclaim, RowRequest, Loaded
<1>9. ASSUME NEW a \in Actors, CommitTransfer(q, a) PROVE Coherent(proposal')
  BY <1>0, <1>9, TransferredTogether, CommitCoherent DEF CommitTransfer, RowRequest, Loaded
<1>10. ASSUME NEW a \in Actors,
              \/ CommitStartGeneration(q, a) \/ CommitStartRegeneration(q, a)
              \/ CommitStartDelivery(q, a)
       PROVE  Coherent(proposal')
  BY <1>0, <1>10, RulesKeepOwnership, CommitSameOwnership
     DEF CommitStartGeneration, CommitStartRegeneration, CommitStartDelivery, Loaded,
         ProposalStatus
<1>11. ASSUME NEW a \in Actors, FindArtifact(q, a) PROVE Coherent(proposal')
  BY <1>11 DEF FindArtifact, vars, OwnershipInv
<1>12. QED
  BY <1>1, <1>2, <1>3, <1>4, <1>5, <1>6, <1>7, <1>8, <1>9, <1>10, <1>11 DEF RequestStep

(* What the sessions hold was coherent when it was loaded. *)
LEMMA SessionsStayCoherent ==
    ASSUME OwnershipInv, SessionsNext
    PROVE  (\A q \in SessionIds : sessions[q] # Closed => Coherent(Row(q)))'
<1> SUFFICES ASSUME NEW q \in SessionIds, sessions'[q] # Closed PROVE Coherent(Row(q)')
  OBVIOUS
<1>0. sessions \in [SessionIds -> Session \cup {Closed}]
  BY DEF OwnershipInv, SessionsInv, SessionsTypeOK
<1>1. CASE sessions'[q] = sessions[q]
  BY <1>1 DEF OwnershipInv, Row
<1>2. ASSUME NEW r \in SessionIds, Open(r) PROVE Coherent(Row(q)')
  BY <1>0, <1>1, <1>2 DEF Open, Row, OwnershipInv
<1>3. ASSUME NEW r \in SessionIds, CloseSession(r) PROVE Coherent(Row(q)')
  BY <1>0, <1>1, <1>3 DEF CloseSession
<1>4. ASSUME NEW r \in SessionIds, NEW a \in Actors, FindArtifact(r, a)
      PROVE  Coherent(Row(q)')
  <2>1. CASE q = r
    <3>1. sessions[q] # Closed /\ sessions[q] \in Session
      BY <1>0, <1>4, <2>1 DEF FindArtifact, Loaded
    <3>2. sessions'[q].row = sessions[q].row
      BY <1>0, <1>4, <2>1, <3>1 DEF FindArtifact, Session
    <3>3. QED
      BY <3>1, <3>2 DEF Row, OwnershipInv
  <2>2. CASE q # r
    BY <1>0, <1>1, <1>4, <2>2 DEF FindArtifact
  <2>3. QED
    BY <2>1, <2>2
<1>5. ASSUME NEW r \in SessionIds, RequestStep(r) PROVE Coherent(Row(q)')
  BY <1>2, <1>3, <1>4, <1>5
     DEF RequestStep, Refuse, Commit, RowRequest, CommitStartDocument, CommitUpdateSection,
         CommitApproveSection, CommitSubmit, CommitApproveProposal, CommitRequestChanges,
         CommitReject, CommitClaim, CommitUnclaim, CommitTransfer, CommitStartGeneration,
         CommitStartRegeneration, CommitStartDelivery
<1>6. CASE UNCHANGED sessions
  BY <1>1, <1>6
<1>7. CASE sessions' = [r \in SessionIds |-> Closed]
  BY <1>7
<1>8. QED
  BY <1>5, <1>6, <1>7 DEF SessionsNext

(* Account and name are never torn apart: however claims, releases,        *)
(* transfers, edits and jobs overlap, an owned proposal shows its owner's  *)
(* name, and so cannot be claimed a second time.                           *)
THEOREM OwnerStaysNamed == SessionsSpec => []OwnerIsNamed
<1>1. SessionsInit => OwnershipInv
  <2>1. Init => Coherent(proposal)
    BY DEF Init, IntakeProposal, Coherent
  <2>2. QED
    BY <2>1, SessionsInitInv DEF SessionsInit, OwnershipInv
<1>2. OwnershipInv /\ [SessionsNext]_allVars => OwnershipInv'
  <2> SUFFICES ASSUME OwnershipInv, [SessionsNext]_allVars PROVE OwnershipInv'
    OBVIOUS
  <2>1. CASE SessionsNext
    <3>1. Coherent(proposal')
      <4>1. ASSUME SameOwnership(proposal, proposal') PROVE Coherent(proposal')
        BY <4>1, SameOwnershipCoherent DEF OwnershipInv
      <4>2. Restart => proposal' = proposal
        BY DEF Restart
      <4>3. QED
        BY <2>1, <4>1, <4>2, RequestStepCoherent, JobsKeepOwnership
           DEF SessionsNext, OwnershipInv, SessionsInv, SameOwnership
    <3>2. Coherent(proposal)'
      BY <3>1 DEF Coherent
    <3>3. QED
      BY <2>1, <3>2, SessionsInvKept, SessionsStayCoherent DEF OwnershipInv
  <2>2. CASE UNCHANGED allVars
    <3>1. SessionsInv'
      BY SessionsInvKept DEF OwnershipInv
    <3>2. QED
      BY <2>2, <3>1 DEF allVars, OwnershipInv, Row, Coherent
  <2>3. QED
    BY <2>1, <2>2
<1>3. OwnershipInv => OwnerIsNamed
  BY DEF OwnershipInv, Coherent, OwnerIsNamed
<1>4. QED
  BY <1>1, <1>2, <1>3, PTL DEF SessionsSpec

-----------------------------------------------------------------------------
(* Delivery.  A job knows more than its proposal's status: one that has    *)
(* loaded its artifact has a document behind it, one past its send has     *)
(* sent.  Requests cannot fake either, because no request sets DELIVERED   *)
(* and a commit writes the status only where its request changed it.       *)
Underway ==
    /\ artifact => stored # NoDocument
    /\ \A j \in JobIds :
          /\ At(j, "document", "uploaded") => stored # NoDocument
          /\ At(j, "delivery", "running") => stored # NoDocument
          /\ At(j, "delivery", "sent") => stored # NoDocument /\ delivery.emails > 0

DeliveryInv == SessionsInv /\ DeliveredWasEmailed /\ Underway

(* q is delivered only if p is. *)
NotByThis(p, q) == q.status = "DELIVERED" => p.status = "DELIVERED"

LEMMA RulesDoNotDeliver ==
    ASSUME NEW p \in Proposal
    PROVE  /\ \A t \in ProposalStatus \ {"DELIVERED"} : NotByThis(p, Transitioned(p, t))
           /\ NotByThis(p, Reopened(p))
           /\ \A s \in Sections, text \in Contents : NotByThis(p, Edited(p, s, text))
           /\ \A s \in Sections : NotByThis(p, SectionApproved(p, s))
           /\ NotByThis(p, WhollyApproved(p))
           /\ \A a \in Accounts : NotByThis(p, Claimed(p, a)) /\ NotByThis(p, Transferred(p, a))
           /\ NotByThis(p, Unclaimed(p))
           /\ \A texts \in Texts : NotByThis(p, Generated(p, texts))
           /\ \A s \in Sections, text \in Contents : NotByThis(p, Regenerated(p, s, text))
BY DEF NotByThis, Transitioned, Reopened, Edited, SectionApproved, WhollyApproved,
       AllSectionsApproved, Claimed, Transferred, Unclaimed, Generated, Regenerated, Proposal

LEMMA CommittedDoesNotDeliver ==
    ASSUME NEW p, NEW q, NEW r, NotByThis(q, r)
    PROVE  NotByThis(p, Committed(p, q, r))
BY DEF NotByThis, Committed, Column

(* A request delivers nothing, and leaves documents, emails and every job  *)
(* past its load alone.                                                    *)
LEMMA RequestDeliversNothing ==
    ASSUME SessionsInv, NEW q \in SessionIds, RequestStep(q)
    PROVE  /\ NotByThis(proposal, proposal')
           /\ artifact' => artifact
           /\ UNCHANGED <<stored, delivery>>
           /\ \A j \in JobIds : jobs'[j].phase # "queued" => jobs'[j] = jobs[j]
<1> DEFINE row == Row(q)
           Goal == /\ NotByThis(proposal, proposal')
                   /\ artifact' => artifact
                   /\ UNCHANGED <<stored, delivery>>
                   /\ \A j \in JobIds : jobs'[j].phase # "queued" => jobs'[j] = jobs[j]
<1>0. sessions[q] # Closed => row \in Proposal
  BY LoadedRowType
<1>1. ASSUME NEW set, Commit(q, set), NotByThis(row, set)
      PROVE  NotByThis(proposal, proposal')
  BY <1>1, CommittedDoesNotDeliver DEF Commit
<1>2. ASSUME NEW set, RowRequest(q, set), NotByThis(row, set) PROVE Goal
  BY <1>1, <1>2 DEF RowRequest, RowOnly
<1>3. ASSUME NEW kind, NEW s, Enqueue(kind, s)
      PROVE  \A j \in JobIds : jobs'[j].phase # "queued" => jobs'[j] = jobs[j]
  BY <1>3 DEF Enqueue, SessionsInv, TypeInv, TypeOK
<1>4. CASE Open(q) \/ Refuse(q) \/ \E a \in Actors : FindArtifact(q, a)
  BY <1>4 DEF Open, Refuse, FindArtifact, vars, NotByThis
<1>5. CASE CommitStartDocument(q)
  BY <1>0, <1>1, <1>3, <1>5, RulesDoNotDeliver
     DEF CommitStartDocument, Loaded, ProposalStatus
<1>6. ASSUME NEW a \in Actors, CommitUpdateSection(q, a) PROVE Goal
  BY <1>0, <1>2, <1>6, RulesDoNotDeliver DEF CommitUpdateSection, Loaded
<1>7. ASSUME NEW a \in Actors, CommitApproveSection(q, a) PROVE Goal
  BY <1>0, <1>2, <1>7, RulesDoNotDeliver DEF CommitApproveSection, Loaded
<1>8. ASSUME NEW a \in Actors,
             CommitSubmit(q, a) \/ CommitRequestChanges(q, a) \/ CommitReject(q, a)
      PROVE  Goal
  BY <1>0, <1>2, <1>8, RulesDoNotDeliver
     DEF CommitSubmit, CommitRequestChanges, CommitReject, Loaded, ProposalStatus
<1>9. ASSUME NEW a \in Actors, CommitApproveProposal(q, a) PROVE Goal
  BY <1>0, <1>1, <1>9, RulesDoNotDeliver DEF CommitApproveProposal, Loaded
<1>10. ASSUME NEW a \in Actors, CommitClaim(q, a) PROVE Goal
  BY <1>0, <1>2, <1>10, RulesDoNotDeliver, AccountsAssumption
     DEF CommitClaim, ClaimAllowed, Loaded
<1>11. ASSUME NEW a \in Actors, CommitUnclaim(q, a) PROVE Goal
  BY <1>0, <1>2, <1>11, RulesDoNotDeliver DEF CommitUnclaim, Loaded
<1>12. ASSUME NEW a \in Actors, CommitTransfer(q, a) PROVE Goal
  BY <1>0, <1>2, <1>12, RulesDoNotDeliver DEF CommitTransfer, Loaded
<1>13. ASSUME NEW a \in Actors, CommitStartGeneration(q, a) PROVE Goal
  BY <1>0, <1>1, <1>3, <1>13, RulesDoNotDeliver
     DEF CommitStartGeneration, Loaded, ProposalStatus
<1>14. ASSUME NEW a \in Actors, CommitStartRegeneration(q, a) PROVE Goal
  BY <1>0, <1>1, <1>3, <1>14, RulesDoNotDeliver DEF CommitStartRegeneration, Loaded
<1>15. ASSUME NEW a \in Actors, CommitStartDelivery(q, a) PROVE Goal
  BY <1>0, <1>1, <1>3, <1>15, RulesDoNotDeliver
     DEF CommitStartDelivery, Loaded, ProposalStatus
<1>16. QED
  BY <1>4, <1>5, <1>6, <1>7, <1>8, <1>9, <1>10, <1>11, <1>12, <1>13, <1>14, <1>15
     DEF RequestStep

(* The document in storage is replaced, never removed, and emails are not  *)
(* unsent.                                                                 *)
LEMMA EffectsLast ==
    ASSUME TypeInv, NEW j \in JobIds, JobStep(j) \/ JobRaises(j)
    PROVE  /\ stored # NoDocument => stored' # NoDocument
           /\ delivery'.emails >= delivery.emails
<1>1. CASE UploadDocument(j) \/ DocumentFails(j)
  <2>1. Rendered(jobs[j].snapshot) \in Texts
    BY <1>1, ContentOfType DEF UploadDocument, DocumentFails, At, Rendered, TypeInv, JobShape
  <2>2. Rendered(jobs[j].snapshot) # NoDocument
    BY <2>1, EnvironmentAssumption DEF Texts
  <2>3. stored' \in {stored, Rendered(jobs[j].snapshot)} /\ UNCHANGED delivery
    BY <1>1 DEF UploadDocument, DocumentFails, AfterFailedUpload
  <2>4. QED
    BY <2>2, <2>3 DEF TypeInv, TypeOK
<1>2. CASE SendEmail(j) \/ RecordDelivery(j)
  BY <1>2 DEF SendEmail, RecordDelivery, TypeInv, TypeOK
<1>3. CASE SendFails(j)
  <2>1. PICK accepted \in {0, 1} :
           \/ delivery' = [delivery EXCEPT !.emails = @ + accepted, !.failed = @ + 1]
           \/ delivery' = [delivery EXCEPT !.emails = @ + accepted]
    BY <1>3 DEF SendFails, SentByFailedSend
  <2>2. delivery'.emails = delivery.emails + accepted
    BY <2>1 DEF TypeInv, TypeOK
  <2>3. QED
    BY <1>3, <2>2 DEF SendFails, TypeInv, TypeOK
<1>4. CASE \/ Load(j) \/ LoadDelivery(j) \/ GenerationSucceeds(j) \/ GenerationFails(j)
           \/ RegenerationSucceeds(j) \/ RegenerationFails(j) \/ DocumentReady(j)
           \/ JobRaises(j)
  BY <1>4
     DEF Load, LoadDelivery, GenerationSucceeds, GenerationFails, RegenerationSucceeds,
         RegenerationFails, DocumentReady, JobRaises, TypeInv, TypeOK
<1>5. QED
  BY <1>1, <1>2, <1>3, <1>4 DEF JobStep

(* Only a job that has sent delivers. *)
LEMMA OnlyRecordDelivers ==
    ASSUME TypeInv, NEW j \in JobIds, JobStep(j) \/ JobRaises(j), ~RecordDelivery(j)
    PROVE  NotByThis(proposal, proposal')
<1> DEFINE row == jobs[j].snapshot
<1>0. proposal \in Proposal
  BY DEF TypeInv, TypeOK
<1>1. jobs[j].phase \in {"running", "uploaded", "sent"} => row \in Proposal
  BY DEF TypeInv, JobShape
<1>2. ASSUME NEW set, CommitJob(j, set), NotByThis(row, set)
      PROVE  NotByThis(proposal, proposal')
  BY <1>2, CommittedDoesNotDeliver DEF CommitJob
<1>3. AbandonGeneration => NotByThis(proposal, proposal')
  BY <1>0, RulesDoNotDeliver DEF AbandonGeneration, ProposalStatus, NotByThis
<1>4. UNCHANGED proposal => NotByThis(proposal, proposal')
  BY DEF NotByThis
<1>5. CASE LoadDelivery(j)
  BY <1>0, <1>4, <1>5, RulesDoNotDeliver DEF LoadDelivery, ProposalStatus
<1>6. CASE GenerationSucceeds(j) \/ GenerationFails(j)
  BY <1>1, <1>2, <1>3, <1>6, RulesDoNotDeliver
     DEF GenerationSucceeds, GenerationFails, At, ProposalStatus
<1>7. CASE RegenerationSucceeds(j)
  <2>1. jobs[j].section \in Sections
    BY <1>7 DEF TypeInv, JobShape, RegenerationSucceeds, At
  <2>2. QED
    BY <1>1, <1>2, <1>7, <2>1, RulesDoNotDeliver DEF RegenerationSucceeds, At
<1>8. CASE DocumentReady(j) \/ DocumentFails(j) \/ SendFails(j)
  BY <1>1, <1>2, <1>4, <1>8, RulesDoNotDeliver
     DEF DocumentReady, DocumentFails, SendFails, At, ProposalStatus
<1>9. CASE \/ Load(j) \/ RegenerationFails(j) \/ UploadDocument(j) \/ SendEmail(j)
           \/ JobRaises(j)
  BY <1>3, <1>4, <1>9 DEF Load, RegenerationFails, UploadDocument, SendEmail, JobRaises
<1>10. QED
  BY <1>5, <1>6, <1>7, <1>8, <1>9 DEF JobStep

(* A job comes by its artifact, its upload and its send in that order. *)
LEMMA UnderwayKept ==
    ASSUME TypeInv, Underway, NEW j \in JobIds, JobStep(j) \/ JobRaises(j)
    PROVE  Underway'
<1> SUFFICES /\ (artifact => stored # NoDocument)'
             /\ \A i \in JobIds :
                   /\ At(i, "document", "uploaded")' => stored' # NoDocument
                   /\ At(i, "delivery", "running")' => stored' # NoDocument
                   /\ At(i, "delivery", "sent")' => stored' # NoDocument /\ delivery'.emails > 0
  BY DEF Underway
<1>0. /\ jobs \in [JobIds -> Job]
      /\ delivery.emails \in Nat /\ delivery'.emails \in Nat
      /\ stored # NoDocument => stored' # NoDocument
      /\ delivery'.emails >= delivery.emails
  BY EffectsLast, JobStepType, FaultType DEF TypeInv, TypeOK
<1>1. (artifact => stored # NoDocument)'
  <2>1. artifact' => artifact \/ DocumentReady(j)
    BY DEF JobStep, Load, LoadDelivery, GenerationSucceeds, GenerationFails,
           RegenerationSucceeds, RegenerationFails, UploadDocument, DocumentFails,
           SendEmail, RecordDelivery, SendFails, JobRaises
  <2>2. QED
    BY <1>0, <2>1 DEF Underway, DocumentReady
<1>2. ASSUME NEW i \in JobIds, jobs'[i] = Idle \/ jobs'[i] = jobs[i]
      PROVE  /\ At(i, "document", "uploaded")' => stored' # NoDocument
             /\ At(i, "delivery", "running")' => stored' # NoDocument
             /\ At(i, "delivery", "sent")' => stored' # NoDocument /\ delivery'.emails > 0
  BY <1>0, <1>2 DEF Underway, At, Idle
<1>3. ASSUME NEW i \in JobIds, i # j PROVE jobs'[i] = jobs[i]
  BY <1>0, <1>3
     DEF JobStep, Load, LoadDelivery, GenerationSucceeds, GenerationFails,
         RegenerationSucceeds, RegenerationFails, UploadDocument, DocumentReady,
         DocumentFails, SendEmail, RecordDelivery, SendFails, JobRaises, Ended
<1>4. CASE Ended(j)
  <2>1. jobs'[j] = Idle
    BY <1>0, <1>4 DEF Ended
  <2>2. QED
    BY <1>1, <1>2, <1>3, <2>1
<1>5. CASE ~Ended(j)
  <2>1. \/ /\ Load(j) /\ jobs'[j].kind # "delivery" /\ jobs'[j].phase = "running"
        \/ /\ LoadDelivery(j) /\ artifact
           /\ jobs'[j].kind = "delivery" /\ jobs'[j].phase = "running"
        \/ /\ UploadDocument(j)
           /\ jobs'[j].kind = "document" /\ jobs'[j].phase = "uploaded"
        \/ /\ SendEmail(j)
           /\ jobs'[j].kind = "delivery" /\ jobs'[j].phase = "sent"
    BY <1>0, <1>5
       DEF JobStep, Load, LoadDelivery, GenerationSucceeds, GenerationFails,
           RegenerationSucceeds, RegenerationFails, UploadDocument, DocumentReady,
           DocumentFails, SendEmail, RecordDelivery, SendFails, JobRaises, At, Job
  <2>2. LoadDelivery(j) /\ artifact => stored' # NoDocument
    BY <1>0 DEF Underway
  <2>3. UploadDocument(j) => stored' # NoDocument
    <3>1. UploadDocument(j) => Rendered(jobs[j].snapshot) \in Texts
      BY ContentOfType DEF UploadDocument, At, Rendered, TypeInv, JobShape
    <3>2. QED
      BY <3>1, EnvironmentAssumption DEF UploadDocument, Texts
  <2>4. SendEmail(j) => stored' # NoDocument /\ delivery'.emails > 0
    BY <1>0 DEF SendEmail, Underway, TypeInv, TypeOK
  <2>5. /\ At(j, "document", "uploaded")' => stored' # NoDocument
        /\ At(j, "delivery", "running")' => stored' # NoDocument
        /\ At(j, "delivery", "sent")' => stored' # NoDocument /\ delivery'.emails > 0
    BY <2>1, <2>2, <2>3, <2>4 DEF At
  <2>6. QED
    BY <1>1, <1>2, <1>3, <2>5
<1>6. QED
  BY <1>4, <1>5

(* No email, no delivery: whatever requests and jobs overlap, a proposal   *)
(* shown as DELIVERED was emailed, with a document behind its link.        *)
THEOREM DeliveredMeansEmailed == SessionsSpec => []DeliveredWasEmailed
<1>1. SessionsInit => DeliveryInv
  <2>1. Init => DeliveredWasEmailed /\ Underway
    BY DEF Init, IntakeProposal, Idle, At, DeliveredWasEmailed, Underway
  <2>2. QED
    BY <2>1, SessionsInitInv DEF SessionsInit, DeliveryInv
<1>2. DeliveryInv /\ [SessionsNext]_allVars => DeliveryInv'
  <2> SUFFICES ASSUME DeliveryInv, [SessionsNext]_allVars PROVE DeliveryInv'
    OBVIOUS
  <2>0. SessionsInv /\ TypeInv /\ SessionsInv'
    BY SessionsInvKept DEF DeliveryInv, SessionsInv
  <2>1. ASSUME NEW q \in SessionIds, RequestStep(q)
        PROVE  DeliveredWasEmailed' /\ Underway'
    BY <2>0, <2>1, RequestDeliversNothing
       DEF DeliveryInv, DeliveredWasEmailed, NotByThis, Underway, At
  <2>2. ASSUME NEW j \in JobIds, JobStep(j) \/ JobRaises(j)
        PROVE  DeliveredWasEmailed' /\ Underway'
    <3>1. delivery.emails \in Nat /\ delivery'.emails \in Nat
      BY <2>0 DEF SessionsInv, TypeInv, TypeOK
    <3>2. ASSUME RecordDelivery(j) PROVE DeliveredWasEmailed'
      BY <2>0, <2>2, <3>1, <3>2, EffectsLast
         DEF RecordDelivery, DeliveryInv, Underway, DeliveredWasEmailed
    <3>3. ASSUME ~RecordDelivery(j) PROVE DeliveredWasEmailed'
      BY <2>0, <2>2, <3>1, <3>3, EffectsLast, OnlyRecordDelivers
         DEF DeliveryInv, DeliveredWasEmailed, NotByThis
    <3>4. QED
      BY <2>0, <2>2, <3>2, <3>3, UnderwayKept DEF DeliveryInv
  <2>3. Restart => DeliveredWasEmailed' /\ Underway'
    BY DEF Restart, DeliveryInv, DeliveredWasEmailed, Underway, At, Idle
  <2>4. UNCHANGED allVars => DeliveredWasEmailed' /\ Underway'
    BY DEF allVars, DeliveryInv, DeliveredWasEmailed, Underway, At
  <2>5. QED
    BY <2>0, <2>1, <2>2, <2>3, <2>4 DEF SessionsNext, DeliveryInv
<1>3. DeliveryInv => DeliveredWasEmailed
  BY DEF DeliveryInv
<1>4. QED
  BY <1>1, <1>2, <1>3, PTL DEF SessionsSpec

-----------------------------------------------------------------------------
(* An approval that nothing overlapped.  What keeps it sealed is neither a *)
(* lock nor the transition table alone: whatever is in flight while it     *)
(* stands holds a sealed row, for which the only requests that leave the   *)
(* status sealed are those that leave the sections alone.  The document of *)
(* an earlier approval may still be there; it goes before the link counts. *)

SealedRow(p) ==
    /\ p.status \in SealedStatuses
    /\ ContentOf(p) = signoff.texts
    /\ PendingSections(p) = {}

OutdatedDocument == artifact /\ stored # signoff.texts

Undisturbed ==
    /\ SealedRow(proposal)
    /\ \A q \in SessionIds : sessions[q] # Closed => SealedRow(Row(q))
    /\ \A j \in JobIds : jobs[j] # Idle =>
          /\ jobs[j].kind \in {"document", "delivery"}
          /\ jobs[j].phase # "queued" => SealedRow(jobs[j].snapshot)
          /\ At(j, "document", "uploaded") => stored = signoff.texts
    /\ OutdatedDocument =>
          /\ proposal.status = "APPROVED"
          /\ \A j \in JobIds : jobs[j] = Idle
          /\ \A q \in SessionIds : sessions[q] # Closed =>
                Row(q).status = "APPROVED" /\ sessions[q].found # "none"

OverlapInv == SessionsInv /\ (Quiet => Undisturbed)

(* An approval that stands after a step other than approving stood before. *)
LEMMA StoodBefore ==
    ASSUME Quiet', KeepSignoff \/ UNCHANGED signoff
    PROVE  /\ Quiet /\ signoff' = signoff
           /\ KeepSignoff => proposal'.status \in SealedStatuses
BY DEF Quiet, KeepSignoff

(* A commit that sets no column of a section writes none. *)
LEMMA CommittedSections ==
    ASSUME NEW p \in Proposal, NEW old \in Proposal, NEW new, new.sections = old.sections
    PROVE  Committed(p, old, new).sections = p.sections
<1>1. p.sections \in [Sections -> Section]
  BY DEF Proposal
<1>2. \A s \in Sections : p.sections[s] =
         [content |-> p.sections[s].content, approval |-> p.sections[s].approval,
          regenerations |-> p.sections[s].regenerations]
  BY <1>1 DEF Section
<1>3. Committed(p, old, new).sections = [s \in Sections |-> p.sections[s]]
  BY <1>2 DEF Committed, Column
<1>4. QED
  BY <1>1, <1>3

LEMMA SameSectionsSealed ==
    ASSUME NEW p, SealedRow(p), signoff' = signoff,
           proposal'.sections = p.sections, proposal'.status \in SealedStatuses
    PROVE  SealedRow(proposal)'
<1>1. ContentOf(proposal') = ContentOf(p) /\ PendingSections(proposal') = PendingSections(p)
  BY SameSections
<1>2. QED
  BY <1>1 DEF SealedRow

(* An approval that nothing overlaps leaves nothing in flight. *)
LEMMA UndisturbedFirst ==
    ASSUME SessionsInv, NEW q \in SessionIds, NEW a \in Actors, CommitApproveProposal(q, a), Quiet'
    PROVE  Undisturbed'
<1> DEFINE p == Row(q)
<1>0. sessions[q] # Closed /\ p \in Proposal
  BY LoadedRowType DEF CommitApproveProposal, Loaded
<1>1. NothingOverlaps(q) /\ signoff'.texts = ContentOf(p)
  BY DEF CommitApproveProposal, Quiet
<1>2. proposal = p /\ proposal' = Committed(p, p, WhollyApproved(p))
  BY <1>1 DEF NothingOverlaps, CommitApproveProposal, Commit
<1>3. \A s \in Sections :
         /\ WhollyApproved(p).sections[s].content = p.sections[s].content
         /\ WhollyApproved(p).sections[s].approval = "APPROVED"
  BY <1>0 DEF WhollyApproved, AllSectionsApproved, Transitioned, Proposal, Section
<1>4. \A s \in Sections :
         /\ proposal'.sections[s].content = p.sections[s].content
         /\ proposal'.sections[s].approval = "APPROVED"
  BY <1>2, <1>3 DEF Committed, Column
<1>5. proposal'.status = "APPROVED"
  <2>1. WhollyApproved(p).status = "APPROVED"
    BY <1>0, RuleStatuses
  <2>2. QED
    BY <1>2, <2>1 DEF Committed, Column
<1>6. SealedRow(proposal)'
  BY <1>1, <1>4, <1>5 DEF SealedRow, ContentOf, PendingSections, SealedStatuses
<1>7. \A r \in SessionIds : sessions'[r] = Closed
  BY <1>1 DEF NothingOverlaps, CommitApproveProposal, Commit, CloseSession, SessionsInv,
         SessionsTypeOK
<1>8. \A j \in JobIds : jobs'[j] = Idle
  BY <1>1 DEF NothingOverlaps, CommitApproveProposal
<1>9. QED
  BY <1>5, <1>6, <1>7, <1>8 DEF Undisturbed

(* A commit that sets no column of a section and leaves the status sealed. *)
LEMMA RowsStaySealed ==
    ASSUME SessionsInv, Undisturbed, NEW q \in SessionIds, sessions[q] # Closed,
           NEW set, Commit(q, set), set.sections = Row(q).sections,
           signoff' = signoff, proposal'.status \in SealedStatuses
    PROVE  /\ SealedRow(proposal)'
           /\ \A r \in SessionIds : (sessions[r] # Closed)' =>
                 r # q /\ sessions[r] # Closed /\ sessions'[r] = sessions[r] /\ SealedRow(Row(r))'
<1>1. proposal \in Proposal /\ Row(q) \in Proposal
  BY LoadedRowType DEF SessionsInv, TypeInv, TypeOK
<1>2. proposal'.sections = proposal.sections
  BY <1>1, CommittedSections DEF Commit
<1>3. SealedRow(proposal)'
  BY <1>2, SameSectionsSealed DEF Undisturbed
<1>4. \A r \in SessionIds : (sessions[r] # Closed)' =>
         r # q /\ sessions[r] # Closed /\ sessions'[r] = sessions[r]
  BY DEF Commit, CloseSession, SessionsInv, SessionsTypeOK
<1>5. QED
  BY <1>3, <1>4 DEF Undisturbed, SealedRow, Row

(* A request that unseals the row it loaded unseals the stored one. *)
LEMMA Unsealed ==
    ASSUME NEW q, NEW set, Commit(q, set), SealedRow(Row(q)), set.status \notin SealedStatuses
    PROVE  proposal'.status \notin SealedStatuses
<1>1. set.status # Row(q).status
  BY DEF SealedRow
<1>2. QED
  BY <1>1 DEF Commit, Committed, Column

(* Of the requests on a sealed row, those that change a section, review or *)
(* regenerate are refused or unseal the proposal.                          *)
LEMMA ReviewsUnseal ==
    ASSUME SessionsInv, Undisturbed, NEW q \in SessionIds, NEW a \in Actors, Quiet'
    PROVE  /\ ~CommitUpdateSection(q, a) /\ ~CommitApproveSection(q, a) /\ ~CommitSubmit(q, a)
           /\ ~CommitApproveProposal(q, a) /\ ~CommitRequestChanges(q, a) /\ ~CommitReject(q, a)
           /\ ~CommitStartGeneration(q, a) /\ ~CommitStartRegeneration(q, a)
<1> DEFINE p == Row(q)
<1>0. sessions[q] # Closed => p \in Proposal /\ SealedRow(p) /\ p.status \in SealedStatuses
  BY LoadedRowType DEF Undisturbed, SealedRow
<1>1. ASSUME sessions[q] # Closed, NEW set, Commit(q, set), KeepSignoff,
             set.status \notin SealedStatuses
      PROVE  FALSE
  BY <1>0, <1>1, Unsealed, StoodBefore
<1>2. "IN_REVIEW" \notin SealedStatuses
  BY DEF SealedStatuses
<1>3. ~CommitUpdateSection(q, a)
  <2> SUFFICES ASSUME CommitUpdateSection(q, a) PROVE FALSE
    OBVIOUS
  <2>1. sessions[q] # Closed /\ p.status = "APPROVED"
    BY <1>0 DEF CommitUpdateSection, Loaded, EditAllowed, EditableSectionStatuses, SealedStatuses
  <2>2. \A s \in Sections, text \in Contents : Edited(p, s, text).status = "IN_REVIEW"
    BY <1>0, <2>1, RuleStatuses
  <2>3. QED
    BY <1>1, <1>2, <2>1, <2>2 DEF CommitUpdateSection, RowRequest, RowOnly
<1>4. ~CommitApproveSection(q, a) /\ ~CommitSubmit(q, a) /\ ~CommitApproveProposal(q, a)
      /\ ~CommitReject(q, a) /\ ~CommitStartGeneration(q, a)
  BY <1>0
     DEF CommitApproveSection, ApproveSectionAllowed, CommitSubmit, SubmitAllowed,
         CommitApproveProposal, ApproveAllAllowed, CommitReject, RejectAllowed,
         CommitStartGeneration, StartGenerationAllowed, Loaded, CanTransition,
         AllowedTransitions, SealedStatuses
<1>5. ~CommitRequestChanges(q, a)
  <2> SUFFICES ASSUME CommitRequestChanges(q, a) PROVE FALSE
    OBVIOUS
  <2>1. sessions[q] # Closed /\ Transitioned(p, "IN_REVIEW").status = "IN_REVIEW"
    BY <1>0, RuleStatuses DEF CommitRequestChanges, Loaded
  <2>2. QED
    BY <1>1, <1>2, <2>1 DEF CommitRequestChanges, RowRequest, RowOnly
<1>6. ~CommitStartRegeneration(q, a)
  <2> SUFFICES ASSUME CommitStartRegeneration(q, a) PROVE FALSE
    OBVIOUS
  <2>1. sessions[q] # Closed /\ p.status = "APPROVED"
    BY <1>0
       DEF CommitStartRegeneration, Loaded, StartRegenerationAllowed, EditableSectionStatuses,
           SealedStatuses
  <2>2. Reopened(p).status = "IN_REVIEW"
    BY <1>0, <2>1, RuleStatuses
  <2>3. QED
    BY <1>1, <1>2, <2>1, <2>2 DEF CommitStartRegeneration
<1>7. QED
  BY <1>3, <1>4, <1>5, <1>6

(* The other requests leave what is in flight sealed. *)
LEMMA RequestsKeepUndisturbed ==
    ASSUME SessionsInv, Undisturbed, NEW q \in SessionIds, RequestStep(q), Quiet'
    PROVE  Undisturbed'
<1> DEFINE p == Row(q)
<1>0. /\ proposal \in Proposal /\ jobs \in [JobIds -> Job]
      /\ sessions \in [SessionIds -> Session \cup {Closed}]
      /\ sessions[q] # Closed => p \in Proposal /\ SealedRow(p) /\ p.status \in SealedStatuses
  BY LoadedRowType
     DEF SessionsInv, SessionsTypeOK, TypeInv, TypeOK, Undisturbed, SealedRow
<1>1. CASE Open(q)
  <2>1. UNCHANGED <<proposal, jobs, artifact, stored, delivery, signoff>>
    BY <1>1 DEF Open, vars
  <2>2. \A r \in SessionIds : \/ sessions'[r] = sessions[r]
                              \/ sessions'[r] = [row |-> proposal, found |-> "unread"]
    BY <1>0, <1>1 DEF Open
  <2>3. QED
    BY <2>1, <2>2 DEF Undisturbed, SealedRow, OutdatedDocument, At, Row
<1>2. CASE Refuse(q)
  <2>1. UNCHANGED <<proposal, jobs, artifact, stored, delivery, signoff>>
    BY <1>2 DEF Refuse, vars
  <2>2. \A r \in SessionIds : sessions'[r] \in {sessions[r], Closed}
    BY <1>0, <1>2 DEF Refuse, CloseSession
  <2>3. QED
    BY <2>1, <2>2 DEF Undisturbed, SealedRow, OutdatedDocument, At, Row
<1>3. ASSUME NEW a \in Actors, FindArtifact(q, a) PROVE Undisturbed'
  <2>1. UNCHANGED <<proposal, jobs, artifact, stored, delivery, signoff>>
    BY <1>3 DEF FindArtifact, vars
  <2>2. /\ sessions[q] # Closed /\ sessions'[q] # Closed => sessions'[q].row = sessions[q].row
        /\ artifact => sessions'[q].found # "none"
        /\ \A r \in SessionIds \ {q} : sessions'[r] = sessions[r]
    BY <1>0, <1>3 DEF FindArtifact, Loaded, Session
  <2>3. \A r \in SessionIds : sessions'[r] # Closed =>
           /\ sessions[r] # Closed /\ Row(r)' = Row(r)
           /\ artifact /\ sessions[r].found # "none" => sessions'[r].found # "none"
    BY <1>3, <2>2 DEF Row, FindArtifact, Loaded
  <2>4. QED
    BY <2>1, <2>3 DEF Undisturbed, SealedRow, OutdatedDocument, At
<1>4. ASSUME NEW set, RowRequest(q, set), sessions[q] # Closed,
             set.sections = p.sections, set.status = p.status
      PROVE  Undisturbed'
  <2>1. KeepSignoff /\ Commit(q, set) /\ UNCHANGED <<jobs, artifact, stored, delivery>>
    BY <1>4 DEF RowRequest, RowOnly
  <2>2. signoff' = signoff /\ proposal'.status \in SealedStatuses
    BY <2>1, StoodBefore
  <2>3. /\ SealedRow(proposal)'
        /\ \A r \in SessionIds : (sessions[r] # Closed)' =>
              r # q /\ sessions[r] # Closed /\ sessions'[r] = sessions[r] /\ SealedRow(Row(r))'
    BY <1>4, <2>1, <2>2, RowsStaySealed
  <2>4. proposal'.status = proposal.status
    BY <1>4, <2>1 DEF Commit, Committed, Column
  <2>5. QED
    BY <2>1, <2>2, <2>3, <2>4 DEF Undisturbed, SealedRow, OutdatedDocument, At, Row
<1>5. ASSUME NEW a \in Actors, CommitClaim(q, a) \/ CommitUnclaim(q, a) \/ CommitTransfer(q, a)
      PROVE  Undisturbed'
  BY <1>0, <1>4, <1>5, RuleStatuses, RulesKeepSections
     DEF CommitClaim, CommitUnclaim, CommitTransfer, Loaded
<1>6. ASSUME NEW t, NEW kind \in {"document", "delivery"}, sessions[q] # Closed,
             Commit(q, Transitioned(p, t)), Enqueue(kind, NoSection), KeepSignoff,
             UNCHANGED stored, ~OutdatedDocument'
      PROVE  Undisturbed'
  <2>1. signoff' = signoff /\ proposal'.status \in SealedStatuses
    BY <1>6, StoodBefore
  <2>2. /\ SealedRow(proposal)'
        /\ \A r \in SessionIds : (sessions[r] # Closed)' => SealedRow(Row(r))'
    BY <1>0, <1>6, <2>1, RowsStaySealed, RulesKeepSections
  <2>3. \A j \in JobIds : \/ jobs'[j] = jobs[j]
                          \/ jobs'[j].kind = kind /\ jobs'[j].phase = "queued"
    BY <1>0, <1>6 DEF Enqueue
  <2>4. QED
    BY <1>6, <2>1, <2>2, <2>3 DEF Undisturbed, SealedRow, At
<1>7. CASE CommitStartDocument(q)
  <2>1. ~OutdatedDocument'
    BY <1>7, StoodBefore
       DEF CommitStartDocument, Loaded, OutdatedDocument, Undisturbed
  <2>2. QED
    BY <1>6, <1>7, <2>1 DEF CommitStartDocument, Loaded
<1>8. ASSUME NEW a \in Actors, CommitStartDelivery(q, a) PROVE Undisturbed'
  <2>1. sessions[q] # Closed /\ p.status # "APPROVED"
    BY <1>8
       DEF CommitStartDelivery, Loaded, StartDeliveryAllowed, CanTransition, AllowedTransitions
  <2>2. ~OutdatedDocument'
    BY <1>8, <2>1, StoodBefore DEF CommitStartDelivery, OutdatedDocument, Undisturbed
  <2>3. QED
    BY <1>6, <1>8, <2>1, <2>2 DEF CommitStartDelivery
<1>9. QED
  BY <1>1, <1>2, <1>3, <1>5, <1>7, <1>8, ReviewsUnseal DEF RequestStep

(* A job that is under way is about the approved texts, and ends on them.  *)
LEMMA JobsKeepUndisturbed ==
    ASSUME SessionsInv, Undisturbed, NEW j \in JobIds, JobStep(j) \/ JobRaises(j),
           UNCHANGED sessions, Quiet'
    PROVE  Undisturbed'
<1> DEFINE row == jobs[j].snapshot
           Sealed == /\ signoff' = signoff
                     /\ proposal'.sections = proposal.sections
                     /\ proposal'.status \in SealedStatuses
<1>0. /\ proposal \in Proposal /\ jobs \in [JobIds -> Job]
      /\ jobs[j].phase \in {"running", "uploaded", "sent"} => row \in Proposal
      /\ proposal.status \in SealedStatuses
  BY DEF SessionsInv, TypeInv, TypeOK, JobShape, Undisturbed, SealedRow
<1>1. /\ jobs[j] # Idle
      /\ jobs[j].kind \in {"document", "delivery"}
      /\ ~OutdatedDocument
  <2>1. jobs[j].phase # "idle"
    BY DEF JobStep, Load, LoadDelivery, GenerationSucceeds, GenerationFails,
           RegenerationSucceeds, RegenerationFails, UploadDocument, DocumentReady,
           DocumentFails, SendEmail, RecordDelivery, SendFails, JobRaises, At
  <2>2. jobs[j] # Idle
    BY <2>1 DEF Idle
  <2>3. QED
    BY <2>2 DEF Undisturbed
<1>2. ASSUME NEW t, KeepSignoff, jobs[j].phase # "queued", jobs[j].phase # "idle",
             CommitJob(j, Transitioned(row, t))
      PROVE  Sealed
  <2>1. row \in Proposal
    BY <1>0, <1>2 DEF Job
  <2>2. proposal'.sections = proposal.sections
    BY <1>0, <1>2, <2>1, CommittedSections, RulesKeepSections DEF CommitJob
  <2>3. QED
    BY <1>2, <2>2, StoodBefore
<1>3. ASSUME UNCHANGED <<proposal, signoff>> PROVE Sealed
  BY <1>0, <1>3
<1>4. ASSUME Sealed, UNCHANGED <<artifact, stored>>,
             \/ jobs'[j] = Idle
             \/ /\ jobs'[j].kind = jobs[j].kind
                /\ SealedRow(jobs[j].snapshot)'
                /\ ~At(j, "document", "uploaded")',
             \A i \in JobIds \ {j} : jobs'[i] = jobs[i]
      PROVE  Undisturbed'
  <2>1. SealedRow(proposal)'
    BY <1>4, SameSectionsSealed DEF Undisturbed
  <2>2. ~OutdatedDocument'
    BY <1>1, <1>4 DEF OutdatedDocument
  <2>3. \A q \in SessionIds : (sessions[q] # Closed => SealedRow(Row(q)))'
    BY <1>4 DEF Undisturbed, SealedRow, Row
  <2>4. ASSUME NEW i \in JobIds, jobs'[i] # Idle
        PROVE  /\ jobs'[i].kind \in {"document", "delivery"}
               /\ jobs'[i].phase # "queued" => SealedRow(jobs[i].snapshot)'
               /\ At(i, "document", "uploaded")' => stored' = signoff'.texts
    <3>1. CASE i = j
      BY <1>1, <1>4, <2>4, <3>1
    <3>2. CASE i # j
      BY <1>4, <2>4, <3>2 DEF Undisturbed, SealedRow, At
    <3>3. QED
      BY <3>1, <3>2
  <2>5. QED
    BY <2>1, <2>2, <2>3, <2>4 DEF Undisturbed
<1>5. Ended(j) => jobs'[j] = Idle /\ \A i \in JobIds \ {j} : jobs'[i] = jobs[i]
  BY <1>0 DEF Ended
<1>6. CASE \/ GenerationSucceeds(j) \/ GenerationFails(j)
           \/ RegenerationSucceeds(j) \/ RegenerationFails(j)
  BY <1>1, <1>6
     DEF GenerationSucceeds, GenerationFails, RegenerationSucceeds, RegenerationFails, At
<1>7. ASSUME jobs' = [jobs EXCEPT ![j].phase = "running", ![j].snapshot = proposal],
             UNCHANGED <<proposal, artifact, stored, signoff>>
      PROVE  Undisturbed'
  <2>1. /\ jobs'[j].kind = jobs[j].kind /\ jobs'[j].snapshot = proposal
        /\ jobs'[j].phase = "running"
        /\ \A i \in JobIds \ {j} : jobs'[i] = jobs[i]
    BY <1>0, <1>7 DEF Job
  <2>2. SealedRow(jobs[j].snapshot)' /\ ~At(j, "document", "uploaded")'
    BY <1>7, <2>1 DEF Undisturbed, SealedRow, At
  <2>3. QED
    BY <1>3, <1>4, <1>7, <2>1, <2>2
<1>8. CASE Load(j)
  BY <1>1, <1>7, <1>8 DEF Load
<1>9. CASE LoadDelivery(j)
  <2>1. CASE artifact
    BY <1>7, <1>9, <2>1 DEF LoadDelivery
  <2>2. CASE ~artifact
    <3>1. proposal' = proposal \/ proposal' = Transitioned(proposal, "DELIVERY_FAILED")
      BY <1>9, <2>2 DEF LoadDelivery
    <3>2. Sealed
      BY <1>0, <1>9, <2>2, <3>1, StoodBefore, RulesKeepSections DEF LoadDelivery
    <3>3. QED
      BY <1>4, <1>5, <1>9, <2>2, <3>2 DEF LoadDelivery
  <2>3. QED
    BY <2>1, <2>2
<1>10. CASE UploadDocument(j)
  <2>1. /\ jobs'[j].kind = jobs[j].kind /\ jobs'[j].snapshot = row
        /\ \A i \in JobIds \ {j} : jobs'[i] = jobs[i]
    BY <1>0, <1>10 DEF UploadDocument, Job
  <2>2. SealedRow(row) /\ stored' = signoff.texts
    BY <1>1, <1>10 DEF UploadDocument, At, Rendered, Undisturbed, SealedRow
  <2>3. SealedRow(proposal)' /\ SealedRow(jobs[j].snapshot)' /\ ~OutdatedDocument'
    BY <1>10, <2>1, <2>2 DEF UploadDocument, SealedRow, OutdatedDocument, Undisturbed
  <2>4. QED
    BY <1>1, <1>10, <2>1, <2>2, <2>3 DEF UploadDocument, Undisturbed, SealedRow, At, Row
<1>11. CASE DocumentReady(j)
  <2>1. Sealed
    BY <1>2, <1>3, <1>11 DEF DocumentReady, At, CommitJob
  <2>2. stored' = signoff.texts /\ Ended(j)
    BY <1>1, <1>11 DEF DocumentReady, Undisturbed
  <2>3. SealedRow(proposal)'
    BY <2>1, SameSectionsSealed DEF Undisturbed
  <2>4. QED
    BY <1>5, <1>11, <2>1, <2>2, <2>3
       DEF DocumentReady, OutdatedDocument, Undisturbed, SealedRow, At, Row
<1>12. CASE DocumentFails(j)
  <2>1. Sealed
    BY <1>2, <1>3, <1>12 DEF DocumentFails, At, CommitJob
  <2>2. stored' \in {stored, signoff.texts} /\ Ended(j)
    BY <1>1, <1>12 DEF DocumentFails, At, AfterFailedUpload, Rendered, Undisturbed, SealedRow
  <2>3. SealedRow(proposal)' /\ ~OutdatedDocument'
    BY <1>1, <1>12, <2>1, <2>2, SameSectionsSealed
       DEF DocumentFails, OutdatedDocument, Undisturbed
  <2>4. QED
    BY <1>5, <2>1, <2>2, <2>3 DEF Undisturbed, SealedRow, At, Row
<1>13. CASE SendEmail(j)
  <2>1. /\ jobs'[j].kind = jobs[j].kind /\ jobs'[j].snapshot = row /\ jobs'[j].phase = "sent"
        /\ \A i \in JobIds \ {j} : jobs'[i] = jobs[i]
    BY <1>0, <1>13 DEF SendEmail, Job
  <2>2. SealedRow(jobs[j].snapshot)' /\ ~At(j, "document", "uploaded")'
    BY <1>1, <1>13, <2>1 DEF SendEmail, At, Undisturbed, SealedRow
  <2>3. QED
    BY <1>3, <1>4, <1>13, <2>1, <2>2 DEF SendEmail
<1>14. CASE RecordDelivery(j) \/ SendFails(j)
  <2>1. Sealed
    BY <1>2, <1>3, <1>14 DEF RecordDelivery, SendFails, At, CommitJob
  <2>2. QED
    BY <1>4, <1>5, <1>14, <2>1 DEF RecordDelivery, SendFails
<1>15. CASE JobRaises(j)
  BY <1>1, <1>3, <1>4, <1>5, <1>15 DEF JobRaises
<1>16. QED
  BY <1>6, <1>8, <1>9, <1>10, <1>11, <1>12, <1>13, <1>14, <1>15 DEF JobStep

LEMMA OverlapInvKept == OverlapInv /\ [SessionsNext]_allVars => OverlapInv'
<1> SUFFICES ASSUME OverlapInv, [SessionsNext]_allVars PROVE OverlapInv'
  OBVIOUS
<1>0. SessionsInv /\ SessionsInv'
  BY SessionsInvKept DEF OverlapInv
<1> SUFFICES ASSUME Quiet' PROVE Undisturbed'
  BY <1>0 DEF OverlapInv
<1>1. ASSUME NEW q \in SessionIds, RequestStep(q) PROVE Undisturbed'
  <2>1. CASE \E a \in Actors : CommitApproveProposal(q, a)
    BY <1>0, <2>1, UndisturbedFirst
  <2>2. CASE ~\E a \in Actors : CommitApproveProposal(q, a)
    <3>1. KeepSignoff \/ UNCHANGED signoff
      BY <1>1, <2>2
         DEF RequestStep, Open, Refuse, FindArtifact, vars, CommitStartDocument,
             CommitUpdateSection, CommitApproveSection, CommitSubmit, CommitRequestChanges,
             CommitReject, CommitClaim, CommitUnclaim, CommitTransfer, RowRequest, RowOnly,
             CommitStartGeneration, CommitStartRegeneration, CommitStartDelivery
    <3>2. Undisturbed
      BY <3>1, StoodBefore DEF OverlapInv
    <3>3. QED
      BY <1>0, <1>1, <3>2, RequestsKeepUndisturbed
  <2>3. QED
    BY <2>1, <2>2
<1>2. ASSUME NEW j \in JobIds, JobStep(j) \/ JobRaises(j), UNCHANGED sessions PROVE Undisturbed'
  <2>1. KeepSignoff \/ UNCHANGED signoff
    BY <1>2
       DEF JobStep, Load, LoadDelivery, GenerationSucceeds, GenerationFails,
           RegenerationSucceeds, RegenerationFails, UploadDocument, DocumentReady,
           DocumentFails, SendEmail, RecordDelivery, SendFails, JobRaises, CommitJob,
           AbandonGeneration
  <2>2. Undisturbed
    BY <2>1, StoodBefore DEF OverlapInv
  <2>3. QED
    BY <1>0, <1>2, <2>2, JobsKeepUndisturbed
<1>3. CASE Restart /\ sessions' = [q \in SessionIds |-> Closed]
  <2>1. Undisturbed /\ UNCHANGED <<proposal, artifact, stored, signoff>>
    BY <1>3, StoodBefore DEF Restart, OverlapInv
  <2>2. (\A j \in JobIds : jobs'[j] = Idle) /\ \A q \in SessionIds : sessions'[q] = Closed
    BY <1>3 DEF Restart
  <2>3. QED
    BY <2>1, <2>2 DEF Undisturbed, SealedRow, OutdatedDocument
<1>4. CASE UNCHANGED allVars
  <2>1. Undisturbed
    BY <1>4, StoodBefore DEF allVars, OverlapInv
  <2>2. QED
    BY <1>4, <2>1 DEF allVars, Undisturbed, SealedRow, OutdatedDocument, At, Row
<1>5. QED
  BY <1>1, <1>2, <1>3, <1>4 DEF SessionsNext

(* An approval that no other request and no job overlapped is sealed, with *)
(* request-changes in any status and however many requests and jobs        *)
(* overlap from then on: the sections keep the approved texts until it is  *)
(* withdrawn, and from DOCUMENT_READY on the link opens those or nothing.  *)
THEOREM QuietApprovalOutlastsOverlap == SessionsSpec => []QuietApprovalIsSealed
<1>1. SessionsInit => OverlapInv
  BY SessionsInitInv DEF SessionsInit, Init, OverlapInv, Quiet
<1>2. OverlapInv => QuietApprovalIsSealed
  BY DEF OverlapInv, Undisturbed, SealedRow, OutdatedDocument, Quiet, QuietApprovalIsSealed,
         LinkOpens, DocumentStatuses
<1>3. QED
  BY <1>1, <1>2, OverlapInvKept, PTL DEF SessionsSpec

=============================================================================
