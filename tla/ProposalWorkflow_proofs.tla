---------------------- MODULE ProposalWorkflow_proofs ----------------------
(***************************************************************************)
(* Theorems of ProposalWorkflow, for any accounts, sections, texts, job    *)
(* slots and faults.                                                       *)
(***************************************************************************)
EXTENDS ProposalWorkflow, TLAPS

(* The outcome of every rule is a row of the right shape. *)
LEMMA TransitionedType ==
    ASSUME NEW p \in Proposal, NEW t \in ProposalStatus
    PROVE  Transitioned(p, t) \in Proposal
BY DEF Transitioned, Proposal

LEMMA ReopenedType ==
    ASSUME NEW p \in Proposal
    PROVE  Reopened(p) \in Proposal
BY TransitionedType DEF Reopened, ProposalStatus

LEMMA SectionReplacedType ==
    ASSUME NEW p \in Proposal, NEW s \in Sections, NEW section \in Section
    PROVE  [p EXCEPT !.sections[s] = section] \in Proposal
<1>1. [p.sections EXCEPT ![s] = section] \in [Sections -> Section]
  BY DEF Proposal
<1>2. QED
  BY <1>1 DEF Proposal

LEMMA EditedType ==
    ASSUME NEW p \in Proposal, NEW s \in Sections, NEW text \in Contents
    PROVE  Edited(p, s, text) \in Proposal
<1> DEFINE section == [p.sections[s] EXCEPT !.content = text, !.approval = "PENDING"]
           q == [p EXCEPT !.sections[s].content = text, !.sections[s].approval = "PENDING"]
<1>1. section \in Section
  BY DEF Proposal, Section
<1>2. q = [p EXCEPT !.sections[s] = section]
  BY DEF Proposal, Section
<1>3. q \in Proposal
  BY <1>1, <1>2, SectionReplacedType
<1>4. QED
  BY <1>3, ReopenedType DEF Edited

LEMMA SectionApprovedType ==
    ASSUME NEW p \in Proposal, NEW s \in Sections
    PROVE  SectionApproved(p, s) \in Proposal
BY DEF SectionApproved, Proposal, Section

LEMMA WhollyApprovedType ==
    ASSUME NEW p \in Proposal
    PROVE  WhollyApproved(p) \in Proposal
<1>1. AllSectionsApproved(p) \in Proposal
  BY DEF AllSectionsApproved, Proposal, Section
<1>2. QED
  BY <1>1, TransitionedType DEF WhollyApproved, ProposalStatus

LEMMA OwnershipType ==
    ASSUME NEW p \in Proposal, NEW a \in NamedAccounts
    PROVE  /\ Claimed(p, a) \in Proposal
           /\ Transferred(p, a) \in Proposal
           /\ Unclaimed(p) \in Proposal
BY AccountsAssumption DEF Claimed, Transferred, Unclaimed, Proposal

LEMMA UnclaimedType ==
    ASSUME NEW p \in Proposal
    PROVE  Unclaimed(p) \in Proposal
BY DEF Unclaimed, Proposal

LEMMA GeneratedType ==
    ASSUME NEW p \in Proposal, NEW texts \in Texts
    PROVE  Generated(p, texts) \in Proposal
BY DEF Generated, Proposal, Section, ProposalStatus, Texts

LEMMA RegeneratedType ==
    ASSUME NEW p \in Proposal, NEW s \in Sections, NEW text \in Contents
    PROVE  Regenerated(p, s, text) \in Proposal
<1> DEFINE section == [content |-> text, approval |-> "PENDING",
                       regenerations |-> p.sections[s].regenerations + 1]
<1>1. section \in Section
  BY DEF Proposal, Section
<1>2. Regenerated(p, s, text) = [p EXCEPT !.sections[s] = section]
  BY DEF Regenerated, Proposal
<1>3. QED
  BY <1>1, <1>2, SectionReplacedType

LEMMA CommittedType ==
    ASSUME NEW p \in Proposal, NEW q \in Proposal, NEW r \in Proposal
    PROVE  Committed(p, q, r) \in Proposal
BY DEF Committed, Column, Proposal, Section

LEMMA ContentOfType ==
    ASSUME NEW p \in Proposal
    PROVE  ContentOf(p) \in Texts
BY DEF ContentOf, Texts, Proposal, Section

-----------------------------------------------------------------------------
(* What a job carries: a queued job has a section if it regenerates one,   *)
(* and a job past its load has a row to compute from.                      *)
JobShape ==
    \A j \in JobIds :
        /\ jobs[j].kind = "regeneration" => jobs[j].section \in Sections
        /\ jobs[j].phase \in {"running", "uploaded", "sent"} => jobs[j].snapshot \in Proposal

TypeInv == TypeOK /\ JobShape

LEMMA InitTypeInv == Init => TypeInv
<1> SUFFICES ASSUME Init PROVE TypeInv
  OBVIOUS
<1>1. proposal \in Proposal
  BY TemplateAssumption, EnvironmentAssumption
     DEF Init, IntakeProposal, Proposal, Section, ProposalStatus
<1>2. jobs \in [JobIds -> Job] /\ JobShape
  BY DEF Init, Idle, Job, JobShape
<1>3. QED
  BY <1>1, <1>2 DEF Init, TypeInv, TypeOK

(* The pieces the actions are made of. *)
LEMMA KeepSignoffType ==
    ASSUME TypeOK, KeepSignoff
    PROVE  signoff' \in Signoff \cup {NoSignoff}
BY DEF TypeOK, KeepSignoff

LEMMA EnqueueType ==
    ASSUME TypeInv,
           NEW kind \in {"generation", "document", "delivery", "regeneration"},
           NEW s \in Sections \cup {NoSection}, Enqueue(kind, s),
           kind = "regeneration" => s \in Sections
    PROVE  jobs' \in [JobIds -> Job] /\ JobShape'
<1>1. PICK j \in JobIds : jobs' = [jobs EXCEPT ![j] =
          [kind |-> kind, section |-> s, phase |-> "queued", snapshot |-> NoSnapshot]]
  BY DEF Enqueue
<1>2. jobs' \in [JobIds -> Job]
  BY <1>1 DEF TypeInv, TypeOK, Job
<1>3. JobShape'
  BY <1>1, <1>2 DEF TypeInv, TypeOK, JobShape, Job
<1>4. QED
  BY <1>2, <1>3

LEMMA EndedType ==
    ASSUME TypeInv, NEW j \in JobIds, Ended(j)
    PROVE  jobs' \in [JobIds -> Job] /\ JobShape'
BY DEF TypeInv, TypeOK, Ended, Idle, Job, JobShape

LEMMA CommitJobType ==
    ASSUME TypeInv, NEW j \in JobIds, jobs[j].phase \in {"running", "uploaded", "sent"},
           NEW set \in Proposal, CommitJob(j, set)
    PROVE  proposal' \in Proposal /\ signoff' \in Signoff \cup {NoSignoff}
BY CommittedType, KeepSignoffType DEF TypeInv, TypeOK, JobShape, CommitJob

LEMMA AbandonGenerationType ==
    ASSUME TypeInv, AbandonGeneration
    PROVE  proposal' \in Proposal /\ signoff' \in Signoff \cup {NoSignoff}
BY TransitionedType, KeepSignoffType DEF TypeInv, TypeOK, AbandonGeneration, ProposalStatus

(* Every request keeps the types. *)
LEMMA SalespersonStepType ==
    ASSUME TypeInv, NEW a \in Actors, SalespersonStep(a)
    PROVE  TypeInv'
<1> USE DEF TypeInv
<1>1. ASSUME NEW s \in Sections, NEW text \in Contents, UpdateSection(a, s, text)
      PROVE  TypeInv'
  BY <1>1, EditedType, KeepSignoffType DEF UpdateSection, RowOnly, TypeOK, JobShape
<1>2. ASSUME NEW s \in Sections, ApproveSection(a, s) PROVE TypeInv'
  BY <1>2, SectionApprovedType, KeepSignoffType DEF ApproveSection, RowOnly, TypeOK, JobShape
<1>3. ASSUME NEW s \in Sections, StartRegeneration(a, s) PROVE TypeInv'
  BY <1>3, ReopenedType, KeepSignoffType, EnqueueType DEF StartRegeneration, TypeOK
<1>4. CASE SubmitForApproval(a) \/ RequestChanges(a) \/ Reject(a)
  BY <1>4, TransitionedType, KeepSignoffType
     DEF SubmitForApproval, RequestChanges, Reject, RowOnly, TypeOK, JobShape, ProposalStatus
<1>5. CASE ApproveProposal(a)
  <2>1. signoff' \in Signoff
    BY <1>5, ContentOfType DEF ApproveProposal, TypeOK, Signoff, RegenerationOutstanding
  <2>2. QED
    BY <1>5, <2>1, WhollyApprovedType DEF ApproveProposal, TypeOK, JobShape
<1>6. CASE Claim(a)
  BY <1>6, OwnershipType, KeepSignoffType DEF Claim, ClaimAllowed, RowOnly, TypeOK, JobShape
<1>7. CASE Unclaim(a)
  BY <1>7, UnclaimedType, KeepSignoffType DEF Unclaim, RowOnly, TypeOK, JobShape
<1>8. ASSUME NEW b \in Accounts, Transfer(a, b) PROVE TypeInv'
  BY <1>8, OwnershipType, KeepSignoffType
     DEF Transfer, TransferAllowed, RowOnly, TypeOK, JobShape
<1>9. CASE StartGeneration(a)
  BY <1>9, TransitionedType, KeepSignoffType, EnqueueType
     DEF StartGeneration, TypeOK, ProposalStatus
<1>10. CASE StartDocument(a)
  BY <1>10, TransitionedType, KeepSignoffType, EnqueueType
     DEF StartDocument, TypeOK, ProposalStatus
<1>11. CASE StartDelivery(a)
  BY <1>11, TransitionedType, KeepSignoffType, EnqueueType
     DEF StartDelivery, TypeOK, ProposalStatus
<1>12. QED
  BY <1>1, <1>2, <1>3, <1>4, <1>5, <1>6, <1>7, <1>8, <1>9, <1>10, <1>11 DEF SalespersonStep

(* Every step of a job keeps the types. *)
LEMMA JobStepType ==
    ASSUME TypeInv, NEW j \in JobIds, JobStep(j)
    PROVE  TypeInv'
<1> USE DEF TypeInv
<1>1. CASE Load(j)
  <2>1. CASE Ended(j)
    BY <1>1, <2>1, EndedType DEF Load, TypeOK
  <2>2. CASE jobs' = [jobs EXCEPT ![j].phase = "running", ![j].snapshot = proposal]
    BY <1>1, <2>2 DEF Load, TypeOK, Job, JobShape
  <2>3. QED
    BY <1>1, <2>1, <2>2 DEF Load
<1>2. CASE LoadDelivery(j)
  <2>1. CASE artifact
    BY <1>2, <2>1 DEF LoadDelivery, TypeOK, Job, JobShape
  <2>2. CASE ~artifact
    <3>1. proposal' \in Proposal
      BY <1>2, <2>2, TransitionedType DEF LoadDelivery, TypeOK, ProposalStatus
    <3>2. QED
      BY <1>2, <2>2, <3>1, EndedType, KeepSignoffType DEF LoadDelivery, TypeOK
  <2>3. QED
    BY <2>1, <2>2
<1>3. CASE GenerationSucceeds(j)
  <2>1. jobs[j].snapshot \in Proposal
    BY <1>3 DEF GenerationSucceeds, At, JobShape
  <2>2. proposal' \in Proposal /\ signoff' \in Signoff \cup {NoSignoff}
    BY <1>3, <2>1, GeneratedType, CommitJobType, AbandonGenerationType
       DEF GenerationSucceeds, At
  <2>3. QED
    BY <1>3, <2>2, EndedType DEF GenerationSucceeds, TypeOK
<1>4. CASE GenerationFails(j)
  <2>1. jobs[j].snapshot \in Proposal
    BY <1>4 DEF GenerationFails, At, JobShape
  <2>2. Transitioned(jobs[j].snapshot, "GENERATION_FAILED") \in Proposal
    BY <2>1, TransitionedType DEF ProposalStatus
  <2>3. proposal' \in Proposal /\ signoff' \in Signoff \cup {NoSignoff}
    BY <1>4, <2>2, CommitJobType, AbandonGenerationType DEF GenerationFails, At
  <2>4. QED
    BY <1>4, <2>3, EndedType DEF GenerationFails, TypeOK
<1>5. CASE RegenerationSucceeds(j)
  <2>1. jobs[j].snapshot \in Proposal /\ jobs[j].section \in Sections
    BY <1>5 DEF RegenerationSucceeds, At, JobShape
  <2>2. proposal' \in Proposal /\ signoff' \in Signoff \cup {NoSignoff}
    BY <1>5, <2>1, RegeneratedType, CommitJobType DEF RegenerationSucceeds, At
  <2>3. QED
    BY <1>5, <2>2, EndedType DEF RegenerationSucceeds, TypeOK
<1>6. CASE RegenerationFails(j)
  BY <1>6, EndedType DEF RegenerationFails, TypeOK
<1>7. CASE UploadDocument(j)
  <2>1. stored' \in Texts
    BY <1>7, ContentOfType DEF UploadDocument, Rendered, At, JobShape
  <2>2. jobs' \in [JobIds -> Job] /\ JobShape'
    BY <1>7 DEF UploadDocument, At, TypeOK, Job, JobShape
  <2>3. QED
    BY <1>7, <2>1, <2>2 DEF UploadDocument, TypeOK
<1>8. CASE DocumentReady(j)
  <2>1. Transitioned(jobs[j].snapshot, "DOCUMENT_READY") \in Proposal
    BY <1>8, TransitionedType DEF DocumentReady, At, JobShape, ProposalStatus
  <2>2. proposal' \in Proposal /\ signoff' \in Signoff \cup {NoSignoff} /\ artifact' \in BOOLEAN
    BY <1>8, <2>1, CommitJobType DEF DocumentReady, At, TypeOK
  <2>3. QED
    BY <1>8, <2>2, EndedType DEF DocumentReady, TypeOK
<1>9. CASE DocumentFails(j)
  <2>1. Transitioned(jobs[j].snapshot, "DOCUMENT_GENERATION_FAILED") \in Proposal
    BY <1>9, TransitionedType DEF DocumentFails, At, JobShape, ProposalStatus
  <2>2. proposal' \in Proposal /\ signoff' \in Signoff \cup {NoSignoff}
    BY <1>9, <2>1, CommitJobType DEF DocumentFails, At, TypeOK
  <2>3. jobs[j].snapshot \in Proposal
    BY <1>9 DEF DocumentFails, At, JobShape
  <2>4. stored' \in Texts \cup {NoDocument}
    BY <1>9, <2>3, ContentOfType DEF DocumentFails, AfterFailedUpload, Rendered, TypeOK
  <2>5. QED
    BY <1>9, <2>2, <2>4, EndedType DEF DocumentFails, TypeOK
<1>10. CASE SendEmail(j)
  <2>1. jobs' \in [JobIds -> Job] /\ JobShape'
    BY <1>10 DEF SendEmail, At, TypeOK, Job, JobShape
  <2>2. QED
    BY <1>10, <2>1 DEF SendEmail, TypeOK
<1>11. CASE RecordDelivery(j)
  <2>1. Transitioned(jobs[j].snapshot, "DELIVERED") \in Proposal
    BY <1>11, TransitionedType DEF RecordDelivery, At, JobShape, ProposalStatus
  <2>2. proposal' \in Proposal /\ signoff' \in Signoff \cup {NoSignoff}
    BY <1>11, <2>1, CommitJobType DEF RecordDelivery, At, TypeOK
  <2>3. delivery' \in [emails : Nat, sent : Nat, failed : Nat]
    BY <1>11 DEF RecordDelivery, TypeOK
  <2>4. QED
    BY <1>11, <2>2, <2>3, EndedType DEF RecordDelivery, TypeOK
<1>12. CASE SendFails(j)
  <2>1. Transitioned(jobs[j].snapshot, "DELIVERY_FAILED") \in Proposal
    BY <1>12, TransitionedType DEF SendFails, At, JobShape, ProposalStatus
  <2>2. proposal' \in Proposal /\ signoff' \in Signoff \cup {NoSignoff}
    BY <1>12, <2>1, CommitJobType DEF SendFails, At, TypeOK
  <2>3. delivery' \in [emails : Nat, sent : Nat, failed : Nat]
    <3>1. PICK accepted \in SentByFailedSend :
             \/ delivery' = [delivery EXCEPT !.emails = @ + accepted, !.failed = @ + 1]
             \/ delivery' = [delivery EXCEPT !.emails = @ + accepted]
      BY <1>12 DEF SendFails
    <3>2. accepted \in Nat
      BY DEF SentByFailedSend
    <3>3. delivery.emails + accepted \in Nat /\ delivery.failed + 1 \in Nat
      BY <3>2 DEF TypeOK
    <3>4. CASE delivery' = [delivery EXCEPT !.emails = @ + accepted, !.failed = @ + 1]
      BY <3>3, <3>4 DEF TypeOK
    <3>5. CASE delivery' = [delivery EXCEPT !.emails = @ + accepted]
      BY <3>3, <3>5 DEF TypeOK
    <3>6. QED
      BY <3>1, <3>4, <3>5
  <2>4. QED
    BY <1>12, <2>2, <2>3, EndedType DEF SendFails, TypeOK
<1>13. QED
  BY <1>1, <1>2, <1>3, <1>4, <1>5, <1>6, <1>7, <1>8, <1>9, <1>10, <1>11, <1>12 DEF JobStep

LEMMA FaultType ==
    ASSUME TypeInv, (\E j \in JobIds : JobRaises(j)) \/ Restart
    PROVE  TypeInv'
<1> USE DEF TypeInv
<1>1. ASSUME NEW j \in JobIds, JobRaises(j) PROVE TypeInv'
  <2>1. proposal' \in Proposal /\ signoff' \in Signoff \cup {NoSignoff}
    BY <1>1, AbandonGenerationType DEF JobRaises, TypeOK
  <2>2. QED
    BY <1>1, <2>1, EndedType DEF JobRaises, TypeOK
<1>2. CASE Restart
  BY <1>2 DEF Restart, Idle, Job, TypeOK, JobShape
<1>3. QED
  BY <1>1, <1>2

LEMMA TypeInvKept == TypeInv /\ [Next]_vars => TypeInv'
<1> SUFFICES ASSUME TypeInv, [Next]_vars PROVE TypeInv'
  OBVIOUS
<1>1. CASE Next
  BY <1>1, SalespersonStepType, JobStepType, FaultType DEF Next
<1>2. CASE UNCHANGED vars
  BY <1>2 DEF vars, TypeInv, TypeOK, JobShape
<1>3. QED
  BY <1>1, <1>2

(* Type correctness: every reachable state has the shape the tables and    *)
(* the job queue give it, and no job computes from a row it never loaded.  *)
THEOREM TypeCorrectness == Spec => []TypeOK
<1>1. TypeInv => TypeOK
  BY DEF TypeInv
<1>2. QED
  BY <1>1, InitTypeInv, TypeInvKept, PTL DEF Spec

-----------------------------------------------------------------------------
(* The cap.  A commit writes one more than the count the job loaded, so    *)
(* the invariant is about what running jobs hold: a count below the cap.   *)
RunningHasAttempt ==
    \A j \in JobIds : At(j, "regeneration", "running") =>
        CanRegenerate(jobs[j].snapshot, jobs[j].section)

CapInv == TypeInv /\ RegenerationCap /\ RunningHasAttempt

(* Requests and the other jobs leave every count as it is. *)
CountsKept == \A s \in Sections :
    proposal'.sections[s].regenerations = proposal.sections[s].regenerations

LEMMA SalespersonKeepsCounts ==
    ASSUME TypeOK, NEW a \in Actors, SalespersonStep(a)
    PROVE  CountsKept
<1> DEFINE p == proposal
<1>0. p \in Proposal
  BY DEF TypeOK
<1>1. ASSUME NEW s \in Sections, NEW text \in Contents, UpdateSection(a, s, text)
      PROVE  CountsKept
  <2> DEFINE q == [p EXCEPT !.sections[s].content = text, !.sections[s].approval = "PENDING"]
  <2>1. \A t \in Sections : q.sections[t].regenerations = p.sections[t].regenerations
    BY <1>0 DEF Proposal, Section
  <2>2. Reopened(q).sections = q.sections
    BY <1>0 DEF Reopened, Transitioned, Proposal
  <2>3. QED
    BY <1>1, <2>1, <2>2 DEF UpdateSection, Edited, CountsKept
<1>2. ASSUME NEW s \in Sections, ApproveSection(a, s) PROVE CountsKept
  BY <1>0, <1>2 DEF ApproveSection, SectionApproved, CountsKept, Proposal, Section
<1>3. ASSUME NEW s \in Sections, StartRegeneration(a, s) PROVE CountsKept
  BY <1>0, <1>3 DEF StartRegeneration, Reopened, Transitioned, CountsKept, Proposal
<1>4. CASE ApproveProposal(a)
  BY <1>0, <1>4
     DEF ApproveProposal, WhollyApproved, AllSectionsApproved, Transitioned, CountsKept,
         Proposal, Section
<1>5. CASE \/ SubmitForApproval(a) \/ RequestChanges(a) \/ Reject(a)
           \/ StartGeneration(a) \/ StartDocument(a) \/ StartDelivery(a)
  BY <1>0, <1>5
     DEF SubmitForApproval, RequestChanges, Reject, StartGeneration, StartDocument,
         StartDelivery, Transitioned, CountsKept, Proposal
<1>6. CASE Claim(a) \/ Unclaim(a) \/ \E b \in Accounts : Transfer(a, b)
  BY <1>0, <1>6
     DEF Claim, Unclaim, Transfer, Claimed, Unclaimed, Transferred, CountsKept, Proposal
<1>7. QED
  BY <1>1, <1>2, <1>3, <1>4, <1>5, <1>6 DEF SalespersonStep

(* A commit that does not set a count keeps the stored one. *)
LEMMA CommitKeepsCounts ==
    ASSUME TypeOK, NEW j \in JobIds, NEW set, CommitJob(j, set),
           \A s \in Sections :
              set.sections[s].regenerations = jobs[j].snapshot.sections[s].regenerations
    PROVE  CountsKept
BY DEF TypeOK, CommitJob, Committed, Column, CountsKept

LEMMA AbandonKeepsCounts ==
    ASSUME TypeOK, AbandonGeneration
    PROVE  CountsKept
BY DEF TypeOK, AbandonGeneration, Transitioned, CountsKept, Proposal

(* A successful regeneration adds one to the count it loaded. *)
LEMMA RegenerationRespectsCap ==
    ASSUME CapInv, NEW j \in JobIds, RegenerationSucceeds(j)
    PROVE  RegenerationCap'
<1> DEFINE snap == jobs[j].snapshot
           sec  == jobs[j].section
<1>1. snap \in Proposal /\ sec \in Sections
  BY DEF CapInv, TypeInv, JobShape, RegenerationSucceeds, At
<1>2. snap.sections[sec].regenerations < MaxRegenerationAttempts
  BY DEF CapInv, RunningHasAttempt, RegenerationSucceeds, CanRegenerate, At
<1>3. PICK text \in Contents : CommitJob(j, Regenerated(snap, sec, text))
  BY DEF RegenerationSucceeds
<1> DEFINE set == Regenerated(snap, sec, text)
<1>4. /\ set.sections[sec].regenerations = snap.sections[sec].regenerations + 1
      /\ \A t \in Sections \ {sec} :
            set.sections[t].regenerations = snap.sections[t].regenerations
  BY <1>1 DEF Regenerated, Proposal, Section
<1>5. snap.sections[sec].regenerations \in Nat
  BY <1>1 DEF Proposal, Section
<1>6. ASSUME NEW t \in Sections
      PROVE  proposal'.sections[t].regenerations <= MaxRegenerationAttempts
  <2>1. proposal'.sections[t].regenerations =
           Column(proposal.sections[t].regenerations, snap.sections[t].regenerations,
                  set.sections[t].regenerations)
    BY <1>3 DEF CommitJob, Committed
  <2>2. CASE t = sec
    BY <1>2, <1>4, <1>5, <2>1, <2>2, AttemptsAssumption DEF Column
  <2>3. CASE t # sec
    BY <1>4, <2>1, <2>3 DEF Column, CapInv, RegenerationCap
  <2>4. QED
    BY <2>2, <2>3
<1>7. QED
  BY <1>6 DEF RegenerationCap

(* No job gains a regeneration to run, except by loading with an attempt   *)
(* left.                                                                   *)
LEMMA RunningHasAttemptKept ==
    ASSUME CapInv, Next
    PROVE  RunningHasAttempt'
<1> SUFFICES ASSUME NEW i \in JobIds, At(i, "regeneration", "running")'
             PROVE  CanRegenerate(jobs[i].snapshot, jobs[i].section)'
  BY DEF RunningHasAttempt
<1>0. jobs \in [JobIds -> Job]
  BY DEF CapInv, TypeInv, TypeOK
<1>1. CASE jobs'[i] = jobs[i]
  BY <1>1 DEF CapInv, RunningHasAttempt, At, CanRegenerate
<1>2. ASSUME NEW j \in JobIds, Ended(j) PROVE jobs'[i] = jobs[i]
  BY <1>0, <1>2 DEF Ended, Idle, At
<1>3. ASSUME NEW kind, NEW s, Enqueue(kind, s) PROVE jobs'[i] = jobs[i]
  BY <1>0, <1>3 DEF Enqueue, At
<1>4. ASSUME NEW a \in Actors, SalespersonStep(a) PROVE jobs'[i] = jobs[i]
  BY <1>3, <1>4
     DEF SalespersonStep, UpdateSection, ApproveSection, StartRegeneration, SubmitForApproval,
         ApproveProposal, RequestChanges, Reject, Claim, Unclaim, Transfer, StartGeneration,
         StartDocument, StartDelivery, RowOnly
<1>5. ASSUME NEW j \in JobIds, Load(j)
      PROVE  CanRegenerate(jobs[i].snapshot, jobs[i].section)'
  <2>1. CASE Ended(j)
    BY <1>1, <1>2, <2>1
  <2>2. CASE ~Ended(j)
    BY <1>0, <1>1, <1>5, <2>2 DEF Load, At, CanRegenerate, Job
  <2>3. QED
    BY <2>1, <2>2
<1>6. ASSUME NEW j \in JobIds, LoadDelivery(j) PROVE jobs'[i] = jobs[i]
  BY <1>0, <1>2, <1>6 DEF LoadDelivery, At, Job
<1>7. ASSUME NEW j \in JobIds, UploadDocument(j) \/ SendEmail(j) PROVE jobs'[i] = jobs[i]
  BY <1>0, <1>7 DEF UploadDocument, SendEmail, At, Job
<1>8. ASSUME NEW j \in JobIds,
             \/ GenerationSucceeds(j) \/ GenerationFails(j) \/ RegenerationSucceeds(j)
             \/ RegenerationFails(j) \/ DocumentReady(j) \/ DocumentFails(j)
             \/ RecordDelivery(j) \/ SendFails(j) \/ JobRaises(j)
      PROVE  jobs'[i] = jobs[i]
  <2>1. Ended(j)
    BY <1>8
       DEF GenerationSucceeds, GenerationFails, RegenerationSucceeds, RegenerationFails,
           DocumentReady, DocumentFails, RecordDelivery, SendFails, JobRaises
  <2>2. QED
    BY <1>2, <2>1
<1>9. ~Restart
  BY DEF Restart, Idle, At
<1>10. QED
  BY <1>1, <1>4, <1>5, <1>6, <1>7, <1>8, <1>9 DEF Next, JobStep

LEMMA CapKept ==
    ASSUME CapInv, Next
    PROVE  RegenerationCap'
<1>0. TypeOK /\ JobShape
  BY DEF CapInv, TypeInv
<1>1. ASSUME CountsKept PROVE RegenerationCap'
  BY <1>1 DEF CapInv, RegenerationCap, CountsKept
<1>2. ASSUME NEW a \in Actors, SalespersonStep(a) PROVE CountsKept
  BY <1>0, <1>2, SalespersonKeepsCounts
<1>3. ASSUME NEW j \in JobIds, NEW status, jobs[j].snapshot \in Proposal,
             CommitJob(j, Transitioned(jobs[j].snapshot, status))
      PROVE  CountsKept
  <2>1. Transitioned(jobs[j].snapshot, status).sections = jobs[j].snapshot.sections
    BY <1>3 DEF Transitioned, Proposal
  <2>2. QED
    BY <1>0, <1>3, <2>1, CommitKeepsCounts
<1>4. ASSUME NEW j \in JobIds, GenerationSucceeds(j) PROVE CountsKept
  <2>1. jobs[j].snapshot \in Proposal
    BY <1>0, <1>4 DEF GenerationSucceeds, At, JobShape
  <2>2. \A texts \in Texts, s \in Sections :
           Generated(jobs[j].snapshot, texts).sections[s].regenerations
              = jobs[j].snapshot.sections[s].regenerations
    BY <2>1 DEF Generated, Proposal, Section
  <2>3. QED
    BY <1>0, <1>4, <2>2, CommitKeepsCounts, AbandonKeepsCounts DEF GenerationSucceeds
<1>5. ASSUME NEW j \in JobIds,
             \/ GenerationFails(j) \/ DocumentReady(j) \/ DocumentFails(j)
             \/ RecordDelivery(j) \/ SendFails(j)
      PROVE  CountsKept
  <2>1. jobs[j].snapshot \in Proposal
    BY <1>0, <1>5
       DEF GenerationFails, DocumentReady, DocumentFails, RecordDelivery, SendFails, At, JobShape
  <2>2. \/ \E status : CommitJob(j, Transitioned(jobs[j].snapshot, status))
        \/ AbandonGeneration
        \/ proposal' = proposal
    BY <1>5
       DEF GenerationFails, DocumentReady, DocumentFails, RecordDelivery, SendFails
  <2>3. QED
    BY <1>0, <1>3, <2>1, <2>2, AbandonKeepsCounts DEF CountsKept
<1>6. ASSUME NEW j \in JobIds, LoadDelivery(j) PROVE CountsKept
  BY <1>0, <1>6 DEF LoadDelivery, Transitioned, CountsKept, TypeOK, Proposal
<1>7. ASSUME NEW j \in JobIds,
             \/ Load(j) \/ RegenerationFails(j) \/ UploadDocument(j) \/ SendEmail(j)
             \/ JobRaises(j)
      PROVE  CountsKept
  BY <1>0, <1>7, AbandonKeepsCounts
     DEF Load, RegenerationFails, UploadDocument, SendEmail, JobRaises, CountsKept
<1>8. Restart => CountsKept
  BY DEF Restart, CountsKept
<1>9. QED
  BY <1>1, <1>2, <1>4, <1>5, <1>6, <1>7, <1>8, RegenerationRespectsCap DEF Next, JobStep

(* The regeneration cap holds whatever jobs, requests and faults           *)
(* interleave: no section is ever charged more successful regenerations    *)
(* than MAX_REGENERATION_ATTEMPTS, although several jobs accepted below    *)
(* the cap may run at once.                                                *)
THEOREM CapNeverExceeded == Spec => []RegenerationCap
<1>1. Init => CapInv
  <2> SUFFICES ASSUME Init PROVE CapInv
    OBVIOUS
  <2>1. RegenerationCap
    BY AttemptsAssumption DEF Init, IntakeProposal, RegenerationCap
  <2>2. RunningHasAttempt
    BY DEF Init, Idle, RunningHasAttempt, At
  <2>3. QED
    BY <2>1, <2>2, InitTypeInv DEF CapInv
<1>2. CapInv /\ [Next]_vars => CapInv'
  <2> SUFFICES ASSUME CapInv, [Next]_vars PROVE CapInv'
    OBVIOUS
  <2>1. CASE Next
    BY <2>1, TypeInvKept, CapKept, RunningHasAttemptKept DEF CapInv
  <2>2. CASE UNCHANGED vars
    BY <2>2, TypeInvKept DEF vars, CapInv, RegenerationCap, RunningHasAttempt, At, CanRegenerate
  <2>3. QED
    BY <2>1, <2>2
<1>3. CapInv => RegenerationCap
  BY DEF CapInv
<1>4. QED
  BY <1>1, <1>2, <1>3, PTL DEF Spec

-----------------------------------------------------------------------------
(* Ownership.  An owned row carries its owner's name. *)
Coherent(p) == p.owner # NoAccount => p.name = p.owner

(* The columns are changed together, or not at all. *)
BothOrNeither(p, q) == (p.owner = q.owner) <=> (p.name = q.name)

LEMMA CommittedCoherent ==
    ASSUME NEW p, NEW q, NEW r, Coherent(p), Coherent(r), BothOrNeither(q, r)
    PROVE  Coherent(Committed(p, q, r))
BY DEF Coherent, BothOrNeither, Committed, Column

LEMMA ClaimedTogether ==
    ASSUME NEW p \in Proposal, NEW a \in Accounts, Coherent(p), ClaimAllowed(p, a)
    PROVE  Coherent(Claimed(p, a)) /\ BothOrNeither(p, Claimed(p, a))
BY AccountsAssumption, NamesAssumption
   DEF Claimed, ClaimAllowed, Coherent, BothOrNeither, Proposal

LEMMA UnclaimedTogether ==
    ASSUME NEW p \in Proposal, NEW a \in Actors, Coherent(p), UnclaimAllowed(p, a)
    PROVE  Coherent(Unclaimed(p)) /\ BothOrNeither(p, Unclaimed(p))
BY AccountsAssumption, NamesAssumption
   DEF Unclaimed, UnclaimAllowed, Coherent, BothOrNeither, Proposal

LEMMA TransferredTogether ==
    ASSUME NEW p \in Proposal, NEW a \in Actors, NEW b \in Accounts,
           Coherent(p), TransferAllowed(p, a, b)
    PROVE  Coherent(Transferred(p, b)) /\ BothOrNeither(p, Transferred(p, b))
BY AccountsAssumption, NamesAssumption
   DEF Transferred, TransferAllowed, Coherent, BothOrNeither, Proposal

(* Everything else leaves the columns as loaded. *)
SameOwnership(p, q) == p.owner = q.owner /\ p.name = q.name

LEMMA RulesKeepOwnership ==
    ASSUME NEW p \in Proposal
    PROVE  /\ \A t \in ProposalStatus : SameOwnership(p, Transitioned(p, t))
           /\ SameOwnership(p, Reopened(p))
           /\ \A s \in Sections, text \in Contents : SameOwnership(p, Edited(p, s, text))
           /\ \A s \in Sections : SameOwnership(p, SectionApproved(p, s))
           /\ SameOwnership(p, WhollyApproved(p))
           /\ \A texts \in Texts : SameOwnership(p, Generated(p, texts))
           /\ \A s \in Sections, text \in Contents : SameOwnership(p, Regenerated(p, s, text))
BY DEF SameOwnership, Transitioned, Reopened, Edited, SectionApproved, WhollyApproved,
       AllSectionsApproved, Generated, Regenerated, Proposal

LEMMA SameOwnershipCoherent ==
    ASSUME NEW p, NEW q, Coherent(p), SameOwnership(p, q)
    PROVE  Coherent(q) /\ BothOrNeither(p, q)
BY DEF Coherent, SameOwnership, BothOrNeither

(* No job writes either column. *)
LEMMA JobsKeepOwnership ==
    ASSUME TypeInv, NEW j \in JobIds, JobStep(j) \/ JobRaises(j)
    PROVE  SameOwnership(proposal, proposal')
<1> DEFINE row == jobs[j].snapshot
<1>0. proposal \in Proposal
  BY DEF TypeInv, TypeOK
<1>1. jobs[j].phase \in {"running", "uploaded", "sent"} => row \in Proposal
  BY DEF TypeInv, JobShape
<1>2. ASSUME NEW set, CommitJob(j, set), SameOwnership(row, set)
      PROVE  SameOwnership(proposal, proposal')
  BY <1>2 DEF CommitJob, Committed, Column, SameOwnership
<1>3. AbandonGeneration => SameOwnership(proposal, proposal')
  BY <1>0, RulesKeepOwnership DEF AbandonGeneration, ProposalStatus, SameOwnership
<1>4. UNCHANGED proposal => SameOwnership(proposal, proposal')
  BY DEF SameOwnership
<1>5. CASE LoadDelivery(j)
  BY <1>0, <1>4, <1>5, RulesKeepOwnership DEF LoadDelivery, ProposalStatus
<1>6. CASE GenerationSucceeds(j) \/ GenerationFails(j)
  BY <1>1, <1>2, <1>3, <1>6, RulesKeepOwnership
     DEF GenerationSucceeds, GenerationFails, At, ProposalStatus
<1>7. CASE RegenerationSucceeds(j)
  <2>1. jobs[j].section \in Sections
    BY <1>7 DEF TypeInv, JobShape, RegenerationSucceeds, At
  <2>2. QED
    BY <1>1, <1>2, <1>7, <2>1, RulesKeepOwnership DEF RegenerationSucceeds, At
<1>8. CASE DocumentReady(j) \/ DocumentFails(j) \/ RecordDelivery(j) \/ SendFails(j)
  BY <1>1, <1>2, <1>4, <1>8, RulesKeepOwnership
     DEF DocumentReady, DocumentFails, RecordDelivery, SendFails, At, ProposalStatus
<1>9. CASE \/ Load(j) \/ RegenerationFails(j) \/ UploadDocument(j) \/ SendEmail(j)
           \/ JobRaises(j)
  BY <1>3, <1>4, <1>9 DEF Load, RegenerationFails, UploadDocument, SendEmail, JobRaises
<1>10. QED
  BY <1>5, <1>6, <1>7, <1>8, <1>9 DEF JobStep

(* Every request leaves a coherent row. *)
LEMMA SalespersonKeepsCoherent ==
    ASSUME TypeOK, Coherent(proposal), NEW a \in Actors, SalespersonStep(a)
    PROVE  Coherent(proposal')
<1>0. proposal \in Proposal
  BY DEF TypeOK
<1>1. CASE \E s \in Sections :
              \/ \E text \in Contents : UpdateSection(a, s, text)
              \/ ApproveSection(a, s)
              \/ StartRegeneration(a, s)
  BY <1>0, <1>1, RulesKeepOwnership, SameOwnershipCoherent
     DEF UpdateSection, ApproveSection, StartRegeneration
<1>2. CASE ApproveProposal(a)
  BY <1>0, <1>2, RulesKeepOwnership, SameOwnershipCoherent DEF ApproveProposal
<1>3. CASE SubmitForApproval(a) \/ RequestChanges(a) \/ Reject(a)
  BY <1>0, <1>3, RulesKeepOwnership, SameOwnershipCoherent
     DEF SubmitForApproval, RequestChanges, Reject, ProposalStatus
<1>4. CASE StartGeneration(a) \/ StartDocument(a) \/ StartDelivery(a)
  BY <1>0, <1>4, RulesKeepOwnership, SameOwnershipCoherent
     DEF StartGeneration, StartDocument, StartDelivery, ProposalStatus
<1>5. CASE Claim(a)
  BY <1>0, <1>5, ClaimedTogether, AccountsAssumption DEF Claim, ClaimAllowed
<1>6. CASE Unclaim(a)
  BY <1>0, <1>6, UnclaimedTogether DEF Unclaim
<1>7. CASE \E b \in Accounts : Transfer(a, b)
  BY <1>0, <1>7, TransferredTogether DEF Transfer
<1>8. QED
  BY <1>1, <1>2, <1>3, <1>4, <1>5, <1>6, <1>7 DEF SalespersonStep

LEMMA AlwaysCoherent == Spec => [](TypeInv /\ Coherent(proposal))
<1>1. Init => Coherent(proposal)
  BY DEF Init, IntakeProposal, Coherent
<1>2. TypeInv /\ Coherent(proposal) /\ [Next]_vars => Coherent(proposal')
  <2> SUFFICES ASSUME TypeInv, Coherent(proposal), [Next]_vars PROVE Coherent(proposal')
    OBVIOUS
  <2>1. ASSUME NEW a \in Actors, SalespersonStep(a) PROVE Coherent(proposal')
    BY <2>1, SalespersonKeepsCoherent DEF TypeInv
  <2>2. ASSUME NEW j \in JobIds, JobStep(j) \/ JobRaises(j) PROVE Coherent(proposal')
    BY <2>2, JobsKeepOwnership, SameOwnershipCoherent
  <2>3. CASE Restart \/ UNCHANGED vars
    BY <2>3 DEF Restart, vars
  <2>4. QED
    BY <2>1, <2>2, <2>3 DEF Next
<1>3. TypeInv /\ Coherent(proposal) /\ [Next]_vars => (TypeInv /\ Coherent(proposal))'
  BY <1>2, TypeInvKept
<1>4. QED
  BY <1>1, <1>3, InitTypeInv, PTL DEF Spec

(* Someone who does not own an owned proposal can do nothing to it but     *)
(* start a generation: a claim is the one request that does not ask who    *)
(* owns the proposal, and it is stopped by the owner's name on the row.    *)
THEOREM OnlyOwnersAct == Spec => StrangersOnlyGenerate
<1> DEFINE Stranger(a) == proposal.owner \notin {NoAccount, a}
           OnlyGenerates == \A a \in Actors : Stranger(a) /\ SalespersonStep(a) =>
                               proposal' = Transitioned(proposal, "GENERATING")
<1>1. ASSUME TypeOK, Coherent(proposal) PROVE OnlyGenerates
  <2> SUFFICES ASSUME NEW a \in Actors, Stranger(a), SalespersonStep(a)
               PROVE  proposal' = Transitioned(proposal, "GENERATING")
    OBVIOUS
  <2>1. ~OwnsProposal(proposal, a)
    BY DEF OwnsProposal
  <2>2. ~ClaimAllowed(proposal, a)
    BY <1>1, NamesAssumption DEF ClaimAllowed, Coherent, TypeOK, Proposal
  <2>3. StartGeneration(a)
    BY <2>1, <2>2
       DEF SalespersonStep, UpdateSection, ApproveSection, StartRegeneration,
           SubmitForApproval, ApproveProposal, RequestChanges, Reject, Claim, Unclaim,
           Transfer, StartDocument, StartDelivery, EditAllowed, ApproveSectionAllowed,
           StartRegenerationAllowed, SubmitAllowed, ApproveAllAllowed, RequestChangesAllowed,
           RejectAllowed, UnclaimAllowed, TransferAllowed, StartDocumentAllowed,
           StartDeliveryAllowed
  <2>4. QED
    BY <2>3 DEF StartGeneration
<1>2. TypeInv /\ Coherent(proposal) /\ [Next]_vars => [OnlyGenerates]_vars
  BY <1>1 DEF TypeInv
<1>3. QED
  BY <1>2, AlwaysCoherent, PTL DEF Spec, StrangersOnlyGenerate

=============================================================================
