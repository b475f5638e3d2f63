------------------------- MODULE MCProposalWorkflow -------------------------
(* ProposalWorkflow on small instances. *)
EXTENDS ProposalWorkflow, TLC

(* Statuses in which the web app offers request-changes, and the others    *)
(* the server takes it from, but for GENERATING.                           *)
ReviewedStatuses == {"PENDING_APPROVAL", "APPROVED", "REJECTED"}

NoFaults == {}
AllFaults == {"restart", "generation", "regeneration", "document", "delivery"}

(* Exceptions the job survives: the generation job has a catch-all, and a  *)
(* proposal does not wait for a regeneration.                              *)
SurvivableFaults == {"generation", "regeneration"}

(* Job slots are interchangeable, and so are named salespeople, sections.  *)
Symmetry == Permutations(JobIds)
OwnershipSymmetry == Permutations(NamedAccounts) \cup Permutations(Sections)
=============================================================================
