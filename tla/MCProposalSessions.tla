------------------------- MODULE MCProposalSessions -------------------------
(* ProposalSessions on small instances. *)
EXTENDS ProposalSessions, TLC

AnyStatus == ProposalStatus
NoFaults == {}

SessionSymmetry ==
    Permutations(JobIds) \cup Permutations(SessionIds) \cup Permutations(NamedAccounts)
=============================================================================
