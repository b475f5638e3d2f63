--------------------------- MODULE MCProposalPage ---------------------------
(* ProposalPage on small instances. *)
EXTENDS ProposalPage, TLC

CONSTANTS t1, t2, a1, a2

AnyStatus == ProposalStatus
TheTabs == {t1, t2}

(* One salesperson with two tabs, and two with a tab each. *)
OneViewer == [t \in TheTabs |-> a1]
TwoViewers == (t1 :> a1) @@ (t2 :> a2)
=============================================================================
