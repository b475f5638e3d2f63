--------------------------- MODULE ProposalRecords ---------------------------
(***************************************************************************)
(* Intake, client responses and retention on the tables they share, with   *)
(* the work of the rest of the system going on beside them.                *)
(***************************************************************************)
EXTENDS Intake, ClientResponses, Retention

vars == <<tables, posts, clicks, overlapped, run>>

Init == TablesInit /\ IntakeInit /\ ResponsesInit /\ RetentionInit

(* The retention script is not under way when the month passes. *)
Elsewhere ==
    \/ \E p \in ProposalIds : Work(p) \/ Deliver(p)
    \/ run.phase = "idle" /\ MonthPasses

Next ==
    \/ IntakeStep /\ UNCHANGED <<responseVars, run>>
    \/ ResponseStep /\ UNCHANGED <<posts, run>>
    \/ RetentionStep /\ UNCHANGED <<posts, responseVars>>
    \/ Elsewhere /\ UNCHANGED <<posts, responseVars, run>>

Spec == Init /\ [][Next]_vars

-----------------------------------------------------------------------------
(* Every table and every caller has its shape. *)
RecordsTypeOK ==
    /\ now \in Months
    /\ proposals \in [ProposalIds -> ProposalRow \cup {NoRow}]
    /\ responses \subseteq Response
    /\ issued \subseteq ProposalIds
    /\ touched \in [ProposalIds -> Months]
    /\ posts \in [Posts -> Post]
    /\ clicks \in [Clicks -> Click]
    /\ overlapped \subseteq ProposalIds \X ResponseType
    /\ run \in Run

=============================================================================
