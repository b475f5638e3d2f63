------------------------------ MODULE Retention ------------------------------
(***************************************************************************)
(* The retention script: one transaction that deletes expired activity log *)
(* entries, then selects the stale proposals, then deletes those.  The API *)
(* goes on meanwhile, and what it commits between the select and the       *)
(* delete changes neither.  A run is over within its month.                *)
(***************************************************************************)
EXTENDS ProposalTables

CONSTANTS
    ActivityWindow,     \* ACTIVITY_LOG_RETENTION_MONTHS
    ProposalWindow      \* PROPOSAL_RETENTION_MONTHS

ASSUME WindowsAssumption ==
    ActivityWindow \in Nat /\ ProposalWindow \in Nat /\ ActivityWindow <= ProposalWindow

VARIABLE run            \* the script: whether it has selected, and what

Run == [phase : {"idle", "selected"}, stale : SUBSET ProposalIds]

RetentionInit == run = [phase |-> "idle", stale |-> {}]

(* The newest entry that is not expired. *)
RemainingEntry(p) ==
    IF proposals[p].entry # NoEntry /\ proposals[p].entry < now - ActivityWindow
    THEN NoEntry ELSE proposals[p].entry

(* Mutant: the row's own timestamp is all that counts. *)
LastActivityOfRow(p) == proposals[p].updated

(* coalesce(newest entry that is left, updated_at) *)
LastActivity(p) ==
    IF RemainingEntry(p) = NoEntry THEN proposals[p].updated ELSE RemainingEntry(p)

(* Mutant: the join with the log is an inner join. *)
StaleLoggedProposals ==
    {p \in ProposalIds : /\ Exists(p)
                         /\ RemainingEntry(p) # NoEntry
                         /\ LastActivity(p) < now - ProposalWindow}

StaleProposals == {p \in ProposalIds : Exists(p) /\ LastActivity(p) < now - ProposalWindow}

SelectStale ==
    /\ run.phase = "idle"
    /\ run' = [phase |-> "selected", stale |-> StaleProposals]
    /\ UNCHANGED tables

(* Entries and selected proposals go in one commit, whatever has happened  *)
(* to those proposals since the select.                                    *)
CommitRun ==
    /\ run.phase = "selected"
    /\ run' = [phase |-> "idle", stale |-> {}]
    /\ proposals' = [p \in ProposalIds |->
          IF p \in run.stale \/ ~Exists(p) THEN NoRow
          ELSE [proposals[p] EXCEPT !.entry = RemainingEntry(p)]]
    /\ CascadeDelete(run.stale)
    /\ touched' = [p \in ProposalIds |-> IF p \in run.stale THEN 0 ELSE touched[p]]
    /\ UNCHANGED <<now, issued>>

(* The script fails, and its transaction with it. *)
AbortRun ==
    /\ run.phase = "selected"
    /\ run' = [phase |-> "idle", stale |-> {}]
    /\ UNCHANGED tables

RetentionStep == SelectStale \/ CommitRun \/ AbortRun

-----------------------------------------------------------------------------
(* What a run may delete is settled when it selects: nothing that was      *)
(* worked on within the activity window in any way, and nothing whose row  *)
(* was written within the proposal window; and only what it selected goes. *)
NothingRecentIsDeleted ==
    [][/\ \A p \in run'.stale \ run.stale :
             /\ touched[p] < now - ActivityWindow
             /\ proposals[p].updated < now - ProposalWindow
       /\ \A p \in ProposalIds : Exists(p) /\ ~Exists(p)' => p \in run.stale]_<<tables, run>>

(* A run that commits leaves no proposal behind that nobody has worked on  *)
(* within the proposal window: the client's personal data goes in time.    *)
NothingIsKeptTooLong ==
    [][CommitRun => \A p \in ProposalIds :
          Exists(p)' => touched[p] >= now - ProposalWindow]_<<tables, run>>

(* enforce_retention.py:16 - what is deleted is what had no meaningful     *)
(* activity, the later of updated_at and the newest log entry, within the  *)
(* proposal window.                                                        *)
OnlyInactiveIsDeleted ==
    [][\A p \in run'.stale \ run.stale : touched[p] < now - ProposalWindow]_<<tables, run>>

=============================================================================
