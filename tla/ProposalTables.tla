--------------------------- MODULE ProposalTables ---------------------------
(***************************************************************************)
(* The tables that intake, client responses and retention share: proposals *)
(* with the intake submission and the activity log that hang off each, and *)
(* client_response_records.  A proposal is seen from afar: not delivered   *)
(* (DRAFT, whatever ProposalWorkflow is doing with it) or DELIVERED.       *)
(*                                                                         *)
(* Time is counted in months.  Of a proposal's activity log only the       *)
(* newest entry matters to anyone: entries expire oldest first and readers *)
(* take the maximum.                                                       *)
(***************************************************************************)
EXTENDS Integers, FiniteSets

CONSTANTS
    ProposalIds,    \* bound: proposals ever created (ids are UUIDs, never reused)
    Keys,           \* intake keys
    Forms,          \* what a client can fill in
    MaxMonth,       \* bound: the clock stops here
    NoRow,          \* there is no such row
    NoEntry         \* the proposal has no activity log entry

ASSUME TablesAssumption == MaxMonth \in Nat /\ NoEntry \notin Int

VARIABLES
    now,            \* the month
    proposals,      \* rows of `proposals`, with submission and newest log entry
    responses,      \* rows of `client_response_records`
    issued,         \* ids given out so far
    touched         \* history: month of each proposal's last meaningful activity

tables == <<now, proposals, responses, issued, touched>>

Months == 0..MaxMonth

ResponseType == {"ACCEPTED", "DECLINED", "NO_RESPONSE"}

ProposalRow == [key : Keys, form : Forms, status : {"DRAFT", "DELIVERED"},
                updated : Months, entry : Months \cup {NoEntry}]

ASSUME NoRowAssumption == NoRow \notin ProposalRow

Exists(p) == proposals[p] # NoRow

Delivered(p) == Exists(p) /\ proposals[p].status = "DELIVERED"

TablesInit ==
    /\ now = 0
    /\ proposals = [p \in ProposalIds |-> NoRow]
    /\ responses = {}
    /\ issued = {}
    /\ touched = [p \in ProposalIds |-> 0]

-----------------------------------------------------------------------------
(* What a commit does to a proposal *)

(* record_activity: the entry is in the commit of what it documents. *)
Logged(row) == [row EXCEPT !.entry = now]

(* Mutant: the column has no onupdate value. *)
WrittenUnstamped(row) == [row EXCEPT !.updated = NoEntry]

(* TimestampMixin: updated_at moves when the row itself is written. *)
Written(row) == [row EXCEPT !.updated = now]

Commit(p, row) ==
    /\ proposals' = [proposals EXCEPT ![p] = row]
    /\ touched' = [touched EXCEPT ![p] = now]

(* Mutant: client responses have no ON DELETE CASCADE. *)
CascadeNothing(ids) == UNCHANGED responses

(* ON DELETE CASCADE; submission and log entries are part of the row here. *)
CascadeDelete(ids) == responses' = {r \in responses : r.proposal \notin ids}

-----------------------------------------------------------------------------
(* The rest of the system, as these components see it *)

(* Salespeople work on a proposal: most commits write the row and log it,  *)
(* starting a generation writes the row only, editing a section logs only. *)
Work(p) ==
    /\ Exists(p)
    /\ \E row \in {Written(Logged(proposals[p])), Written(proposals[p]), Logged(proposals[p])} :
          Commit(p, row)
    /\ UNCHANGED <<now, responses, issued>>

(* The delivery job commits DELIVERED, the SENT record and the entry. *)
Deliver(p) ==
    /\ Exists(p)
    /\ proposals[p].status = "DRAFT"
    /\ Commit(p, Written(Logged([proposals[p] EXCEPT !.status = "DELIVERED"])))
    /\ UNCHANGED <<now, responses, issued>>

MonthPasses ==
    /\ now < MaxMonth
    /\ now' = now + 1
    /\ UNCHANGED <<proposals, responses, issued, touched>>

=============================================================================
