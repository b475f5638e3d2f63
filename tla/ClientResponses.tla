--------------------------- MODULE ClientResponses ---------------------------
(***************************************************************************)
(* The client's answer to a delivered proposal, and the figures counted    *)
(* from the answers.  The look-up for an earlier answer and the insert are *)
(* separate statements and nothing is unique, so two clicks overlap.       *)
(***************************************************************************)
EXTENDS ProposalTables

CONSTANTS
    Clicks,             \* bound: answers clients send
    NoAnswer

ASSUME ResponsesAssumption == NoAnswer \notin ProposalIds

VARIABLES
    clicks,             \* what the client's browser knows of each
    overlapped          \* history: <<proposal, type>> of answers that overlapped an equal one

responseVars == <<clicks, overlapped>>

Click == [phase : {"unsent", "inserting", "answered", "failed"},
          proposal : ProposalIds \cup {NoAnswer}, type : ResponseType \cup {NoAnswer}]

Response == [click : Clicks, proposal : ProposalIds, type : ResponseType]

ResponsesInit ==
    /\ clicks = [c \in Clicks |-> [phase |-> "unsent", proposal |-> NoAnswer, type |-> NoAnswer]]
    /\ overlapped = {}

Recorded(p, type) == {r \in responses : r.proposal = p /\ r.type = type}

(* Mutant: the look-up takes any answer for the same. *)
FindsAny(p, type) == type # "NO_RESPONSE" /\ \E r \in responses : r.proposal = p

(* Mutant: page views are looked up, decisions are not. *)
FindsPageView(p, type) == type = "NO_RESPONSE" /\ Recorded(p, type) # {}

(* _existing_response; a page view (NO_RESPONSE) is not looked up. *)
FindsEarlier(p, type) == type # "NO_RESPONSE" /\ Recorded(p, type) # {}

InProgress(p, type) ==
    {c \in Clicks : clicks[c] = [phase |-> "inserting", proposal |-> p, type |-> type]}

(* The endpoint finds the proposal delivered and the service looks for an  *)
(* answer of the same type.                                                *)
Find(c, p, type) ==
    /\ clicks[c].phase = "unsent"
    /\ Delivered(p)
    /\ clicks' = [clicks EXCEPT ![c] =
          [phase |-> IF FindsEarlier(p, type) THEN "answered" ELSE "inserting",
           proposal |-> p, type |-> type]]
    /\ overlapped' = IF InProgress(p, type) = {} THEN overlapped ELSE overlapped \cup {<<p, type>>}
    /\ UNCHANGED tables

(* Answer and log entry are one commit; the proposal's row is not written. *)
Store(c) ==
    /\ clicks[c].phase = "inserting"
    /\ Exists(clicks[c].proposal)
    /\ responses' = responses \cup
          {[click |-> c, proposal |-> clicks[c].proposal, type |-> clicks[c].type]}
    /\ Commit(clicks[c].proposal, Logged(proposals[clicks[c].proposal]))
    /\ clicks' = [clicks EXCEPT ![c].phase = "answered"]
    /\ UNCHANGED <<now, issued, overlapped>>

(* The proposal is gone (the foreign key refuses the row), or the server   *)
(* goes down.                                                              *)
StoreFails(c) ==
    /\ clicks[c].phase = "inserting"
    /\ clicks' = [clicks EXCEPT ![c] = [phase |-> "failed", proposal |-> NoAnswer, type |-> NoAnswer]]
    /\ UNCHANGED <<tables, overlapped>>

ResponseStep == \E c \in Clicks :
    \/ \E p \in ProposalIds, type \in ResponseType : Find(c, p, type)
    \/ Store(c) \/ StoreFails(c)

-----------------------------------------------------------------------------
(* compute_kpis *)

TotalDelivered == Cardinality({p \in ProposalIds : Delivered(p)})

TotalOf(type) == Cardinality({r \in responses : r.type = type})

WonProposals == TotalOf("ACCEPTED")

(* An answer the client saw accepted is on record for as long as its       *)
(* proposal is, even if another click, or retention, was at work at the    *)
(* same time.                                                              *)
AcknowledgedAnswersAreKept ==
    \A c \in Clicks : clicks[c].phase = "answered" /\ Exists(clicks[c].proposal) =>
        Recorded(clicks[c].proposal, clicks[c].type) # {}

(* Unless two equal answers overlapped, a client counts once as accepting  *)
(* and once as declining, however often the buttons are pressed.           *)
DecisionsCountOnce ==
    \A p \in ProposalIds, type \in {"ACCEPTED", "DECLINED"} :
        <<p, type>> \notin overlapped => Cardinality(Recorded(p, type)) <= 1

(* The won rate is a rate: it divides answers by delivered proposals, two  *)
(* different tables, and stays below one whatever retention deletes, but   *)
(* for overlapping acceptances.                                            *)
WonRateIsARate ==
    {o \in overlapped : o[2] = "ACCEPTED"} = {} => WonProposals <= TotalDelivered

=============================================================================
