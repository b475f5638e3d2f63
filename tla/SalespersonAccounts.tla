------------------------ MODULE SalespersonAccounts ------------------------
(***************************************************************************)
(* The accounts of salespeople, and the one proposal they claim, release   *)
(* and hand to each other.  Every request passes the gate, which registers *)
(* an unknown user and admits an approved one, with the account row it     *)
(* loads there; it then loads the other rows it needs, one after the       *)
(* other, and commits the columns it changed.  Requests overlap, and       *)
(* nothing is locked but for the unique constraints.                       *)
(***************************************************************************)
EXTENDS FiniteSets

CONSTANTS
    Users,          \* people with a Supabase session; the account id stands for the user
    Names,          \* display names they may choose
    Requests,       \* bound: requests in progress at once
    Script,         \* approved_by of the bootstrap script
    FormName,       \* a salesperson_name typed on the intake form
    NoName, NoUser, NoRow

ASSUME DistinctAssumption ==
    /\ NoUser \notin Users /\ Script \notin Users
    /\ {NoName, FormName} \cap Names = {} /\ NoName # FormName

VARIABLES
    accounts,       \* rows of salesperson_accounts, by user
    proposal,       \* owner (salesperson_account_id) and label (salesperson_name)
    requests,       \* what each request in progress has loaded
    held,           \* history: the display names each user has had
    decided,        \* history: the last decision about each account, if made on its row as it was
    torn            \* history: the last change of the proposal was made on a stale copy

vars == <<accounts, proposal, requests, held, decided, torn>>

AccountStatus == {"PENDING", "APPROVED", "REJECTED"}

Account == [status : AccountStatus, name : Names \cup {NoName},
            approved_by : Users \cup {Script, NoUser}]

ASSUME NoRowAssumption == NoRow \notin Account

Proposal == [owner : Users \cup {NoUser}, label : Names \cup {FormName, NoName}]

Operations == {"rename", "approve", "reject", "claim", "unclaim", "transfer"}
Decisions == {"approve", "reject"}

(* name: the requester's, as the gate loaded it, if the operation uses it; *)
(* theirs: the target's row; seen: the proposal.                           *)
Request == [op : Operations \cup {"none", "register"}, user : Users \cup {NoUser},
            target : Users \cup {NoUser}, name : Names \cup {NoName},
            theirs : Account \cup {NoRow}, seen : Proposal \cup {NoRow}]

Idle == [op |-> "none", user |-> NoUser, target |-> NoUser,
         name |-> NoName, theirs |-> NoRow, seen |-> NoRow]

Registered(u) == accounts[u] # NoRow

Init ==
    /\ accounts = [u \in Users |-> NoRow]
    /\ \E label \in {FormName, NoName} : proposal = [owner |-> NoUser, label |-> label]
    /\ requests = [r \in Requests |-> Idle]
    /\ held = [u \in Users |-> {}]
    /\ decided = [u \in Users |-> NoRow]
    /\ torn = FALSE

(* A commit writes a column only if its value is not the one loaded. *)
Column(stored, loaded, set) == IF set = loaded THEN stored ELSE set

Close(r) == requests' = [requests EXCEPT ![r] = Idle]

-----------------------------------------------------------------------------
(* The gate *)

Admitted(u) == Registered(u) /\ accounts[u].status = "APPROVED"

(* The columns of the target that the operation looks at or changes. *)
Needed(op, row) == IF op = "transfer" THEN [row EXCEPT !.approved_by = NoUser]
                   ELSE [row EXCEPT !.name = NoName]

(* get_current_salesperson.  Anyone else is refused and changes nothing.  A *)
(* session holds one copy of a row: whoever targets their own account uses *)
(* the copy loaded here.                                                   *)
Arrive(r, u, op, target) ==
    /\ requests[r] = Idle
    /\ (target # NoUser) <=> (op \in Decisions \cup {"transfer"})
    /\ \/ /\ Admitted(u)
          /\ requests' = [requests EXCEPT ![r] =
                [Idle EXCEPT !.op = op, !.user = u, !.target = target,
                             !.name = IF op \in {"rename", "claim"} THEN accounts[u].name ELSE @,
                             !.theirs = IF target = u THEN Needed(op, accounts[u]) ELSE @]]
       \/ /\ ~Registered(u)
          /\ requests' = [requests EXCEPT ![r] = [Idle EXCEPT !.op = "register", !.user = u]]
    /\ UNCHANGED <<accounts, proposal, held, decided, torn>>

NewAccount == [status |-> "PENDING", name |-> NoName, approved_by |-> NoUser]

(* Mutant: the insert is an upsert. *)
RegisterAgain(r) ==
    /\ requests[r].op = "register"
    /\ accounts' = [accounts EXCEPT ![requests[r].user] = NewAccount]
    /\ Close(r)
    /\ UNCHANGED <<proposal, held, decided, torn>>

(* The row of a first request.  Of two, the unique constraint refuses the  *)
(* second; either way the request ends here, as an error or as a 403.      *)
Register(r) ==
    /\ requests[r].op = "register"
    /\ accounts' = IF Registered(requests[r].user) THEN accounts
                   ELSE [accounts EXCEPT ![requests[r].user] = NewAccount]
    /\ Close(r)
    /\ UNCHANGED <<proposal, held, decided, torn>>

-----------------------------------------------------------------------------
(* Loading.  The guards look at nothing but loaded rows, so a row they      *)
(* refuse is not kept: Refuse ends the request.                            *)

(* Mutant: any proposal may be claimed. *)
ClaimableAlways(row) == TRUE

(* Only the label is looked at. *)
Claimable(row) == row.label = NoName

LoadProposal(r) ==
    /\ requests[r].seen = NoRow
    /\ \/ /\ requests[r].op = "claim"
          /\ requests[r].name # NoName
          /\ Claimable(proposal)
       \/ /\ requests[r].op \in {"unclaim", "transfer"}
          /\ proposal.owner = requests[r].user
    /\ requests' = [requests EXCEPT ![r].seen = proposal]
    /\ UNCHANGED <<accounts, proposal, held, decided, torn>>

LoadTarget(r, row) ==
    /\ requests[r].theirs = NoRow
    /\ row # NoRow
    /\ requests' = [requests EXCEPT ![r].theirs = Needed(requests[r].op, row)]
    /\ UNCHANGED <<accounts, proposal, held, decided, torn>>

LoadJudged(r) ==
    /\ requests[r].op \in Decisions
    /\ LoadTarget(r, accounts[requests[r].target])

MayReceive(row) == row.status = "APPROVED" /\ row.name # NoName

LoadReceiver(r) ==
    LET row == accounts[requests[r].target] IN
    /\ requests[r].op = "transfer"
    /\ requests[r].seen # NoRow
    /\ LoadTarget(r, row)
    /\ MayReceive(row)

(* A guard raises, or the server goes down. *)
Refuse(r) ==
    /\ requests[r] # Idle
    /\ Close(r)
    /\ UNCHANGED <<accounts, proposal, held, decided, torn>>

-----------------------------------------------------------------------------
(* Accounts *)

(* PATCH /auth/me; a name someone else has is refused with 409. *)
Rename(r, name) ==
    LET u == requests[r].user IN
    /\ requests[r].op = "rename"
    /\ \A v \in Users \ {u} : Registered(v) => accounts[v].name # name
    /\ accounts' = [accounts EXCEPT ![u].name = Column(@, requests[r].name, name)]
    /\ held' = [held EXCEPT ![u] = @ \cup {name}]
    /\ Close(r)
    /\ UNCHANGED <<proposal, decided, torn>>

StatusAfter(op) == IF op = "approve" THEN "APPROVED" ELSE "REJECTED"

(* Mutant: a rejection does not say whose it is. *)
DecidedUnsigned(row, op, by) ==
    [row EXCEPT !.status = StatusAfter(op),
                !.approved_by = IF op = "approve" THEN by ELSE @]

Decided(row, op, by) == [row EXCEPT !.status = StatusAfter(op), !.approved_by = by]

SameDecision(row, other) ==
    row.status = other.status /\ row.approved_by = other.approved_by

(* POST /auth/pending/{id}/approve and .../reject, whatever the status. *)
Decide(r) ==
    LET u      == requests[r].target
        loaded == requests[r].theirs
        set    == Decided(loaded, requests[r].op, requests[r].user)
    IN
    /\ requests[r].op \in Decisions
    /\ loaded # NoRow
    /\ accounts' = [accounts EXCEPT
          ![u].status = Column(@, loaded.status, set.status),
          ![u].approved_by = Column(@, loaded.approved_by, set.approved_by)]
    /\ decided' = [decided EXCEPT
          ![u] = IF SameDecision(accounts[u], loaded)
                 THEN [status |-> StatusAfter(requests[r].op), by |-> requests[r].user]
                 ELSE NoRow]
    /\ Close(r)
    /\ UNCHANGED <<proposal, held, torn>>

(* scripts/approve_salesperson.py, run by hand. *)
ScriptApproves(u) ==
    /\ Registered(u)
    /\ accounts' = [accounts EXCEPT ![u] = Decided(@, "approve", Script)]
    /\ decided' = [decided EXCEPT ![u] = [status |-> "APPROVED", by |-> Script]]
    /\ UNCHANGED <<proposal, requests, held, torn>>

-----------------------------------------------------------------------------
(* The proposal *)

CommitProposal(r, set) ==
    /\ proposal' = [owner |-> Column(proposal.owner, requests[r].seen.owner, set.owner),
                    label |-> Column(proposal.label, requests[r].seen.label, set.label)]
    /\ torn' = (proposal # requests[r].seen)
    /\ Close(r)
    /\ UNCHANGED <<accounts, held, decided>>

Claim(r) ==
    /\ requests[r].op = "claim"
    /\ requests[r].seen # NoRow
    /\ CommitProposal(r, [owner |-> requests[r].user, label |-> requests[r].name])

(* Mutant: the two columns are cleared with the same blank. *)
UnclaimBlank(r) ==
    /\ requests[r].op = "unclaim"
    /\ requests[r].seen # NoRow
    /\ CommitProposal(r, [owner |-> NoName, label |-> NoName])

Unclaim(r) ==
    /\ requests[r].op = "unclaim"
    /\ requests[r].seen # NoRow
    /\ CommitProposal(r, [owner |-> NoUser, label |-> NoName])

(* Mutant: the label stays with the previous owner. *)
HandedOver(row, target, name) == [row EXCEPT !.owner = target]

TransferredTo(row, target, name) == [owner |-> target, label |-> name]

Transfer(r) ==
    /\ requests[r].op = "transfer"
    /\ requests[r].seen # NoRow
    /\ requests[r].theirs # NoRow
    /\ MayReceive(requests[r].theirs)
    /\ CommitProposal(r, TransferredTo(requests[r].seen, requests[r].target,
                                       requests[r].theirs.name))

RequestStep(r) ==
    \/ \E u \in Users, op \in Operations, target \in Users \cup {NoUser} :
          Arrive(r, u, op, target)
    \/ Register(r) \/ LoadProposal(r) \/ LoadJudged(r) \/ LoadReceiver(r) \/ Refuse(r)
    \/ \E name \in Names : Rename(r, name)
    \/ Decide(r)
    \/ Claim(r) \/ Unclaim(r) \/ Transfer(r)

Next ==
    \/ \E r \in Requests : RequestStep(r)
    \/ \E u \in Users : ScriptApproves(u)

Spec == Init /\ [][Next]_vars

-----------------------------------------------------------------------------
(* Properties *)

(* Every variable has the shape its table or session gives it. *)
AccountsTypeOK ==
    /\ accounts \in [Users -> Account \cup {NoRow}]
    /\ proposal \in Proposal
    /\ requests \in [Requests -> Request]
    /\ held \in [Users -> SUBSET Names]
    /\ decided \in [Users -> [status : AccountStatus, by : Users \cup {Script}] \cup {NoRow}]
    /\ torn \in BOOLEAN

(* The label of an owned proposal is a name its owner has, or had when it  *)
(* was claimed or transferred; an unowned one carries nobody's.  Renames,  *)
(* approvals and rejections may fall between any two steps of the claim;   *)
(* only a request that changes the proposal on a stale copy tears the two. *)
LabelIsTheOwners ==
    ~torn => IF proposal.owner = NoUser THEN proposal.label \in {NoName, FormName}
             ELSE proposal.label \in held[proposal.owner]

(* Status and approver of an account are two columns; they are those of    *)
(* one decision, the last, unless that was made on a stale copy.           *)
DecisionIsWhole ==
    \A u \in Users : Registered(u) /\ decided[u] # NoRow =>
        /\ accounts[u].status = decided[u].status
        /\ accounts[u].approved_by = decided[u].by

(* A decided account never falls back to PENDING, however late a           *)
(* registration that was under way is committed.                           *)
DecisionsStand ==
    [][\A u \in Users : Registered(u) /\ accounts[u].status # "PENDING" =>
          accounts'[u] # NoRow /\ accounts'[u].status # "PENDING"]_vars

(* An owner loses a proposal only by a request of their own to release or  *)
(* hand it over, unless a request works on a stale copy: nobody else can   *)
(* take it, whatever was renamed, approved or rejected meanwhile.          *)
OwnersAreNotRobbed ==
    [][proposal.owner # NoUser /\ proposal'.owner # proposal.owner /\ ~torn /\ ~torn' =>
       \E r \in Requests :
          /\ requests[r].op \in {"unclaim", "transfer"}
          /\ requests[r].user = proposal.owner
          /\ requests'[r] = Idle]_vars

=============================================================================
