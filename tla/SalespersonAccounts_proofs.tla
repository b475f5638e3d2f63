--------------------- MODULE SalespersonAccounts_proofs ---------------------
(***************************************************************************)
(* Theorems of SalespersonAccounts, for any people, names and number of    *)
(* requests in progress at once.                                           *)
(***************************************************************************)
EXTENDS SalespersonAccounts, TLAPS

(* What a request in progress has loaded, against the rows as they are now *)
(* and the names people have had: whose account was loaded is registered,  *)
(* a name that was loaded is or was its bearer's, and a loaded proposal    *)
(* passed the guard of the operation.                                      *)
Fits(q, rows, names) ==
    /\ q.op # "none" => q.user \in Users
    /\ q.op \in Operations => rows[q.user] # NoRow
    /\ q.op \in Decisions \cup {"transfer"} => q.target \in Users
    /\ q.name # NoName => q.op \in Operations /\ q.name \in names[q.user]
    /\ q.theirs # NoRow =>
          /\ q.op \in Decisions \cup {"transfer"}
          /\ rows[q.target] # NoRow
          /\ q.theirs.name # NoName => q.theirs.name \in names[q.target]
    /\ q.seen # NoRow =>
          /\ q.op \in {"claim", "unclaim", "transfer"}
          /\ q.op = "claim" => q.name # NoName /\ q.seen.label = NoName
          /\ q.op # "claim" => q.seen.owner = q.user

RequestsFit == \A r \in Requests : Fits(requests[r], accounts, held)

(* Whoever has a display name has had it. *)
NamesAreHeld ==
    \A u \in Users : Registered(u) /\ accounts[u].name # NoName => accounts[u].name \in held[u]

(* Nothing is decided about nobody. *)
UnknownAreUndecided == \A u \in Users : ~Registered(u) => decided[u] = NoRow

AccountsInv ==
    /\ AccountsTypeOK
    /\ RequestsFit
    /\ NamesAreHeld
    /\ UnknownAreUndecided
    /\ LabelIsTheOwners
    /\ DecisionIsWhole

-----------------------------------------------------------------------------
(* Rows *)

LEMMA AccountColumns ==
    ASSUME NEW row \in Account
    PROVE  /\ row.status \in AccountStatus
           /\ row.name \in Names \cup {NoName}
           /\ row.approved_by \in Users \cup {Script, NoUser}
BY DEF Account

LEMMA RegisteredRow ==
    ASSUME AccountsTypeOK, NEW u \in Users, Registered(u)
    PROVE  accounts[u] \in Account
BY DEF AccountsTypeOK, Registered

LEMMA NeededType ==
    ASSUME NEW op, NEW row \in Account
    PROVE  /\ Needed(op, row) \in Account
           /\ Needed(op, row).name # NoName => Needed(op, row).name = row.name
BY DEF Needed, Account

LEMMA IdleType == Idle \in Request
BY DEF Idle, Request

LEMMA IdleFits == ASSUME NEW rows, NEW names PROVE Fits(Idle, rows, names)
BY DEF Fits, Idle, Operations, Decisions

(* Accounts are never removed and names that were had stay had, so what a  *)
(* request has loaded keeps fitting.                                       *)
Grown ==
    /\ \A u \in Users : Registered(u) => Registered(u)'
    /\ \A u \in Users : held[u] \subseteq held'[u]

LEMMA FitsKept ==
    ASSUME NEW q \in Request, Fits(q, accounts, held), Grown
    PROVE  Fits(q, accounts', held')
BY DEF Fits, Grown, Registered, Request, Operations, Decisions

(* A step that closes one request. *)
LEMMA CloseKeepsRequests ==
    ASSUME AccountsInv, NEW r \in Requests, Close(r), Grown
    PROVE  requests' \in [Requests -> Request] /\ RequestsFit'
<1>1. requests' \in [Requests -> Request]
  BY IdleType DEF Close, AccountsInv, AccountsTypeOK
<1>2. ASSUME NEW s \in Requests PROVE Fits(requests'[s], accounts', held')
  <2>1. CASE s = r
    BY <2>1, IdleFits DEF Close, AccountsInv, AccountsTypeOK
  <2>2. CASE s # r
    BY <2>2, FitsKept DEF Close, AccountsInv, AccountsTypeOK, RequestsFit
  <2>3. QED
    BY <2>1, <2>2
<1>3. QED
  BY <1>1, <1>2 DEF RequestsFit

(* A step that changes one request and no table. *)
RequestOnly(r, q) ==
    /\ requests' = [requests EXCEPT ![r] = q]
    /\ UNCHANGED <<accounts, proposal, held, decided, torn>>

LEMMA RequestOnlyKeepsInv ==
    ASSUME AccountsInv, NEW r \in Requests, NEW q \in Request,
           Fits(q, accounts, held), RequestOnly(r, q)
    PROVE  AccountsInv'
<1>1. requests' \in [Requests -> Request] /\ AccountsTypeOK'
  BY DEF RequestOnly, AccountsInv, AccountsTypeOK
<1>2. RequestsFit'
  <2>1. ASSUME NEW s \in Requests PROVE Fits(requests'[s], accounts, held)
    BY DEF RequestOnly, AccountsInv, AccountsTypeOK, RequestsFit
  <2>2. QED
    BY <2>1 DEF RequestsFit, RequestOnly
<1>3. QED
  BY <1>1, <1>2
     DEF RequestOnly, AccountsInv, NamesAreHeld, UnknownAreUndecided, LabelIsTheOwners,
         DecisionIsWhole, Registered

-----------------------------------------------------------------------------
(* The steps, one by one *)

LEMMA ArriveKeepsInv ==
    ASSUME AccountsInv, NEW r \in Requests, NEW u \in Users, NEW op \in Operations,
           NEW target \in Users \cup {NoUser}, Arrive(r, u, op, target)
    PROVE  AccountsInv'
<1>1. CASE Admitted(u) /\ requests' = [requests EXCEPT ![r] =
                [Idle EXCEPT !.op = op, !.user = u, !.target = target,
                             !.name = IF op \in {"rename", "claim"} THEN accounts[u].name ELSE @,
                             !.theirs = IF target = u THEN Needed(op, accounts[u]) ELSE @]]
  <2> DEFINE name   == IF op \in {"rename", "claim"} THEN accounts[u].name ELSE NoName
             theirs == IF target = u THEN Needed(op, accounts[u]) ELSE NoRow
             q == [Idle EXCEPT !.op = op, !.user = u, !.target = target,
                               !.name = name, !.theirs = theirs]
  <2>1. Registered(u) /\ accounts[u] \in Account
    BY <1>1, RegisteredRow DEF Admitted, AccountsInv
  <2>2. name \in Names \cup {NoName} /\ (name # NoName => name \in held[u])
    BY <2>1, AccountColumns DEF AccountsInv, NamesAreHeld
  <2>3. theirs \in Account \cup {NoRow}
    BY <2>1, NeededType
  <2>4. theirs # NoRow => /\ target = u
                          /\ theirs.name # NoName => theirs.name \in held[target]
    BY <2>1, NeededType DEF AccountsInv, NamesAreHeld
  <2>5. target # NoUser <=> op \in Decisions \cup {"transfer"}
    BY DEF Arrive
  <2>6. requests' = [requests EXCEPT ![r] = q]
    <3>1. Idle.name = NoName /\ Idle.theirs = NoRow
      BY DEF Idle
    <3>2. QED
      BY <1>1, <3>1, Zenon
  <2>7. q \in Request
    <3> HIDE DEF name, theirs
    <3>1. QED
      BY <2>2, <2>3 DEF Idle, Request
  <2>8. Fits(q, accounts, held)
    <3> HIDE DEF name, theirs
    <3>1. u # NoUser
      BY DistinctAssumption
    <3>2. QED
      BY <2>1, <2>2, <2>4, <2>5, <3>1 DEF Idle, Fits, Registered
  <2> HIDE DEF q
  <2>9. RequestOnly(r, q)
    BY <2>6 DEF RequestOnly, Arrive
  <2>10. QED
    BY <2>7, <2>8, <2>9, RequestOnlyKeepsInv
<1>2. CASE requests' = [requests EXCEPT ![r] = [Idle EXCEPT !.op = "register", !.user = u]]
  <2> DEFINE q == [Idle EXCEPT !.op = "register", !.user = u]
  <2>1. q \in Request /\ Fits(q, accounts, held)
    BY DEF Idle, Request, Fits, Operations, Decisions
  <2>2. RequestOnly(r, q)
    BY <1>2 DEF RequestOnly, Arrive
  <2> HIDE DEF q
  <2>3. QED
    BY <2>1, <2>2, RequestOnlyKeepsInv
<1>3. QED
  BY <1>1, <1>2 DEF Arrive

LEMMA RegisterKeepsInv ==
    ASSUME AccountsInv, NEW r \in Requests, Register(r)
    PROVE  AccountsInv'
<1>1. requests[r].user \in Users
  BY DEF Register, AccountsInv, RequestsFit, Fits
<1>2. NewAccount \in Account /\ NewAccount.name = NoName
  BY DEF NewAccount, Account, AccountStatus
<1>3. Grown
  BY <1>1, <1>2, NoRowAssumption DEF Register, Grown, Registered, AccountsInv, AccountsTypeOK
<1>4. requests' \in [Requests -> Request] /\ RequestsFit'
  BY <1>3, CloseKeepsRequests DEF Register
<1>5. AccountsTypeOK'
  BY <1>1, <1>2, <1>4 DEF Register, AccountsInv, AccountsTypeOK
<1>6. NamesAreHeld' /\ UnknownAreUndecided'
  BY <1>1, <1>2, NoRowAssumption
     DEF Register, AccountsInv, AccountsTypeOK, NamesAreHeld, UnknownAreUndecided, Registered
<1>7. LabelIsTheOwners'
  BY DEF Register, AccountsInv, LabelIsTheOwners
<1>8. DecisionIsWhole'
  BY <1>1 DEF Register, AccountsInv, AccountsTypeOK, UnknownAreUndecided, DecisionIsWhole,
              Registered
<1>9. QED
  BY <1>4, <1>5, <1>6, <1>7, <1>8 DEF AccountsInv

LEMMA LoadProposalKeepsInv ==
    ASSUME AccountsInv, NEW r \in Requests, LoadProposal(r)
    PROVE  AccountsInv'
<1> DEFINE q == [requests[r] EXCEPT !.seen = proposal]
<1>1. requests[r] \in Request /\ proposal \in Proposal /\ Fits(requests[r], accounts, held)
  BY DEF AccountsInv, AccountsTypeOK, RequestsFit
<1>2. q \in Request
  BY <1>1 DEF Request
<1>3. Fits(q, accounts, held)
  BY <1>1 DEF LoadProposal, Claimable, Fits, Request
<1>4. RequestOnly(r, q)
  BY DEF RequestOnly, LoadProposal
<1> HIDE DEF q
<1>5. QED
  BY <1>2, <1>3, <1>4, RequestOnlyKeepsInv

LEMMA LoadTargetKeepsInv ==
    ASSUME AccountsInv, NEW r \in Requests, requests[r].op \in Decisions \cup {"transfer"},
           LoadTarget(r, accounts[requests[r].target])
    PROVE  AccountsInv'
<1> DEFINE u == requests[r].target
           loaded == Needed(requests[r].op, accounts[u])
           q == [requests[r] EXCEPT !.theirs = loaded]
<1>1. requests[r] \in Request /\ Fits(requests[r], accounts, held)
  BY DEF AccountsInv, AccountsTypeOK, RequestsFit
<1>2. u \in Users /\ accounts[u] \in Account /\ Registered(u)
  BY <1>1, RegisteredRow DEF LoadTarget, Fits, Registered, AccountsInv
<1>3. loaded \in Account /\ (loaded.name # NoName => loaded.name \in held[u])
  BY <1>2, NeededType DEF AccountsInv, NamesAreHeld
<1>4. RequestOnly(r, q)
  BY DEF RequestOnly, LoadTarget
<1> HIDE DEF loaded
<1>5. q \in Request
  BY <1>1, <1>3 DEF Request
<1>6. Fits(q, accounts, held)
  BY <1>1, <1>2, <1>3 DEF Fits, Request, Registered
<1> HIDE DEF q
<1>7. QED
  BY <1>4, <1>5, <1>6, RequestOnlyKeepsInv

LEMMA RefuseKeepsInv ==
    ASSUME AccountsInv, NEW r \in Requests, Refuse(r)
    PROVE  AccountsInv'
<1>1. RequestOnly(r, Idle)
  BY DEF Refuse, Close, RequestOnly
<1>2. QED
  BY <1>1, IdleType, IdleFits, RequestOnlyKeepsInv

LEMMA RenameKeepsInv ==
    ASSUME AccountsInv, NEW r \in Requests, NEW name \in Names, Rename(r, name)
    PROVE  AccountsInv'
<1> DEFINE u == requests[r].user
           new == Column(accounts[u].name, requests[r].name, name)
<1>1. requests[r] \in Request /\ Fits(requests[r], accounts, held)
  BY DEF AccountsInv, AccountsTypeOK, RequestsFit
<1>2. u \in Users /\ Registered(u) /\ accounts[u] \in Account
  BY <1>1, RegisteredRow DEF Rename, Fits, Registered, AccountsInv, Operations
<1>3. accounts' = [accounts EXCEPT ![u].name = new]
  BY DEF Rename, Column
<1>4. new \in Names \cup {NoName} /\ (new # NoName => new \in held[u] \cup {name})
  BY <1>2, AccountColumns DEF Column, AccountsInv, NamesAreHeld
<1>5. held' = [held EXCEPT ![u] = @ \cup {name}]
  BY DEF Rename
<1> HIDE DEF new
<1>6. [accounts[u] EXCEPT !.name = new] \in Account
  BY <1>2, <1>4 DEF Account
<1>7. accounts' \in [Users -> Account \cup {NoRow}] /\ held' \in [Users -> SUBSET Names]
  BY <1>2, <1>3, <1>5, <1>6 DEF AccountsInv, AccountsTypeOK
<1>8. Grown
  BY <1>2, <1>3, <1>5, <1>6, NoRowAssumption DEF Grown, Registered, AccountsInv, AccountsTypeOK
<1>9. requests' \in [Requests -> Request] /\ RequestsFit'
  BY <1>8, CloseKeepsRequests DEF Rename
<1>10. AccountsTypeOK'
  BY <1>7, <1>9 DEF Rename, AccountsInv, AccountsTypeOK
<1>11. NamesAreHeld'
  BY <1>2, <1>3, <1>4, <1>5 DEF AccountsInv, AccountsTypeOK, NamesAreHeld, Registered, Account
<1>12. UnknownAreUndecided'
  BY <1>8 DEF Rename, Grown, AccountsInv, UnknownAreUndecided
<1>13. LabelIsTheOwners'
  <2>1. proposal.owner # NoUser => proposal.owner \in Users
    BY DEF AccountsInv, AccountsTypeOK, Proposal
  <2>2. QED
    BY <1>8, <2>1 DEF Rename, Grown, AccountsInv, LabelIsTheOwners
<1>14. DecisionIsWhole'
  BY <1>2, <1>3 DEF Rename, AccountsInv, AccountsTypeOK, DecisionIsWhole, Registered, Account
<1>15. QED
  BY <1>9, <1>10, <1>11, <1>12, <1>13, <1>14 DEF AccountsInv

(* A decision changes status and approver of one registered account, and   *)
(* the record of the last decision about it.                               *)
LEMMA DecidedKeepsInv ==
    ASSUME AccountsInv, NEW u \in Users, Registered(u),
           NEW s \in AccountStatus, NEW by \in Users \cup {Script, NoUser}, NEW d,
           accounts' = [accounts EXCEPT ![u].status = s, ![u].approved_by = by],
           decided' = [decided EXCEPT ![u] = d],
           d # NoRow => d = [status |-> s, by |-> by] /\ by \in Users \cup {Script},
           UNCHANGED <<proposal, held, torn>>
    PROVE  /\ Grown
           /\ RequestsFit' /\ requests' \in [Requests -> Request] => AccountsInv'
<1> DEFINE row == [accounts[u] EXCEPT !.status = s, !.approved_by = by]
<1>1. accounts[u] \in Account
  BY RegisteredRow DEF AccountsInv
<1>2. row \in Account /\ row.name = accounts[u].name /\ row.status = s /\ row.approved_by = by
  BY <1>1 DEF Account
<1>3. accounts' = [accounts EXCEPT ![u] = row]
  BY <1>1 DEF Account, AccountsInv, AccountsTypeOK
<1> HIDE DEF row
<1>4. Grown
  BY <1>2, <1>3, NoRowAssumption DEF Grown, Registered, AccountsInv, AccountsTypeOK
<1>5. d \in [status : AccountStatus, by : Users \cup {Script}] \cup {NoRow}
  OBVIOUS
<1>6. /\ accounts' \in [Users -> Account \cup {NoRow}]
      /\ decided' \in [Users -> [status : AccountStatus, by : Users \cup {Script}] \cup {NoRow}]
  BY <1>2, <1>3, <1>5 DEF AccountsInv, AccountsTypeOK
<1>7. NamesAreHeld' /\ UnknownAreUndecided'
  BY <1>2, <1>3, NoRowAssumption
     DEF AccountsInv, AccountsTypeOK, NamesAreHeld, UnknownAreUndecided, Registered
<1>8. LabelIsTheOwners'
  BY DEF AccountsInv, LabelIsTheOwners
<1>9. DecisionIsWhole'
  BY <1>2, <1>3 DEF AccountsInv, AccountsTypeOK, DecisionIsWhole, Registered
<1>10. QED
  BY <1>4, <1>6, <1>7, <1>8, <1>9 DEF AccountsInv, AccountsTypeOK

LEMMA DecideKeepsInv ==
    ASSUME AccountsInv, NEW r \in Requests, Decide(r)
    PROVE  AccountsInv'
<1> DEFINE u      == requests[r].target
           loaded == requests[r].theirs
           op     == requests[r].op
           by     == requests[r].user
           s == Column(accounts[u].status, loaded.status, StatusAfter(op))
           b == Column(accounts[u].approved_by, loaded.approved_by, by)
           d == IF SameDecision(accounts[u], loaded)
                THEN [status |-> StatusAfter(op), by |-> by] ELSE NoRow
<1>1. requests[r] \in Request /\ Fits(requests[r], accounts, held)
  BY DEF AccountsInv, AccountsTypeOK, RequestsFit
<1>2. u \in Users /\ by \in Users /\ Registered(u) /\ accounts[u] \in Account /\ loaded \in Account
  BY <1>1, RegisteredRow DEF Decide, Fits, Registered, Request, Decisions, AccountsInv
<1>3. /\ Decided(loaded, op, by).status = StatusAfter(op)
      /\ Decided(loaded, op, by).approved_by = by
  BY <1>2 DEF Decided, Account
<1>4. /\ accounts' = [accounts EXCEPT ![u].status = s, ![u].approved_by = b]
      /\ decided' = [decided EXCEPT ![u] = d]
  BY <1>3 DEF Decide, Column
<1>5. s \in AccountStatus /\ b \in Users \cup {Script, NoUser}
  BY <1>2, AccountColumns DEF Column, StatusAfter, AccountStatus
<1>6. d # NoRow => d = [status |-> s, by |-> b] /\ b \in Users \cup {Script}
  BY <1>2, DistinctAssumption DEF SameDecision, Column
<1>7. UNCHANGED <<proposal, held, torn>> /\ Close(r)
  BY DEF Decide
<1> HIDE DEF u, s, b, d
<1>8. Grown /\ (RequestsFit' /\ requests' \in [Requests -> Request] => AccountsInv')
  BY <1>2, <1>4, <1>5, <1>6, <1>7, DecidedKeepsInv
<1>9. QED
  BY <1>7, <1>8, CloseKeepsRequests

LEMMA ScriptKeepsInv ==
    ASSUME AccountsInv, NEW u \in Users, ScriptApproves(u)
    PROVE  AccountsInv'
<1> DEFINE d == [status |-> "APPROVED", by |-> Script]
<1>1. accounts[u] \in Account /\ Registered(u)
  BY RegisteredRow DEF ScriptApproves, AccountsInv
<1>2. accounts' = [accounts EXCEPT ![u].status = "APPROVED", ![u].approved_by = Script]
  BY <1>1 DEF ScriptApproves, Decided, StatusAfter, Account
<1>3. decided' = [decided EXCEPT ![u] = d] /\ UNCHANGED <<proposal, held, torn>>
  BY DEF ScriptApproves
<1> HIDE DEF d
<1>4. d = [status |-> "APPROVED", by |-> Script]
  BY DEF d
<1>5. Grown /\ (RequestsFit' /\ requests' \in [Requests -> Request] => AccountsInv')
  BY <1>1, <1>2, <1>3, <1>4, DecidedKeepsInv DEF AccountStatus
<1>6. requests' = requests
  BY DEF ScriptApproves
<1>7. RequestsFit' /\ requests' \in [Requests -> Request]
  BY <1>5, <1>6, FitsKept DEF AccountsInv, AccountsTypeOK, RequestsFit
<1>8. QED
  BY <1>5, <1>7

(* A commit of the proposal: torn, or exactly what the request set.        *)
LEMMA CommitProposalKeepsInv ==
    ASSUME AccountsInv, NEW r \in Requests, NEW set \in Proposal,
           requests[r].seen # NoRow, CommitProposal(r, set),
           set.owner = NoUser => set.label = NoName,
           set.owner # NoUser => set.label \in held[set.owner]
    PROVE  /\ AccountsInv'
           /\ ~torn' => proposal' = set /\ proposal = requests[r].seen
<1>1. requests[r].seen \in Proposal /\ proposal \in Proposal
  BY DEF AccountsInv, AccountsTypeOK, Request
<1>2. proposal' \in Proposal
  BY <1>1 DEF CommitProposal, Column, Proposal
<1>3. ASSUME ~torn' PROVE proposal' = set /\ proposal = requests[r].seen
  BY <1>1, <1>3 DEF CommitProposal, Column, Proposal
<1>4. Grown /\ torn' \in BOOLEAN /\ Close(r)
  BY DEF CommitProposal, Grown, Registered
<1>5. requests' \in [Requests -> Request] /\ RequestsFit'
  BY <1>4, CloseKeepsRequests
<1>6. LabelIsTheOwners'
  BY <1>3 DEF LabelIsTheOwners, CommitProposal
<1>7. QED
  BY <1>2, <1>3, <1>4, <1>5, <1>6
     DEF CommitProposal, AccountsInv, AccountsTypeOK, NamesAreHeld, UnknownAreUndecided,
         DecisionIsWhole, Registered

(* Without a stale copy, a commit of the proposal takes it from nobody but *)
(* the one who asks for it.                                                *)
Untorn(r) == ~torn /\ ~torn' /\ proposal.owner # NoUser =>
    requests[r].op \in {"unclaim", "transfer"} /\ requests[r].user = proposal.owner

LEMMA ClaimKeepsInv ==
    ASSUME AccountsInv, NEW r \in Requests, Claim(r)
    PROVE  AccountsInv' /\ Untorn(r)
<1> DEFINE set == [owner |-> requests[r].user, label |-> requests[r].name]
<1>1. requests[r] \in Request /\ Fits(requests[r], accounts, held)
  BY DEF AccountsInv, AccountsTypeOK, RequestsFit
<1>2. /\ set \in Proposal
      /\ set.owner # NoUser /\ set.label \in held[set.owner]
      /\ requests[r].seen.label = NoName
  BY <1>1, DistinctAssumption DEF Claim, Fits, Request, Proposal
<1>3. requests[r].seen # NoRow /\ CommitProposal(r, set)
  BY DEF Claim
<1> HIDE DEF set
<1>4. AccountsInv' /\ (~torn' => proposal = requests[r].seen)
  BY <1>2, <1>3, CommitProposalKeepsInv
<1>5. ASSUME ~torn, proposal.owner # NoUser PROVE proposal.label # NoName
  <2>1. proposal.owner \in Users /\ proposal.label \in held[proposal.owner]
    BY <1>5 DEF AccountsInv, AccountsTypeOK, LabelIsTheOwners, Proposal
  <2>2. QED
    BY <2>1, DistinctAssumption DEF AccountsInv, AccountsTypeOK
<1>6. QED
  BY <1>2, <1>4, <1>5 DEF Untorn

LEMMA UnclaimKeepsInv ==
    ASSUME AccountsInv, NEW r \in Requests, Unclaim(r)
    PROVE  AccountsInv' /\ Untorn(r)
<1> DEFINE set == [owner |-> NoUser, label |-> NoName]
<1>1. requests[r].seen.owner = requests[r].user
  BY DEF Unclaim, AccountsInv, RequestsFit, Fits
<1>2. set \in Proposal /\ set.owner = NoUser /\ set.label = NoName
  BY DEF Proposal
<1>3. requests[r].seen # NoRow /\ CommitProposal(r, set)
  BY DEF Unclaim
<1> HIDE DEF set
<1>4. AccountsInv' /\ (~torn' => proposal = requests[r].seen)
  BY <1>2, <1>3, CommitProposalKeepsInv
<1>5. QED
  BY <1>1, <1>4 DEF Untorn, Unclaim

LEMMA TransferKeepsInv ==
    ASSUME AccountsInv, NEW r \in Requests, Transfer(r)
    PROVE  AccountsInv' /\ Untorn(r)
<1> DEFINE set == [owner |-> requests[r].target, label |-> requests[r].theirs.name]
<1>1. requests[r] \in Request /\ Fits(requests[r], accounts, held)
  BY DEF AccountsInv, AccountsTypeOK, RequestsFit
<1>2. requests[r].theirs \in Account /\ requests[r].theirs.name # NoName
  BY <1>1 DEF Transfer, MayReceive, Request
<1>3. requests[r].target \in Users /\ requests[r].seen.owner = requests[r].user
  BY <1>1 DEF Transfer, Fits
<1>4. /\ set \in Proposal
      /\ set.owner # NoUser /\ set.label \in held[set.owner]
  BY <1>1, <1>2, <1>3, AccountColumns, DistinctAssumption DEF Transfer, Fits, Proposal
<1>5. requests[r].seen # NoRow /\ CommitProposal(r, set)
  BY DEF Transfer, TransferredTo
<1> HIDE DEF set
<1>6. AccountsInv' /\ (~torn' => proposal = requests[r].seen)
  BY <1>4, <1>5, CommitProposalKeepsInv
<1>7. QED
  BY <1>3, <1>6 DEF Untorn, Transfer

-----------------------------------------------------------------------------
(* The invariant *)

LEMMA InitEstablishesInv == Init => AccountsInv
<1> SUFFICES ASSUME Init PROVE AccountsInv
  OBVIOUS
<1>1. AccountsTypeOK
  <2>1. proposal \in Proposal /\ torn \in BOOLEAN
    <3>1. PICK label \in {FormName, NoName} : proposal = [owner |-> NoUser, label |-> label]
      BY DEF Init
    <3>2. torn = FALSE
      BY DEF Init
    <3>3. QED
      BY <3>1, <3>2 DEF Proposal
  <2>2. accounts \in [Users -> Account \cup {NoRow}] /\ held \in [Users -> SUBSET Names]
    BY DEF Init
  <2>3. requests \in [Requests -> Request]
    BY IdleType DEF Init
  <2>4. decided \in [Users -> [status : AccountStatus, by : Users \cup {Script}] \cup {NoRow}]
    BY DEF Init
  <2>5. QED
    BY <2>1, <2>2, <2>3, <2>4 DEF AccountsTypeOK
<1>2. RequestsFit
  BY IdleFits DEF Init, RequestsFit
<1>3. QED
  BY <1>1, <1>2
     DEF Init, AccountsInv, NamesAreHeld, UnknownAreUndecided, LabelIsTheOwners,
         DecisionIsWhole, Registered

LEMMA RequestStepKeepsInv ==
    ASSUME AccountsInv, NEW r \in Requests, RequestStep(r)
    PROVE  AccountsInv'
<1>1. CASE \E u \in Users, op \in Operations, target \in Users \cup {NoUser} :
              Arrive(r, u, op, target)
  BY <1>1, ArriveKeepsInv
<1>2. CASE Register(r) \/ LoadProposal(r) \/ Refuse(r)
  BY <1>2, RegisterKeepsInv, LoadProposalKeepsInv, RefuseKeepsInv
<1>3. CASE LoadJudged(r) \/ LoadReceiver(r)
  BY <1>3, LoadTargetKeepsInv DEF LoadJudged, LoadReceiver
<1>4. CASE \E name \in Names : Rename(r, name)
  BY <1>4, RenameKeepsInv
<1>5. CASE Decide(r) \/ Claim(r) \/ Unclaim(r) \/ Transfer(r)
  BY <1>5, DecideKeepsInv, ClaimKeepsInv, UnclaimKeepsInv, TransferKeepsInv
<1>6. QED
  BY <1>1, <1>2, <1>3, <1>4, <1>5 DEF RequestStep

LEMMA StutterKeepsInv == AccountsInv /\ UNCHANGED vars => AccountsInv'
BY DEF vars, AccountsInv, AccountsTypeOK, RequestsFit, NamesAreHeld, UnknownAreUndecided,
       LabelIsTheOwners, DecisionIsWhole, Registered

LEMMA StepKeepsInv == AccountsInv /\ [Next]_vars => AccountsInv'
<1> SUFFICES ASSUME AccountsInv, [Next]_vars PROVE AccountsInv'
  OBVIOUS
<1>1. CASE \E r \in Requests : RequestStep(r)
  BY <1>1, RequestStepKeepsInv
<1>2. CASE \E u \in Users : ScriptApproves(u)
  BY <1>2, ScriptKeepsInv
<1>3. CASE UNCHANGED vars
  BY <1>3, StutterKeepsInv
<1>4. QED
  BY <1>1, <1>2, <1>3 DEF Next

LEMMA AlwaysAccountsInv == Spec => []AccountsInv
BY InitEstablishesInv, StepKeepsInv, PTL DEF Spec

-----------------------------------------------------------------------------
(* Theorems *)

(* Accounts, the proposal and what requests have loaded keep their shapes: *)
(* no interleaving writes a column a value it cannot hold.                 *)
THEOREM AccountsAreTyped == Spec => []AccountsTypeOK
<1>1. AccountsInv => AccountsTypeOK
  BY DEF AccountsInv
<1>2. QED
  BY <1>1, AlwaysAccountsInv, PTL

(* Whatever is renamed, approved or handed over meanwhile, the label of an *)
(* owned proposal is a name its owner has or had, unless the last change   *)
(* of the proposal was made on a stale copy.                               *)
THEOREM LabelsNameTheOwner == Spec => []LabelIsTheOwners
<1>1. AccountsInv => LabelIsTheOwners
  BY DEF AccountsInv
<1>2. QED
  BY <1>1, AlwaysAccountsInv, PTL

(* Status and approver of an account belong to the same decision, unless   *)
(* that was made on a stale copy.                                          *)
THEOREM DecisionsAreWhole == Spec => []DecisionIsWhole
<1>1. AccountsInv => DecisionIsWhole
  BY DEF AccountsInv
<1>2. QED
  BY <1>1, AlwaysAccountsInv, PTL

Stands == \A u \in Users : Registered(u) /\ accounts[u].status # "PENDING" =>
              accounts'[u] # NoRow /\ accounts'[u].status # "PENDING"

LEMMA RenameLetsDecisionsStand ==
    ASSUME AccountsInv, NEW r \in Requests, NEW name \in Names, Rename(r, name)
    PROVE  Stands
<1> SUFFICES ASSUME NEW u \in Users, Registered(u), accounts[u].status # "PENDING"
             PROVE  accounts'[u] # NoRow /\ accounts'[u].status # "PENDING"
  BY DEF Stands
<1> DEFINE new == Column(accounts[u].name, requests[r].name, name)
<1>1. accounts[u] \in Account
  BY RegisteredRow DEF AccountsInv
<1>2. new \in Names \cup {NoName}
  BY <1>1, AccountColumns DEF Column
<1>3. accounts'[u] = accounts[u] \/ accounts'[u] = [accounts[u] EXCEPT !.name = new]
  BY <1>1 DEF Rename, AccountsInv, AccountsTypeOK, Column
<1> HIDE DEF new
<1>4. accounts'[u] \in Account /\ accounts'[u].status = accounts[u].status
  BY <1>1, <1>2, <1>3 DEF Account
<1>5. QED
  BY <1>4, NoRowAssumption

LEMMA DecideLetsDecisionsStand ==
    ASSUME AccountsInv, NEW r \in Requests, Decide(r)
    PROVE  Stands
<1> SUFFICES ASSUME NEW u \in Users, Registered(u), accounts[u].status # "PENDING"
             PROVE  accounts'[u] # NoRow /\ accounts'[u].status # "PENDING"
  BY DEF Stands
<1> DEFINE loaded == requests[r].theirs
           op     == requests[r].op
           by     == requests[r].user
           s == Column(accounts[u].status, loaded.status, StatusAfter(op))
           b == Column(accounts[u].approved_by, loaded.approved_by, by)
<1>1. accounts[u] \in Account /\ requests[r] \in Request
  BY RegisteredRow DEF AccountsInv, AccountsTypeOK
<1>2. by \in Users /\ loaded \in Account
  BY <1>1 DEF Decide, Decisions, Request, AccountsInv, RequestsFit, Fits
<1>3. /\ Decided(loaded, op, by).status = StatusAfter(op)
      /\ Decided(loaded, op, by).approved_by = by
  BY <1>2 DEF Decided, Account
<1>4. \/ accounts'[u] = accounts[u]
      \/ accounts'[u] = [accounts[u] EXCEPT !.status = s, !.approved_by = b]
  BY <1>1, <1>3 DEF Decide, AccountsInv, AccountsTypeOK, Column
<1>5. s \in AccountStatus /\ s # "PENDING" /\ b \in Users \cup {Script, NoUser}
  BY <1>1, <1>2, AccountColumns DEF Column, StatusAfter, AccountStatus
<1> HIDE DEF s, b
<1>6. accounts'[u] \in Account /\ accounts'[u].status # "PENDING"
  BY <1>1, <1>4, <1>5 DEF Account
<1>7. QED
  BY <1>6, NoRowAssumption

LEMMA ScriptLetsDecisionsStand ==
    ASSUME AccountsInv, NEW v \in Users, ScriptApproves(v)
    PROVE  Stands
<1> SUFFICES ASSUME NEW u \in Users, Registered(u), accounts[u].status # "PENDING"
             PROVE  accounts'[u] # NoRow /\ accounts'[u].status # "PENDING"
  BY DEF Stands
<1>1. accounts[u] \in Account
  BY RegisteredRow DEF AccountsInv
<1>2. accounts'[u] = accounts[u] \/ accounts'[u] = Decided(accounts[u], "approve", Script)
  BY DEF ScriptApproves, AccountsInv, AccountsTypeOK
<1>3. accounts'[u] \in Account /\ accounts'[u].status # "PENDING"
  BY <1>1, <1>2 DEF Decided, StatusAfter, Account, AccountStatus
<1>4. QED
  BY <1>3, NoRowAssumption

(* However late a registration that was under way is committed, a decided  *)
(* account stays decided.                                                  *)
THEOREM DecisionsAreKept == Spec => DecisionsStand
<1>1. AccountsInv /\ [Next]_vars => [Stands]_vars
  <2> SUFFICES ASSUME AccountsInv, [Next]_vars PROVE Stands \/ UNCHANGED vars
    OBVIOUS
  <2>1. ASSUME NEW r \in Requests, RequestStep(r) PROVE Stands
    <3>1. CASE Register(r)
      BY <3>1 DEF Register, Stands, Registered, AccountsInv, AccountsTypeOK
    <3>2. CASE UNCHANGED accounts
      BY <3>2 DEF Stands, Registered
    <3>3. CASE (\E name \in Names : Rename(r, name)) \/ Decide(r)
      BY <3>3, RenameLetsDecisionsStand, DecideLetsDecisionsStand
    <3>4. QED
      BY <2>1, <3>1, <3>2, <3>3
         DEF RequestStep, Arrive, LoadProposal, LoadJudged, LoadReceiver, LoadTarget, Refuse,
             Claim, Unclaim, Transfer, CommitProposal
  <2>2. QED
    BY <2>1, ScriptLetsDecisionsStand DEF Next
<1>2. QED
  BY <1>1, AlwaysAccountsInv, PTL DEF Spec, DecisionsStand, Stands

(* The owner's own request to part with the proposal ends in this step.    *)
LetGo(r) ==
    /\ requests[r].op \in {"unclaim", "transfer"}
    /\ requests[r].user = proposal.owner
    /\ requests'[r] = Idle

(* An owner loses a proposal only by their own request to release or hand  *)
(* it over, unless a request works on a stale copy.                        *)
THEOREM OwnersKeepTheirs == Spec => OwnersAreNotRobbed
<1> DEFINE A == proposal.owner # NoUser /\ proposal'.owner # proposal.owner /\ ~torn /\ ~torn' =>
                   \E r \in Requests : LetGo(r)
<1>1. AccountsInv /\ [Next]_vars => [A]_vars
  <2> SUFFICES ASSUME AccountsInv, [Next]_vars PROVE A \/ UNCHANGED vars
    OBVIOUS
  <2>1. CASE UNCHANGED proposal
    BY <2>1
  <2>2. ASSUME NEW r \in Requests, Claim(r) \/ Unclaim(r) \/ Transfer(r) PROVE A
    <3>1. Untorn(r)
      BY <2>2, ClaimKeepsInv, UnclaimKeepsInv, TransferKeepsInv
    <3>2. requests'[r] = Idle
      BY <2>2 DEF Claim, Unclaim, Transfer, CommitProposal, Close, AccountsInv, AccountsTypeOK
    <3>3. QED
      BY <3>1, <3>2 DEF Untorn, LetGo
  <2>3. QED
    BY <2>1, <2>2
       DEF Next, RequestStep, Arrive, Register, LoadProposal, LoadJudged, LoadReceiver,
           LoadTarget, Refuse, Rename, Decide, ScriptApproves
<1>2. QED
  BY <1>1, AlwaysAccountsInv, PTL DEF Spec, OwnersAreNotRobbed, LetGo

=============================================================================
