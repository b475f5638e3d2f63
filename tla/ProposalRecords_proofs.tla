----------------------- MODULE ProposalRecords_proofs -----------------------
(***************************************************************************)
(* Theorems of ProposalRecords: intake, client responses and retention,    *)
(* for any posts, clicks, proposals, months and windows.                   *)
(***************************************************************************)
EXTENDS ProposalRecords, FiniteSetTheorems, TLAPS

(* The table of proposals: ids were given out, the key is that of the form *)
(* and no two rows have the same.                                          *)
KeysFit ==
    /\ \A p \in ProposalIds : Exists(p) =>
          p \in issued /\ proposals[p].key = IntakeKey[proposals[p].form]
    /\ \A p, o \in ProposalIds :
          Exists(p) /\ Exists(o) /\ proposals[p].key = proposals[o].key => p = o

(* The month of the last activity is that of the row's stamp or of the     *)
(* newest log entry, or the entry has expired.                             *)
ClockFits ==
    \A p \in ProposalIds : Exists(p) =>
        /\ proposals[p].updated <= touched[p]
        /\ touched[p] <= now
        /\ proposals[p].entry # NoEntry => proposals[p].entry <= touched[p]
        /\ \/ touched[p] = proposals[p].updated
           \/ touched[p] = proposals[p].entry
           \/ touched[p] < now - ActivityWindow

TablesTypeOK ==
    /\ now \in Months
    /\ proposals \in [ProposalIds -> ProposalRow \cup {NoRow}]
    /\ issued \subseteq ProposalIds /\ IsFiniteSet(issued)
    /\ touched \in [ProposalIds -> Months]

TablesInv == TablesTypeOK /\ KeysFit /\ ClockFits

-----------------------------------------------------------------------------
(* What can happen to the table of proposals *)

(* A row is written or logged this month.                                  *)
Touch(p) ==
    /\ Exists(p)
    /\ \E row \in ProposalRow :
          /\ Commit(p, row)
          /\ row.key = proposals[p].key /\ row.form = proposals[p].form
          /\ Delivered(p) => row.status = "DELIVERED"
          /\ row.updated \in {proposals[p].updated, now}
          /\ row.entry \in {proposals[p].entry, now}
          /\ now \in {row.updated, row.entry}
    /\ UNCHANGED <<now, issued>>

(* A new row with a new id and an unused key.                              *)
Create(p, form) ==
    /\ p \notin issued
    /\ Holders(form) = {}
    /\ Commit(p, [key |-> IntakeKey[form], form |-> form, status |-> "DRAFT",
                  updated |-> now, entry |-> now])
    /\ issued' = issued \cup {p}
    /\ UNCHANGED now

(* What no step does: give an id out twice, change key or form of a row,   *)
(* or take a delivery back.                                                *)
Persist ==
    /\ issued \subseteq issued'
    /\ \A p \in issued : Exists(p)' =>
          /\ Exists(p)
          /\ proposals'[p].key = proposals[p].key
          /\ proposals'[p].form = proposals[p].form
          /\ Delivered(p) => Delivered(p)'

LEMMA RowColumns ==
    ASSUME NEW row \in ProposalRow
    PROVE  /\ row.key \in Keys /\ row.form \in Forms
           /\ row.status \in {"DRAFT", "DELIVERED"}
           /\ row.updated \in Months /\ row.entry \in Months \cup {NoEntry}
BY DEF ProposalRow

LEMMA ExistingRow ==
    ASSUME TablesTypeOK, NEW p \in ProposalIds, Exists(p)
    PROVE  proposals[p] \in ProposalRow
BY DEF TablesTypeOK, Exists

LEMMA MonthsAreIntegers == Months \subseteq Int /\ NoEntry \notin Months
BY TablesAssumption DEF Months

LEMMA LoggedRow ==
    ASSUME NEW row \in ProposalRow, now \in Months
    PROVE  /\ Logged(row) \in ProposalRow
           /\ Logged(row).key = row.key /\ Logged(row).form = row.form
           /\ Logged(row).status = row.status
           /\ Logged(row).updated = row.updated /\ Logged(row).entry = now
BY DEF Logged, ProposalRow

LEMMA WrittenRow ==
    ASSUME NEW row \in ProposalRow, now \in Months
    PROVE  /\ Written(row) \in ProposalRow
           /\ Written(row).key = row.key /\ Written(row).form = row.form
           /\ Written(row).status = row.status
           /\ Written(row).updated = now /\ Written(row).entry = row.entry
BY DEF Written, ProposalRow

LEMMA WorkTouches ==
    ASSUME TablesTypeOK, NEW p \in ProposalIds, Work(p)
    PROVE  Touch(p)
<1>1. proposals[p] \in ProposalRow /\ now \in Months
  BY ExistingRow DEF Work, TablesTypeOK
<1>2. PICK row \in {Written(Logged(proposals[p])), Written(proposals[p]), Logged(proposals[p])} :
         Commit(p, row)
  BY DEF Work
<1>3. /\ row \in ProposalRow
      /\ row.key = proposals[p].key /\ row.form = proposals[p].form
      /\ row.status = proposals[p].status
      /\ row.updated \in {proposals[p].updated, now}
      /\ row.entry \in {proposals[p].entry, now}
      /\ now \in {row.updated, row.entry}
  BY <1>1, <1>2, LoggedRow, WrittenRow
<1>4. QED
  BY <1>2, <1>3 DEF Touch, Work, Delivered

LEMMA DeliverTouches ==
    ASSUME TablesTypeOK, NEW p \in ProposalIds, Deliver(p)
    PROVE  Touch(p)
<1> DEFINE sent == [proposals[p] EXCEPT !.status = "DELIVERED"]
           row  == Written(Logged(sent))
<1>1. proposals[p] \in ProposalRow /\ now \in Months
  BY ExistingRow DEF Deliver, TablesTypeOK
<1>2. /\ sent \in ProposalRow
      /\ sent.key = proposals[p].key /\ sent.form = proposals[p].form
  BY <1>1 DEF ProposalRow
<1> HIDE DEF sent
<1>3. /\ row \in ProposalRow /\ row.key = proposals[p].key /\ row.form = proposals[p].form
      /\ row.status = sent.status /\ row.updated = now /\ row.entry = now
  BY <1>1, <1>2, LoggedRow, WrittenRow
<1>4. sent.status = "DELIVERED"
  BY <1>1 DEF sent, ProposalRow
<1>5. Commit(p, row)
  BY DEF Deliver, sent
<1> HIDE DEF row
<1>6. QED
  BY <1>3, <1>4, <1>5 DEF Touch, Deliver

LEMMA StoreTouches ==
    ASSUME TablesTypeOK, NEW c \in Clicks, clicks[c].proposal \in ProposalIds, Store(c)
    PROVE  Touch(clicks[c].proposal)
<1> DEFINE p == clicks[c].proposal
<1>1. proposals[p] \in ProposalRow /\ now \in Months
  BY ExistingRow DEF Store, TablesTypeOK
<1>2. Commit(p, Logged(proposals[p])) /\ Exists(p) /\ UNCHANGED <<now, issued>>
  BY DEF Store
<1> HIDE DEF p
<1>3. Touch(p)
  BY <1>1, <1>2, LoggedRow DEF Touch, Delivered
<1>4. QED
  BY <1>3 DEF p

-----------------------------------------------------------------------------
(* The table keeps its shape, its keys and its months *)

LEMMA TouchKeepsTables ==
    ASSUME TablesInv, NEW p \in ProposalIds, Touch(p)
    PROVE  TablesInv' /\ Persist /\ \A o \in ProposalIds : Exists(o) => Exists(o)'
<1>1. PICK row \in ProposalRow :
         /\ Commit(p, row)
         /\ row.key = proposals[p].key /\ row.form = proposals[p].form
         /\ Delivered(p) => row.status = "DELIVERED"
         /\ row.updated \in {proposals[p].updated, now}
         /\ row.entry \in {proposals[p].entry, now}
         /\ now \in {row.updated, row.entry}
  BY DEF Touch
<1>2. proposals[p] \in ProposalRow /\ now \in Months /\ Exists(p)
  BY ExistingRow DEF Touch, TablesInv, TablesTypeOK
<1>3. proposals'[p] = row /\ touched'[p] = now /\ now' = now /\ issued' = issued
  BY <1>1 DEF Commit, Touch, TablesInv, TablesTypeOK
<1>4. \A o \in ProposalIds : o # p => proposals'[o] = proposals[o] /\ touched'[o] = touched[o]
  BY <1>1 DEF Commit, TablesInv, TablesTypeOK
<1>5. TablesTypeOK'
  BY <1>1, <1>2 DEF Commit, Touch, TablesInv, TablesTypeOK
<1>6. \A o \in ProposalIds : /\ Exists(o)' <=> Exists(o)
                             /\ Exists(o) => /\ proposals'[o].key = proposals[o].key
                                             /\ proposals'[o].form = proposals[o].form
                                             /\ Delivered(o) => Delivered(o)'
  BY <1>1, <1>2, <1>3, <1>4, NoRowAssumption DEF Exists, Delivered
<1>7. KeysFit'
  BY <1>3, <1>6 DEF TablesInv, KeysFit
<1>8. ClockFits'
  <2> SUFFICES ASSUME NEW o \in ProposalIds, Exists(o)'
               PROVE  /\ proposals'[o].updated <= touched'[o]
                      /\ touched'[o] <= now'
                      /\ proposals'[o].entry # NoEntry => proposals'[o].entry <= touched'[o]
                      /\ \/ touched'[o] = proposals'[o].updated
                         \/ touched'[o] = proposals'[o].entry
                         \/ touched'[o] < now' - ActivityWindow
    BY DEF ClockFits, Exists
  <2>1. CASE o = p
    <3>1. /\ proposals[p].updated <= touched[p] /\ touched[p] <= now
          /\ proposals[p].entry # NoEntry => proposals[p].entry <= touched[p]
      BY <1>2 DEF TablesInv, ClockFits
    <3>2. /\ proposals[p].updated \in Int /\ now \in Int /\ touched[p] \in Int
          /\ proposals[p].entry # NoEntry => proposals[p].entry \in Int
      BY <1>2, RowColumns, MonthsAreIntegers DEF TablesInv, TablesTypeOK
    <3>3. QED
      BY <1>1, <1>3, <2>1, <3>1, <3>2
  <2>2. CASE o # p
    BY <1>3, <1>4, <1>6, <2>2 DEF TablesInv, ClockFits
  <2>3. QED
    BY <2>1, <2>2
<1>9. Persist
  BY <1>3, <1>6 DEF Persist, TablesInv, TablesTypeOK
<1>10. QED
  BY <1>5, <1>6, <1>7, <1>8, <1>9 DEF TablesInv

LEMMA CreateKeepsTables ==
    ASSUME TablesInv, NEW p \in ProposalIds, NEW form \in Forms, Create(p, form)
    PROVE  TablesInv' /\ Persist
<1> DEFINE row == [key |-> IntakeKey[form], form |-> form, status |-> "DRAFT",
                   updated |-> now, entry |-> now]
<1>1. IntakeKey[form] \in Keys /\ now \in Months
  BY IntakeAssumption DEF IntakeKey, TablesInv, TablesTypeOK
<1>2. /\ row \in ProposalRow
      /\ row.key = IntakeKey[form] /\ row.form = form
      /\ row.updated = now /\ row.entry = now
  BY <1>1 DEF ProposalRow
<1>3. Commit(p, row)
  BY DEF Create
<1> HIDE DEF row
<1>4. proposals'[p] = row /\ touched'[p] = now /\ now' = now /\ issued' = issued \cup {p}
  BY <1>3 DEF Commit, Create, TablesInv, TablesTypeOK
<1>5. \A o \in ProposalIds : o # p => proposals'[o] = proposals[o] /\ touched'[o] = touched[o]
  BY <1>3 DEF Commit, TablesInv, TablesTypeOK
<1>6. IsFiniteSet(issued')
  BY <1>4, FS_AddElement DEF TablesInv, TablesTypeOK
<1>7. TablesTypeOK'
  BY <1>1, <1>2, <1>3, <1>4, <1>6 DEF Commit, TablesInv, TablesTypeOK
<1>8. KeysFit'
  <2>1. \A o \in ProposalIds : o # p /\ Exists(o) => proposals[o].key # IntakeKey[form]
    BY DEF Create, Holders
  <2>2. QED
    BY <1>2, <1>4, <1>5, <2>1 DEF TablesInv, KeysFit, Exists
<1>9. ClockFits'
  <2>1. now \in Int
    BY <1>1, MonthsAreIntegers
  <2>2. QED
    BY <1>2, <1>4, <1>5, <2>1 DEF TablesInv, ClockFits, Exists
<1>10. Persist
  BY <1>4, <1>5 DEF Persist, Create, Exists, Delivered, TablesInv, TablesTypeOK
<1>11. QED
  BY <1>7, <1>8, <1>9, <1>10 DEF TablesInv

LEMMA MonthKeepsTables ==
    ASSUME TablesInv, MonthPasses
    PROVE  TablesInv' /\ Persist
<1>1. now \in Int /\ now' = now + 1 /\ now' \in Months
  BY TablesAssumption DEF MonthPasses, TablesInv, TablesTypeOK, Months
<1>2. ActivityWindow \in Int
  BY WindowsAssumption
<1>3. TablesTypeOK' /\ KeysFit'
  BY <1>1 DEF MonthPasses, TablesInv, TablesTypeOK, KeysFit, Exists
<1>4. ClockFits'
  <2> SUFFICES ASSUME NEW o \in ProposalIds, Exists(o)
               PROVE  /\ proposals[o].updated <= touched[o]
                      /\ touched[o] <= now'
                      /\ proposals[o].entry # NoEntry => proposals[o].entry <= touched[o]
                      /\ \/ touched[o] = proposals[o].updated
                         \/ touched[o] = proposals[o].entry
                         \/ touched[o] < now' - ActivityWindow
    BY DEF ClockFits, Exists, MonthPasses
  <2>1. touched[o] \in Int
    BY MonthsAreIntegers DEF TablesInv, TablesTypeOK
  <2>2. QED
    BY <1>1, <1>2, <2>1 DEF TablesInv, ClockFits
<1>5. Persist
  BY DEF MonthPasses, Persist, Exists, Delivered
<1>6. QED
  BY <1>3, <1>4, <1>5 DEF TablesInv

(* What a retention run does to a row. *)
LEMMA RunCommits ==
    ASSUME TablesInv, CommitRun, NEW p \in ProposalIds
    PROVE  /\ Exists(p)' <=> p \notin run.stale /\ Exists(p)
           /\ Exists(p)' =>
                 /\ proposals'[p] = [proposals[p] EXCEPT !.entry = RemainingEntry(p)]
                 /\ proposals'[p] \in ProposalRow
                 /\ proposals'[p].key = proposals[p].key
                 /\ proposals'[p].form = proposals[p].form
                 /\ proposals'[p].status = proposals[p].status
                 /\ proposals'[p].updated = proposals[p].updated
                 /\ proposals'[p].entry = RemainingEntry(p)
                 /\ touched'[p] = touched[p]
<1>1. CASE p \in run.stale \/ ~Exists(p)
  BY <1>1 DEF CommitRun, Exists
<1>2. CASE p \notin run.stale /\ Exists(p)
  <2>1. proposals[p] \in ProposalRow /\ RemainingEntry(p) \in Months \cup {NoEntry}
    BY <1>2, ExistingRow, RowColumns DEF TablesInv, RemainingEntry
  <2>2. proposals'[p] = [proposals[p] EXCEPT !.entry = RemainingEntry(p)]
    BY <1>2 DEF CommitRun
  <2>3. touched'[p] = touched[p]
    BY <1>2 DEF CommitRun
  <2>4. /\ proposals'[p] \in ProposalRow
        /\ proposals'[p].key = proposals[p].key
        /\ proposals'[p].form = proposals[p].form
        /\ proposals'[p].status = proposals[p].status
        /\ proposals'[p].updated = proposals[p].updated
        /\ proposals'[p].entry = RemainingEntry(p)
    BY <2>1, <2>2 DEF ProposalRow
  <2>5. QED
    BY <1>2, <2>2, <2>3, <2>4, NoRowAssumption DEF Exists
<1>3. QED
  BY <1>1, <1>2

LEMMA RunKeepsTables ==
    ASSUME TablesInv, CommitRun
    PROVE  TablesInv' /\ Persist
<1>1. now' = now /\ issued' = issued
  BY DEF CommitRun
<1>2. TablesTypeOK'
  <2>1. 0 \in Months
    BY TablesAssumption DEF Months
  <2>2. \A p \in ProposalIds : proposals'[p] \in ProposalRow \cup {NoRow}
    BY RunCommits DEF Exists
  <2>3. proposals' \in [ProposalIds -> ProposalRow \cup {NoRow}]
    BY <2>2 DEF CommitRun
  <2>4. touched' \in [ProposalIds -> Months]
    BY <2>1 DEF CommitRun, TablesInv, TablesTypeOK
  <2>5. QED
    BY <1>1, <2>3, <2>4 DEF TablesInv, TablesTypeOK
<1>3. KeysFit'
  BY <1>1, RunCommits DEF TablesInv, KeysFit
<1>4. ClockFits'
  <2> SUFFICES ASSUME NEW p \in ProposalIds, Exists(p)'
               PROVE  /\ proposals'[p].updated <= touched'[p]
                      /\ touched'[p] <= now'
                      /\ proposals'[p].entry # NoEntry => proposals'[p].entry <= touched'[p]
                      /\ \/ touched'[p] = proposals'[p].updated
                         \/ touched'[p] = proposals'[p].entry
                         \/ touched'[p] < now' - ActivityWindow
    BY DEF ClockFits, Exists
  <2>1. /\ Exists(p) /\ touched'[p] = touched[p]
        /\ proposals'[p].updated = proposals[p].updated
        /\ proposals'[p].entry = RemainingEntry(p)
    BY RunCommits
  <2>2. touched[p] \in Int
    BY MonthsAreIntegers DEF TablesInv, TablesTypeOK
  <2>3. \/ RemainingEntry(p) = proposals[p].entry
        \/ /\ RemainingEntry(p) = NoEntry
           /\ proposals[p].entry < now - ActivityWindow
    BY DEF RemainingEntry
  <2>4. QED
    BY <1>1, <2>1, <2>2, <2>3 DEF TablesInv, ClockFits
<1>5. Persist
  BY <1>1, RunCommits DEF Persist, Delivered, TablesInv, TablesTypeOK
<1>6. QED
  BY <1>2, <1>3, <1>4, <1>5 DEF TablesInv

LEMMA IdleKeepsTables ==
    ASSUME TablesInv, UNCHANGED <<now, proposals, issued, touched>>
    PROVE  TablesInv' /\ Persist
BY DEF TablesInv, TablesTypeOK, KeysFit, ClockFits, Persist, Exists, Delivered

-----------------------------------------------------------------------------
(* Posts *)

(* A post under way has a form; an answered one names an id that was given *)
(* out, and as long as that proposal exists it has the key of the form.    *)
PostFits(x, ids, rows) ==
    /\ x.phase = "inserting" => x.form \in Forms
    /\ x.phase = "answered" =>
          /\ x.form \in Forms
          /\ x.proposal \in ids
          /\ rows[x.proposal] # NoRow => rows[x.proposal].key = IntakeKey[x.form]

PostsInv == posts \in [Posts -> Post] /\ \A q \in Posts : PostFits(posts[q], issued, proposals)

LEMMA PostFitsKept ==
    ASSUME Persist, NEW x, PostFits(x, issued, proposals)
    PROVE  PostFits(x, issued', proposals')
BY DEF PostFits, Persist, Exists

LEMMA PostsKept ==
    ASSUME PostsInv, Persist, UNCHANGED posts
    PROVE  PostsInv'
BY PostFitsKept DEF PostsInv

(* The step of one post. *)
LEMMA PostChanged ==
    ASSUME PostsInv, Persist, NEW q \in Posts, NEW x \in Post, PostFits(x, issued', proposals'),
           posts' = [posts EXCEPT ![q] = x]
    PROVE  PostsInv'
<1>1. ASSUME NEW o \in Posts PROVE PostFits(posts'[o], issued', proposals')
  BY PostFitsKept DEF PostsInv
<1>2. QED
  BY <1>1 DEF PostsInv

LEMMA FailKeepsPosts ==
    ASSUME PostsInv, Persist, NEW q \in Posts, Fail(q)
    PROVE  PostsInv'
<1> DEFINE x == [phase |-> "failed", form |-> NoForm, proposal |-> NoProposal]
<1>1. x \in Post /\ PostFits(x, issued', proposals')
  BY DEF Post, PostFits
<1>2. posts' = [posts EXCEPT ![q] = x]
  BY DEF Fail
<1> HIDE DEF x
<1>3. QED
  BY <1>1, <1>2, PostChanged

LEMMA AnswerKeepsPosts ==
    ASSUME PostsInv, Persist, TablesTypeOK', NEW q \in Posts, NEW form \in Forms, NEW p \in issued',
           Exists(p)' => proposals'[p].key = IntakeKey[form], Answer(q, form, p)
    PROVE  PostsInv'
<1> DEFINE x == [phase |-> "answered", form |-> form, proposal |-> p]
<1>1. p \in ProposalIds
  BY DEF TablesTypeOK
<1>2. x \in Post /\ PostFits(x, issued', proposals')
  BY <1>1 DEF Post, PostFits, Exists
<1>3. CASE posts' = [posts EXCEPT ![q] = x]
  <2> HIDE DEF x
  <2>1. QED
    BY <1>2, <1>3, PostChanged
<1>4. QED
  BY <1>3, FailKeepsPosts DEF Answer

LEMMA LookUpKeeps ==
    ASSUME TablesInv, PostsInv, NEW q \in Posts, NEW form \in Forms, LookUp(q, form)
    PROVE  TablesInv' /\ Persist /\ PostsInv'
<1>1. TablesInv' /\ Persist
  BY IdleKeepsTables DEF LookUp, tables
<1>2. CASE Holders(form) # {}
  <2>1. PICK p \in Holders(form) : Answer(q, form, p)
    BY <1>2 DEF LookUp
  <2>2. p \in issued' /\ proposals'[p].key = IntakeKey[form]
    BY <2>1 DEF Holders, LookUp, tables, TablesInv, KeysFit
  <2>3. QED
    BY <1>1, <2>1, <2>2, AnswerKeepsPosts DEF TablesInv
<1>3. CASE Holders(form) = {}
  <2> DEFINE x == [posts[q] EXCEPT !.phase = "inserting", !.form = form]
  <2>1. x \in Post /\ PostFits(x, issued', proposals')
    BY DEF PostsInv, Post, PostFits
  <2>2. posts' = [posts EXCEPT ![q] = x]
    BY <1>3 DEF LookUp
  <2> HIDE DEF x
  <2>3. QED
    BY <1>1, <2>1, <2>2, PostChanged
<1>4. QED
  BY <1>1, <1>2, <1>3

LEMMA InsertKeeps ==
    ASSUME TablesInv, PostsInv, NEW q \in Posts, Insert(q)
    PROVE  /\ TablesInv' /\ Persist /\ PostsInv'
           /\ \E p \in ProposalIds, form \in Forms : Create(p, form)
<1> DEFINE form == posts[q].form
<1>1. form \in Forms
  BY DEF Insert, PostsInv, PostFits
<1>2. PICK p \in ProposalIds \ issued :
         /\ Commit(p, [key |-> IntakeKey[form], form |-> form,
                       status |-> "DRAFT", updated |-> now, entry |-> now])
         /\ issued' = issued \cup {p}
         /\ Answer(q, form, p)
  BY DEF Insert, CreateProposal
<1>3. Create(p, form)
  BY <1>2 DEF Create, Insert
<1>4. TablesInv' /\ Persist
  BY <1>1, <1>3, CreateKeepsTables
<1>5. proposals'[p].key = IntakeKey[form]
  BY <1>2 DEF Commit, TablesInv, TablesTypeOK
<1> HIDE DEF form
<1>6. PostsInv'
  BY <1>1, <1>2, <1>4, <1>5, AnswerKeepsPosts DEF TablesInv
<1>7. QED
  BY <1>1, <1>3, <1>4, <1>6

LEMMA IntakeKeeps ==
    ASSUME TablesInv, PostsInv, IntakeStep
    PROVE  /\ TablesInv' /\ Persist /\ PostsInv'
           /\ \/ UNCHANGED tables
              \/ /\ \E p \in ProposalIds, form \in Forms : Create(p, form)
                 /\ UNCHANGED responses
<1>1. PICK q \in Posts : \/ \E form \in Forms : LookUp(q, form)
                         \/ Insert(q) \/ InsertConflicts(q) \/ PostLost(q)
  BY DEF IntakeStep
<1>2. CASE \E form \in Forms : LookUp(q, form)
  BY <1>2, LookUpKeeps DEF LookUp
<1>3. CASE Insert(q)
  BY <1>3, InsertKeeps DEF Insert
<1>4. CASE InsertConflicts(q) \/ PostLost(q)
  BY <1>4, IdleKeepsTables, FailKeepsPosts DEF InsertConflicts, PostLost, tables
<1>5. QED
  BY <1>1, <1>2, <1>3, <1>4

-----------------------------------------------------------------------------
(* Clicks and answers *)

(* A click under way found its proposal delivered; an answered one has an  *)
(* answer of its type on record, as long as the proposal exists.           *)
ClickFits(x, ids, rows, answers) ==
    /\ x.phase \in {"inserting", "answered"} => x.proposal \in ids /\ x.type \in ResponseType
    /\ x.phase = "inserting" /\ rows[x.proposal] # NoRow =>
          rows[x.proposal].status = "DELIVERED"
    /\ x.phase = "answered" /\ rows[x.proposal] # NoRow =>
          \E r \in answers : r.proposal = x.proposal /\ r.type = x.type

(* A decision is recorded once, and never looked for and recorded at the   *)
(* same time.                                                              *)
Once(p, type) ==
    /\ \A c, d \in InProgress(p, type) : c = d
    /\ InProgress(p, type) # {} => Recorded(p, type) = {}
    /\ \A r, s \in Recorded(p, type) : r = s

Decision == {"ACCEPTED", "DECLINED"}

AnswersTypeOK ==
    /\ responses \subseteq Response
    /\ clicks \in [Clicks -> Click]
    /\ overlapped \subseteq ProposalIds \X ResponseType

AnswersInv ==
    /\ AnswersTypeOK
    /\ \A c \in Clicks : ClickFits(clicks[c], issued, proposals, responses)
    /\ \A r \in responses : Delivered(r.proposal)
    /\ \A p \in ProposalIds, type \in Decision : <<p, type>> \notin overlapped => Once(p, type)

(* Answers go with their proposals, and only with them. *)
AnswersPersist ==
    /\ responses' \subseteq responses
    /\ \A r \in responses : r \in responses' <=> Exists(r.proposal)'

LEMMA InProgressClick ==
    ASSUME AnswersTypeOK, NEW p \in ProposalIds, NEW type \in ResponseType, NEW c \in Clicks
    PROVE  c \in InProgress(p, type) <=>
              clicks[c].phase = "inserting" /\ clicks[c].proposal = p /\ clicks[c].type = type
BY DEF AnswersTypeOK, InProgress, Click

LEMMA ClickFitsKept ==
    ASSUME Persist, AnswersPersist, NEW x, ClickFits(x, issued, proposals, responses)
    PROVE  ClickFits(x, issued', proposals', responses')
<1>1. x.phase \in {"inserting", "answered"} =>
         /\ x.proposal \in issued /\ x.proposal \in issued'
         /\ Exists(x.proposal)' => Exists(x.proposal)
         /\ Exists(x.proposal)' /\ Delivered(x.proposal) => Delivered(x.proposal)'
  BY DEF ClickFits, Persist
<1>2. \A r \in responses : r.proposal = x.proposal /\ Exists(x.proposal)' => r \in responses'
  BY DEF AnswersPersist
<1>3. QED
  BY <1>1, <1>2 DEF ClickFits, Exists, Delivered

LEMMA AnswersKept ==
    ASSUME TablesInv, AnswersInv, Persist, AnswersPersist, UNCHANGED responseVars
    PROVE  AnswersInv'
<1>1. AnswersTypeOK'
  BY DEF AnswersInv, AnswersTypeOK, AnswersPersist, responseVars
<1>2. \A c \in Clicks : ClickFits(clicks'[c], issued', proposals', responses')
  BY ClickFitsKept DEF AnswersInv, responseVars
<1>3. ASSUME NEW r \in responses' PROVE Delivered(r.proposal)'
  <2>1. r \in responses /\ Exists(r.proposal)' /\ Delivered(r.proposal)
    BY <1>3 DEF AnswersPersist, AnswersInv
  <2>2. r.proposal \in issued
    BY <2>1 DEF AnswersInv, AnswersTypeOK, Response, TablesInv, KeysFit, Delivered
  <2>3. QED
    BY <2>1, <2>2 DEF Persist
<1>4. ASSUME NEW p \in ProposalIds, NEW type \in Decision, <<p, type>> \notin overlapped'
      PROVE  Once(p, type)'
  <2>1. Once(p, type)
    BY <1>4 DEF AnswersInv, responseVars
  <2>2. InProgress(p, type)' = InProgress(p, type)
    BY DEF InProgress, responseVars
  <2>3. Recorded(p, type)' \subseteq Recorded(p, type)
    BY DEF Recorded, AnswersPersist
  <2>4. QED
    BY <2>1, <2>2, <2>3 DEF Once
<1>5. QED
  BY <1>1, <1>2, <1>3, <1>4 DEF AnswersInv

(* Every step that leaves the answers alone but the retention run. *)
LEMMA UntouchedAnswers ==
    ASSUME TablesInv, AnswersInv, UNCHANGED responses,
           \A p \in ProposalIds : Exists(p) => Exists(p)'
    PROVE  AnswersPersist
BY DEF AnswersPersist, AnswersInv, AnswersTypeOK, Response, Delivered

LEMMA FindKeepsAnswers ==
    ASSUME TablesInv, AnswersInv, NEW c \in Clicks, NEW p \in ProposalIds,
           NEW type \in ResponseType, Find(c, p, type)
    PROVE  AnswersInv'
<1> DEFINE x == [phase |-> IF FindsEarlier(p, type) THEN "answered" ELSE "inserting",
                 proposal |-> p, type |-> type]
<1>0. UNCHANGED <<now, proposals, responses, issued>>
  BY DEF Find, tables
<1>1. /\ x \in Click
      /\ x.proposal = p /\ x.type = type
      /\ x.phase = "answered" => Recorded(p, type) # {}
      /\ x.phase # "answered" => x.phase = "inserting"
      /\ x.phase = "inserting" /\ type # "NO_RESPONSE" => Recorded(p, type) = {}
  BY DEF Click, FindsEarlier
<1>2. clicks' = [clicks EXCEPT ![c] = x]
  BY DEF Find
<1> HIDE DEF x
<1>3. ClickFits(x, issued, proposals, responses)
  <2>1. Exists(p) /\ proposals[p].status = "DELIVERED" /\ p \in issued
    BY DEF Find, Delivered, TablesInv, KeysFit
  <2>2. Recorded(p, type) # {} => \E r \in responses : r.proposal = p /\ r.type = type
    BY DEF Recorded
  <2>3. QED
    BY <1>1, <2>1, <2>2 DEF ClickFits
<1>4. overlapped \subseteq overlapped' /\ overlapped' \subseteq ProposalIds \X ResponseType
  BY DEF Find, AnswersInv, AnswersTypeOK
<1>5. AnswersTypeOK'
  BY <1>0, <1>1, <1>2, <1>4 DEF AnswersInv, AnswersTypeOK
<1>6. \A d \in Clicks : ClickFits(clicks'[d], issued', proposals', responses')
  BY <1>0, <1>2, <1>3 DEF AnswersInv, AnswersTypeOK
<1>7. \A r \in responses' : Delivered(r.proposal)'
  BY <1>0 DEF AnswersInv, Delivered, Exists
<1>8. ASSUME NEW o \in ProposalIds, NEW t \in Decision, <<o, t>> \notin overlapped'
      PROVE  Once(o, t)'
  <2>1. Once(o, t) /\ t \in ResponseType /\ t # "NO_RESPONSE"
    BY <1>4, <1>8 DEF AnswersInv, Decision, ResponseType
  <2>2. Recorded(o, t)' = Recorded(o, t)
    BY <1>0 DEF Recorded
  <2>3. ASSUME NEW d \in Clicks PROVE
           d \in InProgress(o, t)' <=>
              IF d = c THEN x.phase = "inserting" /\ p = o /\ type = t
              ELSE d \in InProgress(o, t)
    <3>1. d \in InProgress(o, t)' <=>
             clicks'[d].phase = "inserting" /\ clicks'[d].proposal = o /\ clicks'[d].type = t
      BY <1>5, <2>1 DEF AnswersTypeOK, InProgress, Click
    <3>2. QED
      BY <1>1, <1>2, <2>1, <3>1, InProgressClick DEF AnswersInv, AnswersTypeOK
  <2>4. InProgress(o, t) \subseteq Clicks /\ InProgress(o, t)' \subseteq Clicks
    BY DEF InProgress
  <2>5. CASE x.phase = "inserting" /\ p = o /\ type = t
    <3>1. InProgress(o, t) = {} /\ Recorded(o, t) = {}
      BY <1>1, <1>8, <2>1, <2>5 DEF Find
    <3>2. QED
      BY <2>2, <2>3, <2>4, <3>1 DEF Once
  <2>6. CASE ~(x.phase = "inserting" /\ p = o /\ type = t)
    <3>1. InProgress(o, t)' \subseteq InProgress(o, t)
      BY <2>3, <2>4, <2>6
    <3>2. QED
      BY <2>1, <2>2, <3>1 DEF Once
  <2>7. QED
    BY <2>5, <2>6
<1>9. QED
  BY <1>5, <1>6, <1>7, <1>8 DEF AnswersInv

LEMMA StoreFailsKeepsAnswers ==
    ASSUME TablesInv, AnswersInv, NEW c \in Clicks, StoreFails(c)
    PROVE  AnswersInv'
<1> DEFINE x == [phase |-> "failed", proposal |-> NoAnswer, type |-> NoAnswer]
<1>0. UNCHANGED <<now, proposals, responses, issued, overlapped>>
  BY DEF StoreFails, tables
<1>1. x \in Click /\ x.phase = "failed"
  BY DEF Click
<1>2. clicks' = [clicks EXCEPT ![c] = x]
  BY DEF StoreFails
<1> HIDE DEF x
<1>3. AnswersTypeOK'
  BY <1>0, <1>1, <1>2 DEF AnswersInv, AnswersTypeOK
<1>4. \A d \in Clicks : ClickFits(clicks'[d], issued', proposals', responses')
  BY <1>0, <1>1, <1>2 DEF AnswersInv, AnswersTypeOK, ClickFits
<1>5. \A r \in responses' : Delivered(r.proposal)'
  BY <1>0 DEF AnswersInv, Delivered, Exists
<1>6. ASSUME NEW o \in ProposalIds, NEW t \in Decision, <<o, t>> \notin overlapped'
      PROVE  Once(o, t)'
  <2>1. Once(o, t)
    BY <1>0, <1>6 DEF AnswersInv
  <2>2. Recorded(o, t)' = Recorded(o, t)
    BY <1>0 DEF Recorded
  <2>3. InProgress(o, t)' \subseteq InProgress(o, t)
    BY <1>1, <1>2 DEF InProgress, AnswersInv, AnswersTypeOK
  <2>4. QED
    BY <2>1, <2>2, <2>3 DEF Once
<1>7. QED
  BY <1>3, <1>4, <1>5, <1>6 DEF AnswersInv

LEMMA StoreKeeps ==
    ASSUME TablesInv, AnswersInv, NEW c \in Clicks, Store(c)
    PROVE  /\ TablesInv' /\ Persist /\ AnswersInv'
           /\ \E p \in ProposalIds : Touch(p)
<1> DEFINE p    == clicks[c].proposal
           type == clicks[c].type
           new  == [click |-> c, proposal |-> p, type |-> type]
<1>1. /\ clicks[c] \in Click /\ clicks[c].phase = "inserting"
      /\ p \in issued /\ p \in ProposalIds /\ type \in ResponseType
      /\ Exists(p) /\ Delivered(p)
  BY DEF Store, AnswersInv, AnswersTypeOK, ClickFits, TablesInv, TablesTypeOK, Delivered, Exists
<1>2. Touch(p)
  BY <1>1, StoreTouches DEF TablesInv
<1>3. TablesInv' /\ Persist
  BY <1>1, <1>2, TouchKeepsTables
<1>4. /\ responses' = responses \cup {new}
      /\ clicks' = [clicks EXCEPT ![c].phase = "answered"]
      /\ UNCHANGED <<issued, overlapped>>
  BY DEF Store
<1>5. new \in Response /\ new.proposal = p /\ new.type = type
  BY <1>1 DEF Response
<1>6. /\ clicks'[c] \in Click
      /\ clicks'[c].phase = "answered" /\ clicks'[c].proposal = p /\ clicks'[c].type = type
      /\ \A d \in Clicks : d # c => clicks'[d] = clicks[d]
  BY <1>1, <1>4 DEF AnswersInv, AnswersTypeOK, Click
<1> HIDE DEF p, type, new
<1>7. AnswersTypeOK'
  BY <1>4, <1>5, <1>6 DEF AnswersInv, AnswersTypeOK
<1>8. \A o \in ProposalIds : Exists(o) => Exists(o)' /\ (Delivered(o) => Delivered(o)')
  BY <1>1, <1>2, TouchKeepsTables DEF Persist, Delivered, TablesInv, KeysFit
<1>9. ASSUME NEW d \in Clicks PROVE ClickFits(clicks'[d], issued', proposals', responses')
  <2>1. CASE d = c
    BY <1>1, <1>4, <1>5, <1>6, <2>1 DEF ClickFits
  <2>2. CASE d # c
    <3>1. ClickFits(clicks[d], issued, proposals, responses)
      BY DEF AnswersInv
    <3>2. clicks[d].phase \in {"inserting", "answered"} => clicks[d].proposal \in issued
      BY <3>1 DEF ClickFits
    <3>3. \A o \in issued : proposals'[o] # NoRow =>
             /\ proposals[o] # NoRow
             /\ proposals[o].status = "DELIVERED" => proposals'[o].status = "DELIVERED"
      BY <1>3 DEF Persist, Exists, Delivered
    <3>4. QED
      BY <1>4, <1>6, <2>2, <3>1, <3>2, <3>3 DEF ClickFits
  <2>3. QED
    BY <2>1, <2>2
<1>10. \A r \in responses' : Delivered(r.proposal)'
  BY <1>1, <1>4, <1>5, <1>8 DEF AnswersInv, AnswersTypeOK, Response, Delivered
<1>11. ASSUME NEW o \in ProposalIds, NEW t \in Decision, <<o, t>> \notin overlapped'
       PROVE  Once(o, t)'
  <2>1. Once(o, t) /\ t \in ResponseType
    BY <1>4, <1>11 DEF AnswersInv, Decision, ResponseType
  <2>2. InProgress(o, t)' \subseteq InProgress(o, t) \ {c}
    BY <1>6 DEF InProgress
  <2>3. c \in InProgress(o, t) <=> p = o /\ type = t
    BY <1>1, <2>1, InProgressClick DEF AnswersInv, p, type
  <2>4. Recorded(o, t)' = IF p = o /\ type = t THEN Recorded(o, t) \cup {new} ELSE Recorded(o, t)
    BY <1>4, <1>5 DEF Recorded
  <2>5. QED
    BY <2>1, <2>2, <2>3, <2>4 DEF Once
<1>12. QED
  BY <1>1, <1>2, <1>3, <1>7, <1>9, <1>10, <1>11 DEF AnswersInv

-----------------------------------------------------------------------------
(* Retention *)

(* What a run under way has not selected has been worked on in time.       *)
RunInv ==
    /\ run \in Run
    /\ run.phase = "selected" =>
          \A p \in ProposalIds : Exists(p) /\ p \notin run.stale =>
              touched[p] >= now - ProposalWindow

LEMMA TouchKeepsRun ==
    ASSUME TablesInv, RunInv, NEW p \in ProposalIds, Touch(p), UNCHANGED run
    PROVE  RunInv'
<1>1. Exists(p) /\ now' = now /\ touched' = [touched EXCEPT ![p] = now]
      /\ \A o \in ProposalIds : o # p => proposals'[o] = proposals[o]
  BY DEF Touch, Commit, TablesInv, TablesTypeOK
<1>2. now \in Int /\ ProposalWindow \in Nat
  BY MonthsAreIntegers, WindowsAssumption DEF TablesInv, TablesTypeOK
<1>3. QED
  BY <1>1, <1>2 DEF RunInv, Exists, TablesInv, TablesTypeOK

LEMMA CreateKeepsRun ==
    ASSUME TablesInv, RunInv, NEW p \in ProposalIds, NEW form \in Forms, Create(p, form),
           UNCHANGED run
    PROVE  RunInv'
<1>1. now' = now /\ touched' = [touched EXCEPT ![p] = now]
      /\ \A o \in ProposalIds : o # p => proposals'[o] = proposals[o]
  BY DEF Create, Commit, TablesInv, TablesTypeOK
<1>2. now \in Int /\ ProposalWindow \in Nat
  BY MonthsAreIntegers, WindowsAssumption DEF TablesInv, TablesTypeOK
<1>3. QED
  BY <1>1, <1>2 DEF RunInv, Exists, TablesInv, TablesTypeOK

LEMMA IdleKeepsRun ==
    ASSUME RunInv, UNCHANGED <<now, proposals, touched, run>>
    PROVE  RunInv'
BY DEF RunInv, Exists

(* The newer of the row's stamp and of the entry that is left is not after *)
(* the last activity; and if it is before the proposal window, the last    *)
(* activity is before the activity window.                                 *)
LEMMA LastActivityIsSound ==
    ASSUME TablesInv, NEW p \in ProposalIds, Exists(p)
    PROVE  /\ LastActivity(p) \in Int /\ LastActivity(p) <= touched[p]
           /\ LastActivity(p) < now - ProposalWindow =>
                 /\ touched[p] < now - ActivityWindow
                 /\ proposals[p].updated < now - ProposalWindow
<1>1. /\ proposals[p].updated \in Int /\ now \in Int /\ touched[p] \in Int
      /\ proposals[p].entry # NoEntry => proposals[p].entry \in Int
  BY ExistingRow, RowColumns, MonthsAreIntegers DEF TablesInv, TablesTypeOK
<1>2. ActivityWindow \in Int /\ ProposalWindow \in Int /\ ActivityWindow <= ProposalWindow
  BY WindowsAssumption
<1>3. /\ proposals[p].updated <= touched[p]
      /\ proposals[p].entry # NoEntry => proposals[p].entry <= touched[p]
      /\ \/ touched[p] = proposals[p].updated
         \/ touched[p] = proposals[p].entry
         \/ touched[p] < now - ActivityWindow
  BY DEF TablesInv, ClockFits
<1>4. CASE RemainingEntry(p) = NoEntry
  <2>1. LastActivity(p) = proposals[p].updated
    BY <1>4 DEF LastActivity
  <2>2. proposals[p].entry # NoEntry => proposals[p].entry < now - ActivityWindow
    BY <1>4 DEF RemainingEntry
  <2>3. touched[p] # NoEntry
    BY <1>1, MonthsAreIntegers, TablesAssumption
  <2>4. QED
    BY <1>1, <1>2, <1>3, <2>1, <2>2, <2>3
<1>5. CASE RemainingEntry(p) # NoEntry
  <2>1. /\ LastActivity(p) = proposals[p].entry /\ proposals[p].entry # NoEntry
        /\ ~(proposals[p].entry < now - ActivityWindow)
    BY <1>5 DEF LastActivity, RemainingEntry
  <2>2. QED
    BY <1>1, <1>2, <1>3, <2>1
<1>6. QED
  BY <1>4, <1>5

LEMMA SelectKeepsRun ==
    ASSUME TablesInv, RunInv, SelectStale
    PROVE  RunInv'
<1>1. run' = [phase |-> "selected", stale |-> StaleProposals]
      /\ UNCHANGED <<now, proposals, touched>>
  BY DEF SelectStale, tables
<1>2. run' \in Run
  BY <1>1 DEF Run, StaleProposals
<1>3. ASSUME NEW p \in ProposalIds, Exists(p), p \notin StaleProposals
      PROVE  touched[p] >= now - ProposalWindow
  <2>1. ~(LastActivity(p) < now - ProposalWindow)
    BY <1>3 DEF StaleProposals
  <2>2. now \in Int /\ touched[p] \in Int
    BY MonthsAreIntegers DEF TablesInv, TablesTypeOK
  <2>3. QED
    BY <1>3, <2>1, <2>2, LastActivityIsSound, WindowsAssumption
<1>4. QED
  BY <1>1, <1>2, <1>3 DEF RunInv, Exists

LEMMA RunKeepsAnswers ==
    ASSUME TablesInv, CommitRun, AnswersInv
    PROVE  AnswersPersist
<1>1. \A r \in responses : r.proposal \in ProposalIds /\ Exists(r.proposal)
  BY DEF AnswersInv, AnswersTypeOK, Response, Delivered
<1>2. \A p \in ProposalIds : Exists(p)' <=> p \notin run.stale /\ Exists(p)
  BY RunCommits
<1>3. QED
  BY <1>1, <1>2 DEF AnswersPersist, CommitRun, CascadeDelete

-----------------------------------------------------------------------------
(* The invariant *)

RecordsInv == TablesInv /\ PostsInv /\ AnswersInv /\ RunInv

LEMMA InitEstablishesInv == Init => RecordsInv
<1> SUFFICES ASSUME Init PROVE RecordsInv
  OBVIOUS
<1>1. 0 \in Months
  BY TablesAssumption DEF Months
<1>2. TablesInv
  BY <1>1, FS_EmptySet
     DEF Init, TablesInit, TablesInv, TablesTypeOK, KeysFit, ClockFits, Exists
<1>3. PostsInv
  BY DEF Init, IntakeInit, PostsInv, PostFits, Post
<1>4. AnswersInv
  BY DEF Init, TablesInit, ResponsesInit, AnswersInv, AnswersTypeOK, ClickFits, Click,
         Once, InProgress, Recorded
<1>5. RunInv
  BY DEF Init, RetentionInit, RunInv, Run
<1>6. QED
  BY <1>2, <1>3, <1>4, <1>5 DEF RecordsInv

LEMMA IntakeStepKeepsInv ==
    ASSUME RecordsInv, IntakeStep, UNCHANGED <<responseVars, run>>
    PROVE  RecordsInv'
<1>1. TablesInv' /\ Persist /\ PostsInv'
  BY IntakeKeeps DEF RecordsInv
<1>2. \A p \in ProposalIds : Exists(p) => Exists(p)'
  BY <1>1, IntakeKeeps
     DEF tables, Exists, Create, Commit, RecordsInv, TablesInv, TablesTypeOK, KeysFit
<1>3. UNCHANGED responses
  BY IntakeKeeps DEF tables, RecordsInv
<1>4. AnswersInv'
  BY <1>1, <1>2, <1>3, UntouchedAnswers, AnswersKept DEF RecordsInv
<1>5. RunInv'
  BY IntakeKeeps, CreateKeepsRun, IdleKeepsRun DEF tables, RecordsInv
<1>6. QED
  BY <1>1, <1>4, <1>5 DEF RecordsInv

LEMMA ResponseStepKeepsInv ==
    ASSUME RecordsInv, ResponseStep, UNCHANGED <<posts, run>>
    PROVE  RecordsInv'
<1>1. PICK c \in Clicks :
         \/ \E p \in ProposalIds, type \in ResponseType : Find(c, p, type)
         \/ Store(c) \/ StoreFails(c)
  BY DEF ResponseStep
<1>2. CASE UNCHANGED tables /\ AnswersInv'
  <2>1. TablesInv' /\ Persist
    BY <1>2, IdleKeepsTables DEF tables, RecordsInv
  <2>2. QED
    BY <1>2, <2>1, PostsKept, IdleKeepsRun DEF tables, RecordsInv
<1>3. CASE Store(c)
  BY <1>3, StoreKeeps, PostsKept, TouchKeepsRun DEF RecordsInv
<1>4. CASE \E p \in ProposalIds, type \in ResponseType : Find(c, p, type)
  BY <1>2, <1>4, FindKeepsAnswers DEF Find, RecordsInv
<1>5. CASE StoreFails(c)
  BY <1>2, <1>5, StoreFailsKeepsAnswers DEF StoreFails, RecordsInv
<1>6. QED
  BY <1>1, <1>3, <1>4, <1>5

LEMMA RetentionStepKeepsInv ==
    ASSUME RecordsInv, RetentionStep, UNCHANGED <<posts, responseVars>>
    PROVE  RecordsInv'
<1>1. CASE UNCHANGED tables /\ RunInv'
  <2>1. TablesInv' /\ Persist
    BY <1>1, IdleKeepsTables DEF tables, RecordsInv
  <2>2. AnswersInv'
    BY <1>1, <2>1, UntouchedAnswers, AnswersKept DEF tables, RecordsInv, Exists
  <2>3. QED
    BY <1>1, <2>1, <2>2, PostsKept DEF RecordsInv
<1>2. CASE SelectStale
  BY <1>1, <1>2, SelectKeepsRun DEF SelectStale, RecordsInv
<1>3. CASE AbortRun
  BY <1>1, <1>3 DEF AbortRun, RunInv, Run
<1>4. CASE CommitRun
  <2>1. TablesInv' /\ Persist
    BY <1>4, RunKeepsTables DEF RecordsInv
  <2>2. AnswersInv'
    BY <1>4, <2>1, RunKeepsAnswers, AnswersKept DEF RecordsInv
  <2>3. RunInv'
    BY <1>4 DEF CommitRun, RunInv, Run
  <2>4. QED
    BY <2>1, <2>2, <2>3, PostsKept DEF RecordsInv
<1>5. QED
  BY <1>2, <1>3, <1>4 DEF RetentionStep

LEMMA ElsewhereKeepsInv ==
    ASSUME RecordsInv, Elsewhere, UNCHANGED <<posts, responseVars, run>>
    PROVE  RecordsInv'
<1>1. ASSUME NEW p \in ProposalIds, Work(p) \/ Deliver(p) PROVE RecordsInv'
  <2>1. Touch(p) /\ UNCHANGED responses
    BY <1>1, WorkTouches, DeliverTouches DEF Work, Deliver, RecordsInv, TablesInv
  <2>2. TablesInv' /\ Persist /\ \A o \in ProposalIds : Exists(o) => Exists(o)'
    BY <2>1, TouchKeepsTables DEF RecordsInv
  <2>3. AnswersInv'
    BY <2>1, <2>2, UntouchedAnswers, AnswersKept DEF RecordsInv
  <2>4. QED
    BY <2>1, <2>2, <2>3, PostsKept, TouchKeepsRun DEF RecordsInv
<1>2. CASE run.phase = "idle" /\ MonthPasses
  <2>1. TablesInv' /\ Persist
    BY <1>2, MonthKeepsTables DEF RecordsInv
  <2>2. AnswersInv'
    BY <1>2, <2>1, UntouchedAnswers, AnswersKept DEF MonthPasses, RecordsInv, Exists
  <2>3. RunInv'
    BY <1>2 DEF RunInv, RecordsInv
  <2>4. QED
    BY <2>1, <2>2, <2>3, PostsKept DEF RecordsInv
<1>3. QED
  BY <1>1, <1>2 DEF Elsewhere

LEMMA StutterKeepsInv == RecordsInv /\ UNCHANGED vars => RecordsInv'
<1> SUFFICES ASSUME RecordsInv, UNCHANGED vars PROVE RecordsInv'
  OBVIOUS
<1>1. TablesInv' /\ Persist
  BY IdleKeepsTables DEF vars, tables, RecordsInv
<1>2. AnswersInv'
  BY <1>1, UntouchedAnswers, AnswersKept DEF vars, tables, responseVars, RecordsInv, Exists
<1>3. QED
  BY <1>1, <1>2, PostsKept, IdleKeepsRun DEF vars, tables, RecordsInv

LEMMA StepKeepsInv == RecordsInv /\ [Next]_vars => RecordsInv'
BY IntakeStepKeepsInv, ResponseStepKeepsInv, RetentionStepKeepsInv, ElsewhereKeepsInv,
   StutterKeepsInv DEF Next

LEMMA AlwaysRecordsInv == Spec => []RecordsInv
BY InitEstablishesInv, StepKeepsInv, PTL DEF Spec

-----------------------------------------------------------------------------
(* Theorems *)

(* The tables and what every caller knows keep their shapes.               *)
THEOREM RecordsAreTyped == Spec => []RecordsTypeOK
<1>1. RecordsInv => RecordsTypeOK
  BY DEF RecordsInv, TablesInv, TablesTypeOK, PostsInv, AnswersInv, AnswersTypeOK, RunInv,
         RecordsTypeOK
<1>2. QED
  BY <1>1, AlwaysRecordsInv, PTL

LEMMA KeysOfForms ==
    ASSUME RecordsInv, NEW p \in ProposalIds, Exists(p)
    PROVE  /\ proposals[p].form \in Forms
           /\ proposals[p].key = IntakeKey[proposals[p].form]
BY ExistingRow, RowColumns DEF RecordsInv, TablesInv, KeysFit

(* However posts overlap, fail and are retried, no request ever has two    *)
(* proposals at a time.                                                    *)
THEOREM RequestsHaveOneProposal ==
    ASSUME KeysTellRequestsApart
    PROVE  Spec => []OneProposalPerRequest
<1>1. RecordsInv => OneProposalPerRequest
  <2> SUFFICES ASSUME RecordsInv, NEW p \in ProposalIds, NEW o \in ProposalIds,
                      Exists(p), Exists(o),
                      <<proposals[p].form, proposals[o].form>> \in SameRequests
               PROVE  p = o
    BY DEF OneProposalPerRequest
  <2>1. proposals[p].key = proposals[o].key
    BY KeysOfForms DEF KeysTellRequestsApart
  <2>2. QED
    BY <2>1 DEF RecordsInv, TablesInv, KeysFit
<1>2. QED
  BY <1>1, AlwaysRecordsInv, PTL

(* Whoever is answered, at the first post or at a retry, is given the      *)
(* proposal of its own request: no id comes to stand for another request,  *)
(* even after retention has deleted what it stood for.                     *)
THEOREM AnswersAreAboutTheRequest ==
    ASSUME KeysTellRequestsApart
    PROVE  Spec => []AnswersNameTheRequest
<1>1. RecordsInv => AnswersNameTheRequest
  <2> SUFFICES ASSUME RecordsInv, NEW q \in Posts, posts[q].phase = "answered",
                      Exists(posts[q].proposal)
               PROVE  <<proposals[posts[q].proposal].form, posts[q].form>> \in SameRequests
    BY DEF AnswersNameTheRequest
  <2> DEFINE p == posts[q].proposal
  <2>1. PostFits(posts[q], issued, proposals)
    BY DEF RecordsInv, PostsInv
  <2>2. p \in ProposalIds /\ posts[q].form \in Forms
        /\ proposals[p].key = IntakeKey[posts[q].form]
    BY <2>1 DEF PostFits, Exists, RecordsInv, TablesInv, TablesTypeOK
  <2>3. proposals[p].form \in Forms /\ proposals[p].key = IntakeKey[proposals[p].form]
    BY <2>2, KeysOfForms
  <2>4. QED
    BY <2>2, <2>3 DEF KeysTellRequestsApart
<1>2. QED
  BY <1>1, AlwaysRecordsInv, PTL

(* An answer that was acknowledged stays on record as long as its proposal *)
(* exists, whatever the other clicks and the retention script do.          *)
THEOREM AcknowledgedAnswersStay == Spec => []AcknowledgedAnswersAreKept
<1>1. RecordsInv => AcknowledgedAnswersAreKept
  <2> SUFFICES ASSUME RecordsInv, NEW c \in Clicks, clicks[c].phase = "answered",
                      Exists(clicks[c].proposal)
               PROVE  Recorded(clicks[c].proposal, clicks[c].type) # {}
    BY DEF AcknowledgedAnswersAreKept
  <2>1. ClickFits(clicks[c], issued, proposals, responses)
    BY DEF RecordsInv, AnswersInv
  <2>2. QED
    BY <2>1 DEF ClickFits, Exists, Recorded
<1>2. QED
  BY <1>1, AlwaysRecordsInv, PTL

(* Unless two equal answers overlapped, each decision of a client is on    *)
(* record at most once.                                                    *)
THEOREM DecisionsAreCountedOnce == Spec => []DecisionsCountOnce
<1>1. RecordsInv => DecisionsCountOnce
  <2> SUFFICES ASSUME RecordsInv, NEW p \in ProposalIds, NEW type \in Decision,
                      <<p, type>> \notin overlapped
               PROVE  Cardinality(Recorded(p, type)) <= 1
    BY DEF DecisionsCountOnce, Decision
  <2> DEFINE S == Recorded(p, type)
  <2>1. \A r, s \in S : r = s
    BY DEF RecordsInv, AnswersInv, Once
  <2> HIDE DEF S
  <2>2. CASE S = {}
    BY <2>2, FS_EmptySet DEF S
  <2>3. CASE S # {}
    <3>1. PICK r \in S : TRUE
      BY <2>3
    <3>2. S = {r}
      BY <2>1, <3>1
    <3>3. Cardinality(S) = 1
      BY <3>2, FS_Singleton
    <3>4. QED
      BY <3>3 DEF S
  <2>4. QED
    BY <2>2, <2>3
<1>2. QED
  BY <1>1, AlwaysRecordsInv, PTL

(* Unless acceptances overlapped, there are no more acceptances than       *)
(* delivered proposals: each is of another proposal, which is still there  *)
(* and delivered.                                                          *)
THEOREM WonRatesAreRates == Spec => []WonRateIsARate
<1>1. RecordsInv => WonRateIsARate
  <2> SUFFICES ASSUME RecordsInv, {o \in overlapped : o[2] = "ACCEPTED"} = {}
               PROVE  WonProposals <= TotalDelivered
    BY DEF WonRateIsARate
  <2> DEFINE S == {r \in responses : r.type = "ACCEPTED"}
             T == {p \in ProposalIds : Delivered(p)}
             f == [r \in S |-> r.proposal]
  <2>1. IsFiniteSet(T)
    <3>1. T \subseteq issued /\ IsFiniteSet(issued)
      BY DEF RecordsInv, TablesInv, TablesTypeOK, KeysFit, Delivered
    <3>2. QED
      BY <3>1, FS_Subset
  <2>2. \A r \in S : r.proposal \in ProposalIds /\ Delivered(r.proposal)
    BY DEF RecordsInv, AnswersInv, AnswersTypeOK, Response
  <2>3. ASSUME NEW r \in S, NEW s \in S, r.proposal = s.proposal PROVE r = s
    <3>1. <<r.proposal, "ACCEPTED">> \notin overlapped
      OBVIOUS
    <3>2. Once(r.proposal, "ACCEPTED")
      BY <2>2, <3>1 DEF RecordsInv, AnswersInv, Decision
    <3>3. r \in Recorded(r.proposal, "ACCEPTED") /\ s \in Recorded(r.proposal, "ACCEPTED")
      BY <2>3 DEF Recorded
    <3>4. QED
      BY <3>2, <3>3 DEF Once
  <2>4. f \in Injection(S, T)
    BY <2>2, <2>3 DEF Injection, IsInjective
  <2> HIDE DEF S, T, f
  <2>5. Cardinality(S) <= Cardinality(T)
    BY <2>1, <2>4, FS_Injection
  <2>6. QED
    BY <2>5 DEF S, T, WonProposals, TotalOf, TotalDelivered
<1>2. QED
  BY <1>1, AlwaysRecordsInv, PTL

(* What a run selects was not worked on within the activity window, and    *)
(* its row not written within the proposal window; a proposal goes only if *)
(* the run selected it.                                                    *)
THEOREM RetentionSparesTheRecent == Spec => NothingRecentIsDeleted
<1> DEFINE Spared ==
      /\ \A p \in run'.stale \ run.stale :
            /\ touched[p] < now - ActivityWindow
            /\ proposals[p].updated < now - ProposalWindow
      /\ \A p \in ProposalIds : Exists(p) /\ ~Exists(p)' => p \in run.stale
<1>1. RecordsInv /\ [Next]_vars => [Spared]_<<tables, run>>
  <2> SUFFICES ASSUME RecordsInv, [Next]_vars PROVE Spared \/ UNCHANGED <<tables, run>>
    OBVIOUS
  <2>1. CASE UNCHANGED run /\ \A p \in ProposalIds : Exists(p) => Exists(p)'
    BY <2>1
  <2>2. CASE SelectStale
    <3>1. \A p \in StaleProposals :
             /\ touched[p] < now - ActivityWindow
             /\ proposals[p].updated < now - ProposalWindow
      BY LastActivityIsSound DEF StaleProposals, RecordsInv
    <3>2. QED
      BY <2>2, <3>1 DEF SelectStale, tables, Exists
  <2>3. CASE CommitRun
    <3>1. \A p \in ProposalIds : Exists(p) /\ ~Exists(p)' => p \in run.stale
      BY <2>3, RunCommits DEF RecordsInv
    <3>2. run'.stale = {}
      BY <2>3 DEF CommitRun
    <3>3. QED
      BY <3>1, <3>2
  <2>4. CASE AbortRun
    BY <2>4 DEF AbortRun, tables, Exists
  <2>5. CASE IntakeStep /\ UNCHANGED <<responseVars, run>>
    BY <2>1, <2>5, IntakeKeeps
       DEF tables, Exists, Create, Commit, RecordsInv, TablesInv, TablesTypeOK, KeysFit
  <2>6. CASE ResponseStep /\ UNCHANGED <<posts, run>>
    BY <2>1, <2>6, StoreKeeps, TouchKeepsTables
       DEF ResponseStep, Find, StoreFails, tables, Exists, RecordsInv
  <2>7. CASE Elsewhere /\ UNCHANGED <<posts, responseVars, run>>
    BY <2>1, <2>7, WorkTouches, DeliverTouches, TouchKeepsTables
       DEF Elsewhere, MonthPasses, Exists, RecordsInv, TablesInv
  <2>8. CASE UNCHANGED vars
    BY <2>8 DEF vars
  <2>9. QED
    BY <2>2, <2>3, <2>4, <2>5, <2>6, <2>7, <2>8 DEF Next, RetentionStep
<1>2. QED
  BY <1>1, AlwaysRecordsInv, PTL DEF Spec, NothingRecentIsDeleted

(* A run that commits leaves nothing behind that nobody worked on within   *)
(* the proposal window.                                                    *)
THEOREM RetentionKeepsNothingTooLong == Spec => NothingIsKeptTooLong
<1> DEFINE Cleared ==
      CommitRun => \A p \in ProposalIds : Exists(p)' => touched[p] >= now - ProposalWindow
<1>1. RecordsInv => Cleared
  <2> SUFFICES ASSUME RecordsInv, CommitRun, NEW p \in ProposalIds, Exists(p)'
               PROVE  touched[p] >= now - ProposalWindow
    BY DEF Exists
  <2>1. Exists(p) /\ p \notin run.stale
    BY RunCommits DEF RecordsInv
  <2>2. QED
    BY <2>1 DEF RecordsInv, RunInv, CommitRun
<1>2. QED
  BY <1>1, AlwaysRecordsInv, PTL DEF Spec, NothingIsKeptTooLong

=============================================================================
