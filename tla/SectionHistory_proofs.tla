----------------------- MODULE SectionHistory_proofs -----------------------
(***************************************************************************)
(* Theorems of SectionHistory, for any writers and any cap.                *)
(***************************************************************************)
EXTENDS SectionHistory, FiniteSetTheorems, SequenceTheorems, TLAPS

(* A writer in progress has loaded a row. *)
LoadedShape == \A w \in Writers : phase[w] = "loaded" => loaded[w] \in Section

HistoryTypeInv == HistoryTypeOK /\ LoadedShape

(* A row is its columns. *)
LEMMA RowOfColumns ==
    ASSUME NEW k \in SectionKey, NEW c \in Seq(Part), NEW o \in ContentOrigin,
           NEW v \in Nat, NEW n \in Nat, NEW l \in Seq(Attempt)
    PROVE  [key |-> k, content |-> c, origin |-> o, version |-> v, regenerations |-> n, log |-> l]
              \in Section
BY Zenon DEF Section

LEMMA ColumnsOfRow ==
    ASSUME NEW row \in Section
    PROVE  /\ row.key \in SectionKey
           /\ row.content \in Seq(Part)
           /\ row.origin \in ContentOrigin
           /\ row.version \in Nat
           /\ row.regenerations \in Nat
           /\ row.log \in Seq(Attempt)
BY Zenon DEF Section

(* Whatever it is put around, a generated text is not the bare template.   *)
LEMMA AssembledText ==
    ASSUME NEW key \in SectionKey, NEW pinned \in Seq(Part), NEW w \in Writers
    PROVE  /\ Assembled(key, pinned, w) \in Seq(Part)
           /\ Assembled(key, pinned, w) # PinnedPrefix
<1>0. w \in Part /\ w # Template
  BY WritersAssumption DEF Part
<1>1. CASE key = "PROPOSED_SOLUTION"
  <2>1. /\ Append(pinned, w) \in Seq(Part)
        /\ Append(pinned, w)[Len(Append(pinned, w))] = w
    BY <1>0
  <2>2. Append(pinned, w) # <<Template>>
    <3> DEFINE s == Append(pinned, w)
    <3>1. s[Len(s)] # <<Template>>[Len(<<Template>>)]
      BY <1>0, <2>1
    <3> HIDE DEF s
    <3>2. QED
      BY <3>1 DEF s
  <2>3. Assembled(key, pinned, w) = Append(pinned, w)
    BY <1>1 DEF Assembled
  <2>4. QED
    BY <2>1, <2>2, <2>3 DEF PinnedPrefix
<1>2. CASE key = "PRICING"
  <2>1. <<w>> \o pinned \in Seq(Part) /\ (<<w>> \o pinned)[1] = w
    BY <1>0
  <2>2. <<w>> \o pinned # <<Template>>
    <3> DEFINE s == <<w>> \o pinned
    <3>1. s[1] # <<Template>>[1]
      BY <1>0, <2>1
    <3> HIDE DEF s
    <3>2. QED
      BY <3>1 DEF s
  <2>3. Assembled(key, pinned, w) = <<w>> \o pinned
    BY <1>2 DEF Assembled
  <2>4. QED
    BY <2>1, <2>2, <2>3 DEF PinnedPrefix
<1>3. CASE key \notin {"PROPOSED_SOLUTION", "PRICING"}
  <2>1. <<w>> \in Seq(Part) /\ <<w>>[1] = w
    BY <1>0
  <2>2. QED
    BY <1>0, <1>3, <2>1 DEF Assembled, PinnedPrefix
<1>4. QED
  BY <1>1, <1>2, <1>3

LEMMA EditedText ==
    ASSUME NEW w \in Writers
    PROVE  <<w>> \in Seq(Part) /\ <<w>> # PinnedPrefix
BY WritersAssumption DEF Part, PinnedPrefix

LEMMA PrefixType == PinnedPrefix \in Seq(Part)
BY DEF PinnedPrefix, Part

LEMMA EditedType ==
    ASSUME NEW row \in Section, NEW w \in Edits
    PROVE  /\ Edited(row, w) \in Section
           /\ Edited(row, w).content # PinnedPrefix
           /\ Edited(row, w).origin # "TEMPLATE_DEFAULT"
<1> DEFINE text   == <<w>>
           origin == OriginAfterEdit(row.origin)
           next   == row.version + 1
<1>1. /\ origin \in ContentOrigin /\ next \in Nat
      /\ origin # "TEMPLATE_DEFAULT"
  BY ColumnsOfRow DEF OriginAfterEdit, ContentOrigin
<1>2. text \in Seq(Part) /\ text # PinnedPrefix
  BY EditedText DEF Writers
<1>3. Edited(row, w) = [row EXCEPT !.content = text, !.origin = origin, !.version = next]
  BY DEF Edited
<1> HIDE DEF text, origin, next
<1>4. QED
  BY <1>1, <1>2, <1>3 DEF Section

LEMMA AttemptLogged ==
    ASSUME NEW row \in Section, NEW w \in Regenerations, NEW o \in {"succeeded", "failed"}
    PROVE  Append(row.log, [by |-> w, outcome |-> o]) \in Seq(Attempt)
<1>1. row.log \in Seq(Attempt)
  BY ColumnsOfRow
<1>2. [by |-> w, outcome |-> o] \in Attempt
  BY DEF Attempt
<1>3. QED
  BY <1>1, <1>2

LEMMA RegeneratedType ==
    ASSUME NEW row \in Section, NEW w \in Regenerations
    PROVE  /\ Regenerated(row, w) \in Section
           /\ Regenerated(row, w).content # PinnedPrefix
           /\ Regenerated(row, w).origin # "TEMPLATE_DEFAULT"
<1> DEFINE text  == Assembled(row.key, PinnedPrefix, w)
           next  == row.version + 1
           count == row.regenerations + 1
           log   == Append(row.log, [by |-> w, outcome |-> "succeeded"])
<1>0. next \in Nat /\ count \in Nat /\ text \in Seq(Part) /\ text # PinnedPrefix
  BY ColumnsOfRow, AssembledText, PrefixType DEF Writers
<1>1. log \in Seq(Attempt)
  BY AttemptLogged
<1>2. Regenerated(row, w) =
         [row EXCEPT !.content = text, !.origin = "AI_GENERATED", !.version = next,
                     !.regenerations = count, !.log = log]
  BY DEF Regenerated
<1> HIDE DEF text, next, count, log
<1>3. QED
  BY <1>0, <1>1, <1>2 DEF Section, ContentOrigin

LEMMA RegenerationFailedType ==
    ASSUME NEW row \in Section, NEW w \in Regenerations
    PROVE  /\ RegenerationFailed(row, w) \in Section
           /\ RegenerationFailed(row, w).content = row.content
           /\ RegenerationFailed(row, w).origin = row.origin
<1> DEFINE log == Append(row.log, [by |-> w, outcome |-> "failed"])
<1>1. log \in Seq(Attempt)
  BY AttemptLogged
<1>2. RegenerationFailed(row, w) = [row EXCEPT !.log = log]
  BY DEF RegenerationFailed
<1> HIDE DEF log
<1>3. QED
  BY <1>1, <1>2 DEF Section

LEMMA GeneratedType ==
    ASSUME NEW row \in Section, NEW w \in Generations
    PROVE  /\ Generated(row, w) \in Section
           /\ Generated(row, w).content # PinnedPrefix
           /\ Generated(row, w).origin # "TEMPLATE_DEFAULT"
<1> DEFINE text == Assembled(row.key, row.content, w)
<1>1. text \in Seq(Part) /\ text # PinnedPrefix
  BY ColumnsOfRow, AssembledText DEF Writers
<1>2. Generated(row, w) = [row EXCEPT !.content = text, !.origin = "AI_GENERATED"]
  BY DEF Generated
<1> HIDE DEF text
<1>3. QED
  BY <1>1, <1>2 DEF Section, ContentOrigin

(* The merge, column by column. *)
LEMMA CommittedColumns ==
    ASSUME NEW p \in Section, NEW q \in Section, NEW r \in Section
    PROVE  Committed(p, q, r) =
              [key |-> IF r.key = q.key THEN p.key ELSE r.key,
               content |-> IF r.content = q.content THEN p.content ELSE r.content,
               origin |-> IF r.origin = q.origin THEN p.origin ELSE r.origin,
               version |-> IF r.version = q.version THEN p.version ELSE r.version,
               regenerations |-> IF r.regenerations = q.regenerations
                                 THEN p.regenerations ELSE r.regenerations,
               log |-> IF r.log = q.log THEN p.log ELSE r.log]
BY DEF Committed, Section

LEMMA CommittedType ==
    ASSUME NEW p \in Section, NEW q \in Section, NEW r \in Section
    PROVE  Committed(p, q, r) \in Section
<1> DEFINE key     == IF r.key = q.key THEN p.key ELSE r.key
           content == IF r.content = q.content THEN p.content ELSE r.content
           origin  == IF r.origin = q.origin THEN p.origin ELSE r.origin
           version == IF r.version = q.version THEN p.version ELSE r.version
           count   == IF r.regenerations = q.regenerations
                      THEN p.regenerations ELSE r.regenerations
           log     == IF r.log = q.log THEN p.log ELSE r.log
<1>1. key \in SectionKey /\ content \in Seq(Part) /\ origin \in ContentOrigin
  BY ColumnsOfRow
<1>2. version \in Nat /\ count \in Nat
  BY ColumnsOfRow
<1>3. log \in Seq(Attempt)
  BY ColumnsOfRow
<1>4. Committed(p, q, r) = [key |-> key, content |-> content, origin |-> origin,
                            version |-> version, regenerations |-> count, log |-> log]
  BY CommittedColumns
<1> HIDE DEF key, content, origin, version, count, log
<1>5. QED
  BY <1>1, <1>2, <1>3, <1>4, RowOfColumns

LEMMA LoadRowType ==
    ASSUME HistoryTypeInv, NEW w \in Writers, LoadRow(w), status' = status
    PROVE  HistoryTypeInv'
BY DEF HistoryTypeInv, HistoryTypeOK, LoadedShape, LoadRow

LEMMA DoneType ==
    ASSUME HistoryTypeInv, NEW w \in Writers, Done(w)
    PROVE  /\ phase' \in [Writers -> {"waiting", "queued", "loaded", "done"}]
           /\ loaded' \in [Writers -> Section \cup {Unread}]
           /\ LoadedShape'
           /\ overlapped' \in BOOLEAN
BY DEF HistoryTypeInv, HistoryTypeOK, LoadedShape, Done

LEMMA CommitRowType ==
    ASSUME HistoryTypeInv, NEW w \in Writers, phase[w] = "loaded", NEW new \in Section,
           CommitRow(w, new)
    PROVE  section' \in Section
BY CommittedType DEF HistoryTypeInv, HistoryTypeOK, LoadedShape, CommitRow

LEMMA CommitTextType ==
    ASSUME HistoryTypeInv, NEW w \in Writers, phase[w] = "loaded", NEW new \in Section,
           CommitText(w, new)
    PROVE  section' \in Section /\ written' \in Seq(Writers)
BY CommitRowType DEF HistoryTypeInv, HistoryTypeOK, CommitText

LEMMA HistoryTypeKept == HistoryTypeInv /\ [Next]_vars => HistoryTypeInv'
<1> SUFFICES ASSUME HistoryTypeInv, [Next]_vars PROVE HistoryTypeInv'
  OBVIOUS
<1>1. ASSUME NEW w \in Edits, OpenEdit(w) PROVE HistoryTypeInv'
  BY <1>1, LoadRowType DEF OpenEdit, Writers
<1>2. ASSUME NEW w \in Edits, SaveEdit(w) PROVE HistoryTypeInv'
  <2>1. w \in Writers /\ loaded[w] \in Section
    BY <1>2 DEF SaveEdit, HistoryTypeInv, LoadedShape, Writers
  <2>2. section' \in Section /\ written' \in Seq(Writers)
    BY <1>2, <2>1, EditedType, CommitTextType DEF SaveEdit
  <2>3. QED
    BY <1>2, <2>1, <2>2, DoneType DEF SaveEdit, HistoryTypeInv, HistoryTypeOK
<1>3. ASSUME NEW w \in Regenerations, RequestRegeneration(w) PROVE HistoryTypeInv'
  BY <1>3 DEF RequestRegeneration, HistoryTypeInv, HistoryTypeOK, LoadedShape, Writers
<1>4. ASSUME NEW w \in Regenerations, LoadRegeneration(w) PROVE HistoryTypeInv'
  <2>1. w \in Writers
    BY DEF Writers
  <2>2. CASE LoadRow(w)
    BY <1>4, <2>1, <2>2, LoadRowType DEF LoadRegeneration
  <2>3. CASE Done(w) /\ UNCHANGED <<section, written, attempts>>
    BY <1>4, <2>1, <2>3, DoneType DEF LoadRegeneration, HistoryTypeInv, HistoryTypeOK
  <2>4. QED
    BY <1>4, <2>2, <2>3 DEF LoadRegeneration
<1>5. ASSUME NEW w \in Regenerations, RegenerationSucceeds(w) PROVE HistoryTypeInv'
  <2>1. w \in Writers /\ loaded[w] \in Section
    BY <1>5 DEF RegenerationSucceeds, HistoryTypeInv, LoadedShape, Writers
  <2>2. section' \in Section /\ written' \in Seq(Writers)
    BY <1>5, <2>1, RegeneratedType, CommitTextType DEF RegenerationSucceeds
  <2>3. attempts' \in Seq(Attempt)
    BY <1>5 DEF RegenerationSucceeds, Attempt, HistoryTypeInv, HistoryTypeOK
  <2>4. QED
    BY <1>5, <2>1, <2>2, <2>3, DoneType DEF RegenerationSucceeds, HistoryTypeInv, HistoryTypeOK
<1>6. ASSUME NEW w \in Regenerations, RegenerationFails(w) PROVE HistoryTypeInv'
  <2>1. w \in Writers /\ loaded[w] \in Section
    BY <1>6 DEF RegenerationFails, HistoryTypeInv, LoadedShape, Writers
  <2>2. section' \in Section
    BY <1>6, <2>1, RegenerationFailedType, CommitRowType DEF RegenerationFails
  <2>3. attempts' \in Seq(Attempt)
    BY <1>6 DEF RegenerationFails, Attempt, HistoryTypeInv, HistoryTypeOK
  <2>4. QED
    BY <1>6, <2>1, <2>2, <2>3, DoneType DEF RegenerationFails, HistoryTypeInv, HistoryTypeOK
<1>7. ASSUME NEW w \in Generations, RequestGeneration(w) PROVE HistoryTypeInv'
  BY <1>7 DEF RequestGeneration, HistoryTypeInv, HistoryTypeOK, LoadedShape, Writers
<1>8. ASSUME NEW w \in Generations, LoadGeneration(w) PROVE HistoryTypeInv'
  BY <1>8, LoadRowType DEF LoadGeneration, Writers
<1>9. ASSUME NEW w \in Generations, GenerationSucceeds(w) PROVE HistoryTypeInv'
  <2>1. w \in Writers /\ loaded[w] \in Section
    BY <1>9 DEF GenerationSucceeds, HistoryTypeInv, LoadedShape, Writers
  <2>2. section' \in Section /\ written' \in Seq(Writers)
    BY <1>9, <2>1, GeneratedType, CommitTextType DEF GenerationSucceeds
  <2>3. QED
    BY <1>9, <2>1, <2>2, DoneType DEF GenerationSucceeds, HistoryTypeInv, HistoryTypeOK
<1>10. ASSUME NEW w \in Generations, GenerationFails(w) PROVE HistoryTypeInv'
  <2>1. w \in Writers
    BY DEF Writers
  <2>2. QED
    BY <1>10, <2>1, DoneType DEF GenerationFails, HistoryTypeInv, HistoryTypeOK
<1>11. CASE Restart
  BY <1>11 DEF Restart, HistoryTypeInv, HistoryTypeOK, LoadedShape
<1>12. CASE UNCHANGED vars
  BY <1>12 DEF vars, HistoryTypeInv, HistoryTypeOK, LoadedShape
<1>13. QED
  BY <1>1, <1>2, <1>3, <1>4, <1>5, <1>6, <1>7, <1>8, <1>9, <1>10, <1>11, <1>12 DEF Next

LEMMA HistoryTypeInit == Init => HistoryTypeInv
<1> SUFFICES ASSUME Init PROVE HistoryTypeInv
  OBVIOUS
<1>1. section \in Section
  <2>1. << >> \in Seq(Attempt)
    OBVIOUS
  <2>2. "TEMPLATE_DEFAULT" \in ContentOrigin
    BY DEF ContentOrigin
  <2>3. QED
    BY <2>1, <2>2, PrefixType, RowOfColumns DEF Init
<1>2. written \in Seq(Writers) /\ attempts \in Seq(Attempt)
  BY DEF Init
<1>3. /\ phase \in [Writers -> {"waiting", "queued", "loaded", "done"}]
      /\ loaded \in [Writers -> Section \cup {Unread}]
      /\ LoadedShape
  BY DEF Init, LoadedShape
<1>4. QED
  BY <1>1, <1>2, <1>3 DEF Init, HistoryTypeInv, HistoryTypeOK

(* Type correctness of the history. *)
THEOREM HistoryTypeCorrectness == Spec => []HistoryTypeOK
<1>1. HistoryTypeInv => HistoryTypeOK
  BY DEF HistoryTypeInv
<1>2. QED
  BY <1>1, HistoryTypeInit, HistoryTypeKept, PTL DEF Spec

-----------------------------------------------------------------------------
(* The template's mark.  Neither column ever returns to the template, so   *)
(* a writer that finds a column as it would set it, and leaves it alone,   *)
(* knows that it is off the template in the stored row too.                *)
OnlyMovesAway == \A w \in Writers : phase[w] = "loaded" =>
    /\ section.content = PinnedPrefix => loaded[w].content = PinnedPrefix
    /\ section.origin = "TEMPLATE_DEFAULT" => loaded[w].origin = "TEMPLATE_DEFAULT"

MarkInv == HistoryTypeInv /\ TemplateIsMarked /\ OnlyMovesAway

(* What a step may do to the two columns. *)
Touches ==
    /\ section'.content # PinnedPrefix /\ section'.origin # "TEMPLATE_DEFAULT"
Leaves ==
    section'.content = section.content /\ section'.origin = section.origin

LEMMA TextTouches ==
    ASSUME MarkInv, NEW w \in Writers, phase[w] = "loaded", NEW new \in Section,
           new.content # PinnedPrefix, new.origin # "TEMPLATE_DEFAULT", CommitText(w, new)
    PROVE  Touches
<1>1. loaded[w] \in Section /\ section \in Section
  BY DEF MarkInv, HistoryTypeInv, HistoryTypeOK, LoadedShape
<1>2. /\ section'.content =
            (IF new.content = loaded[w].content THEN section.content ELSE new.content)
      /\ section'.origin =
            (IF new.origin = loaded[w].origin THEN section.origin ELSE new.origin)
  BY <1>1, CommittedColumns DEF CommitText, CommitRow
<1>3. QED
  BY <1>2 DEF MarkInv, OnlyMovesAway, Touches

LEMMA FailureLeaves ==
    ASSUME MarkInv, NEW w \in Regenerations, phase[w] = "loaded",
           CommitRow(w, RegenerationFailed(loaded[w], w))
    PROVE  Leaves
<1>1. loaded[w] \in Section /\ section \in Section
  BY DEF MarkInv, HistoryTypeInv, HistoryTypeOK, LoadedShape, Writers
<1>2. /\ RegenerationFailed(loaded[w], w).content = loaded[w].content
      /\ RegenerationFailed(loaded[w], w).origin = loaded[w].origin
  BY <1>1, RegenerationFailedType
<1>3. RegenerationFailed(loaded[w], w) \in Section
  BY <1>1, RegenerationFailedType
<1>4. QED
  BY <1>1, <1>2, <1>3, CommittedColumns DEF CommitRow, Leaves

LEMMA StepTouchesOrLeaves ==
    ASSUME MarkInv, Next
    PROVE  Touches \/ Leaves
<1>0. \A w \in Writers : phase[w] = "loaded" => loaded[w] \in Section
  BY DEF MarkInv, HistoryTypeInv, LoadedShape
<1>1. UNCHANGED section => Leaves
  BY DEF Leaves
<1>2. ASSUME NEW w \in Edits, SaveEdit(w) PROVE Touches
  <2>1. w \in Writers /\ Edited(loaded[w], w) \in Section
    BY <1>0, <1>2, EditedType DEF SaveEdit, Writers
  <2>2. /\ Edited(loaded[w], w).content # PinnedPrefix
        /\ Edited(loaded[w], w).origin # "TEMPLATE_DEFAULT"
    BY <1>0, <1>2, <2>1, EditedType DEF SaveEdit
  <2>3. QED
    BY <1>2, <2>1, <2>2, TextTouches DEF SaveEdit
<1>3. ASSUME NEW w \in Regenerations, RegenerationSucceeds(w) PROVE Touches
  <2>1. w \in Writers /\ Regenerated(loaded[w], w) \in Section
    BY <1>0, <1>3, RegeneratedType DEF RegenerationSucceeds, Writers
  <2>2. /\ Regenerated(loaded[w], w).content # PinnedPrefix
        /\ Regenerated(loaded[w], w).origin # "TEMPLATE_DEFAULT"
    BY <1>0, <1>3, <2>1, RegeneratedType DEF RegenerationSucceeds
  <2>3. QED
    BY <1>3, <2>1, <2>2, TextTouches DEF RegenerationSucceeds
<1>4. ASSUME NEW w \in Generations, GenerationSucceeds(w) PROVE Touches
  <2>1. w \in Writers /\ Generated(loaded[w], w) \in Section
    BY <1>0, <1>4, GeneratedType DEF GenerationSucceeds, Writers
  <2>2. /\ Generated(loaded[w], w).content # PinnedPrefix
        /\ Generated(loaded[w], w).origin # "TEMPLATE_DEFAULT"
    BY <1>0, <1>4, <2>1, GeneratedType DEF GenerationSucceeds
  <2>3. QED
    BY <1>4, <2>1, <2>2, TextTouches DEF GenerationSucceeds
<1>5. ASSUME NEW w \in Regenerations, RegenerationFails(w) PROVE Leaves
  BY <1>5, FailureLeaves DEF RegenerationFails
<1>6. QED
  BY <1>1, <1>2, <1>3, <1>4, <1>5
     DEF Next, OpenEdit, RequestRegeneration, LoadRegeneration, RequestGeneration,
         LoadGeneration, GenerationFails, Restart, LoadRow

(* A row that is loaded is the stored row; the rest were loaded before. *)
LEMMA LoadsAreStored ==
    ASSUME HistoryTypeInv, Next, NEW w \in Writers, phase'[w] = "loaded"
    PROVE  \/ loaded'[w] = section /\ section' = section
           \/ phase[w] = "loaded" /\ loaded'[w] = loaded[w]
<1>0. /\ phase \in [Writers -> {"waiting", "queued", "loaded", "done"}]
      /\ loaded \in [Writers -> Section \cup {Unread}]
  BY DEF HistoryTypeInv, HistoryTypeOK
<1> DEFINE Goal == \/ loaded'[w] = section /\ section' = section
                   \/ phase[w] = "loaded" /\ loaded'[w] = loaded[w]
<1>1. ASSUME NEW v \in Writers, LoadRow(v) PROVE Goal
  BY <1>0, <1>1 DEF LoadRow
<1>2. ASSUME NEW v \in Writers, Done(v) PROVE Goal
  BY <1>0, <1>2 DEF Done
<1>3. ASSUME NEW v \in Writers, RequestRegeneration(v) \/ RequestGeneration(v) PROVE Goal
  BY <1>0, <1>3 DEF RequestRegeneration, RequestGeneration
<1>4. ~Restart
  BY <1>0 DEF Restart
<1>5. QED
  BY <1>1, <1>2, <1>3, <1>4
     DEF Next, OpenEdit, SaveEdit, LoadRegeneration, RegenerationSucceeds, RegenerationFails,
         LoadGeneration, GenerationSucceeds, GenerationFails, Writers

(* However edits, regenerations and full generations overlap, and although *)
(* each writes only the columns it changed, a section is marked as the     *)
(* template if and only if it holds the template.                          *)
THEOREM TemplateStaysMarked == Spec => []TemplateIsMarked
<1>1. Init => MarkInv
  BY HistoryTypeInit DEF Init, MarkInv, TemplateIsMarked, OnlyMovesAway
<1>2. MarkInv /\ [Next]_vars => MarkInv'
  <2> SUFFICES ASSUME MarkInv, [Next]_vars PROVE MarkInv'
    OBVIOUS
  <2>0. HistoryTypeInv /\ HistoryTypeInv'
    BY HistoryTypeKept DEF MarkInv
  <2>1. CASE Next
    <3>1. TemplateIsMarked'
      BY <2>1, StepTouchesOrLeaves DEF MarkInv, TemplateIsMarked, Touches, Leaves
    <3>2. OnlyMovesAway'
      <4> SUFFICES ASSUME NEW w \in Writers, phase'[w] = "loaded"
                   PROVE  /\ section'.content = PinnedPrefix => loaded'[w].content = PinnedPrefix
                          /\ section'.origin = "TEMPLATE_DEFAULT"
                                => loaded'[w].origin = "TEMPLATE_DEFAULT"
        BY DEF OnlyMovesAway
      <4>1. QED
        BY <2>0, <2>1, LoadsAreStored, StepTouchesOrLeaves
           DEF MarkInv, OnlyMovesAway, Touches, Leaves
    <3>3. QED
      BY <2>0, <3>1, <3>2 DEF MarkInv
  <2>2. CASE UNCHANGED vars
    BY <2>0, <2>2 DEF vars, MarkInv, TemplateIsMarked, OnlyMovesAway
  <2>3. QED
    BY <2>1, <2>2
<1>3. MarkInv => TemplateIsMarked
  BY DEF MarkInv
<1>4. QED
  BY <1>1, <1>2, <1>3, PTL DEF Spec

-----------------------------------------------------------------------------
(* Counting in sequences that grow at the end *)

Places(s, kind) == {i \in DOMAIN s : s[i] \in kind}

LEMMA PlacesAreFinite ==
    ASSUME NEW S, NEW s \in Seq(S), NEW kind
    PROVE  IsFiniteSet(Places(s, kind)) /\ Cardinality(Places(s, kind)) \in Nat
<1>1. IsFiniteSet(1 .. Len(s))
  BY FS_Interval
<1>2. Places(s, kind) \subseteq 1 .. Len(s)
  BY DEF Places
<1>3. IsFiniteSet(Places(s, kind))
  BY <1>1, <1>2, FS_Subset
<1>4. QED
  BY <1>3, FS_CardinalityType

LEMMA PlacesAppended ==
    ASSUME NEW S, NEW s \in Seq(S), NEW x \in S, NEW kind
    PROVE  /\ Places(Append(s, x), kind) =
                 IF x \in kind THEN Places(s, kind) \cup {Len(s) + 1} ELSE Places(s, kind)
           /\ Cardinality(Places(Append(s, x), kind)) =
                 Cardinality(Places(s, kind)) + (IF x \in kind THEN 1 ELSE 0)
<1> DEFINE t == Append(s, x)
<1>1. /\ DOMAIN t = 1 .. Len(s) + 1 /\ DOMAIN s = 1 .. Len(s) /\ Len(s) \in Nat
      /\ \A i \in 1 .. Len(s) : t[i] = s[i]
      /\ t[Len(s) + 1] = x
  OBVIOUS
<1> HIDE DEF t
<1>2. Places(t, kind) =
         IF x \in kind THEN Places(s, kind) \cup {Len(s) + 1} ELSE Places(s, kind)
  BY <1>1 DEF Places
<1>3. Len(s) + 1 \notin Places(s, kind)
  BY <1>1 DEF Places
<1>4. Cardinality(Places(s, kind) \cup {Len(s) + 1}) = Cardinality(Places(s, kind)) + 1
  BY <1>3, PlacesAreFinite, FS_AddElement
<1>5. Cardinality(Places(s, kind)) \in Nat
  BY PlacesAreFinite
<1>6. QED
  BY <1>2, <1>4, <1>5 DEF t

Successes == {a \in Attempt : a.outcome = "succeeded"}

LEMMA CountedPlaces ==
    ASSUME HistoryTypeOK
    PROVE  Succeeded = Places(attempts, Successes) /\ \A kind : WrittenBy(kind) = Places(written, kind)
<1>1. \A i \in DOMAIN attempts : attempts[i] \in Attempt
  BY DEF HistoryTypeOK
<1>2. QED
  BY <1>1 DEF Succeeded, WrittenBy, Places, Successes

-----------------------------------------------------------------------------
(* What every row in circulation has in common with the history: the       *)
(* stored one and those that writers have loaded, however long ago.        *)

(* The log is part of the history, in its order.                           *)
Remembers(log, history) ==
    \E place \in [DOMAIN log -> DOMAIN history] :
        /\ \A i \in DOMAIN log : log[i] = history[place[i]]
        /\ \A i, j \in DOMAIN log : i < j => place[i] < place[j]

(* The fact stands where it belongs, if nobody's edit stands there.        *)
FactStands(key, content) ==
    (\A i \in DOMAIN content : content[i] \notin Edits) =>
        /\ key = "PROPOSED_SOLUTION" => {i \in DOMAIN content : content[i] = Template} = {1}
        /\ key = "PRICING" =>
              {i \in DOMAIN content : content[i] = Template} = {Len(content)}

Fits(row, history, texts) ==
    /\ row.regenerations <= Cardinality(Places(history, Successes))
    /\ row.version <= 1 + Cardinality(Places(texts, Edits \cup Regenerations))
    /\ Remembers(row.log, history)
    /\ FactStands(row.key, row.content)

RowsFit ==
    /\ Fits(section, attempts, written)
    /\ \A w \in Writers : phase[w] = "loaded" =>
          loaded[w].key = section.key /\ Fits(loaded[w], attempts, written)

HistoryInv == HistoryTypeInv /\ RowsFit

LEMMA RemembersAppended ==
    ASSUME NEW log \in Seq(Attempt), NEW history \in Seq(Attempt), NEW a \in Attempt,
           Remembers(log, history)
    PROVE  /\ Remembers(log, Append(history, a))
           /\ Remembers(Append(log, a), Append(history, a))
<1> DEFINE longer == Append(history, a)
           more   == Append(log, a)
<1>1. PICK place \in [DOMAIN log -> DOMAIN history] :
         /\ \A i \in DOMAIN log : log[i] = history[place[i]]
         /\ \A i, j \in DOMAIN log : i < j => place[i] < place[j]
  BY DEF Remembers
<1>2. /\ DOMAIN longer = 1 .. Len(history) + 1 /\ DOMAIN history = 1 .. Len(history)
      /\ Len(history) \in Nat
      /\ \A i \in 1 .. Len(history) : longer[i] = history[i]
      /\ longer[Len(history) + 1] = a
  OBVIOUS
<1>3. /\ DOMAIN more = 1 .. Len(log) + 1 /\ DOMAIN log = 1 .. Len(log) /\ Len(log) \in Nat
      /\ \A i \in 1 .. Len(log) : more[i] = log[i]
      /\ more[Len(log) + 1] = a
  OBVIOUS
<1> HIDE DEF longer, more
<1>4. Remembers(log, longer)
  <2>1. place \in [DOMAIN log -> DOMAIN longer]
    BY <1>2
  <2>2. \A i \in DOMAIN log : log[i] = longer[place[i]]
    BY <1>1, <1>2
  <2>3. QED
    BY <1>1, <2>1, <2>2 DEF Remembers
<1>5. Remembers(more, longer)
  <2> DEFINE f == [i \in DOMAIN more |-> IF i = Len(log) + 1 THEN Len(history) + 1 ELSE place[i]]
  <2>1. \A i \in DOMAIN more : \/ i = Len(log) + 1 /\ f[i] = Len(history) + 1
                               \/ i \in 1 .. Len(log) /\ f[i] = place[i]
                                  /\ place[i] \in 1 .. Len(history)
    BY <1>2, <1>3
  <2>2. f \in [DOMAIN more -> DOMAIN longer]
    BY <1>2, <1>3
  <2> HIDE DEF f
  <2>3. \A i \in DOMAIN more : more[i] = longer[f[i]]
    BY <1>1, <1>2, <1>3, <2>1
  <2>4. \A i, j \in DOMAIN more : i < j => f[i] < f[j]
    BY <1>1, <1>2, <1>3, <2>1
  <2>5. QED
    BY <2>2, <2>3, <2>4 DEF Remembers
<1>6. QED
  BY <1>4, <1>5 DEF longer, more

LEMMA AssembledStands ==
    ASSUME NEW key \in SectionKey, NEW pinned \in Seq(Part), FactStands(key, pinned),
           NEW w \in Writers \ Edits
    PROVE  FactStands(key, Assembled(key, pinned, w))
<1>0. w # Template /\ w \notin Edits /\ Len(pinned) \in Nat /\ DOMAIN pinned = 1 .. Len(pinned)
  BY WritersAssumption
<1>1. CASE key = "PROPOSED_SOLUTION"
  <2> DEFINE s == Append(pinned, w)
  <2>1. /\ DOMAIN s = 1 .. Len(pinned) + 1 /\ s[Len(pinned) + 1] = w
        /\ \A i \in 1 .. Len(pinned) : s[i] = pinned[i]
    BY <1>0
  <2> HIDE DEF s
  <2>2. ASSUME \A i \in DOMAIN s : s[i] \notin Edits
        PROVE  {i \in DOMAIN s : s[i] = Template} = {1}
    <3>1. {i \in DOMAIN pinned : pinned[i] = Template} = {1}
      BY <1>0, <1>1, <2>1, <2>2 DEF FactStands
    <3>2. {i \in DOMAIN s : s[i] = Template} = {i \in DOMAIN pinned : pinned[i] = Template}
      BY <1>0, <2>1
    <3>3. QED
      BY <3>1, <3>2
  <2>3. QED
    BY <1>1, <2>2 DEF FactStands, Assembled, s
<1>2. CASE key = "PRICING"
  <2> DEFINE s == <<w>> \o pinned
  <2>1. /\ DOMAIN s = 1 .. Len(pinned) + 1 /\ Len(s) = Len(pinned) + 1 /\ s[1] = w
        /\ \A i \in 1 .. Len(pinned) : s[i + 1] = pinned[i]
        /\ \A i \in 2 .. Len(pinned) + 1 : s[i] = pinned[i - 1] /\ i - 1 \in 1 .. Len(pinned)
    BY <1>0
  <2> HIDE DEF s
  <2>2. ASSUME \A i \in DOMAIN s : s[i] \notin Edits
        PROVE  {i \in DOMAIN s : s[i] = Template} = {Len(s)}
    <3>1. \A i \in 1 .. Len(pinned) : i + 1 \in DOMAIN s
      BY <1>0, <2>1
    <3>2. \A i \in DOMAIN pinned : pinned[i] \notin Edits
      BY <1>0, <2>1, <2>2, <3>1
    <3>3. {i \in DOMAIN pinned : pinned[i] = Template} = {Len(pinned)}
      BY <1>2, <3>2 DEF FactStands
    <3>4. \A i \in DOMAIN s : s[i] = Template <=> i = Len(s)
      BY <1>0, <2>1, <3>3
    <3>5. Len(s) \in DOMAIN s
      BY <1>0, <2>1
    <3>6. QED
      BY <3>4, <3>5
  <2>3. QED
    BY <1>2, <2>2 DEF FactStands, Assembled, s
<1>3. CASE key \notin {"PROPOSED_SOLUTION", "PRICING"}
  BY <1>3 DEF FactStands
<1>4. QED
  BY <1>1, <1>2, <1>3

LEMMA PrefixStands == ASSUME NEW key PROVE FactStands(key, PinnedPrefix)
<1>1. DOMAIN PinnedPrefix = {1} /\ PinnedPrefix[1] = Template /\ Len(PinnedPrefix) = 1
  BY DEF PinnedPrefix
<1>2. QED
  BY <1>1 DEF FactStands

LEMMA EditStands == ASSUME NEW key, NEW w \in Edits PROVE FactStands(key, <<w>>)
<1>1. 1 \in DOMAIN <<w>> /\ <<w>>[1] = w
  OBVIOUS
<1>2. QED
  BY <1>1 DEF FactStands

LEMMA FitsGrow ==
    ASSUME NEW row \in Section, NEW history \in Seq(Attempt), NEW texts \in Seq(Writers),
           Fits(row, history, texts)
    PROVE  /\ \A a \in Attempt : Fits(row, Append(history, a), texts)
           /\ \A w \in Writers : Fits(row, history, Append(texts, w))
<1>0. /\ row.regenerations \in Nat /\ row.version \in Nat /\ row.log \in Seq(Attempt)
      /\ Cardinality(Places(history, Successes)) \in Nat
      /\ Cardinality(Places(texts, Edits \cup Regenerations)) \in Nat
  BY ColumnsOfRow, PlacesAreFinite
<1>1. ASSUME NEW a \in Attempt PROVE Fits(row, Append(history, a), texts)
  <2>1. Remembers(row.log, Append(history, a))
    BY <1>0, RemembersAppended DEF Fits
  <2>2. Cardinality(Places(history, Successes)) <=
           Cardinality(Places(Append(history, a), Successes))
    BY <1>0, PlacesAppended
  <2>3. row.regenerations <= Cardinality(Places(Append(history, a), Successes))
    <3>1. Append(history, a) \in Seq(Attempt)
      OBVIOUS
    <3>2. Cardinality(Places(Append(history, a), Successes)) \in Nat
      BY <3>1, PlacesAreFinite
    <3>3. QED
      BY <1>0, <2>2, <3>2 DEF Fits
  <2>4. QED
    BY <2>1, <2>3 DEF Fits
<1>2. ASSUME NEW w \in Writers PROVE Fits(row, history, Append(texts, w))
  <2> DEFINE before == Cardinality(Places(texts, Edits \cup Regenerations))
             after  == Cardinality(Places(Append(texts, w), Edits \cup Regenerations))
  <2>1. after = before + (IF w \in Edits \cup Regenerations THEN 1 ELSE 0)
    BY PlacesAppended
  <2>2. before \in Nat /\ row.version <= 1 + before
    BY <1>0 DEF Fits
  <2> HIDE DEF before, after
  <2>3. row.version <= 1 + after
    BY <1>0, <2>1, <2>2
  <2>4. QED
    BY <2>3 DEF Fits, after
<1>3. QED
  BY <1>1, <1>2

LEMMA EditedFits ==
    ASSUME NEW row \in Section, NEW w \in Edits, NEW history \in Seq(Attempt),
           NEW texts \in Seq(Writers), Fits(row, history, texts)
    PROVE  Fits(Edited(row, w), history, Append(texts, w)) /\ Edited(row, w).key = row.key
<1> DEFINE before == Cardinality(Places(texts, Edits \cup Regenerations))
           after  == Cardinality(Places(Append(texts, w), Edits \cup Regenerations))
           new    == Edited(row, w)
<1>1. /\ new.key = row.key /\ new.content = <<w>> /\ new.version = row.version + 1
      /\ new.regenerations = row.regenerations /\ new.log = row.log
  BY DEF Edited, Section
<1>2. after = before + 1
  BY PlacesAppended DEF Writers
<1>3. before \in Nat /\ row.version \in Nat /\ row.version <= 1 + before
  BY ColumnsOfRow, PlacesAreFinite DEF Fits
<1> HIDE DEF before, after, new
<1>4. new.version <= 1 + after
  BY <1>1, <1>2, <1>3
<1>5. FactStands(new.key, new.content)
  BY <1>1, EditStands
<1>6. Fits(new, history, Append(texts, w))
  BY <1>1, <1>4, <1>5 DEF Fits, after
<1>7. QED
  BY <1>1, <1>6 DEF new

LEMMA RegeneratedFits ==
    ASSUME NEW row \in Section, NEW w \in Regenerations, NEW history \in Seq(Attempt),
           NEW texts \in Seq(Writers), Fits(row, history, texts)
    PROVE  /\ Fits(Regenerated(row, w), Append(history, [by |-> w, outcome |-> "succeeded"]),
                   Append(texts, w))
           /\ Regenerated(row, w).key = row.key
<1> DEFINE a == [by |-> w, outcome |-> "succeeded"]
           before == Cardinality(Places(texts, Edits \cup Regenerations))
           after  == Cardinality(Places(Append(texts, w), Edits \cup Regenerations))
           paid    == Cardinality(Places(history, Successes))
           nowPaid == Cardinality(Places(Append(history, a), Successes))
           new    == Regenerated(row, w)
<1>0. a \in Attempt /\ a \in Successes /\ w \in Writers \ Edits
  BY WritersAssumption DEF Attempt, Successes, Writers
<1>1. /\ new.key = row.key /\ new.content = Assembled(row.key, PinnedPrefix, w)
      /\ new.version = row.version + 1
      /\ new.regenerations = row.regenerations + 1 /\ new.log = Append(row.log, a)
  BY DEF Regenerated, Section
<1>2. after = before + 1
  BY <1>0, PlacesAppended
<1>3. nowPaid = paid + 1
  BY <1>0, PlacesAppended
<1>4. /\ before \in Nat /\ row.version \in Nat /\ row.version <= 1 + before
      /\ paid \in Nat /\ row.regenerations \in Nat /\ row.regenerations <= paid
      /\ row.log \in Seq(Attempt) /\ row.key \in SectionKey
  BY ColumnsOfRow, PlacesAreFinite DEF Fits
<1>5. Remembers(Append(row.log, a), Append(history, a))
  BY <1>0, <1>4, RemembersAppended DEF Fits
<1>6. FactStands(row.key, Assembled(row.key, PinnedPrefix, w))
  BY <1>0, <1>4, PrefixType, PrefixStands, AssembledStands
<1> HIDE DEF a, before, after, paid, nowPaid, new
<1>7. new.version <= 1 + after /\ new.regenerations <= nowPaid
  BY <1>1, <1>2, <1>3, <1>4
<1>8. Fits(new, Append(history, a), Append(texts, w))
  BY <1>1, <1>5, <1>6, <1>7 DEF Fits, after, nowPaid
<1>9. QED
  BY <1>1, <1>8 DEF new, a

LEMMA FailedFits ==
    ASSUME NEW row \in Section, NEW w \in Regenerations, NEW history \in Seq(Attempt),
           NEW texts \in Seq(Writers), Fits(row, history, texts)
    PROVE  /\ Fits(RegenerationFailed(row, w),
                   Append(history, [by |-> w, outcome |-> "failed"]), texts)
           /\ RegenerationFailed(row, w).key = row.key
<1> DEFINE a == [by |-> w, outcome |-> "failed"]
           new == RegenerationFailed(row, w)
<1>0. a \in Attempt /\ row.log \in Seq(Attempt)
  BY ColumnsOfRow DEF Attempt
<1>1. /\ new.key = row.key /\ new.content = row.content /\ new.version = row.version
      /\ new.regenerations = row.regenerations /\ new.log = Append(row.log, a)
  BY DEF RegenerationFailed, Section
<1>2. Remembers(Append(row.log, a), Append(history, a))
  BY <1>0, RemembersAppended DEF Fits
<1>3. Fits(row, Append(history, a), texts)
  BY <1>0, FitsGrow
<1> HIDE DEF a, new
<1>4. Fits(new, Append(history, a), texts)
  BY <1>1, <1>2, <1>3 DEF Fits
<1>5. QED
  BY <1>1, <1>4 DEF a, new

LEMMA GeneratedFits ==
    ASSUME NEW row \in Section, NEW w \in Generations, NEW history \in Seq(Attempt),
           NEW texts \in Seq(Writers), Fits(row, history, texts)
    PROVE  Fits(Generated(row, w), history, Append(texts, w)) /\ Generated(row, w).key = row.key
<1> DEFINE new == Generated(row, w)
<1>0. w \in Writers /\ w \in Writers \ Edits
  BY WritersAssumption DEF Writers
<1>1. /\ new.key = row.key /\ new.content = Assembled(row.key, row.content, w)
      /\ new.version = row.version
      /\ new.regenerations = row.regenerations /\ new.log = row.log
  BY DEF Generated, Section
<1>2. FactStands(row.key, Assembled(row.key, row.content, w))
  BY <1>0, ColumnsOfRow, AssembledStands DEF Fits
<1>3. Fits(row, history, Append(texts, w))
  BY <1>0, FitsGrow
<1> HIDE DEF new
<1>4. Fits(new, history, Append(texts, w))
  BY <1>1, <1>2, <1>3 DEF Fits
<1>5. QED
  BY <1>1, <1>4 DEF new

(* A commit merges column by column, and every column fits by itself but   *)
(* the text, which fits the key both rows share.                           *)
LEMMA CommittedFits ==
    ASSUME NEW p \in Section, NEW q \in Section, NEW r \in Section,
           NEW history, NEW texts, p.key = r.key,
           Fits(p, history, texts), Fits(r, history, texts)
    PROVE  Fits(Committed(p, q, r), history, texts) /\ Committed(p, q, r).key = p.key
<1> DEFINE c == Committed(p, q, r)
<1>1. /\ c.key = p.key
      /\ c.content = p.content \/ c.content = r.content
      /\ c.version = p.version \/ c.version = r.version
      /\ c.regenerations = p.regenerations \/ c.regenerations = r.regenerations
      /\ c.log = p.log \/ c.log = r.log
  BY CommittedColumns
<1> HIDE DEF c
<1>2. Fits(c, history, texts)
  BY <1>1 DEF Fits
<1>3. QED
  BY <1>1, <1>2 DEF c

(* One writer commits, the history grows, and all rows still fit.          *)
LEMMA CommitKeepsFit ==
    ASSUME HistoryInv, NEW w \in Writers, phase[w] = "loaded", NEW new \in Section,
           new.key = loaded[w].key, Fits(new, attempts', written'), CommitRow(w, new), Done(w),
           attempts' = attempts \/ \E a \in Attempt : attempts' = Append(attempts, a),
           written' = written \/ \E v \in Writers : written' = Append(written, v)
    PROVE  RowsFit'
<1>0. /\ section \in Section /\ attempts \in Seq(Attempt) /\ written \in Seq(Writers)
      /\ \A v \in Writers : phase[v] = "loaded" => loaded[v] \in Section
  BY DEF HistoryInv, HistoryTypeInv, HistoryTypeOK, LoadedShape
<1>1. ASSUME NEW row \in Section, Fits(row, attempts, written)
      PROVE  Fits(row, attempts', written')
  <2>1. Fits(row, attempts', written)
    BY <1>0, <1>1, FitsGrow
  <2>2. attempts' \in Seq(Attempt)
    BY <1>0
  <2>3. QED
    BY <1>0, <1>1, <2>1, <2>2, FitsGrow
<1>2. Fits(section, attempts', written') /\ section.key = new.key
  BY <1>0, <1>1 DEF HistoryInv, RowsFit
<1>3. Fits(section', attempts', written') /\ section'.key = section.key
  BY <1>0, <1>2, CommittedFits DEF CommitRow
<1>4. ASSUME NEW v \in Writers, phase'[v] = "loaded"
      PROVE  loaded'[v].key = section'.key /\ Fits(loaded'[v], attempts', written')
  <2>1. phase[v] = "loaded" /\ loaded'[v] = loaded[v]
    BY <1>4 DEF Done, HistoryInv, HistoryTypeInv, HistoryTypeOK
  <2>2. QED
    BY <1>0, <1>1, <1>3, <2>1 DEF HistoryInv, RowsFit
<1>5. QED
  BY <1>3, <1>4 DEF RowsFit

LEMMA HistoryInit == Init => HistoryInv
<1> SUFFICES ASSUME Init PROVE HistoryInv
  OBVIOUS
<1>1. HistoryTypeInv
  BY HistoryTypeInit
<1>2. PICK key \in SectionKey :
         section = [key |-> key, content |-> PinnedPrefix, origin |-> "TEMPLATE_DEFAULT",
                    version |-> 1, regenerations |-> 0, log |-> << >>]
  BY DEF Init
<1>3. attempts = << >> /\ written = << >> /\ \A w \in Writers : phase[w] # "loaded"
  BY DEF Init
<1>4. Remembers(<< >>, << >>)
  <2>1. [i \in {} |-> 0] \in [DOMAIN << >> -> DOMAIN << >>]
    OBVIOUS
  <2>2. QED
    BY <2>1 DEF Remembers
<1>5. Places(<< >>, Successes) = {} /\ Places(<< >>, Edits \cup Regenerations) = {}
  BY DEF Places
<1>6. Fits(section, attempts, written)
  <2>1. /\ section.key = key /\ section.content = PinnedPrefix /\ section.version = 1
        /\ section.regenerations = 0 /\ section.log = << >>
    BY <1>2
  <2>2. /\ Cardinality(Places(attempts, Successes)) = 0
        /\ Cardinality(Places(written, Edits \cup Regenerations)) = 0
    BY <1>3, <1>5, FS_EmptySet
  <2>3. FactStands(section.key, section.content) /\ Remembers(section.log, attempts)
    BY <1>3, <1>4, <2>1, PrefixStands
  <2>4. QED
    BY <2>1, <2>2, <2>3 DEF Fits
<1>7. QED
  BY <1>1, <1>3, <1>6 DEF HistoryInv, RowsFit

(* A step that commits nothing: rows are loaded as they are stored.        *)
LEMMA LoadsKeepFit ==
    ASSUME HistoryInv, Next, UNCHANGED <<section, attempts, written>>
    PROVE  RowsFit'
<1>1. ASSUME NEW v \in Writers, phase'[v] = "loaded"
      PROVE  loaded'[v].key = section'.key /\ Fits(loaded'[v], attempts', written')
  <2>1. \/ loaded'[v] = section
        \/ phase[v] = "loaded" /\ loaded'[v] = loaded[v]
    BY <1>1, LoadsAreStored DEF HistoryInv
  <2>2. QED
    BY <2>1 DEF HistoryInv, RowsFit
<1>2. QED
  BY <1>1 DEF HistoryInv, RowsFit

LEMMA HistoryKept == HistoryInv /\ [Next]_vars => HistoryInv'
<1> SUFFICES ASSUME HistoryInv, [Next]_vars PROVE HistoryInv'
  OBVIOUS
<1>0. HistoryTypeInv'
  BY HistoryTypeKept DEF HistoryInv
<1>1. /\ section \in Section /\ attempts \in Seq(Attempt) /\ written \in Seq(Writers)
      /\ \A v \in Writers : phase[v] = "loaded" =>
            loaded[v] \in Section /\ Fits(loaded[v], attempts, written)
  BY DEF HistoryInv, HistoryTypeInv, HistoryTypeOK, LoadedShape, RowsFit
<1>2. CASE UNCHANGED <<section, attempts, written>> /\ Next
  BY <1>0, <1>2, LoadsKeepFit DEF HistoryInv
<1>3. CASE UNCHANGED vars
  BY <1>0, <1>3 DEF vars, HistoryInv, RowsFit
<1>4. ASSUME NEW w \in Edits, SaveEdit(w) PROVE RowsFit'
  <2>1. w \in Writers /\ loaded[w] \in Section /\ Fits(loaded[w], attempts, written)
        /\ phase[w] = "loaded"
    BY <1>1, <1>4 DEF SaveEdit, Writers
  <2> DEFINE new == Edited(loaded[w], w)
  <2>2. /\ new \in Section /\ new.key = loaded[w].key
        /\ Fits(new, attempts, Append(written, w))
    BY <1>1, <2>1, EditedType, EditedFits
  <2>3. CommitRow(w, new) /\ Done(w) /\ attempts' = attempts /\ written' = Append(written, w)
    BY <1>4 DEF SaveEdit, CommitText
  <2> HIDE DEF new
  <2>4. QED
    BY <2>1, <2>2, <2>3, CommitKeepsFit
<1>5. ASSUME NEW w \in Regenerations, RegenerationSucceeds(w) PROVE RowsFit'
  <2>1. w \in Writers /\ loaded[w] \in Section /\ Fits(loaded[w], attempts, written)
        /\ phase[w] = "loaded"
    BY <1>1, <1>5 DEF RegenerationSucceeds, Writers
  <2> DEFINE new == Regenerated(loaded[w], w)
             a   == [by |-> w, outcome |-> "succeeded"]
  <2>2. /\ new \in Section /\ new.key = loaded[w].key /\ a \in Attempt
        /\ Fits(new, Append(attempts, a), Append(written, w))
    BY <1>1, <2>1, RegeneratedType, RegeneratedFits DEF Attempt
  <2>3. /\ CommitRow(w, new) /\ Done(w)
        /\ attempts' = Append(attempts, a) /\ written' = Append(written, w)
    BY <1>5 DEF RegenerationSucceeds, CommitText
  <2> HIDE DEF new, a
  <2>4. QED
    BY <2>1, <2>2, <2>3, CommitKeepsFit
<1>6. ASSUME NEW w \in Regenerations, RegenerationFails(w) PROVE RowsFit'
  <2>1. w \in Writers /\ loaded[w] \in Section /\ Fits(loaded[w], attempts, written)
        /\ phase[w] = "loaded"
    BY <1>1, <1>6 DEF RegenerationFails, Writers
  <2> DEFINE new == RegenerationFailed(loaded[w], w)
             a   == [by |-> w, outcome |-> "failed"]
  <2>2. /\ new \in Section /\ new.key = loaded[w].key /\ a \in Attempt
        /\ Fits(new, Append(attempts, a), written)
    BY <1>1, <2>1, RegenerationFailedType, FailedFits DEF Attempt
  <2>3. /\ CommitRow(w, new) /\ Done(w)
        /\ attempts' = Append(attempts, a) /\ written' = written
    BY <1>6 DEF RegenerationFails
  <2> HIDE DEF new, a
  <2>4. QED
    BY <2>1, <2>2, <2>3, CommitKeepsFit
<1>7. ASSUME NEW w \in Generations, GenerationSucceeds(w) PROVE RowsFit'
  <2>1. w \in Writers /\ loaded[w] \in Section /\ Fits(loaded[w], attempts, written)
        /\ phase[w] = "loaded"
    BY <1>1, <1>7 DEF GenerationSucceeds, Writers
  <2> DEFINE new == Generated(loaded[w], w)
  <2>2. /\ new \in Section /\ new.key = loaded[w].key
        /\ Fits(new, attempts, Append(written, w))
    BY <1>1, <2>1, GeneratedType, GeneratedFits
  <2>3. CommitRow(w, new) /\ Done(w) /\ attempts' = attempts /\ written' = Append(written, w)
    BY <1>7 DEF GenerationSucceeds, CommitText
  <2> HIDE DEF new
  <2>4. QED
    BY <2>1, <2>2, <2>3, CommitKeepsFit
<1>8. QED
  BY <1>0, <1>2, <1>3, <1>4, <1>5, <1>6, <1>7
     DEF Next, OpenEdit, RequestRegeneration, LoadRegeneration, RequestGeneration,
         LoadGeneration, GenerationFails, Restart, LoadRow, HistoryInv

LEMMA AlwaysHistoryInv == Spec => []HistoryInv
BY HistoryInit, HistoryKept, PTL DEF Spec

(* However writers overlap, no failed attempt is charged and no change is  *)
(* counted that did not happen.                                            *)
THEOREM NobodyIsOvercharged == Spec => []NeverOvercharged
<1>1. HistoryInv => NeverOvercharged
  BY CountedPlaces DEF HistoryInv, HistoryTypeInv, RowsFit, Fits, NeverOvercharged
<1>2. QED
  BY <1>1, AlwaysHistoryInv, PTL

(* However writers overlap, the log is a part of what happened, in order.  *)
THEOREM LogTellsTheTruth == Spec => []LogIsTruthful
<1>1. HistoryInv => LogIsTruthful
  BY DEF HistoryInv, RowsFit, Fits, Remembers, LogIsTruthful
<1>2. QED
  BY <1>1, AlwaysHistoryInv, PTL

-----------------------------------------------------------------------------
(* What the section ought to read as, when one more writer has written     *)

Wholes == {i \in DOMAIN written : written[i] \notin Generations}

WholeIsPlaced ==
    /\ LastWhole \in 0 .. Len(written)
    /\ \A i \in 1 .. Len(written) : i > LastWhole => written[i] \in Generations

LEMMA WholeAppended ==
    ASSUME HistoryTypeOK, WholeIsPlaced, NEW w \in Writers, written' = Append(written, w)
    PROVE  /\ LastWhole' = IF w \in Generations THEN LastWhole ELSE Len(written) + 1
           /\ WholeIsPlaced'
<1> DEFINE n == Len(written)
<1>1. /\ DOMAIN written' = 1 .. n + 1 /\ DOMAIN written = 1 .. n /\ n \in Nat
      /\ \A i \in 1 .. n : written'[i] = written[i]
      /\ written'[n + 1] = w /\ Len(written') = n + 1
  BY DEF HistoryTypeOK
<1>2. LastWhole' = Max(Wholes' \cup {0}) /\ LastWhole = Max(Wholes \cup {0})
  BY DEF LastWhole, Wholes
<1> HIDE DEF n
<1>3. CASE w \in Generations
  <2>1. Wholes' = Wholes
    BY <1>1, <1>3 DEF Wholes
  <2>2. LastWhole' = LastWhole
    BY <1>2, <2>1
  <2>3. LastWhole' \in 0 .. Len(written')
    BY <1>1, <2>2 DEF WholeIsPlaced, n
  <2>4. \A i \in 1 .. Len(written') : i > LastWhole' => written'[i] \in Generations
    BY <1>1, <1>3, <2>2 DEF WholeIsPlaced, n
  <2>5. QED
    BY <1>3, <2>2, <2>3, <2>4 DEF WholeIsPlaced
<1>4. CASE w \notin Generations
  <2> DEFINE S == Wholes' \cup {0}
  <2>1. S \subseteq 0 .. n + 1 /\ n + 1 \in S
    BY <1>1, <1>4 DEF Wholes
  <2> HIDE DEF S
  <2>2. \A x \in S : (\A y \in S : x >= y) <=> x = n + 1
    BY <1>1, <2>1
  <2>3. Max(S) = n + 1
    BY <2>1, <2>2 DEF Max
  <2>4. LastWhole' = n + 1
    BY <1>2, <2>3 DEF S
  <2>5. QED
    BY <1>1, <1>4, <2>4 DEF WholeIsPlaced, n
<1>5. QED
  BY <1>3, <1>4

LEMMA SincePart ==
    ASSUME HistoryTypeOK, WholeIsPlaced
    PROVE  GeneratedSince \in Seq(Part) /\ WholeText \in Seq(Part)
<1>1. /\ written \in Seq(Part) /\ section.key \in SectionKey
      /\ LastWhole \in Int /\ 0 <= LastWhole /\ LastWhole <= Len(written) /\ Len(written) \in Nat
  <2>1. Writers \subseteq Part
    BY DEF Part
  <2>2. QED
    BY <2>1, SeqMonotonic, ColumnsOfRow DEF HistoryTypeOK, WholeIsPlaced
<1>2. GeneratedSince \in Seq(Part)
  <2>1. \A i \in LastWhole + 1 .. Len(written) : written[i] \in Part
    BY <1>1
  <2>2. LastWhole + 1 \in Int /\ Len(written) \in Int
    BY <1>1
  <2>3. SubSeq(written, LastWhole + 1, Len(written)) \in Seq(Part)
    BY <2>1, <2>2, SubSeqProperties
  <2>4. QED
    BY <2>3 DEF GeneratedSince
<1>3. LastWhole # 0 => written[LastWhole] \in Writers
  BY <1>1 DEF HistoryTypeOK
<1>4. WholeText \in Seq(Part)
  <2>1. CASE LastWhole = 0
    BY <2>1, PrefixType DEF WholeText
  <2>2. CASE LastWhole # 0
    <3>1. <<written[LastWhole]>> \in Seq(Part)
      BY <1>3, <2>2, EditedText
    <3>2. Assembled(section.key, PinnedPrefix, written[LastWhole]) \in Seq(Part)
      BY <1>1, <1>3, <2>2, PrefixType, AssembledText
    <3>3. QED
      BY <2>2, <3>1, <3>2 DEF WholeText
  <2>3. QED
    BY <2>1, <2>2
<1>5. QED
  BY <1>2, <1>4

(* An edit or a regeneration writes the whole text.                        *)
LEMMA WholeRewritten ==
    ASSUME HistoryTypeOK, WholeIsPlaced, NEW w \in Writers \ Generations,
           written' = Append(written, w), section'.key \in SectionKey
    PROVE  LastText' = IF w \in Edits THEN <<w>> ELSE Assembled(section'.key, PinnedPrefix, w)
<1>1. /\ Len(written') = Len(written) + 1 /\ Len(written) \in Nat
      /\ written'[Len(written) + 1] = w
  BY DEF HistoryTypeOK
<1>2. LastWhole' = Len(written')
  BY <1>1, WholeAppended
<1>3. GeneratedSince' = << >>
  <2>1. GeneratedSince' = SubSeq(written', Len(written') + 1, Len(written'))
    BY <1>2 DEF GeneratedSince
  <2>2. Len(written') + 1 \in Int /\ Len(written') \in Int /\ Len(written') < Len(written') + 1
    BY <1>1
  <2>3. QED
    BY <2>1, <2>2, SubSeqEmpty
<1> DEFINE text == IF w \in Edits THEN <<w>> ELSE Assembled(section'.key, PinnedPrefix, w)
<1>4. WholeText' = text
  BY <1>1, <1>2 DEF WholeText
<1>5. text \in Seq(Part)
  BY EditedText, AssembledText, PrefixType
<1>6. Reverse(<< >>) = << >>
  BY DEF Reverse
<1>7. /\ LastText' = CASE section'.key = "PROPOSED_SOLUTION" -> WholeText' \o GeneratedSince'
                       [] section'.key = "PRICING" -> Reverse(GeneratedSince') \o WholeText'
                       [] OTHER -> IF GeneratedSince' = << >> THEN WholeText'
                                   ELSE <<written'[Len(written')]>>
  BY DEF LastText
<1> HIDE DEF text
<1>8. text \o << >> = text /\ << >> \o text = text
  BY <1>5, ConcatEmptySeq
<1>9. LastText' = text
  BY <1>3, <1>4, <1>6, <1>7, <1>8
<1>10. QED
  BY <1>9 DEF text

LEMMA ReverseAppended ==
    ASSUME NEW s \in Seq(Part), NEW x \in Part
    PROVE  Reverse(s) \in Seq(Part) /\ Reverse(Append(s, x)) = <<x>> \o Reverse(s)
<1> DEFINE t == Append(s, x)
           r == Reverse(s)
           l == Reverse(t)
           m == <<x>> \o r
<1>1. /\ Len(s) \in Nat /\ t \in Seq(Part) /\ Len(t) = Len(s) + 1
      /\ \A i \in 1 .. Len(s) : t[i] = s[i] /\ s[i] \in Part
      /\ t[Len(s) + 1] = x
  BY AppendProperties, ElementOfSeq
<1> HIDE DEF t
<1>2. /\ r \in Seq(Part) /\ Len(r) = Len(s)
      /\ \A i \in 1 .. Len(s) : r[i] = s[Len(s) - i + 1]
  <2>1. \A i \in 1 .. Len(s) : Len(s) - i + 1 \in 1 .. Len(s)
    BY <1>1
  <2>2. QED
    BY <1>1, <2>1 DEF Reverse
<1>3. /\ l \in Seq(Part) /\ Len(l) = Len(s) + 1
      /\ \A i \in 1 .. Len(s) + 1 : l[i] = t[Len(s) + 1 - i + 1]
  <2>1. \A i \in 1 .. Len(t) : Len(t) - i + 1 \in 1 .. Len(t) /\ t[Len(t) - i + 1] \in Part
    BY <1>1
  <2>2. QED
    BY <1>1, <2>1 DEF Reverse
<1> HIDE DEF r, l
<1>4. <<x>> \in Seq(Part) /\ Len(<<x>>) = 1 /\ <<x>>[1] = x
  OBVIOUS
<1>5. /\ m \in Seq(Part) /\ Len(m) = Len(s) + 1
      /\ \A i \in 1 .. Len(s) + 1 : m[i] = IF i <= 1 THEN <<x>>[i] ELSE r[i - 1]
  <2>1. /\ m \in Seq(Part) /\ Len(m) = Len(<<x>>) + Len(r)
        /\ \A i \in 1 .. Len(<<x>>) + Len(r) :
              m[i] = IF i <= Len(<<x>>) THEN <<x>>[i] ELSE r[i - Len(<<x>>)]
    BY <1>2, <1>4, ConcatProperties
  <2> HIDE DEF m
  <2>2. QED
    BY <1>1, <1>2, <1>4, <2>1
<1> HIDE DEF m
<1>6. \A i \in 1 .. Len(s) + 1 : l[i] = m[i]
  <2> SUFFICES ASSUME NEW i \in 1 .. Len(s) + 1 PROVE l[i] = m[i]
    OBVIOUS
  <2>1. CASE i = 1
    BY <1>1, <1>3, <1>4, <1>5, <2>1
  <2>2. CASE i # 1
    <3>1. i - 1 \in 1 .. Len(s) /\ Len(s) + 1 - i + 1 \in 1 .. Len(s)
          /\ Len(s) - (i - 1) + 1 = Len(s) + 1 - i + 1
      BY <1>1, <2>2
    <3>2. l[i] = s[Len(s) + 1 - i + 1]
      BY <1>1, <1>3, <3>1
    <3>3. r[i - 1] = s[Len(s) - (i - 1) + 1]
      BY <1>2, <3>1
    <3>4. m[i] = r[i - 1]
      <4>1. i \in 1 .. Len(s) + 1 /\ ~(i <= 1)
        BY <1>1, <2>2
      <4>2. QED
        BY <1>5, <4>1
    <3>5. QED
      BY <3>1, <3>2, <3>3, <3>4
  <2>3. QED
    BY <2>1, <2>2
<1>7. l = m
  BY <1>3, <1>5, <1>6, SeqEqual
<1>8. QED
  BY <1>2, <1>7 DEF l, m, r, t

LEMMA RestAppended ==
    ASSUME NEW S, NEW s \in Seq(S), NEW x \in S, NEW k \in Nat, k <= Len(s)
    PROVE  SubSeq(Append(s, x), k + 1, Len(s) + 1) = Append(SubSeq(s, k + 1, Len(s)), x)
<1> DEFINE n == Len(s)
           t == Append(s, x)
           a == SubSeq(t, k + 1, n + 1)
           b == SubSeq(s, k + 1, n)
           c == Append(b, x)
<1>1. n \in Nat /\ k <= n /\ \A i \in 1 .. n : t[i] = s[i] /\ s[i] \in S
  BY AppendProperties, ElementOfSeq
<1>2. t[n + 1] = x
  BY AppendProperties
<1> HIDE DEF n, t
<1>3. a \in Seq(S) /\ Len(a) = n - k + 1 /\ \A i \in 1 .. n - k + 1 : a[i] = t[k + i]
  <2> DEFINE from == k + 1
             to   == n + 1
  <2>1. /\ from \in Int /\ to \in Int /\ from <= to /\ to - from + 1 = n - k + 1
        /\ \A i \in 1 .. n - k + 1 : from + i - 1 = k + i
    BY <1>1
  <2>2. \A i \in from .. to : t[i] \in S
    BY <1>1, <1>2
  <2> HIDE DEF from, to
  <2>3. /\ SubSeq(t, from, to) \in Seq(S)
        /\ Len(SubSeq(t, from, to)) = IF from <= to THEN to - from + 1 ELSE 0
        /\ \A i \in 1 .. to - from + 1 : SubSeq(t, from, to)[i] = t[from + i - 1]
    BY <2>1, <2>2, SubSeqProperties
  <2>4. a = SubSeq(t, from, to)
    BY DEF from, to
  <2> HIDE DEF a
  <2>5. QED
    BY <2>1, <2>3, <2>4
<1>4. b \in Seq(S) /\ Len(b) = n - k /\ \A i \in 1 .. n - k : b[i] = s[k + i]
  <2> DEFINE from == k + 1
  <2>1. /\ from \in Int /\ n \in Int /\ n - from + 1 = n - k
        /\ from <= n \/ n - k = 0
        /\ \A i \in 1 .. n - k : from + i - 1 = k + i
        /\ ~(from <= n) => n - k = 0
    BY <1>1
  <2>2. \A i \in from .. n : s[i] \in S
    BY <1>1
  <2> HIDE DEF from
  <2>3. /\ SubSeq(s, from, n) \in Seq(S)
        /\ Len(SubSeq(s, from, n)) = IF from <= n THEN n - from + 1 ELSE 0
        /\ \A i \in 1 .. n - from + 1 : SubSeq(s, from, n)[i] = s[from + i - 1]
    BY <2>1, <2>2, SubSeqProperties
  <2>4. b = SubSeq(s, from, n)
    BY DEF from
  <2> HIDE DEF b
  <2>5. QED
    BY <2>1, <2>3, <2>4
<1> HIDE DEF a, b
<1>5. /\ c \in Seq(S) /\ Len(c) = n - k + 1
      /\ \A i \in 1 .. n - k : c[i] = b[i]
      /\ c[n - k + 1] = x
  BY <1>1, <1>4, AppendProperties
<1> HIDE DEF c
<1>6. \A i \in 1 .. n - k + 1 : a[i] = c[i]
  <2> SUFFICES ASSUME NEW i \in 1 .. n - k + 1 PROVE a[i] = c[i]
    OBVIOUS
  <2>1. CASE i = n - k + 1
    <3>1. k + i = n + 1
      BY <1>1, <2>1
    <3>2. QED
      BY <1>2, <1>3, <1>5, <2>1, <3>1
  <2>2. CASE i # n - k + 1
    <3>1. i \in 1 .. n - k /\ k + i \in 1 .. n
      BY <1>1, <2>2
    <3>2. QED
      BY <1>1, <1>3, <1>4, <1>5, <3>1
  <2>3. QED
    BY <2>1, <2>2
<1>7. a = c
  BY <1>3, <1>5, <1>6, SeqEqual
<1>8. QED
  BY <1>7 DEF a, b, c, n, t

(* A full generation adds a part to what stands.                           *)
LEMMA PartGenerated ==
    ASSUME HistoryTypeOK, WholeIsPlaced, NEW w \in Generations,
           written' = Append(written, w), section'.key = section.key
    PROVE  LastText' = Assembled(section.key, LastText, w)
<1> DEFINE n == Len(written)
           L == LastWhole
           s == GeneratedSince
<1>0. w \in Writers /\ w \in Part
  BY DEF Writers, Part
<1>1. /\ Len(written') = n + 1 /\ n \in Nat /\ written \in Seq(Writers)
      /\ written' \in Seq(Writers) /\ written'[n + 1] = w
      /\ \A i \in 1 .. n : written'[i] = written[i]
  BY <1>0 DEF HistoryTypeOK
<1>2. LastWhole' = L /\ L \in Int /\ 0 <= L /\ L <= n
  BY <1>0, <1>1, WholeAppended DEF WholeIsPlaced
<1>3. s \in Seq(Part) /\ WholeText \in Seq(Part)
  BY SincePart
<1>4. GeneratedSince' = Append(s, w)
  <2>1. L \in Nat /\ L <= Len(written) /\ Len(written') = Len(written) + 1
    BY <1>1, <1>2
  <2>2. GeneratedSince' = SubSeq(written', L + 1, Len(written) + 1)
    BY <1>2, <2>1 DEF GeneratedSince
  <2>3. s = SubSeq(written, L + 1, Len(written))
    BY DEF GeneratedSince
  <2> HIDE DEF L, s
  <2>4. written \in Seq(Writers)
    BY <1>1
  <2>5. SubSeq(Append(written, w), L + 1, Len(written) + 1) =
           Append(SubSeq(written, L + 1, Len(written)), w)
    BY <1>0, <2>1, <2>4, RestAppended
  <2>6. QED
    BY <2>2, <2>3, <2>5
<1>5. WholeText' = WholeText
  <2>1. L # 0 => written'[L] = written[L]
    BY <1>1, <1>2
  <2>2. QED
    BY <1>2, <2>1 DEF WholeText
<1> HIDE DEF s, L, n
<1>6. CASE section.key = "PROPOSED_SOLUTION"
  <2>1. LastText' = WholeText \o Append(s, w) /\ LastText = WholeText \o s
    BY <1>4, <1>5, <1>6 DEF LastText, s
  <2>2. Append(s, w) = s \o <<w>> /\ Append(WholeText \o s, w) = (WholeText \o s) \o <<w>>
    BY <1>0, <1>3, AppendIsConcat, ConcatProperties
  <2>3. (WholeText \o s) \o <<w>> = WholeText \o (s \o <<w>>)
    BY <1>0, <1>3, ConcatAssociative
  <2>4. QED
    BY <1>6, <2>1, <2>2, <2>3 DEF Assembled
<1>7. CASE section.key = "PRICING"
  <2>1. LastText' = Reverse(Append(s, w)) \o WholeText /\ LastText = Reverse(s) \o WholeText
    BY <1>4, <1>5, <1>7 DEF LastText, s
  <2>2. Reverse(Append(s, w)) = <<w>> \o Reverse(s) /\ Reverse(s) \in Seq(Part)
    BY <1>0, <1>3, ReverseAppended
  <2>3. <<w>> \in Seq(Part)
    BY <1>0
  <2>4. (<<w>> \o Reverse(s)) \o WholeText = <<w>> \o (Reverse(s) \o WholeText)
    BY <1>3, <2>2, <2>3, ConcatAssociative
  <2>5. QED
    BY <1>7, <2>1, <2>2, <2>4 DEF Assembled
<1>8. CASE section.key \notin {"PROPOSED_SOLUTION", "PRICING"}
  <2>1. Append(s, w) # << >>
    BY <1>0, <1>3, AppendProperties
  <2>2. LastText' = <<written'[Len(written')]>>
    BY <1>4, <1>8, <2>1 DEF LastText
  <2>3. QED
    BY <1>1, <1>8, <2>2 DEF Assembled, n
<1>9. QED
  BY <1>6, <1>7, <1>8

-----------------------------------------------------------------------------
(* The account of a section that one writer at a time has written          *)

LEMMA OriginWritten ==
    ASSUME HistoryTypeOK, NEW w \in Writers, written' = Append(written, w)
    PROVE  TrueOrigin' = IF w \in Edits THEN OriginAfterEdit(TrueOrigin) ELSE "AI_GENERATED"
<1> DEFINE Drafts == Regenerations \cup Generations
           n      == Len(written)
<1>1. /\ written \in Seq(Writers) /\ n \in Nat /\ DOMAIN written = 1 .. n
      /\ \A i \in 1 .. n : written[i] \in Writers
      /\ written' \in Seq(Writers) /\ Len(written') = n + 1 /\ written'[n + 1] = w
      /\ DOMAIN written' = 1 .. n + 1
      /\ \A i \in 1 .. n : written'[i] = written[i]
  BY DEF HistoryTypeOK
<1>2. written' # << >>
  BY <1>1
<1>3. CASE w \notin Edits
  BY <1>1, <1>2, <1>3 DEF TrueOrigin
<1>4. CASE w \in Edits
  <2>1. w \notin Drafts
    BY <1>4, WritersAssumption
  <2>2. WrittenBy(Drafts)' = WrittenBy(Drafts)
    BY <1>1, <2>1 DEF WrittenBy
  <2>3. TrueOrigin' = IF WrittenBy(Drafts) = {} THEN "HUMAN_EDITED"
                      ELSE "HUMAN_EDITED_AFTER_GENERATION"
    BY <1>1, <1>2, <1>4, <2>2 DEF TrueOrigin
  <2>4. TrueOrigin \in AiTouched <=> WrittenBy(Drafts) # {}
    <3>1. CASE written = << >>
      BY <1>1, <3>1 DEF TrueOrigin, AiTouched, WrittenBy
    <3>2. CASE written # << >> /\ written[n] \notin Edits
      <4>1. n \in 1 .. n
        BY <1>1, <3>2, EmptySeq
      <4>2. n \in WrittenBy(Drafts)
        BY <1>1, <3>2, <4>1 DEF WrittenBy, Writers
      <4>3. QED
        BY <3>2, <4>2 DEF TrueOrigin, AiTouched
    <3>3. CASE written # << >> /\ written[n] \in Edits
      BY <3>3 DEF TrueOrigin, AiTouched
    <3>4. QED
      BY <3>1, <3>2, <3>3
  <2>5. QED
    BY <1>4, <2>3, <2>4 DEF OriginAfterEdit
<1>5. QED
  BY <1>3, <1>4

(* The row says what happened, column by column. *)
Exact ==
    /\ section.content = LastText
    /\ section.origin = TrueOrigin
    /\ section.version = 1 + Cardinality(Places(written, Edits \cup Regenerations))
    /\ section.regenerations = Cardinality(Places(attempts, Successes))
    /\ section.log = attempts

(* Nobody else is at work, and what is loaded is what is stored. *)
Alone ==
    /\ \A v, w \in Writers : phase[v] = "loaded" /\ phase[w] = "loaded" => v = w
    /\ \A w \in Writers : phase[w] = "loaded" => loaded[w] = section

SerialInv == HistoryTypeInv /\ WholeIsPlaced /\ (~overlapped => Alone /\ Exact)

(* A row loaded from the stored one is committed whole. *)
LEMMA WholeCommit ==
    ASSUME NEW p \in Section, NEW r \in Section
    PROVE  Committed(p, p, r) = r
<1>1. Committed(p, p, r) = [key |-> r.key, content |-> r.content, origin |-> r.origin,
                            version |-> r.version, regenerations |-> r.regenerations,
                            log |-> r.log]
  BY CommittedColumns
<1>2. r = [key |-> r.key, content |-> r.content, origin |-> r.origin,
           version |-> r.version, regenerations |-> r.regenerations, log |-> r.log]
  BY Zenon DEF Section
<1>3. QED
  BY <1>1, <1>2

LEMMA EditedExactly ==
    ASSUME HistoryTypeOK, WholeIsPlaced, Exact, NEW w \in Edits,
           section' = Edited(section, w), written' = Append(written, w), attempts' = attempts
    PROVE  Exact'
<1>0. w \in Writers \ Generations /\ section \in Section /\ section' \in Section
  BY EditedType, WritersAssumption DEF HistoryTypeOK, Writers
<1>1. /\ section'.key = section.key /\ section'.content = <<w>>
      /\ section'.origin = OriginAfterEdit(section.origin)
      /\ section'.version = section.version + 1
      /\ section'.regenerations = section.regenerations /\ section'.log = section.log
  BY <1>0 DEF Edited, Section
<1>2. LastText' = <<w>>
  BY <1>0, <1>1, ColumnsOfRow, WholeRewritten
<1>3. TrueOrigin' = OriginAfterEdit(TrueOrigin)
  BY <1>0, OriginWritten
<1>4. Cardinality(Places(written', Edits \cup Regenerations)) =
         Cardinality(Places(written, Edits \cup Regenerations)) + 1
  BY <1>0, PlacesAppended DEF HistoryTypeOK
<1>5. Cardinality(Places(written, Edits \cup Regenerations)) \in Nat
  BY PlacesAreFinite DEF HistoryTypeOK
<1>6. section'.version = 1 + Cardinality(Places(written', Edits \cup Regenerations))
  BY <1>1, <1>4, <1>5 DEF Exact
<1>7. QED
  BY <1>1, <1>2, <1>3, <1>6 DEF Exact

LEMMA RegeneratedExactly ==
    ASSUME HistoryTypeOK, WholeIsPlaced, Exact, NEW w \in Regenerations,
           section' = Regenerated(section, w), written' = Append(written, w),
           attempts' = Append(attempts, [by |-> w, outcome |-> "succeeded"])
    PROVE  Exact'
<1> DEFINE a == [by |-> w, outcome |-> "succeeded"]
<1>0. /\ w \in Writers \ Generations /\ w \notin Edits
      /\ section \in Section /\ section' \in Section
      /\ a \in Attempt /\ a \in Successes
  BY RegeneratedType, WritersAssumption DEF HistoryTypeOK, Writers, Attempt, Successes
<1>1. /\ section'.key = section.key
      /\ section'.content = Assembled(section.key, PinnedPrefix, w)
      /\ section'.origin = "AI_GENERATED"
      /\ section'.version = section.version + 1
      /\ section'.regenerations = section.regenerations + 1
      /\ section'.log = Append(section.log, a)
  BY <1>0 DEF Regenerated, Section
<1>2. LastText' = Assembled(section'.key, PinnedPrefix, w)
  BY <1>0, <1>1, ColumnsOfRow, WholeRewritten
<1>3. TrueOrigin' = "AI_GENERATED"
  BY <1>0, OriginWritten
<1>4. /\ Cardinality(Places(written', Edits \cup Regenerations)) =
            Cardinality(Places(written, Edits \cup Regenerations)) + 1
      /\ Cardinality(Places(attempts', Successes)) = Cardinality(Places(attempts, Successes)) + 1
  BY <1>0, PlacesAppended DEF HistoryTypeOK
<1>5. /\ Cardinality(Places(written, Edits \cup Regenerations)) \in Nat
      /\ Cardinality(Places(attempts, Successes)) \in Nat
  BY PlacesAreFinite DEF HistoryTypeOK
<1>6. /\ section'.version = 1 + Cardinality(Places(written', Edits \cup Regenerations))
      /\ section'.regenerations = Cardinality(Places(attempts', Successes))
  BY <1>1, <1>4, <1>5 DEF Exact
<1>7. section'.log = attempts'
  BY <1>1 DEF Exact
<1>8. QED
  BY <1>1, <1>2, <1>3, <1>6, <1>7 DEF Exact

LEMMA FailedExactly ==
    ASSUME HistoryTypeOK, Exact, NEW w \in Regenerations,
           section' = RegenerationFailed(section, w), written' = written,
           attempts' = Append(attempts, [by |-> w, outcome |-> "failed"])
    PROVE  Exact'
<1> DEFINE a == [by |-> w, outcome |-> "failed"]
<1>0. section \in Section /\ a \in Attempt /\ a \notin Successes
  BY DEF HistoryTypeOK, Attempt, Successes
<1>1. /\ section'.key = section.key /\ section'.content = section.content
      /\ section'.origin = section.origin /\ section'.version = section.version
      /\ section'.regenerations = section.regenerations
      /\ section'.log = Append(section.log, a)
  BY <1>0 DEF RegenerationFailed, Section
<1>2. LastText' = LastText /\ TrueOrigin' = TrueOrigin
  BY <1>1 DEF LastText, WholeText, GeneratedSince, LastWhole, TrueOrigin, WrittenBy
<1>3. Cardinality(Places(attempts', Successes)) = Cardinality(Places(attempts, Successes))
  BY <1>0, PlacesAppended DEF HistoryTypeOK
<1>4. QED
  BY <1>1, <1>2, <1>3 DEF Exact

LEMMA GeneratedExactly ==
    ASSUME HistoryTypeOK, WholeIsPlaced, Exact, NEW w \in Generations,
           section' = Generated(section, w), written' = Append(written, w), attempts' = attempts
    PROVE  Exact'
<1>0. /\ w \in Writers /\ w \notin Edits /\ w \notin Edits \cup Regenerations
      /\ section \in Section
  BY WritersAssumption DEF HistoryTypeOK, Writers
<1>1. /\ section'.key = section.key
      /\ section'.content = Assembled(section.key, section.content, w)
      /\ section'.origin = "AI_GENERATED" /\ section'.version = section.version
      /\ section'.regenerations = section.regenerations /\ section'.log = section.log
  BY <1>0 DEF Generated, Section
<1>2. LastText' = Assembled(section.key, LastText, w)
  BY <1>1, PartGenerated
<1>3. TrueOrigin' = "AI_GENERATED"
  BY <1>0, OriginWritten
<1>4. Places(written', Edits \cup Regenerations) = Places(written, Edits \cup Regenerations)
  BY <1>0, PlacesAppended DEF HistoryTypeOK
<1>5. QED
  BY <1>1, <1>2, <1>3, <1>4 DEF Exact

LEMMA SerialInit == Init => SerialInv
<1> SUFFICES ASSUME Init PROVE SerialInv
  OBVIOUS
<1>1. HistoryTypeInv
  BY HistoryTypeInit
<1>2. PICK key \in SectionKey :
         section = [key |-> key, content |-> PinnedPrefix, origin |-> "TEMPLATE_DEFAULT",
                    version |-> 1, regenerations |-> 0, log |-> << >>]
  BY DEF Init
<1>3. attempts = << >> /\ written = << >> /\ \A w \in Writers : phase[w] # "loaded"
  BY DEF Init
<1>4. LastWhole = 0
  <2> DEFINE S == {i \in DOMAIN written : written[i] \notin Generations} \cup {0}
  <2>1. S = {0}
    BY <1>3
  <2> HIDE DEF S
  <2>2. \A x \in S : (\A y \in S : x >= y) <=> x = 0
    BY <2>1
  <2>3. Max(S) = 0
    BY <2>1, <2>2 DEF Max
  <2>4. QED
    BY <2>3 DEF LastWhole, S
<1>5. GeneratedSince = << >> /\ Len(written) = 0
  BY <1>3, <1>4, SubSeqEmpty DEF GeneratedSince
<1>6. LastText = PinnedPrefix
  <2>1. WholeText = PinnedPrefix
    BY <1>4 DEF WholeText
  <2>2. Reverse(<< >>) = << >>
    BY DEF Reverse
  <2>3. PinnedPrefix \o << >> = PinnedPrefix /\ << >> \o PinnedPrefix = PinnedPrefix
    BY PrefixType, ConcatEmptySeq
  <2>4. QED
    BY <1>5, <2>1, <2>2, <2>3 DEF LastText
<1>7. TrueOrigin = "TEMPLATE_DEFAULT"
  BY <1>3 DEF TrueOrigin
<1>8. /\ Cardinality(Places(written, Edits \cup Regenerations)) = 0
      /\ Cardinality(Places(attempts, Successes)) = 0
  <2>1. Places(written, Edits \cup Regenerations) = {} /\ Places(attempts, Successes) = {}
    BY <1>3 DEF Places
  <2>2. QED
    BY <2>1, FS_EmptySet
<1>9. Exact
  BY <1>2, <1>3, <1>6, <1>7, <1>8 DEF Exact
<1>10. WholeIsPlaced /\ Alone
  BY <1>3, <1>4, <1>5 DEF WholeIsPlaced, Alone
<1>11. QED
  BY <1>1, <1>9, <1>10 DEF SerialInv

(* Only a writer who finds nobody at work loads without overlapping.       *)
LEMMA LoadedAlone ==
    ASSUME SerialInv, NEW w \in Writers, LoadRow(w), ~overlapped'
    PROVE  Alone'
<1>1. \A v \in Writers : phase[v] # "loaded"
  BY DEF LoadRow, InProgress
<1>2. /\ phase \in [Writers -> {"waiting", "queued", "loaded", "done"}]
      /\ loaded \in [Writers -> Section \cup {Unread}]
  BY DEF SerialInv, HistoryTypeInv, HistoryTypeOK
<1>3. /\ \A v \in Writers : phase'[v] = "loaded" => v = w
      /\ loaded'[w] = section /\ section' = section
  BY <1>1, <1>2 DEF LoadRow
<1>4. QED
  BY <1>3 DEF Alone

(* A writer who was alone leaves nobody at work, and what it commits is    *)
(* what it made of the stored row.                                         *)
LEMMA CommittedAlone ==
    ASSUME SerialInv, ~overlapped', NEW w \in Writers, phase[w] = "loaded", Done(w)
    PROVE  /\ Alone' /\ Exact /\ loaded[w] = section /\ section \in Section
           /\ \A new \in Section : CommitRow(w, new) => section' = new
<1>0. ~overlapped
  BY DEF Done
<1>1. Alone /\ Exact /\ section \in Section
  BY <1>0 DEF SerialInv, HistoryTypeInv, HistoryTypeOK
<1>2. loaded[w] = section
  BY <1>1 DEF Alone
<1>3. \A v \in Writers : phase'[v] # "loaded"
  BY <1>1 DEF Done, Alone, SerialInv, HistoryTypeInv, HistoryTypeOK
<1>4. Alone'
  BY <1>3 DEF Alone
<1>5. \A new \in Section : CommitRow(w, new) => section' = new
  BY <1>1, <1>2, WholeCommit DEF CommitRow
<1>6. QED
  BY <1>1, <1>2, <1>4, <1>5

LEMMA SerialKept == SerialInv /\ [Next]_vars => SerialInv'
<1> SUFFICES ASSUME SerialInv, [Next]_vars PROVE SerialInv'
  OBVIOUS
<1>0. HistoryTypeInv' /\ HistoryTypeInv /\ HistoryTypeOK /\ WholeIsPlaced
  BY HistoryTypeKept DEF SerialInv, HistoryTypeInv
<1>1. WholeIsPlaced'
  <2>1. ASSUME NEW w \in Writers, written' = Append(written, w) PROVE WholeIsPlaced'
    BY <1>0, <2>1, WholeAppended
  <2>2. CASE written' = written
    BY <1>0, <2>2 DEF WholeIsPlaced, LastWhole
  <2>3. QED
    BY <2>1, <2>2 DEF Next, vars, OpenEdit, SaveEdit, RequestRegeneration, LoadRegeneration,
          RegenerationSucceeds, RegenerationFails, RequestGeneration, LoadGeneration,
          GenerationSucceeds, GenerationFails, Restart, LoadRow, CommitText, Writers
<1>2. SUFFICES ASSUME ~overlapped' PROVE Alone' /\ Exact'
  BY <1>0, <1>1 DEF SerialInv
<1>3. ASSUME ~overlapped, UNCHANGED <<section, written, attempts>> PROVE Exact'
  <2>1. Exact
    BY <1>3 DEF SerialInv
  <2>2. LastText' = LastText /\ TrueOrigin' = TrueOrigin
    BY <1>3 DEF LastText, WholeText, GeneratedSince, LastWhole, TrueOrigin, WrittenBy
  <2>3. QED
    BY <1>3, <2>1, <2>2 DEF Exact
<1>4. ASSUME NEW w \in Writers, LoadRow(w) PROVE Alone' /\ Exact'
  BY <1>2, <1>3, <1>4, LoadedAlone DEF LoadRow
<1>5. ASSUME NEW w \in Writers, phase[w] = "queued", Done(w),
             UNCHANGED <<section, written, attempts>>
      PROVE  Alone' /\ Exact'
  <2>1. ~overlapped /\ Alone
    BY <1>2, <1>5 DEF Done, SerialInv
  <2>2. \A v \in Writers : phase'[v] = "loaded" => phase[v] = "loaded" /\ loaded'[v] = loaded[v]
    BY <1>0, <1>5 DEF Done, HistoryTypeOK
  <2>3. QED
    BY <1>3, <1>5, <2>1, <2>2 DEF Alone
<1>6. ASSUME NEW w \in Writers, RequestRegeneration(w) \/ RequestGeneration(w)
      PROVE  Alone' /\ Exact'
  <2>1. ~overlapped /\ Alone
    BY <1>2, <1>6 DEF RequestRegeneration, RequestGeneration, SerialInv
  <2>2. \A v \in Writers : phase'[v] = "loaded" => phase[v] = "loaded" /\ loaded'[v] = loaded[v]
    BY <1>0, <1>6 DEF RequestRegeneration, RequestGeneration, HistoryTypeOK
  <2>3. QED
    BY <1>3, <1>6, <2>1, <2>2 DEF RequestRegeneration, RequestGeneration, Alone
<1>7. ASSUME NEW w \in Edits, SaveEdit(w) PROVE Alone' /\ Exact'
  <2>1. w \in Writers /\ phase[w] = "loaded" /\ Done(w)
    BY <1>7 DEF SaveEdit, Writers
  <2>2. /\ Alone' /\ Exact /\ loaded[w] = section /\ section \in Section
        /\ \A new \in Section : CommitRow(w, new) => section' = new
    BY <1>2, <2>1, CommittedAlone
  <2>3. section' = Edited(section, w)
    BY <1>7, <2>2, EditedType DEF SaveEdit, CommitText
  <2>4. QED
    BY <1>0, <1>7, <2>2, <2>3, EditedExactly DEF SaveEdit, CommitText
<1>8. ASSUME NEW w \in Regenerations, RegenerationSucceeds(w) PROVE Alone' /\ Exact'
  <2>1. w \in Writers /\ phase[w] = "loaded" /\ Done(w)
    BY <1>8 DEF RegenerationSucceeds, Writers
  <2>2. /\ Alone' /\ Exact /\ loaded[w] = section /\ section \in Section
        /\ \A new \in Section : CommitRow(w, new) => section' = new
    BY <1>2, <2>1, CommittedAlone
  <2>3. section' = Regenerated(section, w)
    BY <1>8, <2>2, RegeneratedType DEF RegenerationSucceeds, CommitText
  <2>4. QED
    BY <1>0, <1>8, <2>2, <2>3, RegeneratedExactly DEF RegenerationSucceeds, CommitText
<1>9. ASSUME NEW w \in Regenerations, RegenerationFails(w) PROVE Alone' /\ Exact'
  <2>1. w \in Writers /\ phase[w] = "loaded" /\ Done(w)
    BY <1>9 DEF RegenerationFails, Writers
  <2>2. /\ Alone' /\ Exact /\ loaded[w] = section /\ section \in Section
        /\ \A new \in Section : CommitRow(w, new) => section' = new
    BY <1>2, <2>1, CommittedAlone
  <2>3. section' = RegenerationFailed(section, w)
    BY <1>9, <2>2, RegenerationFailedType DEF RegenerationFails
  <2>4. QED
    BY <1>0, <1>9, <2>2, <2>3, FailedExactly DEF RegenerationFails
<1>10. ASSUME NEW w \in Generations, GenerationSucceeds(w) PROVE Alone' /\ Exact'
  <2>1. w \in Writers /\ phase[w] = "loaded" /\ Done(w)
    BY <1>10 DEF GenerationSucceeds, Writers
  <2>2. /\ Alone' /\ Exact /\ loaded[w] = section /\ section \in Section
        /\ \A new \in Section : CommitRow(w, new) => section' = new
    BY <1>2, <2>1, CommittedAlone
  <2>3. section' = Generated(section, w)
    BY <1>10, <2>2, GeneratedType DEF GenerationSucceeds, CommitText
  <2>4. QED
    BY <1>0, <1>10, <2>2, <2>3, GeneratedExactly DEF GenerationSucceeds, CommitText
<1>11. ASSUME NEW w \in Generations, GenerationFails(w) PROVE Alone' /\ Exact'
  <2>1. w \in Writers /\ phase[w] = "loaded" /\ Done(w) /\ ~overlapped
    BY <1>2, <1>11 DEF GenerationFails, Writers, Done
  <2>2. Alone'
    BY <1>2, <2>1, CommittedAlone
  <2>3. QED
    BY <1>3, <1>11, <2>1, <2>2 DEF GenerationFails
<1>12. CASE Restart
  <2>1. ~overlapped /\ UNCHANGED <<section, written, attempts>>
    BY <1>2, <1>12 DEF Restart
  <2>2. \A v \in Writers : phase'[v] # "loaded"
    BY <1>0, <1>12 DEF Restart, HistoryTypeOK
  <2>3. QED
    BY <1>3, <2>1, <2>2 DEF Alone
<1>13. CASE UNCHANGED vars
  <2>1. ~overlapped /\ Alone
    BY <1>2, <1>13 DEF vars, SerialInv
  <2>2. QED
    BY <1>3, <1>13, <2>1 DEF vars, Alone
<1>14. ASSUME NEW w \in Edits, OpenEdit(w) PROVE Alone' /\ Exact'
  BY <1>4, <1>14 DEF OpenEdit, Writers
<1>15. ASSUME NEW w \in Regenerations, LoadRegeneration(w) PROVE Alone' /\ Exact'
  BY <1>4, <1>5, <1>15 DEF LoadRegeneration, Writers
<1>16. ASSUME NEW w \in Generations, LoadGeneration(w) PROVE Alone' /\ Exact'
  BY <1>4, <1>16 DEF LoadGeneration, Writers
<1>17. QED
  BY <1>6, <1>7, <1>8, <1>9, <1>10, <1>11, <1>12, <1>13, <1>14, <1>15, <1>16 DEF Next, Writers

LEMMA AlwaysSerialInv == Spec => []SerialInv
BY SerialInit, SerialKept, PTL DEF Spec

(* As long as no two writers have overlapped, the section's text, origin,  *)
(* version, charge and log are the exact account of what happened to it.   *)
THEOREM SerialWritersKeepTheBooks == Spec => []SerialHistoryIsExact
<1>1. SerialInv => SerialHistoryIsExact
  <2> SUFFICES ASSUME SerialInv, ~overlapped
               PROVE  section = [key |-> section.key, content |-> LastText, origin |-> TrueOrigin,
                         version |-> 1 + Cardinality(WrittenBy(Edits \cup Regenerations)),
                         regenerations |-> Cardinality(Succeeded), log |-> attempts]
    BY DEF SerialHistoryIsExact
  <2>1. HistoryTypeOK /\ section \in Section /\ Exact
    BY DEF SerialInv, HistoryTypeInv, HistoryTypeOK
  <2>2. section = [key |-> section.key, content |-> section.content, origin |-> section.origin,
                   version |-> section.version, regenerations |-> section.regenerations,
                   log |-> section.log]
    BY <2>1, Zenon DEF Section
  <2>3. QED
    BY <2>1, <2>2, CountedPlaces DEF Exact
<1>2. QED
  BY <1>1, AlwaysSerialInv, PTL

LEMMA ReverseType == ASSUME NEW S, NEW s \in Seq(S) PROVE Reverse(s) \in Seq(S)
<1>1. \A i \in 1 .. Len(s) : Len(s) - i + 1 \in 1 .. Len(s) /\ s[Len(s) - i + 1] \in S
  <2>1. Len(s) \in Nat
    OBVIOUS
  <2>2. \A i \in 1 .. Len(s) : Len(s) - i + 1 \in 1 .. Len(s)
    BY <2>1
  <2>3. QED
    BY <2>2, ElementOfSeq
<1>2. QED
  BY <1>1 DEF Reverse

(* When a regeneration followed the last edit, nobody's edit is left in    *)
(* the text that the history accounts for.                                 *)
LEMMA RegeneratedSinceLastEdit ==
    ASSUME HistoryTypeOK, WholeIsPlaced,
           \A i \in WrittenBy(Edits) : \E j \in WrittenBy(Regenerations) : i < j
    PROVE  \A i \in DOMAIN LastText : LastText[i] \notin Edits
<1> DEFINE n == Len(written)
           L == LastWhole
           Clean == Part \ Edits
<1>1. /\ written \in Seq(Writers) /\ n \in Nat /\ DOMAIN written = 1 .. n
      /\ \A i \in 1 .. n : written[i] \in Writers
      /\ L \in Nat /\ L <= n
  BY DEF HistoryTypeOK, WholeIsPlaced
<1>2. \A i \in 1 .. n : i > L => written[i] \in Clean
  BY WritersAssumption DEF WholeIsPlaced, Part, Writers
<1>3. PinnedPrefix \in Seq(Clean)
  BY WritersAssumption DEF PinnedPrefix, Part, Writers
<1>4. L # 0 => written[L] \in Clean
  <2> SUFFICES ASSUME L # 0, written[L] \in Edits PROVE FALSE
    BY <1>1 DEF Part
  <2>1. L \in WrittenBy(Edits)
    BY <1>1 DEF WrittenBy
  <2>2. PICK j \in WrittenBy(Regenerations) : L < j
    BY <2>1
  <2>3. j \in 1 .. n /\ written[j] \in Regenerations /\ written[j] \in Generations
    BY <1>1, <2>2 DEF WrittenBy, WholeIsPlaced
  <2>4. QED
    BY <2>3, WritersAssumption
<1>5. ASSUME NEW key, NEW w \in Clean PROVE Assembled(key, PinnedPrefix, w) \in Seq(Clean)
  <2>1. <<w>> \in Seq(Clean)
    BY <1>5
  <2>2. <<w>> \o PinnedPrefix \in Seq(Clean)
    BY <1>3, <2>1, ConcatProperties
  <2>3. Append(PinnedPrefix, w) \in Seq(Clean)
    BY <1>3, <1>5, AppendProperties
  <2>4. QED
    BY <2>1, <2>2, <2>3 DEF Assembled
<1>6. L # 0 => WholeText = Assembled(section.key, PinnedPrefix, written[L])
  BY <1>4 DEF WholeText
<1>7. WholeText \in Seq(Clean)
  BY <1>3, <1>4, <1>5, <1>6 DEF WholeText
<1>8. GeneratedSince \in Seq(Clean)
  <2>1. \A i \in L + 1 .. n : written[i] \in Clean
    BY <1>1, <1>2
  <2>2. L + 1 \in Int /\ n \in Int
    BY <1>1
  <2>3. SubSeq(written, L + 1, n) \in Seq(Clean)
    BY <2>1, <2>2, SubSeqProperties
  <2>4. QED
    BY <2>3 DEF GeneratedSince
<1>9. Reverse(GeneratedSince) \in Seq(Clean)
  BY <1>8, ReverseType
<1>10. GeneratedSince # << >> => <<written[Len(written)]>> \in Seq(Clean)
  <2>1. CASE L < n
    <3>1. n \in 1 .. n /\ n > L
      BY <1>1, <2>1
    <3>2. written[n] \in Clean
      BY <1>2, <3>1
    <3> DEFINE last == written[n]
    <3> HIDE DEF Clean, last
    <3>3. <<last>> \in Seq(Clean)
      <4>1. last \in Clean
        BY <3>2 DEF last
      <4>2. QED
        BY <4>1
    <3>4. QED
      BY <3>3 DEF last
  <2>2. CASE L = n
    <3>1. L + 1 \in Int /\ n \in Int /\ n < L + 1
      BY <1>1, <2>2
    <3>2. QED
      BY <3>1, SubSeqEmpty DEF GeneratedSince
  <2>3. QED
    <3>1. L \in Nat /\ n \in Nat /\ L <= n
      BY <1>1
    <3> HIDE DEF L, n
    <3>2. L < n \/ L = n
      BY <3>1
    <3>3. QED
      BY <2>1, <2>2, <3>2
<1>11. LastText \in Seq(Clean)
  <2>1. WholeText \o GeneratedSince \in Seq(Clean)
    BY <1>7, <1>8, ConcatProperties
  <2>2. Reverse(GeneratedSince) \o WholeText \in Seq(Clean)
    BY <1>7, <1>9, ConcatProperties
  <2>3. QED
    BY <1>7, <1>10, <2>1, <2>2 DEF LastText
<1>12. QED
  BY <1>11, ElementOfSeq

(* The scope opens its section and the price closes its own, unless a      *)
(* person's text stands there; and one writer at a time, a regeneration    *)
(* after the last edit brings the fact back.                               *)
THEOREM FactsStayPinned == Spec => []PinnedFactStands
<1>1. HistoryInv /\ SerialInv => PinnedFactStands
  <2> SUFFICES ASSUME HistoryInv, SerialInv PROVE PinnedFactStands
    OBVIOUS
  <2>1. EditedParts = {} =>
           /\ section.key = "PROPOSED_SOLUTION" => FactPlaces = {1}
           /\ section.key = "PRICING" => FactPlaces = {Len(section.content)}
    <3>1. FactStands(section.key, section.content)
      BY DEF HistoryInv, RowsFit, Fits
    <3>2. EditedParts = {} => \A i \in DOMAIN section.content : section.content[i] \notin Edits
      BY DEF EditedParts
    <3>3. QED
      BY <3>1, <3>2 DEF FactStands, FactPlaces
  <2>2. ASSUME ~overlapped,
               \A i \in WrittenBy(Edits) : \E j \in WrittenBy(Regenerations) : i < j
        PROVE  EditedParts = {}
    <3>1. \A i \in DOMAIN LastText : LastText[i] \notin Edits
      BY <2>2, RegeneratedSinceLastEdit DEF SerialInv, HistoryTypeInv
    <3>2. section.content = LastText
      BY <2>2 DEF SerialInv, Exact
    <3>3. QED
      BY <3>1, <3>2 DEF EditedParts
  <2>3. QED
    BY <2>1, <2>2 DEF PinnedFactStands
<1>2. QED
  BY <1>1, AlwaysHistoryInv, AlwaysSerialInv, PTL

=============================================================================
