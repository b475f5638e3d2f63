--------------------------- MODULE SectionHistory ---------------------------
(***************************************************************************)
(* What the system keeps about how one section came to read as it does:    *)
(* the parts of its text, its origin, its version, the number of           *)
(* regenerations charged and the log of the attempts.  Manual edits,       *)
(* regenerations and full generations each load the row, compute all of    *)
(* this from what they loaded, and commit the columns they changed; they   *)
(* may overlap.                                                            *)
(*                                                                         *)
(* A text is the sequence of its parts, and a part stands for whoever      *)
(* wrote it; Template is what intake writes, the facts on file or a        *)
(* placeholder.  Of the six keys PRICING stands for TIMELINE too, and      *)
(* INTRODUCTION for DELIVERABLES and NEXT_STEPS.  Of the proposal only     *)
(* what decides who may write is kept: EDITABLE stands for IN_REVIEW,      *)
(* PENDING_APPROVAL and APPROVED.                                          *)
(***************************************************************************)
EXTENDS Naturals, SequencesExt

CONSTANTS
    Edits, Regenerations, Generations,  \* bound: the writers, each of which writes once
    Template,                           \* the text intake puts in the section
    Unread,                             \* what a writer has loaded before it loads
    MaxRegenerationAttempts             \* 3 in the code

Writers == Edits \cup Regenerations \cup Generations

ASSUME WritersAssumption ==
    /\ Edits \cap Regenerations = {}
    /\ Generations \cap (Edits \cup Regenerations) = {}
    /\ Template \notin Writers
    /\ MaxRegenerationAttempts \in Nat

VARIABLES
    section,     \* the stored row
    status,      \* of the proposal
    phase,       \* of each writer
    loaded,      \* the row each writer in progress has loaded
    written,     \* history: the writers that committed a text, in order
    attempts,    \* history: the regenerations that finished, in order
    overlapped   \* history: two writers have been in progress at once

vars == <<section, status, phase, loaded, written, attempts, overlapped>>

ContentOrigin == {"TEMPLATE_DEFAULT", "AI_GENERATED", "HUMAN_EDITED",
                  "HUMAN_EDITED_AFTER_GENERATION"}

Attempt == [by : Regenerations, outcome : {"succeeded", "failed"}]

SectionKey == {"PROPOSED_SOLUTION", "PRICING", "INTRODUCTION"}

Part == Writers \cup {Template}

Section == [key : SectionKey, content : Seq(Part), origin : ContentOrigin,
            version : Nat, regenerations : Nat, log : Seq(Attempt)]

(* The facts are on file for as long as the proposal is: nothing writes    *)
(* them after intake.                                                      *)
PinnedPrefix == <<Template>>

Init ==
    /\ \E key \in SectionKey :
          section = [key |-> key, content |-> PinnedPrefix, origin |-> "TEMPLATE_DEFAULT",
                     version |-> 1, regenerations |-> 0, log |-> << >>]
    /\ status = "DRAFT"
    /\ phase = [w \in Writers |-> "waiting"]
    /\ loaded = [w \in Writers |-> Unread]
    /\ written = << >>
    /\ attempts = << >>
    /\ overlapped = FALSE

-----------------------------------------------------------------------------
(* What each writer makes of the row it loaded *)

AiTouched == {"AI_GENERATED", "HUMAN_EDITED_AFTER_GENERATION"}

(* Scope first, dates and prices last, the rest without a fact.            *)
Assembled(key, pinned, w) ==
    CASE key = "PROPOSED_SOLUTION" -> Append(pinned, w)
      [] key = "PRICING" -> <<w>> \o pinned
      [] OTHER -> <<w>>

(* Mutant: an edit forgets that the text was generated. *)
OriginAfterEditForgotten(current) == "HUMAN_EDITED"

(* Mutant: the origin is written with a name the enum does not have. *)
OriginAfterEditMisnamed(current) == "EDITED"

OriginAfterEdit(current) ==
    IF current \in AiTouched THEN "HUMAN_EDITED_AFTER_GENERATION" ELSE "HUMAN_EDITED"

Edited(row, w) ==
    [row EXCEPT !.content = <<w>>, !.origin = OriginAfterEdit(@), !.version = @ + 1]

(* Mutant: the log is kept newest first. *)
RegeneratedNewestFirst(row, w) ==
    [row EXCEPT !.content = Assembled(row.key, PinnedPrefix, w), !.origin = "AI_GENERATED",
                !.version = @ + 1, !.regenerations = @ + 1,
                !.log = <<[by |-> w, outcome |-> "succeeded"]>> \o @]

(* Mutant: the fact is read back from the standing text. *)
RegeneratedFromText(row, w) ==
    [row EXCEPT !.content = Assembled(row.key, @, w), !.origin = "AI_GENERATED",
                !.version = @ + 1, !.regenerations = @ + 1,
                !.log = Append(@, [by |-> w, outcome |-> "succeeded"])]

Regenerated(row, w) ==
    [row EXCEPT !.content = Assembled(row.key, PinnedPrefix, w), !.origin = "AI_GENERATED",
                !.version = @ + 1, !.regenerations = @ + 1,
                !.log = Append(@, [by |-> w, outcome |-> "succeeded"])]

(* Mutant: a failed call costs an attempt. *)
RegenerationFailedCharged(row, w) ==
    [row EXCEPT !.regenerations = @ + 1,
                !.log = Append(@, [by |-> w, outcome |-> "failed"])]

RegenerationFailed(row, w) ==
    [row EXCEPT !.log = Append(@, [by |-> w, outcome |-> "failed"])]

(* Mutant: a generation changes the text and not where it comes from. *)
GeneratedUnmarked(row, w) == [row EXCEPT !.content = Assembled(row.key, @, w)]

(* A full generation takes the standing text for the facts, and leaves the *)
(* version, the count and the log alone.                                   *)
Generated(row, w) ==
    [row EXCEPT !.content = Assembled(row.key, @, w), !.origin = "AI_GENERATED"]

CanRegenerate(row) == row.regenerations < MaxRegenerationAttempts

(* A commit writes the columns whose value is not the loaded one; the log  *)
(* is one JSON column.                                                     *)
Committed(stored, old, new) ==
    [column \in DOMAIN stored |->
        IF new[column] = old[column] THEN stored[column] ELSE new[column]]

-----------------------------------------------------------------------------
(* Writers *)

InProgress == {w \in Writers : phase[w] = "loaded"}

LoadRow(w) ==
    /\ phase' = [phase EXCEPT ![w] = "loaded"]
    /\ loaded' = [loaded EXCEPT ![w] = section]
    /\ overlapped' = (overlapped \/ InProgress # {})
    /\ UNCHANGED <<section, written, attempts>>

Done(w) ==
    /\ phase' = [phase EXCEPT ![w] = "done"]
    /\ loaded' = [loaded EXCEPT ![w] = Unread]
    /\ UNCHANGED overlapped

CommitRow(w, new) == section' = Committed(section, loaded[w], new)

CommitText(w, new) == CommitRow(w, new) /\ written' = Append(written, w)

OpenEdit(w) ==
    /\ phase[w] = "waiting" /\ status = "EDITABLE"
    /\ LoadRow(w)
    /\ UNCHANGED status

SaveEdit(w) ==
    /\ phase[w] = "loaded"
    /\ CommitText(w, Edited(loaded[w], w))
    /\ Done(w)
    /\ UNCHANGED <<status, attempts>>

RequestRegeneration(w) ==
    /\ phase[w] = "waiting" /\ status = "EDITABLE" /\ CanRegenerate(section)
    /\ phase' = [phase EXCEPT ![w] = "queued"]
    /\ UNCHANGED <<section, status, loaded, written, attempts, overlapped>>

(* The job checks the cap again, and no longer the status. *)
LoadRegeneration(w) ==
    /\ phase[w] = "queued"
    /\ \/ CanRegenerate(section) /\ LoadRow(w)
       \/ ~CanRegenerate(section) /\ Done(w) /\ UNCHANGED <<section, written, attempts>>
    /\ UNCHANGED status

RegenerationSucceeds(w) ==
    /\ phase[w] = "loaded"
    /\ CommitText(w, Regenerated(loaded[w], w))
    /\ attempts' = Append(attempts, [by |-> w, outcome |-> "succeeded"])
    /\ Done(w)
    /\ UNCHANGED status

RegenerationFails(w) ==
    /\ phase[w] = "loaded"
    /\ CommitRow(w, RegenerationFailed(loaded[w], w))
    /\ attempts' = Append(attempts, [by |-> w, outcome |-> "failed"])
    /\ Done(w)
    /\ UNCHANGED <<status, written>>

RequestGeneration(w) ==
    /\ phase[w] = "waiting"
    /\ status \in {"DRAFT", "GENERATION_FAILED", "EDITABLE"}
    /\ status' = "GENERATING"
    /\ phase' = [phase EXCEPT ![w] = "queued"]
    /\ UNCHANGED <<section, loaded, written, attempts, overlapped>>

LoadGeneration(w) == phase[w] = "queued" /\ LoadRow(w) /\ UNCHANGED status

GenerationSucceeds(w) ==
    /\ phase[w] = "loaded"
    /\ CommitText(w, Generated(loaded[w], w))
    /\ status' = "EDITABLE"
    /\ Done(w)
    /\ UNCHANGED attempts

GenerationFails(w) ==
    /\ phase[w] = "loaded"
    /\ status' = "GENERATION_FAILED"
    /\ Done(w)
    /\ UNCHANGED <<section, written, attempts>>

(* The server restarts: a request is lost and so is a job, without a trace *)
(* but the status of a generation.                                         *)
Restart ==
    /\ \E w \in Writers : phase[w] \in {"queued", "loaded"}
    /\ phase' = [w \in Writers |-> IF phase[w] \in {"queued", "loaded"} THEN "done" ELSE phase[w]]
    /\ loaded' = [w \in Writers |-> Unread]
    /\ UNCHANGED <<section, status, written, attempts, overlapped>>

Next ==
    \/ \E w \in Edits : OpenEdit(w) \/ SaveEdit(w)
    \/ \E w \in Regenerations :
          \/ RequestRegeneration(w) \/ LoadRegeneration(w)
          \/ RegenerationSucceeds(w) \/ RegenerationFails(w)
    \/ \E w \in Generations :
          \/ RequestGeneration(w) \/ LoadGeneration(w)
          \/ GenerationSucceeds(w) \/ GenerationFails(w)
    \/ Restart

Spec == Init /\ [][Next]_vars

-----------------------------------------------------------------------------
(* Properties *)

(* Every variable has the shape its column or queue gives it. *)
HistoryTypeOK ==
    /\ section \in Section
    /\ status \in {"DRAFT", "GENERATING", "GENERATION_FAILED", "EDITABLE"}
    /\ phase \in [Writers -> {"waiting", "queued", "loaded", "done"}]
    /\ loaded \in [Writers -> Section \cup {Unread}]
    /\ written \in Seq(Writers)
    /\ attempts \in Seq(Attempt)
    /\ overlapped \in BOOLEAN

WrittenBy(kind) == {i \in DOMAIN written : written[i] \in kind}

Succeeded == {i \in DOMAIN attempts : attempts[i].outcome = "succeeded"}

(* What the section ought to read as: what the last edit or regeneration   *)
(* made it, with the parts that full generations have added since.         *)
LastWhole == Max({i \in DOMAIN written : written[i] \notin Generations} \cup {0})

WholeText ==
    IF LastWhole = 0 THEN PinnedPrefix
    ELSE IF written[LastWhole] \in Edits THEN <<written[LastWhole]>>
    ELSE Assembled(section.key, PinnedPrefix, written[LastWhole])

GeneratedSince == SubSeq(written, LastWhole + 1, Len(written))

LastText ==
    CASE section.key = "PROPOSED_SOLUTION" -> WholeText \o GeneratedSince
      [] section.key = "PRICING" -> Reverse(GeneratedSince) \o WholeText
      [] OTHER -> IF GeneratedSince = << >> THEN WholeText ELSE <<written[Len(written)]>>

(* What the origin of the standing text ought to be. *)
TrueOrigin ==
    CASE written = << >> -> "TEMPLATE_DEFAULT"
      [] written # << >> /\ written[Len(written)] \notin Edits -> "AI_GENERATED"
      [] OTHER -> IF WrittenBy(Regenerations \cup Generations) = {}
                  THEN "HUMAN_EDITED" ELSE "HUMAN_EDITED_AFTER_GENERATION"

(* As long as no two writers have overlapped, the row is the exact account *)
(* of what happened to it: the last text and its origin, one version for   *)
(* each edit and each successful regeneration, a charge for each success   *)
(* only and a log entry for every attempt.                                 *)
SerialHistoryIsExact ==
    ~overlapped =>
        section = [key |-> section.key, content |-> LastText, origin |-> TrueOrigin,
                   version |-> 1 + Cardinality(WrittenBy(Edits \cup Regenerations)),
                   regenerations |-> Cardinality(Succeeded),
                   log |-> attempts]

(* Whatever overlaps, no attempt is charged that did not succeed, and no   *)
(* change is counted that did not happen.                                  *)
NeverOvercharged ==
    /\ section.regenerations <= Cardinality(Succeeded)
    /\ section.version <= 1 + Cardinality(WrittenBy(Edits \cup Regenerations))

(* Whatever overlaps, the log may forget attempts and never invents,       *)
(* repeats or reorders them, nor turns a failure into a success.           *)
LogIsTruthful ==
    \E place \in [DOMAIN section.log -> DOMAIN attempts] :
        /\ \A i \in DOMAIN section.log : section.log[i] = attempts[place[i]]
        /\ \A i, j \in DOMAIN section.log : i < j => place[i] < place[j]

(* Whatever overlaps, the template's origin goes with the template's text. *)
TemplateIsMarked == section.origin = "TEMPLATE_DEFAULT" <=> section.content = PinnedPrefix

FactPlaces == {i \in DOMAIN section.content : section.content[i] = Template}

EditedParts == {i \in DOMAIN section.content : section.content[i] \in Edits}

(* The scope opens its section and the price closes its own, once, however *)
(* often and in whatever overlap the section was generated and             *)
(* regenerated, unless a person's text stands there; and a regeneration    *)
(* after the last edit brings the fact back, if no two writers overlapped. *)
PinnedFactStands ==
    /\ EditedParts = {} =>
          /\ section.key = "PROPOSED_SOLUTION" => FactPlaces = {1}
          /\ section.key = "PRICING" => FactPlaces = {Len(section.content)}
    /\ /\ ~overlapped
       /\ \A i \in WrittenBy(Edits) : \E j \in WrittenBy(Regenerations) : i < j
       => EditedParts = {}

=============================================================================
