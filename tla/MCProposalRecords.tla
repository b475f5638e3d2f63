-------------------------- MODULE MCProposalRecords --------------------------
(* ProposalRecords on a small instance. *)
EXTENDS ProposalRecords

(* Two requests, one of them filled in twice with differences in case,    *)
(* spaces and punctuation; the other has a space where that has none.      *)
Letters == {"A", "a", "b", Blank, "."}
SmallLetter == [c \in Letters |-> IF c = "A" THEN "a" ELSE c]

Form(scope) ==
    [company_name |-> <<"a">>, project_scope |-> scope, respondent_email |-> <<"b">>]

TestForms == {Form(<<"A", "b">>), Form(<<Blank, "a", "b", ".", Blank>>), Form(<<"a", Blank, "b">>)}

TestKeys == {ComputeIntakeKey(form) : form \in TestForms}

(* What the theorems about intake suppose of the forms. *)
ASSUME TestFormsAreToldApart == KeysTellRequestsApart

MaxLength == 4      \* bound: characters of a text

Texts == UNION {[1 .. n -> Letters \ {"b"}] : n \in 0 .. MaxLength}

HasAWord(text) == \E i \in DOMAIN text : text[i] \notin Punctuation \cup {Blank}

(* And where it comes from: two texts with a word in them are normalised   *)
(* to the same text exactly if they read the same, so normalize_text       *)
(* neither separates what a client only spaced, capitalised or punctuated  *)
(* differently, nor joins different words.  Without a word, blanks and     *)
(* marks all come to the empty text.                                       *)
ASSUME TextsAreToldApart ==
    LET worded == {text \in Texts : HasAWord(text)}
    IN \A text, other \in worded :
          NormalizeText(text) = NormalizeText(other) <=> ReadTheSame(text, other)

(* Posts, clicks and ids are interchangeable. *)
Symmetry == Permutations(Posts) \cup Permutations(Clicks) \cup Permutations(ProposalIds)
=============================================================================
