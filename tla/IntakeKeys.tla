----------------------------- MODULE IntakeKeys -----------------------------
(***************************************************************************)
(* The idempotency key of an intake form: what normalisation does to the   *)
(* three fields it is made of, and when two forms are the same request.    *)
(* A text is a sequence of characters.  SHA-256 is taken to be injective,  *)
(* so the key is what is hashed, the joined fields; a field may hold the   *)
(* mark that joins them.                                                   *)
(***************************************************************************)
EXTENDS Integers, SequencesExt

CONSTANT LowerCase      \* the lower-case form of every character that occurs

Blank == " "
Punctuation == {".", ",", ";", ":", "!"}

Stripped(text) ==
    LET solid == {i \in DOMAIN text : text[i] # Blank}
    IN IF solid = {} THEN <<>> ELSE SubSeq(text, Min(solid), Max(solid))

Lowered(text) == [i \in DOMAIN text |-> LowerCase[text[i]]]

Collapsed(text) ==
    LET AppendOnce(sofar, c) ==
            IF c = Blank /\ IsSuffix(<<Blank>>, sofar) THEN sofar ELSE Append(sofar, c)
    IN FoldLeft(AppendOnce, <<>>, text)

WithoutTrailingPunctuation(text) ==
    SubSeq(text, 1, Max({i \in DOMAIN text : text[i] \notin Punctuation} \cup {0}))

(* The blanks go before the punctuation does, so a mark that stands alone  *)
(* at the end leaves a trailing blank behind.                              *)
NormalizeText(text) == WithoutTrailingPunctuation(Collapsed(Lowered(Stripped(text))))

ComputeIntakeKey(form) ==
    NormalizeText(form.company_name) \o <<"|">> \o NormalizeText(form.project_scope)
        \o <<"|">> \o NormalizeText(form.respondent_email)

-----------------------------------------------------------------------------
(* What the key is for, said without the pipeline *)

(* The words of a text, in lower case. *)
WordsOf(text) ==
    LET AddTo(words, c) ==
            IF c = Blank THEN Append(words, <<>>)
            ELSE [words EXCEPT ![Len(words)] = Append(@, LowerCase[c])]
    IN SelectSeq(FoldLeft(AddTo, << <<>> >>, text), LAMBDA word : word # <<>>)

(* Two texts read the same: word for word, up to case and to the marks     *)
(* that end the last word.  A mark that stands alone is a word.            *)
ReadTheSame(text, other) ==
    LET v == WordsOf(text)
        w == WordsOf(other)
    IN /\ Len(v) = Len(w)
       /\ \A i \in DOMAIN v :
             \/ v[i] = w[i]
             \/ /\ i = Len(v)
                /\ WithoutTrailingPunctuation(v[i]) = WithoutTrailingPunctuation(w[i])

SameRequest(form, other) ==
    \A field \in {"company_name", "project_scope", "respondent_email"} :
        ReadTheSame(form[field], other[field])

=============================================================================
