---------------------------- MODULE MCTokenizer -----------------------------
(***************************************************************************)
(* Texts for model checking Tokenizer.                                     *)
(***************************************************************************)
EXTENDS Tokenizer

(* Sequences over S of length n. *)
Strings(S, n) == [1..n -> S]

MCLetters == {"a", "e"}
MCDigits == {"1"}
MCSpacing == {"SP"}
MCKeywords == {<<"a">>}
MCBoolLiterals == {<<"e", "a">>}

(* Every text of up to four characters of every kind, and longer ones made   *)
(* of the characters of numbers, of symbols and comments, of line ends.      *)
LexemeTexts ==
    UNION {Strings({"a", "e", "1", ".", "SP", LF, CR, "/", "=", "<", "!", "$"}, n)
              : n \in 0..4}
        \cup Strings({"1", ".", "e", "a"}, 5)
        \cup Strings({"/", "=", "<", LF}, 5)
        \cup Strings({"a", CR, LF, "SP"}, 5)

(* Runs of "<", up to the seven that begin a merge marker. *)
MergeTexts == UNION {Strings({"<"}, n) : n \in 1..7} \cup Strings({"<", "a"}, 7)

Spaces(n) == [i \in 1..n |-> "SP"]

(* A line: up to three spaces and nothing, a word or a comment. *)
Lines ==
    {Spaces(n) \o rest : n \in 0..3, rest \in {<<>>, <<"a">>, <<"/", "/">>}}

(* A word, then up to three lines of every indentation, ended or not. *)
LayoutTexts ==
    {<<"a">> \o l1 \o l2 \o l3 :
        l1 \in {<<LF>> \o l : l \in Lines},
        l2 \in {<<>>} \cup {<<LF>> \o l : l \in Lines},
        l3 \in {<<>>, <<LF>>} \cup {<<LF>> \o l : l \in Lines}}

(* One more level: words only, after spaces. *)
DeepTexts ==
    {<<"a", LF>> \o Spaces(a) \o <<"a", LF>> \o Spaces(b) \o <<"a", LF>>
         \o Spaces(c) \o <<"a", LF>> \o Spaces(d) \o <<"a">> :
        a \in 1..3, b \in 0..4, c \in 0..4, d \in 0..4}

MCLayoutTexts == LayoutTexts \cup DeepTexts

MCTexts == LexemeTexts \cup MergeTexts \cup MCLayoutTexts
=============================================================================
