-------------------------- MODULE MCProcessMessage --------------------------
(***************************************************************************)
(* An instance of ProcessMessage over the tables, the vocabulary and the   *)
(* threshold of the code.  The messages are of three families: every short *)
(* key, with a text of one letter; every payload, with a few keys; and     *)
(* texts of three families of their own: disguised words, one word in      *)
(* every spelling of a small alphabet written four times over, and every   *)
(* short text of characters of every kind.                                 *)
(***************************************************************************)
EXTENDS ProcessMessage, TextTables, TLC

-----------------------------------------------------------------------------
(* Disguised texts.  A form is a way to write a word; all words of a text  *)
(* but the last are written in one form.                                   *)

Bad == [latin |-> {
    <<"g", "a", "y">>, <<"G", "A", "Y">>, <<"9", "@", "y">>, <<"6", "^", "y">>,
    <<"g", "a", "a", "a", "y">>,
    <<"g", "ZERO_WIDTH_SPACE", "a", "ZERO_WIDTH_SPACE", "BIDI_MARKER", "y">>},
  cyrillic |-> {
    <<"ru_sh", "ru_u", "ru_t", "ru_k", "ru_a">>,
    <<"RU_SH", "ru_u", "ru_t", "RU_K", "ru_a">>,
    <<"ru_sh", "y", "ru_t", "ru_k", "a">>,
    <<"ru_sh", "ru_u", "ru_t", "ru_t", "ru_k", "@">>,
    <<"ru_e", "6", "ru_l", "SOFT_HYPHEN", "ru_a", "ru_n">>}]

Good == [latin |-> {<<"d", "a", "y">>, <<"g", "a", "y", "s">>},
         cyrillic |-> {<<"ru_ch", "ru_a", "ru_ch">>, <<"ru_sh", "ru_u", "ru_t">>}]

Separators == {<<" ">>, <<"NL">>, <<",", " ", "NL", " ">>, <<".">>}

Samples ==
  UNION {[script : {s}, n : 3..5, most : Bad[s] \cup Good[s], last : Bad[s] \cup Good[s],
          between : Separators] : s \in {"latin", "cyrillic"}}

\* Sequence w, n times over.
Times(w, n) == [k \in 1..(n * Len(w)) |-> w[((k - 1) % Len(w)) + 1]]

WordIn(sample, k) == IF k < sample.n THEN sample.most ELSE sample.last

TextOf(sample) == Times(sample.most \o sample.between, sample.n - 1) \o sample.last

TooMany(sample) ==
  Cardinality({k \in 1..sample.n : WordIn(sample, k) \in Bad[sample.script]}) > Threshold

DisguisedTexts == {TextOf(s) : s \in Samples}
Offending == {TextOf(s) : s \in {x \in Samples : TooMany(x)}}

-----------------------------------------------------------------------------
(* One word four times, so that it counts; and as many Latin as Cyrillic   *)
(* letters, or one more.                                                   *)

FourTimes(w) == Times(w \o <<" ">>, 4)

Spellings ==
  [1..3 -> {"g", "9", "a", "@", "y", "ru_a", "ZERO_WIDTH_SPACE", " "}]
    \cup [1..4 -> {"g", "a", "y", "ZERO_WIDTH_SPACE"}]

Balance == <<"ru_sh", "y", "ru_t", "ru_k", "a">>
Balanced ==
  {FourTimes(Balance) \o tail : tail \in {<<"d", "a", "r", "n">>, <<"d", "a", "r">>,
                                         <<"d", "a", "r", "n", "s">>}}

RepeatedTexts == {FourTimes(w) : w \in Spellings} \cup Balanced

-----------------------------------------------------------------------------
(* Short texts; "ru_i" and the breve compose to "ru_y", and "I_DOT" is     *)
(* U+0130, two characters in lower case.                                   *)

ShortChars == {"a", "A", "@", "ru_a", "ru_i", "BREVE", "I_DOT", "ZERO_WIDTH_SPACE",
               "LINE_SEPARATOR", "NL", " ", "NUL"}
ShortTexts == BoundedSeq(ShortChars, 3)

AllTexts == ShortTexts \cup RepeatedTexts \cup DisguisedTexts

Compose(s) ==
  LET Marks(k) == k > 1 /\ s[k] = "BREVE" /\ s[k - 1] = "ru_i"
      pairs == [k \in DOMAIN s |->
                  <<IF k < Len(s) /\ Marks(k + 1) THEN "ru_y" ELSE s[k], Marks(k)>>]
      Stays(pair) == ~pair[2]
      kept == SelectSeq(pairs, Stays)
  IN  [k \in DOMAIN kept |-> kept[k][1]]

Capitals == "G" :> "g" @@ "A" :> "a" @@ "Y" :> "y" @@ "RU_SH" :> "ru_sh" @@ "RU_K" :> "ru_k"

AllLatin == LatinLetters \cup {"G", "A", "Y"}
AllCyrillic == CyrillicLetters \cup {"RU_SH", "RU_K", "ru_i", "ru_y"}
AllAlnum == AllLatin \cup AllCyrillic \cup Digits \cup {"I_DOT"}
AllChars == AllAlnum \cup LeetSigns \cup {",", ".", "BREVE", "DOT_ABOVE", "NUL"} \cup white \cup invisible

InLowerCase(s) ==
  LET Lower(c) == IF c \in DOMAIN Capitals THEN <<Capitals[c]>>
                  ELSE IF c = "I_DOT" THEN <<"i", "DOT_ABOVE">> ELSE <<c>>
  IN  FoldLeft(LAMBDA t, c : t \o Lower(c), <<>>, s)

\* Some texts the normalizer cannot read, and some on which memory runs out.
SomeUnreadable == {t \in AllTexts : t # <<>> /\ t[1] \in {"6", "BREVE"}}
SomeThrowing == {t \in AllTexts : Len(t) = 2 \/ t \in Balanced}

-----------------------------------------------------------------------------
Described(k, p, w, t) ==
  [key |-> k, parses |-> p, text |-> w, type |-> t]

Comment == "OBJECT_TYPE_COMMENT_TEXT"

KeyMessages == {Described(k, TRUE, <<"a">>, Comment) : k \in BoundedSeq(KeyChars, 3)}

Messages ==
  KeyMessages
    \cup {Described(k, p, <<"a">>, t) :
             k \in {<<>>, <<"7">>, <<"-", "3">>, <<"b">>}, p \in BOOLEAN, t \in WireTypes}
    \cup {Described(<<"7">>, TRUE, t, Comment) : t \in AllTexts}

-----------------------------------------------------------------------------
\* With the tables of the code, a disguise is seen through: forbidden words in
\* capitals, stretched, split by invisible characters, spelled with signs or
\* with the letters of the other alphabet, and separated by any white space or
\* by signs that are no letters, are counted as if written plainly, and words
\* that only contain or begin a forbidden word are not.
SeenThrough ==
  verdict \in {"flagged", "passed"} /\ input \in DisguisedTexts \ Unreadable =>
    (verdict = "flagged" <=> input \in Offending)
=============================================================================
