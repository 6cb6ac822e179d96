----------------------------- MODULE TextTables -----------------------------
(***************************************************************************)
(* The tables of constants.cpp and unicode_constants.hpp.  A character is  *)
(* named by itself where it is ASCII; a Cyrillic letter is named by "ru_"  *)
(* and its usual transliteration, a format character by its constant.      *)
(***************************************************************************)
EXTENDS Naturals

\* A table from rows <<what is written, the characters it stands in for>>.
Table(rows) ==
  [c \in UNION {r[2] : r \in rows} |-> (CHOOSE r \in rows : c \in r[2])[1]]

leetMapLatin == Table({
  <<"a", {"^", "4", "&", "@", "*"}>>, <<"b", {"8"}>>, <<"c", {"[", "(", "{", "<"}>>,
  <<"d", {")", ">"}>>, <<"e", {"3"}>>, <<"g", {"6", "9"}>>, <<"h", {"#"}>>,
  <<"i", {"!", "1", "|"}>>, <<"l", {"/"}>>, <<"n", {"~"}>>, <<"o", {"0", "%"}>>,
  <<"s", {"5", "$"}>>, <<"t", {"7", "+"}>>})

leetMapCyrillic == Table({
  <<"ru_o", {"0"}>>, <<"ukr_i", {"1", "|"}>>, <<"ru_z", {"3", "$"}>>,
  <<"ru_ch", {"4"}>>, <<"mk_dz", {"5"}>>, <<"ru_b", {"6"}>>, <<"ru_v", {"8"}>>,
  <<"ru_ya", {"9"}>>, <<"ru_a", {"@"}>>, <<"ru_g", {"/"}>>})

homoglyphMap == Table({
  <<"ru_a", {"a"}>>, <<"ru_e", {"e"}>>, <<"ru_o", {"o"}>>, <<"ru_r", {"p"}>>,
  <<"ru_s", {"c"}>>, <<"ru_u", {"y"}>>, <<"ru_h", {"x"}>>, <<"ru_k", {"k"}>>,
  <<"ru_v", {"b"}>>, <<"ru_n", {"h"}>>, <<"ru_m", {"m"}>>, <<"ru_t", {"t"}>>})

LeetSigns == DOMAIN leetMapLatin \cup DOMAIN leetMapCyrillic

\* InitializeForbiddenWords
forbiddenWords ==
  {<<"g", "a", "y">>,
   <<"ru_e", "ru_b", "ru_l", "ru_a", "ru_n">>,
   <<"ru_sh", "ru_u", "ru_t", "ru_k", "ru_a">>}

FORBIDDEN_WORD_THRESHOLD == 3

LineBreaks == {"LINE_SEPARATOR", "PARAGRAPH_SEPARATOR"}

\* What InvisibleCharacterNormalization skips.
invisible ==
  {"ZERO_WIDTH_SPACE", "ZERO_WIDTH_NON_JOINER", "ZERO_WIDTH_JOINER",
   "LEFT_TO_RIGHT_MARK", "RIGHT_TO_LEFT_MARK", "ZERO_WIDTH_NO_BREAK_SPACE",
   "WORD_JOINER", "FUNCTION_APPLICATION", "INVISIBLE_TIMES",
   "INVISIBLE_SEPARATOR", "INVISIBLE_PLUS", "SOFT_HYPHEN",
   "COMBINING_GRAPHEME_JOINER", "ARABIC_LETTER_MARK",
   "MONGOLIAN_VOWEL_SEPARATOR", "BIDI_MARKER"} \cup LineBreaks

\* u_isWhitespace, of the characters named here.
white == {" ", "NL"} \cup LineBreaks

\* The alphabets that are counted: the letters that occur in the tables and
\* the vocabulary.
LatinLetters ==
  {"a", "b", "c", "d", "e", "f", "g", "h", "i", "j", "k", "l", "m", "n", "o", "p",
   "q", "r", "s", "t", "u", "v", "w", "x", "y", "z"}
CyrillicLetters ==
  {"ru_a", "ru_b", "ru_v", "ru_g", "ru_e", "ru_z", "ru_k", "ru_l", "ru_m", "ru_n",
   "ru_o", "ru_r", "ru_s", "ru_t", "ru_u", "ru_h", "ru_ch", "ru_sh", "ru_ya",
   "ukr_i", "mk_dz"}
=============================================================================
