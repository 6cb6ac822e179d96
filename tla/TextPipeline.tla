---------------------------- MODULE TextPipeline ----------------------------
(***************************************************************************)
(* One call of TextProcessing: the stages a text goes through until the    *)
(* number of forbidden words in it is compared with the threshold.  Every  *)
(* stage is a loop over the characters of what the previous stage left,    *)
(* and a step of this module is one turn of such a loop.                   *)
(*                                                                         *)
(* A character is a code point: the UTF-8 and UTF-16 forms the code keeps  *)
(* converting between hold the same code points, as fromUTF8 replaces what *)
(* is not one.  The Unicode library is a parameter: NFC, ToLower, White    *)
(* and Alnum say what it answers.                                          *)
(***************************************************************************)
EXTENDS Naturals, Sequences, FiniteSets, FiniteSetsExt

CONSTANTS
  Chars,           \* code points
  Nul,             \* code point 0, where prevChar of RepetitionNormalization starts
  Space,           \* U' '
  White,           \* u_isWhitespace
  Invisible,       \* the characters InvisibleCharacterNormalization skips
  Alnum,           \* u_isalnum
  Latin, Cyrillic, \* the ranges of unicode_constants.hpp
  NFC(_),          \* the composed form of a text, by the Unicode library
  ToLower(_),      \* a text in lower case, which may be longer: the library's too
  LeetLatin, LeetCyrillic, Homoglyph,  \* leetMapLatin, leetMapCyrillic, homoglyphMap
  ForbiddenWords,
  Threshold,       \* FORBIDDEN_WORD_THRESHOLD
  Texts,           \* the texts TextProcessing may be called with
  Unreadable,      \* the texts the normalizer reports a failure on
  Throwing         \* the texts whose processing may run out of memory

\* A substitution table: it neither reads nor writes white space, and writes
\* nothing invisible.
IsTable(t) ==
  /\ DOMAIN t \subseteq Chars \ White
  /\ \A c \in DOMAIN t : t[c] \in Chars \ (White \cup Invisible)

ASSUME TextAssumption ==
  /\ {Nul, Space} \cup White \cup Invisible \cup Alnum \cup Latin \cup Cyrillic
       \subseteq Chars
  /\ Space \in White
  /\ Space \notin Invisible
  /\ Nul \notin White \cup Alnum \cup Latin \cup Cyrillic
  /\ Nul \notin DOMAIN LeetLatin \cup DOMAIN LeetCyrillic \cup DOMAIN Homoglyph
  /\ White \cap (Alnum \cup Latin \cup Cyrillic) = {}
  /\ Latin \cap Cyrillic = {}
  /\ Texts \subseteq Seq(Chars)
  /\ \A t \in Texts : ToLower(NFC(t)) \in Seq(Chars)
  /\ IsTable(LeetLatin) /\ IsTable(LeetCyrillic) /\ IsTable(Homoglyph)
  /\ Threshold \in Nat
  /\ Unreadable \subseteq Texts /\ Throwing \subseteq Texts

VARIABLES
  stage,    \* the function TextProcessing is in
  input,    \* textN
  text,     \* the text the stage reads
  i,        \* the position its loop is at
  result,   \* the text the stage writes
  cyr, lat, \* cyrillicCount, latinCount
  cyrillic, \* AlphabetOrientation
  word,     \* currentWord of Tokenize
  tokens,   \* wordTokens
  verdict   \* what the caller gets

vars == <<stage, input, text, i, result, cyr, lat, cyrillic, word, tokens, verdict>>

Stages == {"normalize", "invisible", "whitespace", "repetition", "orient", "leet",
           "tokenize", "check", "done"}

TypeOK ==
  /\ stage \in Stages
  /\ input \in Seq(Chars)
  /\ text \in Seq(Chars)
  /\ i \in 1..(Len(text) + 1)
  /\ result \in Seq(Chars)
  /\ cyr \in 0..(i - 1) /\ lat \in 0..(i - 1)
  /\ cyrillic \in BOOLEAN
  /\ word \in Seq(Alnum)
  /\ tokens \in Seq(Seq(Alnum) \ {<<>>})
  /\ verdict \in {"none", "flagged", "passed", "threw"}

Init ==
  /\ stage = "normalize"
  /\ input \in Texts
  /\ text = <<>> /\ i = 1 /\ result = <<>>
  /\ cyr = 0 /\ lat = 0 /\ cyrillic = FALSE
  /\ word = <<>> /\ tokens = <<>>
  /\ verdict = "none"

-----------------------------------------------------------------------------
(***************************************************************************)
(* The loops.  At(s): the loop of stage s is at a character.  Over(s): it  *)
(* has none left.                                                          *)
(***************************************************************************)

At(s) == stage = s /\ i <= Len(text)
Over(s) == stage = s /\ i > Len(text)
Character == text[i]

\* A loop that writes a text.  Mutant: a skipped character is not stepped over.
Write_Stuck(s, kept) ==
  /\ At(s)
  /\ result' = result \o kept
  /\ i' = IF kept = <<>> THEN i ELSE i + 1
  /\ UNCHANGED <<stage, input, text, cyr, lat, cyrillic, word, tokens, verdict>>
Write(s, kept) ==
  /\ At(s)
  /\ result' = result \o kept
  /\ i' = i + 1
  /\ UNCHANGED <<stage, input, text, cyr, lat, cyrillic, word, tokens, verdict>>

\* text = Stage(text): the next stage reads what this one wrote.  Mutant: the
\* buffer is not emptied before the next stage writes.
HandOver_Uncleared(s, next) ==
  /\ Over(s)
  /\ stage' = next
  /\ text' = result
  /\ i' = 1
  /\ UNCHANGED <<input, result, cyr, lat, cyrillic, word, tokens, verdict>>
HandOver(s, next) ==
  /\ Over(s)
  /\ stage' = next
  /\ text' = result
  /\ result' = <<>>
  /\ i' = 1
  /\ UNCHANGED <<input, cyr, lat, cyrillic, word, tokens, verdict>>

-----------------------------------------------------------------------------
(***************************************************************************)
(* TextNormalization: compose, lower the case, trim both ends.             *)
(***************************************************************************)

\* UnicodeString::trim
Trimmed(s) ==
  LET solid == {k \in DOMAIN s : s[k] \notin White}
  IN  IF solid = {} THEN <<>> ELSE SubSeq(s, Min(solid), Max(solid))

Normalize ==
  /\ stage = "normalize"
  /\ input \notin Unreadable
  /\ stage' = "invisible"
  /\ \E s \in {ToLower(NFC(input))} : text' = Trimmed(s)
  /\ UNCHANGED <<input, i, result, cyr, lat, cyrillic, word, tokens, verdict>>

\* getNFCInstance or normalize reports a failure: the stage returns "".
NormalizerFails ==
  /\ stage = "normalize"
  /\ input \in Unreadable
  /\ stage' = "invisible"
  /\ text' = <<>>
  /\ UNCHANGED <<input, i, result, cyr, lat, cyrillic, word, tokens, verdict>>

-----------------------------------------------------------------------------
(***************************************************************************)
(* InvisibleCharacterNormalization, WhitespaceNormalization and            *)
(* RepetitionNormalization.  prev_space and prevChar are functions of what *)
(* has been written: the first says that it ends in a space, the second is *)
(* its last character.                                                     *)
(***************************************************************************)

SkipInvisible ==
  Write("invisible", IF Character \in Invisible THEN <<>> ELSE <<Character>>)

PrevSpace == result # <<>> /\ result[Len(result)] = Space

\* Mutant: prev_space is never set, so every white character writes a space.
JoinWhite_EachOne ==
  Write("whitespace",
        IF Character \notin White THEN <<Character>>
        ELSE IF result # <<>> THEN <<Space>> ELSE <<>>)
JoinWhite ==
  Write("whitespace",
        IF Character \notin White THEN <<Character>>
        ELSE IF ~PrevSpace /\ result # <<>> THEN <<Space>> ELSE <<>>)

PrevChar == IF result = <<>> THEN Nul ELSE result[Len(result)]

SkipRepeated ==
  Write("repetition", IF Character = PrevChar THEN <<>> ELSE <<Character>>)

\* The calls of TextProcessing, in order.
NextText ==
  \/ HandOver("invisible", "whitespace")
  \/ HandOver("whitespace", "repetition")
  \/ HandOver("repetition", "orient")
  \/ HandOver("leet", "tokenize")

-----------------------------------------------------------------------------
(***************************************************************************)
(* IsPrimarilyCyrillic and LeetspeakNormalization.                         *)
(***************************************************************************)

CountAlphabet ==
  /\ At("orient")
  /\ i' = i + 1
  /\ cyr' = IF Character \in Cyrillic THEN cyr + 1 ELSE cyr
  /\ lat' = IF Character \in Latin THEN lat + 1 ELSE lat
  /\ UNCHANGED <<stage, input, text, result, cyrillic, word, tokens, verdict>>

\* A tie counts as Latin.  Mutant: a tie counts as Cyrillic.
Orient_Tie ==
  /\ Over("orient")
  /\ stage' = "leet"
  /\ cyrillic' = (cyr >= lat)
  /\ i' = 1 /\ cyr' = 0 /\ lat' = 0
  /\ UNCHANGED <<input, text, result, word, tokens, verdict>>
Orient ==
  /\ Over("orient")
  /\ stage' = "leet"
  /\ cyrillic' = (cyr > lat)
  /\ i' = 1 /\ cyr' = 0 /\ lat' = 0
  /\ UNCHANGED <<input, text, result, word, tokens, verdict>>

Lookup(table, c, otherwise) == IF c \in DOMAIN table THEN table[c] ELSE otherwise

\* Mutant: in Cyrillic text only the digits and signs are replaced.
Substitute_NoHomoglyph(c) ==
  IF cyrillic THEN Lookup(LeetCyrillic, c, c) ELSE Lookup(LeetLatin, c, c)
\* A look-alike letter is replaced before the Cyrillic table is consulted.
Substitute(c) ==
  IF cyrillic THEN Lookup(Homoglyph, c, Lookup(LeetCyrillic, c, c))
  ELSE Lookup(LeetLatin, c, c)

Unleet == Write("leet", <<Substitute(Character)>>)

-----------------------------------------------------------------------------
(***************************************************************************)
(* Tokenize and WordChecking.                                              *)
(***************************************************************************)

\* tokens with the current word at its end, if there is one.  Mutant: an empty
\* word is a token too.
WithWord_Empty == Append(tokens, word)
WithWord == IF word = <<>> THEN tokens ELSE Append(tokens, word)

\* A letter or digit goes to the current word, anything else ends it.
Tokenize ==
  /\ At("tokenize")
  /\ i' = i + 1
  /\ IF Character \in Alnum
       THEN word' = Append(word, Character) /\ UNCHANGED tokens
       ELSE word' = <<>> /\ tokens' = WithWord
  /\ UNCHANGED <<stage, input, text, result, cyr, lat, cyrillic, verdict>>

LastWord ==
  /\ Over("tokenize")
  /\ stage' = "check"
  /\ word' = <<>>
  /\ tokens' = WithWord
  /\ UNCHANGED <<input, text, i, result, cyr, lat, cyrillic, verdict>>

WordChecking ==
  /\ stage = "check"
  /\ stage' = "done"
  /\ verdict' = IF Cardinality({k \in DOMAIN tokens : tokens[k] \in ForbiddenWords})
                     > Threshold
                THEN "flagged" ELSE "passed"
  /\ UNCHANGED <<input, text, i, result, cyr, lat, cyrillic, word, tokens>>

\* An allocation fails: ProcessMessage catches what is thrown and drops the
\* message.
Throws ==
  /\ input \in Throwing
  /\ stage # "done"
  /\ stage' = "done"
  /\ verdict' = "threw"
  /\ UNCHANGED <<input, text, i, result, cyr, lat, cyrillic, word, tokens>>

\* The call as it goes when nothing throws.
Forward ==
  \/ Normalize \/ NormalizerFails
  \/ SkipInvisible \/ JoinWhite \/ SkipRepeated
  \/ NextText
  \/ CountAlphabet \/ Orient \/ Unleet
  \/ Tokenize \/ LastWord \/ WordChecking

Next == Forward \/ Throws

Spec == Init /\ [][Next]_vars

-----------------------------------------------------------------------------
(***************************************************************************)
(* Properties                                                              *)
(***************************************************************************)

HasInvisible(s) == \E k \in DOMAIN s : s[k] \in Invisible

\* White space is written as a space, and never twice in a row.
Spaced(s) ==
  /\ \A k \in DOMAIN s : s[k] \in White => s[k] = Space
  /\ \A k \in DOMAIN s : k > 1 => ~(s[k - 1] \in White /\ s[k] \in White)

Unrepeated(s) == \A k \in DOMAIN s : k > 1 => s[k - 1] # s[k]

\* The stages rely on one another, in the order TextProcessing calls them: what
\* one of them has removed, no later one brings back.  Invisible characters
\* stay away, white space stays single while repetitions are dropped and signs
\* replaced, and what the orientation is counted over has no repetition.
NothingUndone ==
  /\ stage \in {"whitespace", "repetition", "orient", "leet", "tokenize", "check"}
       => ~HasInvisible(text)
  /\ stage \in {"repetition", "orient", "leet", "tokenize", "check"} => Spaced(text)
  /\ stage \in {"orient", "leet"} => Unrepeated(text)

\* The loops after the one of a stage.  Each takes a turn for every character of
\* its text and one to end.
LoopsAfter ==
  [invisible |-> 5, whitespace |-> 4, repetition |-> 3, orient |-> 2, leet |-> 1,
   tokenize |-> 0]

Ahead == Len(text) + 1 - i

\* At most this long is the text that the next stage reads.
LongestNext == IF stage = "orient" THEN Len(text) ELSE Len(result) + Ahead

\* How many turns the call can still take; once the text is composed and in lower
\* case, six for each of its characters and eight in all.
TurnsLeft ==
  CASE stage = "normalize" -> 6 * (Len(ToLower(NFC(input))) + 1) + 2
    [] stage = "check" -> 1
    [] stage = "done" -> 0
    [] OTHER -> Ahead + 2 + LoopsAfter[stage] * (LongestNext + 1)

\* The stages, loop by loop, decide what the one-step specification decides: a
\* text is flagged exactly when the normalizer can read it and more than
\* Threshold of the words in it are forbidden, unless the call throws.
Verdict == INSTANCE TextVerdict
ImplementsVerdict == Verdict!Spec
=============================================================================
