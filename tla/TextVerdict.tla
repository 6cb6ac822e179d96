----------------------------- MODULE TextVerdict -----------------------------
(***************************************************************************)
(* What TextProcessing promises of one text, in one step and without its   *)
(* stages: the text is flagged when more than Threshold of its words are   *)
(* forbidden, where the words are those a reader sees once the disguise is *)
(* taken off.  Two escapes are part of the promise because they are part   *)
(* of the code: a text the normalizer cannot read passes, and a call may   *)
(* throw, which gives no verdict at all.                                   *)
(***************************************************************************)
EXTENDS Naturals, FiniteSets, SequencesExt

CONSTANTS
  Chars,           \* code points
  Space,           \* U' '
  White,           \* u_isWhitespace
  Invisible,       \* the characters InvisibleCharacterNormalization skips
  Alnum,           \* u_isalnum
  Latin, Cyrillic, \* the two alphabets that are counted
  NFC(_),          \* the composed form of a text, by the Unicode library
  ToLower(_),      \* a text in lower case, by the same library
  LeetLatin, LeetCyrillic, Homoglyph,  \* the substitution tables
  ForbiddenWords,
  Threshold,       \* FORBIDDEN_WORD_THRESHOLD
  Texts,           \* the texts TextProcessing may be called with
  Unreadable,      \* the texts the normalizer reports a failure on
  Throwing         \* the texts whose processing may run out of memory

VARIABLES
  input,    \* the argument of the call
  verdict   \* "none" until the call ends, then "flagged", "passed" or "threw"

vars == <<input, verdict>>

\* Text s without the characters nobody sees.
Visible[s \in Seq(Chars)] ==
  IF s = <<>> THEN <<>>
  ELSE IF Last(s) \in Invisible THEN Visible[Front(s)]
  ELSE Append(Visible[Front(s)], Last(s))

\* The visible characters of text t in lower case, all white space alike.
Seen(t) ==
  LET seen == Visible[ToLower(NFC(t))]
  IN  [k \in DOMAIN seen |-> IF seen[k] \in White THEN Space ELSE seen[k]]

\* A run of one character counts once.
Squeezed[s \in Seq(Chars)] ==
  IF s = <<>> THEN <<>>
  ELSE IF Len(s) > 1 /\ Last(s) = Last(Front(s)) THEN Squeezed[Front(s)]
  ELSE Append(Squeezed[Front(s)], Last(s))

\* More Cyrillic letters than Latin ones.
InCyrillic(s) ==
  Cardinality({k \in DOMAIN s : s[k] \in Cyrillic})
    > Cardinality({k \in DOMAIN s : s[k] \in Latin})

\* The letter that character c stands for.
Meaning(c, cyrillic) ==
  LET table == IF ~cyrillic THEN LeetLatin
               ELSE IF c \in DOMAIN Homoglyph THEN Homoglyph ELSE LeetCyrillic
  IN  IF c \in DOMAIN table THEN table[c] ELSE c

\* The longest intervals of s that hold nothing but letters and digits.
WordsOf(s) ==
  LET letter == {k \in DOMAIN s : s[k] \in Alnum}
      first == {k \in letter : k - 1 \notin letter}
      last == {k \in letter : k + 1 \notin letter}
  IN  {w \in first \X last : w[1] <= w[2] /\ w[1]..w[2] \subseteq letter}

Flagged(t) ==
  LET plain == Squeezed[Seen(t)]
      read == [k \in DOMAIN plain |-> Meaning(plain[k], InCyrillic(plain))]
      bad == {w \in WordsOf(read) : SubSeq(read, w[1], w[2]) \in ForbiddenWords}
  IN  Cardinality(bad) > Threshold

Init == input \in Texts /\ verdict = "none"

Decide ==
  /\ verdict = "none"
  /\ input \notin Unreadable
  /\ \/ verdict' = "flagged" /\ Flagged(input)
     \/ verdict' = "passed" /\ ~Flagged(input)
  /\ UNCHANGED input

\* The library fails: the text is let through unread.
LetThrough ==
  /\ verdict = "none"
  /\ input \in Unreadable
  /\ verdict' = "passed"
  /\ UNCHANGED input

Throw ==
  /\ verdict = "none"
  /\ input \in Throwing
  /\ verdict' = "threw"
  /\ UNCHANGED input

Next == Decide \/ LetThrough \/ Throw

Spec == Init /\ [][Next]_vars
=============================================================================
