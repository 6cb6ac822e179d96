----------------------------- MODULE MessageKey -----------------------------
(***************************************************************************)
(* The key of a message: the text that says which object a request or an   *)
(* answer is about.  The service writes it from an int64_t (to_string) and *)
(* reads it back (stoll); any other producer of the topic may have written *)
(* it as it likes, or left it out.                                         *)
(***************************************************************************)
EXTENDS Integers, SequencesExt

CONSTANTS
  MaxId,    \* the greatest value of the integer; 2^63 - 1 in the code
  Others    \* characters of a key that are neither digit nor sign

ASSUME KeyAssumption == MaxId \in Nat

MinId == -MaxId - 1
Ids == MinId..MaxId

DigitSeq == <<"0", "1", "2", "3", "4", "5", "6", "7", "8", "9">>
Digits == {DigitSeq[d] : d \in 1..10}
Signs == {"+", "-"}
KeyChars == Digits \cup Signs \cup Others

-----------------------------------------------------------------------------
(* std::to_string *)

Decimal[n \in Nat] ==
  IF n < 10 THEN <<DigitSeq[n + 1]>>
  ELSE Append(Decimal[n \div 10], DigitSeq[(n % 10) + 1])

Spell(n) == IF n < 0 THEN <<"-">> \o Decimal[-n] ELSE Decimal[n]

-----------------------------------------------------------------------------
(* std::stoll *)

Sign(s) == IF s # <<>> /\ s[1] \in Signs THEN 1 ELSE 0

\* The digits after the sign, up to the first character that is none.
Leading(s) ==
  LET end == CHOOSE e \in Sign(s)..Len(s) :
               /\ \A k \in (Sign(s) + 1)..e : s[k] \in Digits
               /\ e < Len(s) => s[e + 1] \notin Digits
  IN  SubSeq(s, Sign(s) + 1, end)

DigitValue(c) == CHOOSE v \in 0..9 : DigitSeq[v + 1] = c

Value[digits \in Seq(Digits)] ==
  IF digits = <<>> THEN 0 ELSE 10 * Value[Front(digits)] + DigitValue(Last(digits))

Number(s) == IF s[1] = "-" THEN -Value[Leading(s)] ELSE Value[Leading(s)]

\* Mutant: the result is not checked against the width.
Parses_AnyWidth(s) == Leading(s) # <<>>
\* stoll throws when there is no digit and when the number does not fit.
Parses(s) == Leading(s) # <<>> /\ Number(s) \in Ids

-----------------------------------------------------------------------------
(* What ProcessMessage makes of a key. *)

\* Mutant: the sign is not expected.
MayStart_DigitOnly(c) == c \in Digits
\* The one character that is looked at before stoll.  (isdigit of a negative
\* char is undefined; stoll refuses such a key whichever way it answers.)
MayStart(c) == c \in Digits \cup Signs

\* Neither of the early returns on the key is taken.
Readable(key) == key # <<>> => MayStart(key[1]) /\ Parses(key)

\* A message without a key is about object 0.
ObjectOf(key) == IF key = <<>> THEN 0 ELSE Number(key)
=============================================================================
