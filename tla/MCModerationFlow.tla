-------------------------- MODULE MCModerationFlow --------------------------
(***************************************************************************)
(* Small instances of ModerationFlow for TLC.                              *)
(***************************************************************************)
EXTENDS ModerationFlow, TLC

CONSTANTS h1, h2, s1, s2, empty, clean, rude

MCIds == {0, 1, 2}
MCTexts == {empty, clean, rude}
MCFlaggedTexts == {rude}

Comment == "OBJECT_TYPE_COMMENT_TEXT"

\* A request that is forwarded, and one that the handler refuses.
Ask1 == [id |-> 1, text |-> rude, type |-> Comment]
AskZero == [id |-> 0, text |-> rude, type |-> Comment]

\* Messages of other producers: one the consumer flags, one it passes, one
\* without a key, and one it drops for its key.
Flag2 == [key |-> 2, parses |-> TRUE, text |-> rude, type |-> Comment]
Pass2 == [key |-> 2, parses |-> TRUE, text |-> clean, type |-> Comment]
Keyless == [key |-> None, parses |-> TRUE, text |-> rude, type |-> Comment]
BadlyKeyed == [key |-> BadKey, parses |-> TRUE, text |-> rude, type |-> Comment]

MCRequests == {Ask1, AskZero}
MCForeign == {Flag2, BadlyKeyed}
KeylessOrClean == {Keyless, Pass2}
OneRequest == {Ask1}
NoMessages == {}

Symmetry == Permutations({s1, s2}) \cup Permutations({h1, h2})
=============================================================================
