-------------------------- MODULE ModerationPromise --------------------------
(***************************************************************************)
(* What the moderation service promises to whoever reads its result topic  *)
(* and its table, without threads, queues, offsets or failures.            *)
(*                                                                         *)
(* Messages are asked on a log.  A message that is well formed may be      *)
(* answered, any number of times, always with the same answer; a flagged   *)
(* one may be recorded at most once per turn.  A turn is one assignment of *)
(* the log to a consumer: every restart or rebalance begins a new one.     *)
(* Nothing asked, answered or recorded is ever taken back, and a message   *)
(* that is not well formed is never answered nor recorded.                 *)
(***************************************************************************)
EXTENDS ModerationMessages, Sequences

CONSTANT MaxAsked      \* bound of the model on the length of the log

VARIABLES
  asked,    \* the messages of the request topic, in order
  answers,  \* the answers on the result topic
  rows,     \* the rows of moderation_records
  copies,   \* how often the message at an offset was recorded
  turns     \* how many assignments of the log there have been

vars == <<asked, answers, rows, copies, turns>>

Places == 1..MaxAsked

TypeOK ==
  /\ asked \in Seq(Message)
  /\ Len(asked) <= MaxAsked
  /\ answers \subseteq Answer
  /\ rows \subseteq Row
  /\ copies \in [Places -> Nat]
  /\ turns \in Nat

Init ==
  /\ asked = <<>>
  /\ answers = {}
  /\ rows = {}
  /\ copies = [n \in Places |-> 0]
  /\ turns = 1

Ask(m) ==
  /\ Len(asked) < MaxAsked
  /\ asked' = Append(asked, m)
  /\ UNCHANGED <<answers, rows, copies, turns>>

Reply(n) ==
  /\ Acceptable(asked[n])
  /\ answers' = answers \cup {Response(asked[n])}
  /\ UNCHANGED <<asked, rows, copies, turns>>

Record(n) ==
  /\ Acceptable(asked[n])
  /\ IsFlagged(asked[n])
  /\ copies[n] < turns
  /\ rows' = rows \cup {ModerationRecord(asked[n])}
  /\ copies' = [copies EXCEPT ![n] = @ + 1]
  /\ UNCHANGED <<asked, answers, turns>>

NewTurn ==
  /\ turns' = turns + 1
  /\ UNCHANGED <<asked, answers, rows, copies>>

Next ==
  \/ \E m \in Message : Ask(m)
  \/ \E n \in DOMAIN asked : Reply(n) \/ Record(n)
  \/ NewTurn

Spec == Init /\ [][Next]_vars
=============================================================================
