---------------------------- MODULE ProcessModes ----------------------------
(***************************************************************************)
(* The life of the process as the message path relies on it: calls begin   *)
(* only while the process is up, the consumer is stopped only when every   *)
(* call has ended, and only a process that was stopped that way, or was    *)
(* killed, is gone.  ModerationFlow and Lifecycle both implement it, the   *)
(* first with the messages in view and the second with the threads.        *)
(***************************************************************************)
CONSTANT Callers      \* the threads that serve RPCs

VARIABLES
  mode,   \* "up", "closing", "stopping" or "down"
  calls   \* the threads that are serving an RPC

vars == <<mode, calls>>

TypeOK ==
  /\ mode \in {"up", "closing", "stopping", "down"}
  /\ calls \subseteq Callers

Init == mode = "up" /\ calls = {}

Begin(c) ==
  /\ mode = "up"
  /\ c \notin calls
  /\ calls' = calls \cup {c}
  /\ UNCHANGED mode

End(c) ==
  /\ c \in calls
  /\ calls' = calls \ {c}
  /\ UNCHANGED mode

Close == mode = "up" /\ mode' = "closing" /\ UNCHANGED calls

StopConsumer ==
  /\ mode = "closing"
  /\ calls = {}
  /\ mode' = "stopping"
  /\ UNCHANGED calls

Leave == mode = "stopping" /\ mode' = "down" /\ UNCHANGED calls

Kill ==
  /\ mode # "down"
  /\ mode' = "down"
  /\ calls' = {}

Again == mode = "down" /\ mode' = "up" /\ UNCHANGED calls

Next ==
  \/ \E c \in Callers : Begin(c) \/ End(c)
  \/ Close \/ StopConsumer \/ Leave \/ Kill \/ Again

Spec == Init /\ [][Next]_vars

\* The consumer is stopped, and everything released, with no call in progress.
QuietBeforeStop == mode \in {"stopping", "down"} => calls = {}
=============================================================================
