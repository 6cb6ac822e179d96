---------------------------- MODULE MCAnswerOrder ----------------------------
(* Two instances and two objects. *)
EXTENDS AnswerOrder, TLC

CONSTANTS i1, i2, o1, o2

TwoInstances == {i1, i2}
TwoObjects == {o1, o2}
=============================================================================
