------------------------------ MODULE MCEqTask ------------------------------
(* Instances of EqTask, and of Answers, for TLC. *)
EXTENDS Answers
AllOps == {"+", "-", "*"}
TwoChars == {"a", "b"}
=============================================================================
