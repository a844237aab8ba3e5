------------------------------ MODULE Question ------------------------------
(***************************************************************************)
(* Crates that decide are asked.  A state is the question with its inputs, *)
(* and what the crate keeps between two calls, if anything; the properties *)
(* are about the answer.                                                   *)
(***************************************************************************)
VARIABLE question

Init == question = [about |-> "nothing"]

Unasked == question.about = "nothing"

=============================================================================
