------------------------------- MODULE Basics -------------------------------
(* What the modules of pure decisions share. *)
EXTENDS Integers

CONSTANT None  \* a field that is not stated: Option::None

\* It is told from every number of such a field.
ASSUME NoneAssumption == None \notin Int

Stated(x) == x # None

Otherwise(x, y) == IF Stated(x) THEN x ELSE y  \* Option::unwrap_or

Min2(a, b) == IF a <= b THEN a ELSE b
Max2(a, b) == IF a >= b THEN a ELSE b

=============================================================================
