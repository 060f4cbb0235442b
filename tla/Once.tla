--------------------------------- MODULE Once ---------------------------------
(* A value computed once and used in many places. The argument of an operator  *)
(* is evaluated wherever the operator uses it; a bound variable is not.       *)

Once(F(_), x) == CHOOSE y \in {F(z) : z \in {x}} : TRUE
=============================================================================
