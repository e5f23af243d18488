------------------------------ MODULE MCDrift ------------------------------
(* Instantiates Drift for model checking.  A jump may be short of the      *)
(* distance of a seek or beyond it, and in either direction.               *)
EXTENDS Drift

Biases == {-6, 0, 14}
Jumps == {-65, -25, -6, 34}
Corrections == {-5, 3}
=============================================================================
