------------------------------ MODULE MCTimer ------------------------------
(* Instances of Timer; timers are numbers, because addresses are ordered. *)
EXTENDS Timer
=============================================================================
