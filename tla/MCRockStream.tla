---- MODULE MCRockStream ----
(* Instances of RockStream: requests and messages are model values. *)
EXTENDS RockStream
====
