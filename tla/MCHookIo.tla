---- MODULE MCHookIo ----
(* Instances of HookIo: all constants are given in the configurations. *)
EXTENDS HookIo
====
