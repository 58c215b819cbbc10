---- MODULE MCIoManager ----
(* Instances of IoManager.  One direction per descriptor for what holds;   *)
(* both directions on one descriptor for what does not.                    *)
EXTENDS IoManager, TLC

TwoFds == (1 :> {"READ"}) @@ (2 :> {"WRITE"})
BothWays == 1 :> Kinds
====
