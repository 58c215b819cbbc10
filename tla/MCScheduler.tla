---- MODULE MCScheduler ----
(* Instances of Scheduler: with and without use_caller, one worker or two. *)
EXTENDS Scheduler

CONSTANTS w1, w2, w3

\* w1 is the caller.
OneOrTwo == {{w1, w2}, {w1}, {w2}}
Two      == {{w1, w2}, {w2, w3}}
NoCaller == {{w2, w3}}

FiberSymmetry == Permutations(Fibers)
====
