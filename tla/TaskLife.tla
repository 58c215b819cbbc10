------------------------------ MODULE TaskLife ------------------------------
(* What a scheduler promises: the life of a task.  A task is handed over    *)
(* once; then it is ready, taken by a worker it is not kept from, running   *)
(* on that worker alone, and afterwards ready again, waiting or over.  It   *)
(* may be ready before the worker has left its stack, but is taken by none  *)
(* until then.                                                              *)
CONSTANTS Fibers, Workers, Nobody, Anywhere

VARIABLES
  life,    \* what has become of a task
  bound,   \* the thread a ready task is bound to, as a set of at most one
  stack    \* the task whose stack a worker is on or about to enter

vars == <<life, bound, stack>>

Init ==
  /\ life = [f \in Fibers |-> "new"]
  /\ bound = [f \in Fibers |-> {}]
  /\ stack = [w \in Workers |-> Nobody]

Becomes(f, l) == life' = [life EXCEPT ![f] = l]

Bind(f, t) == bound' = [bound EXCEPT ![f] = {t} \ {Anywhere}]

\* The tasks workers are running.
On(w) == {f \in {stack[w]} : f \in Fibers /\ life[f] = "running"}

Submit(f, t) ==
  life[f] = "new" /\ Becomes(f, "ready") /\ Bind(f, t) /\ UNCHANGED stack

Delay(f) == life[f] = "new" /\ Becomes(f, "waiting") /\ UNCHANGED <<bound, stack>>

Take(w, f) ==
  /\ life[f] = "ready" /\ bound[f] \subseteq {w}
  /\ stack[w] = Nobody /\ \A v \in Workers : stack[v] # f
  /\ Becomes(f, "taken") /\ Bind(f, Anywhere)
  /\ stack' = [stack EXCEPT ![w] = f]

Resume(w, f) ==
  /\ stack[w] = f /\ life[f] = "taken"
  /\ Becomes(f, "running") /\ UNCHANGED <<bound, stack>>

Wait(w) == \E f \in On(w) : Becomes(f, "waiting") /\ UNCHANGED <<bound, stack>>

Yield(w, t) == \E f \in On(w) : Becomes(f, "ready") /\ Bind(f, t) /\ UNCHANGED stack

Finish(w) == \E f \in On(w) : Becomes(f, "over") /\ UNCHANGED <<bound, stack>>

SwapOut(w, f) ==
  /\ stack[w] = f /\ life[f] \notin {"taken", "running"}
  /\ stack' = [stack EXCEPT ![w] = Nobody]
  /\ UNCHANGED <<life, bound>>

\* Tasks that wait are brought back together.
Wake(S) ==
  /\ \A f \in S : life[f] = "waiting"
  /\ life' = [f \in Fibers |-> IF f \in S THEN "ready" ELSE life[f]]
  /\ UNCHANGED <<bound, stack>>

Threads == Workers \cup {Anywhere}

Next ==
  \/ \E f \in Fibers : Delay(f) \/ \E t \in Threads : Submit(f, t)
  \/ \E w \in Workers, f \in Fibers : Take(w, f) \/ Resume(w, f) \/ SwapOut(w, f)
  \/ \E w \in Workers : Wait(w) \/ Finish(w) \/ \E t \in Threads : Yield(w, t)
  \/ \E S \in SUBSET Fibers : Wake(S)

Spec == Init /\ [][Next]_vars
=============================================================================
