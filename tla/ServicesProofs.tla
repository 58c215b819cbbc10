---------------------------- MODULE ServicesProofs ----------------------------
(***************************************************************************)
(* Proofs about the components that MCServices puts side by side, each for *)
(* any value of its constants: the worker group, service discovery, the    *)
(* statistics of a holder and the load balancer.                           *)
(***************************************************************************)
EXTENDS MCServices, SequenceTheorems, FiniteSetTheorems, TLAPS

-----------------------------------------------------------------------------
(***************************************************************************)
(* WorkerGroup: for any set of fibers, number of tokens and vectors        *)
(***************************************************************************)
HeldBy(t) == UNION {{f} \X (1..t[f]) : f \in Fibers}

LEMMA HeldHas ==
  ASSUME NEW t, NEW p
  PROVE  p \in HeldBy(t) <=> \E f \in Fibers : \E i \in 1..t[f] : p = <<f, i>>
  BY DEF HeldBy

\* n tokens of one fiber
LEMMA BlockSize ==
  ASSUME NEW f, NEW n \in Nat
  PROVE  IsFiniteSet({f} \X (1..n)) /\ Cardinality({f} \X (1..n)) = n
<1>1. IsFiniteSet(1..n) /\ Cardinality(1..n) = n
  BY FS_Interval
<1>2. ExistsBijection(1..n, {f} \X (1..n))
  <2> DEFINE b == [i \in 1..n |-> <<f, i>>]
  <2>1. b \in [1..n -> {f} \X (1..n)]
    OBVIOUS
  <2>2. \A i, j \in 1..n : b[i] = b[j] => i = j
    OBVIOUS
  <2>3. \A p \in {f} \X (1..n) : \E i \in 1..n : b[i] = p
    OBVIOUS
  <2>4. b \in Bijection(1..n, {f} \X (1..n))
    BY <2>1, <2>2, <2>3 DEF Bijection, Injection, Surjection, IsInjective
  <2>5. QED BY <2>4 DEF ExistsBijection
<1>3. QED BY <1>1, <1>2, FS_Bijection

\* A fiber takes one more token ...
LEMMA HeldMore ==
  ASSUME NEW t \in [Fibers -> Nat], NEW f \in Fibers, IsFiniteSet(HeldBy(t))
  PROVE  /\ IsFiniteSet(HeldBy([t EXCEPT ![f] = @ + 1]))
         /\ Cardinality(HeldBy([t EXCEPT ![f] = @ + 1])) = Cardinality(HeldBy(t)) + 1
<1> PICK e : e = <<f, t[f] + 1>>
  OBVIOUS
<1> PICK u : u = [t EXCEPT ![f] = @ + 1]
  OBVIOUS
<1>1. e \notin HeldBy(t)
  BY HeldHas
<1>2. HeldBy(u) = HeldBy(t) \cup {e}
  <2>1. ASSUME NEW p \in HeldBy(u) PROVE p \in HeldBy(t) \cup {e}
    <3>1. PICK g \in Fibers : p \in {g} \X (1..u[g])
      BY DEF HeldBy
    <3>2. PICK i \in 1..u[g] : p = <<g, i>>
      BY <3>1
    <3>3. i \in 1..t[g] \/ (g = f /\ i = t[f] + 1)
      BY <3>2
    <3>4. QED BY <3>2, <3>3, HeldHas
  <2>2. ASSUME NEW p \in HeldBy(t) PROVE p \in HeldBy(u)
    <3>1. PICK g \in Fibers : \E i \in 1..t[g] : p = <<g, i>>
      BY HeldHas
    <3>2. PICK i \in 1..t[g] : p = <<g, i>>
      BY <3>1
    <3>3. i \in 1..u[g]
      BY <3>2
    <3>4. QED BY <3>2, <3>3, HeldHas
  <2>3. e \in HeldBy(u)
    <3>1. t[f] + 1 \in 1..u[f]
      OBVIOUS
    <3>2. QED BY <3>1, HeldHas
  <2>4. QED BY <2>1, <2>2, <2>3
<1>3. IsFiniteSet(HeldBy(u)) /\ Cardinality(HeldBy(u)) = Cardinality(HeldBy(t)) + 1
  <2>1. PICK H : H = HeldBy(t)
    OBVIOUS
  <2>2. IsFiniteSet(H) /\ e \notin H
    BY <1>1, <2>1
  <2>3. IsFiniteSet(H \cup {e}) /\ Cardinality(H \cup {e}) = Cardinality(H) + 1
    BY <2>2, FS_AddElement
  <2>4. QED BY <1>2, <2>1, <2>3
<1>4. QED BY <1>3

\* ... or gives all of them away.
LEMMA HeldNone ==
  ASSUME NEW t \in [Fibers -> Nat], NEW f \in Fibers, IsFiniteSet(HeldBy(t))
  PROVE  /\ IsFiniteSet(HeldBy([t EXCEPT ![f] = 0]))
         /\ Cardinality(HeldBy([t EXCEPT ![f] = 0])) \in Nat
         /\ Cardinality(HeldBy(t)) = Cardinality(HeldBy([t EXCEPT ![f] = 0])) + t[f]
<1> DEFINE block == {f} \X (1..t[f])
<1> PICK u : u = [t EXCEPT ![f] = 0]
  OBVIOUS
<1>1. IsFiniteSet(block) /\ Cardinality(block) = t[f]
  BY BlockSize
<1>2. HeldBy(t) = HeldBy(u) \cup block /\ HeldBy(u) \cap block = {}
  <2>1. ASSUME NEW p \in HeldBy(t) PROVE p \in HeldBy(u) \cup block
    <3>1. PICK g \in Fibers : \E i \in 1..t[g] : p = <<g, i>>
      BY HeldHas
    <3>2. PICK i \in 1..t[g] : p = <<g, i>>
      BY <3>1
    <3>3. CASE g = f
      BY <3>2, <3>3
    <3>4. CASE g # f
      <4>1. i \in 1..u[g]
        BY <3>2, <3>4
      <4>2. QED BY <3>2, <4>1, HeldHas
    <3>5. QED BY <3>3, <3>4
  <2>2. ASSUME NEW p \in HeldBy(u) PROVE p \in HeldBy(t) /\ p \notin block
    <3>1. PICK g \in Fibers : \E i \in 1..u[g] : p = <<g, i>>
      BY HeldHas
    <3>2. PICK i \in 1..u[g] : p = <<g, i>>
      BY <3>1
    <3>3. g # f /\ i \in 1..t[g]
      BY <3>2
    <3>4. QED BY <3>2, <3>3, HeldHas
  <2>3. ASSUME NEW p \in block PROVE p \in HeldBy(t)
    <3>1. PICK i \in 1..t[f] : p = <<f, i>>
      OBVIOUS
    <3>2. QED BY <3>1, HeldHas
  <2>4. QED BY <2>1, <2>2, <2>3
<1> HIDE DEF block
<1>3. HeldBy(u) \in SUBSET HeldBy(t)
  BY <1>2
<1>4. IsFiniteSet(HeldBy(u)) /\ Cardinality(HeldBy(u)) \in Nat
  BY <1>3, FS_Subset, FS_CardinalityType
<1>5. Cardinality(HeldBy(u) \cup block)
        = Cardinality(HeldBy(u)) + Cardinality(block) - Cardinality({})
  BY <1>1, <1>2, <1>4, FS_Union
<1>6. t[f] \in Nat
  OBVIOUS
<1>7. Cardinality(HeldBy(t)) = Cardinality(HeldBy(u)) + t[f]
  BY <1>1, <1>2, <1>4, <1>5, <1>6, FS_EmptySet
<1>8. QED BY <1>4, <1>7

\* Who waits or takes tokens is in a loop, and the owner's loop is for all of them.
Loops ==
  /\ \A f \in Fibers : park[f] # "no" => fiberPc[f] \in {"schedule", "waitAll"} /\ need[f] > 0
  /\ \A f \in Fibers : fiberPc[f] = "idle" => taken[f] = 0
  /\ fiberPc[Owner] = "waitAll" => taken[Owner] + need[Owner] = Batch
  /\ fiberPc[Owner] = "done" => taken[Owner] = Batch

\* the tokens that are somewhere
Tokens(c, w, t, q, r) == c + Cardinality(w) + Cardinality(HeldBy(t)) + q + r

Conserved ==
  /\ IsFiniteSet(woken) /\ IsFiniteSet(HeldBy(taken))
  /\ Tokens(concurrency, woken, taken, queue, running) = Batch

GroupInv == WG!TypeOK /\ WG!NoWaitWithToken /\ Loops /\ Conserved

LEMMA HeldOfNobody ==
  ASSUME NEW t, \A f \in Fibers : t[f] = 0
  PROVE  HeldBy(t) = {}
<1>1. \A f \in Fibers : 1..t[f] = {}
  OBVIOUS
<1>2. QED BY <1>1 DEF HeldBy

LEMMA GroupInit == WG!WorkerGroupAssumption /\ WG!Init => GroupInv
<1> SUFFICES ASSUME WG!WorkerGroupAssumption, WG!Init PROVE GroupInv
  OBVIOUS
<1>1. WG!TypeOK
  <2>1. concurrency \in Nat /\ waiters \in Seq(Fibers) /\ woken = {}
    BY DEF WG!WorkerGroupAssumption, WG!Init
  <2>2. finish \in BOOLEAN
    BY DEF WG!Init
  <2>3. /\ fiberPc \in [Fibers -> {"idle", "schedule", "waitAll", "push", "done"}]
        /\ park \in [Fibers -> {"no", "parking", "held"}]
    BY DEF WG!Init
  <2>4. need \in [Fibers -> Nat] /\ taken \in [Fibers -> Nat]
    BY DEF WG!Init
  <2>5. queue \in Nat /\ running \in Nat /\ calls \in 0..MaxCalls
    BY DEF WG!WorkerGroupAssumption, WG!Init
  <2>6. QED BY <2>1, <2>2, <2>3, <2>4, <2>5 DEF WG!TypeOK
<1>2. WG!NoWaitWithToken
  BY DEF WG!Init, WG!NoWaitWithToken
<1>3. Loops
  BY DEF WG!WorkerGroupAssumption, WG!Init, Loops
<1>4. Conserved
  <2>1. HeldBy(taken) = {}
    BY HeldOfNobody DEF WG!Init
  <2>2. Batch \in Nat /\ woken = {} /\ concurrency = Batch /\ queue = 0 /\ running = 0
    BY DEF WG!WorkerGroupAssumption, WG!Init
  <2>3. IsFiniteSet({}) /\ Cardinality({}) = 0
    BY FS_EmptySet
  <2>4. Tokens(concurrency, woken, taken, queue, running) = Batch
    BY <2>1, <2>2, <2>3 DEF Tokens
  <2>5. QED BY <2>1, <2>2, <2>3, <2>4 DEF Conserved
<1>5. QED BY <1>1, <1>2, <1>3, <1>4 DEF GroupInv

\* The numbers of the conservation law are naturals.
LEMMA Counts ==
  ASSUME GroupInv
  PROVE  /\ concurrency \in Nat /\ queue \in Nat /\ running \in Nat
         /\ Cardinality(woken) \in Nat /\ Cardinality(HeldBy(taken)) \in Nat
         /\ IsFiniteSet(woken) /\ IsFiniteSet(HeldBy(taken)) /\ taken \in [Fibers -> Nat]
         /\ concurrency + Cardinality(woken) + Cardinality(HeldBy(taken)) + queue + running = Batch
  BY FS_CardinalityType DEF GroupInv, Conserved, Tokens, WG!TypeOK

\* wait() takes a token that is there.
LEMMA TakesStep ==
  ASSUME WG!WorkerGroupAssumption, GroupInv, NEW f \in Fibers, WG!WaitTakes(f)
  PROVE  GroupInv'
<1> USE DEF WG!WaitTakes, WG!HasToken, WG!InLoop, WG!jobs, WG!sem
<1>1. WG!TypeOK'
  BY DEF GroupInv, WG!TypeOK, WG!WorkerGroupAssumption
<1>2. WG!NoWaitWithToken'
  BY DEF GroupInv, WG!TypeOK, WG!NoWaitWithToken
<1>3. Loops'
  <2>1. taken \in [Fibers -> Nat] /\ need \in [Fibers -> Nat] /\ Owner \in Fibers
    BY DEF GroupInv, WG!TypeOK, WG!WorkerGroupAssumption
  <2>2. QED BY <2>1 DEF GroupInv, Loops
<1>4. Conserved'
  <2>1. /\ IsFiniteSet(HeldBy(taken'))
        /\ Cardinality(HeldBy(taken')) = Cardinality(HeldBy(taken)) + 1
    BY Counts, HeldMore
  <2>2. concurrency' = concurrency - 1 /\ woken' = woken /\ queue' = queue /\ running' = running
    OBVIOUS
  <2>3. Tokens(concurrency', woken', taken', queue', running') = Batch
    BY <2>1, <2>2, Counts DEF Tokens
  <2>4. QED BY <2>1, <2>2, <2>3, Counts DEF Conserved
<1>5. QED BY <1>1, <1>2, <1>3, <1>4 DEF GroupInv

\* wait() enters m_waiters.
LEMMA ParksStep ==
  ASSUME WG!WorkerGroupAssumption, GroupInv, NEW f \in Fibers, WG!WaitParks(f)
  PROVE  GroupInv'
<1> USE DEF WG!WaitParks, WG!InLoop, WG!jobs
<1>1. WG!TypeOK'
  BY DEF GroupInv, WG!TypeOK, WG!WorkerGroupAssumption
<1>2. WG!NoWaitWithToken'
  <2>1. /\ waiters \in Seq(Fibers) /\ park \in [Fibers -> {"no", "parking", "held"}]
        /\ waiters' = Append(waiters, f) /\ park[f] = "no" /\ f \notin woken
        /\ park' = [park EXCEPT ![f] = "parking"] /\ concurrency' = 0 /\ woken' = woken
    BY DEF GroupInv, WG!TypeOK
  <2>2. \A i \in DOMAIN waiters : waiters[i] # f /\ waiters[i] \in Fibers
    BY <2>1 DEF GroupInv, WG!NoWaitWithToken
  <2>3. /\ DOMAIN waiters' = 1..Len(waiters) + 1 /\ waiters'[Len(waiters) + 1] = f
        /\ DOMAIN waiters = 1..Len(waiters) /\ Len(waiters) \in Nat
        /\ \A i \in DOMAIN waiters : waiters'[i] = waiters[i]
    BY <2>1
  <2>4. \A i, j \in DOMAIN waiters' : waiters'[i] = waiters'[j] => i = j
    BY <2>2, <2>3 DEF GroupInv, WG!NoWaitWithToken
  <2>5. \A i \in DOMAIN waiters' : park'[waiters'[i]] # "no" /\ waiters'[i] \notin woken'
    BY <2>1, <2>2, <2>3 DEF GroupInv, WG!NoWaitWithToken
  <2>6. ASSUME NEW g \in Fibers, park'[g] # "no"
        PROVE  g \in woken' \/ \E i \in DOMAIN waiters' : waiters'[i] = g
    <3>1. CASE g = f
      BY <2>3, <3>1
    <3>2. CASE g # f
      <4>1. g \in woken \/ \E i \in DOMAIN waiters : waiters[i] = g
        BY <2>1, <2>6, <3>2 DEF GroupInv, WG!NoWaitWithToken
      <4>2. QED BY <2>1, <2>3, <4>1
    <3>3. QED BY <3>1, <3>2
  <2>7. QED BY <2>1, <2>4, <2>5, <2>6 DEF WG!NoWaitWithToken
<1>3. Loops'
  BY DEF GroupInv, WG!TypeOK, Loops
<1>4. Conserved'
  BY DEF GroupInv, Conserved
<1>5. QED BY <1>1, <1>2, <1>3, <1>4 DEF GroupInv

LEMMA YieldsStep ==
  ASSUME WG!WorkerGroupAssumption, GroupInv, NEW f \in Fibers, WG!Yields(f)
  PROVE  GroupInv'
<1> USE DEF WG!Yields, WG!jobs, WG!sem
<1>1. WG!TypeOK'
  BY DEF GroupInv, WG!TypeOK
<1>2. WG!NoWaitWithToken'
  BY DEF GroupInv, WG!TypeOK, WG!NoWaitWithToken
<1>3. Loops'
  BY DEF GroupInv, WG!TypeOK, Loops
<1>4. Conserved'
  BY DEF GroupInv, Conserved
<1>5. QED BY <1>1, <1>2, <1>3, <1>4 DEF GroupInv

\* wait() returns with the token notify() gave.
LEMMA ResumesStep ==
  ASSUME WG!WorkerGroupAssumption, GroupInv, NEW f \in Fibers, WG!Resumes(f)
  PROVE  GroupInv'
<1> USE DEF WG!Resumes, WG!HasToken, WG!jobs, WG!sem
<1>0. need[f] > 0 /\ fiberPc[f] \in {"schedule", "waitAll"}
  BY DEF GroupInv, Loops
<1>1. WG!TypeOK'
  BY <1>0 DEF GroupInv, WG!TypeOK
<1>2. WG!NoWaitWithToken'
  BY DEF GroupInv, WG!TypeOK, WG!NoWaitWithToken
<1>3. Loops'
  <2>1. /\ taken \in [Fibers -> Nat] /\ need \in [Fibers -> Nat] /\ Owner \in Fibers
        /\ park \in [Fibers -> {"no", "parking", "held"}]
    BY DEF GroupInv, WG!TypeOK, WG!WorkerGroupAssumption
  <2>2. QED BY <1>0, <2>1 DEF GroupInv, Loops
<1>4. Conserved'
  <2>1. /\ IsFiniteSet(HeldBy(taken'))
        /\ Cardinality(HeldBy(taken')) = Cardinality(HeldBy(taken)) + 1
    BY Counts, HeldMore
  <2>2. IsFiniteSet(woken') /\ Cardinality(woken') = Cardinality(woken) - 1
    BY Counts, FS_RemoveElement
  <2>3. concurrency' = concurrency /\ queue' = queue /\ running' = running
    OBVIOUS
  <2>4. Tokens(concurrency', woken', taken', queue', running') = Batch
    BY <2>1, <2>2, <2>3, Counts DEF Tokens
  <2>5. QED BY <2>1, <2>2, <2>4 DEF Conserved
<1>5. QED BY <1>1, <1>2, <1>3, <1>4 DEF GroupInv

LEMMA LeaveStep ==
  ASSUME WG!WorkerGroupAssumption, GroupInv, NEW f \in Fibers, WG!Leave(f)
  PROVE  GroupInv'
<1> USE DEF WG!Leave, WG!jobs, WG!sem
<1>1. WG!TypeOK'
  BY DEF GroupInv, WG!TypeOK
<1>2. WG!NoWaitWithToken'
  BY DEF GroupInv, WG!TypeOK, WG!NoWaitWithToken
<1>3. Loops'
  <2>1. /\ taken \in [Fibers -> Nat] /\ need \in [Fibers -> Nat] /\ Owner \in Fibers
        /\ fiberPc \in [Fibers -> {"idle", "schedule", "waitAll", "push", "done"}]
    BY DEF GroupInv, WG!TypeOK, WG!WorkerGroupAssumption
  <2>2. fiberPc' = [fiberPc EXCEPT ![f] = IF fiberPc[f] = "schedule" THEN "push" ELSE "done"]
        /\ taken' = taken /\ need' = need /\ park' = park /\ need[f] = 0
        /\ fiberPc[f] \in {"schedule", "waitAll"} /\ park[f] = "no"
    OBVIOUS
  <2>3. \A g \in Fibers : park'[g] # "no" => fiberPc'[g] \in {"schedule", "waitAll"} /\ need'[g] > 0
    BY <2>1, <2>2 DEF GroupInv, Loops
  <2>4. \A g \in Fibers : fiberPc'[g] = "idle" => taken'[g] = 0
    BY <2>1, <2>2 DEF GroupInv, Loops
  <2>5. fiberPc'[Owner] = "waitAll" => taken'[Owner] + need'[Owner] = Batch
    BY <2>1, <2>2 DEF GroupInv, Loops
  <2>6. fiberPc'[Owner] = "done" => taken'[Owner] = Batch
    BY <2>1, <2>2 DEF GroupInv, Loops
  <2>7. QED BY <2>3, <2>4, <2>5, <2>6 DEF Loops
<1>4. Conserved'
  BY DEF GroupInv, Conserved
<1>5. QED BY <1>1, <1>2, <1>3, <1>4 DEF GroupInv

\* The callbacks take the tokens of the loop with them.
LEMMA PushStep ==
  ASSUME WG!WorkerGroupAssumption, GroupInv, NEW f \in Fibers, WG!Push(f)
  PROVE  GroupInv'
<1> USE DEF WG!Push, WG!sem
<1>1. WG!TypeOK'
  BY DEF GroupInv, WG!TypeOK
<1>2. WG!NoWaitWithToken'
  BY DEF GroupInv, WG!TypeOK, WG!NoWaitWithToken
<1>3. Loops'
  BY DEF GroupInv, WG!TypeOK, WG!WorkerGroupAssumption, Loops
<1>4. Conserved'
  <2>1. /\ IsFiniteSet(HeldBy(taken')) /\ Cardinality(HeldBy(taken')) \in Nat
        /\ Cardinality(HeldBy(taken)) = Cardinality(HeldBy(taken')) + taken[f]
    BY Counts, HeldNone
  <2>2. /\ concurrency' = concurrency /\ woken' = woken
        /\ queue' = queue + taken[f] /\ running' = running /\ taken[f] \in Nat
    BY Counts
  <2>3. Tokens(concurrency', woken', taken', queue', running') = Batch
    BY <2>1, <2>2, Counts DEF Tokens
  <2>4. QED BY <2>1, <2>2, <2>3, Counts DEF Conserved
<1>5. QED BY <1>1, <1>2, <1>3, <1>4 DEF GroupInv

LEMMA ScheduleStep ==
  ASSUME WG!WorkerGroupAssumption, GroupInv, NEW f \in Fibers, NEW n \in Vectors, WG!Schedule(f, n)
  PROVE  GroupInv'
<1> USE DEF WG!Schedule, WG!jobs, WG!sem
<1>0. n \in Nat
  BY DEF WG!WorkerGroupAssumption
<1>1. WG!TypeOK'
  BY <1>0 DEF GroupInv, WG!TypeOK, WG!WorkerGroupAssumption
<1>2. WG!NoWaitWithToken'
  BY DEF GroupInv, WG!TypeOK, WG!NoWaitWithToken
<1>3. Loops'
  BY DEF GroupInv, WG!TypeOK, WG!WorkerGroupAssumption, Loops
<1>4. Conserved'
  BY DEF GroupInv, Conserved
<1>5. QED BY <1>1, <1>2, <1>3, <1>4 DEF GroupInv

LEMMA WaitAllStep ==
  ASSUME WG!WorkerGroupAssumption, GroupInv, NEW f \in Fibers, WG!WaitAll(f)
  PROVE  GroupInv'
<1> USE DEF WG!WaitAll, WG!jobs, WG!sem
<1>1. WG!TypeOK'
  BY DEF GroupInv, WG!TypeOK, WG!WorkerGroupAssumption
<1>2. WG!NoWaitWithToken'
  BY DEF GroupInv, WG!TypeOK, WG!NoWaitWithToken
<1>3. Loops'
  BY DEF GroupInv, WG!TypeOK, WG!WorkerGroupAssumption, Loops
<1>4. Conserved'
  BY DEF GroupInv, Conserved
<1>5. QED BY <1>1, <1>2, <1>3, <1>4 DEF GroupInv

LEMMA StartWorkStep ==
  ASSUME WG!WorkerGroupAssumption, GroupInv, WG!StartWork
  PROVE  GroupInv'
<1> USE DEF WG!StartWork, WG!sem
<1>1. WG!TypeOK'
  BY DEF GroupInv, WG!TypeOK
<1>2. WG!NoWaitWithToken'
  BY DEF GroupInv, WG!TypeOK, WG!NoWaitWithToken
<1>3. Loops'
  BY DEF GroupInv, Loops
<1>4. Conserved'
  <2>1. /\ concurrency' = concurrency /\ woken' = woken /\ taken' = taken
        /\ queue' = queue - 1 /\ running' = running + 1
    OBVIOUS
  <2>2. Tokens(concurrency', woken', taken', queue', running') = Batch
    BY <2>1, Counts DEF Tokens
  <2>3. QED BY <2>1, <2>2, Counts DEF Conserved
<1>5. QED BY <1>1, <1>2, <1>3, <1>4 DEF GroupInv

\* A callback gives its token to the first waiter, or back.
LEMMA EndWorkStep ==
  ASSUME WG!WorkerGroupAssumption, GroupInv, WG!EndWork
  PROVE  GroupInv'
<1>1. /\ running > 0 /\ running' = running - 1 /\ WG!Notify
      /\ finish' = finish /\ fiberPc' = fiberPc /\ park' = park /\ need' = need /\ taken' = taken
      /\ queue' = queue /\ calls' = calls
  BY DEF WG!EndWork
<1>2. Loops'
  BY <1>1 DEF GroupInv, Loops
<1>3. CASE waiters = << >>
  <2>1. concurrency' = concurrency + 1 /\ waiters' = waiters /\ woken' = woken
    BY <1>1, <1>3 DEF WG!Notify
  <2>2. WG!TypeOK'
    BY <1>1, <2>1 DEF GroupInv, WG!TypeOK
  <2>3. WG!NoWaitWithToken'
    BY <1>1, <1>3, <2>1 DEF GroupInv, WG!NoWaitWithToken
  <2>4. Tokens(concurrency', woken', taken', queue', running') = Batch
    BY <1>1, <2>1, Counts DEF Tokens
  <2>5. Conserved'
    BY <1>1, <2>1, <2>4, Counts DEF Conserved
  <2>6. QED BY <1>2, <2>2, <2>3, <2>5 DEF GroupInv
<1>4. CASE waiters # << >>
  <2>1. PICK f : f = waiters[1]
    OBVIOUS
  <2>2. /\ waiters \in Seq(Fibers) /\ Len(waiters) \in Nat \ {0} /\ DOMAIN waiters = 1..Len(waiters)
        /\ f = Head(waiters) /\ f \in Fibers
    BY <1>4, <2>1 DEF GroupInv, WG!TypeOK
  <2>3. concurrency' = concurrency /\ waiters' = Tail(waiters) /\ woken' = woken \cup {f}
    BY <1>1, <1>4, <2>2 DEF WG!Notify
  <2>4. f \notin woken /\ park[f] # "no"
    BY <2>1, <2>2 DEF GroupInv, WG!NoWaitWithToken
  <2>5. WG!TypeOK'
    BY <1>1, <2>2, <2>3, <2>4 DEF GroupInv, WG!TypeOK
  <2>6. /\ waiters' \in Seq(Fibers) /\ DOMAIN waiters' = 1..Len(waiters) - 1
        /\ \A i \in 1..Len(waiters) - 1 : waiters'[i] = waiters[i + 1] /\ i + 1 \in DOMAIN waiters
    BY <2>2, <2>3
  <2>7. \A i, j \in DOMAIN waiters' : waiters'[i] = waiters'[j] => i = j
    <3>1. SUFFICES ASSUME NEW i \in 1..Len(waiters) - 1, NEW j \in 1..Len(waiters) - 1,
                          waiters[i + 1] = waiters[j + 1]
                   PROVE  i = j
      BY <2>6
    <3>2. i + 1 \in DOMAIN waiters /\ j + 1 \in DOMAIN waiters
      BY <2>2
    <3>3. i + 1 = j + 1
      BY <3>1, <3>2 DEF GroupInv, WG!NoWaitWithToken
    <3>4. QED BY <2>2, <3>3
  <2>8. \A i \in DOMAIN waiters' : park'[waiters'[i]] # "no" /\ waiters'[i] \notin woken'
    <3>1. SUFFICES ASSUME NEW i \in 1..Len(waiters) - 1
                   PROVE  park[waiters[i + 1]] # "no" /\ waiters[i + 1] \notin woken \cup {f}
      BY <1>1, <2>3, <2>6
    <3>2. i + 1 \in DOMAIN waiters /\ 1 \in DOMAIN waiters /\ i + 1 # 1
      BY <2>2
    <3>3. QED BY <2>1, <3>2 DEF GroupInv, WG!NoWaitWithToken
  <2>9. ASSUME NEW g \in Fibers, park'[g] # "no"
        PROVE  g \in woken' \/ \E i \in DOMAIN waiters' : waiters'[i] = g
    <3>1. g \in woken \/ \E i \in DOMAIN waiters : waiters[i] = g
      BY <1>1, <2>9 DEF GroupInv, WG!NoWaitWithToken
    <3>2. ASSUME NEW i \in DOMAIN waiters, waiters[i] = g, g # f
          PROVE  \E j \in DOMAIN waiters' : waiters'[j] = g
      <4>1. i # 1 /\ i - 1 \in 1..Len(waiters) - 1 /\ i - 1 + 1 = i
        BY <2>1, <2>2, <3>2
      <4>2. QED BY <2>6, <3>2, <4>1
    <3>3. QED BY <2>3, <3>1, <3>2
  <2>10. waiters' # << >> => concurrency' = 0
    BY <1>4, <2>3 DEF GroupInv, WG!NoWaitWithToken
  <2>11. WG!NoWaitWithToken'
    BY <2>7, <2>8, <2>9, <2>10 DEF WG!NoWaitWithToken
  <2>12. IsFiniteSet(woken') /\ Cardinality(woken') = Cardinality(woken) + 1
    BY <2>3, <2>4, Counts, FS_AddElement
  <2>13. Tokens(concurrency', woken', taken', queue', running') = Batch
    BY <1>1, <2>3, <2>12, Counts DEF Tokens
  <2>14. Conserved'
    BY <1>1, <2>12, <2>13, Counts DEF Conserved
  <2>15. QED BY <1>2, <2>5, <2>11, <2>14 DEF GroupInv
<1>5. QED BY <1>3, <1>4

LEMMA GroupStep ==
  ASSUME WG!WorkerGroupAssumption, GroupInv, [WG!Next]_(WG!vars)
  PROVE  GroupInv'
<1>1. ASSUME NEW f \in Fibers, WG!FiberStep(f) PROVE GroupInv'
  BY <1>1, TakesStep, ParksStep, YieldsStep, ResumesStep, LeaveStep, PushStep DEF WG!FiberStep
<1>2. ASSUME NEW f \in Fibers, WG!WaitAll(f) PROVE GroupInv'
  BY <1>2, WaitAllStep
<1>3. ASSUME NEW f \in Fibers, NEW n \in Vectors, WG!Schedule(f, n) PROVE GroupInv'
  BY <1>3, ScheduleStep
<1>4. CASE UNCHANGED WG!vars
  BY <1>4 DEF WG!vars, WG!sem, WG!jobs, GroupInv, WG!TypeOK, WG!NoWaitWithToken, Loops, Conserved
<1>5. QED BY <1>1, <1>2, <1>3, <1>4, StartWorkStep, EndWorkStep DEF WG!Next

\* FiberSemaphore and WorkerGroup (FiberSync.cpp 22-66, Worker.cpp 29-60): for
\* any set of fibers and any vectors no token is lost or doubled, nobody waits
\* while there is one, and when waitAll has returned every callback has.
THEOREM WorkerGroupTokensKept ==
  WG!WorkerGroupAssumption => (WG!Spec => []WG!TokensKept)
<1>1. SUFFICES ASSUME WG!WorkerGroupAssumption PROVE WG!Spec => []WG!TokensKept
  OBVIOUS
<1>2. WG!Init => GroupInv
  BY <1>1, GroupInit
<1>3. GroupInv /\ [WG!Next]_(WG!vars) => GroupInv'
  BY <1>1, GroupStep
<1>4. GroupInv => WG!TokensKept
  <2> SUFFICES ASSUME GroupInv PROVE WG!TokensKept
    OBVIOUS
  <2>1. WG!Held = HeldBy(taken)
    BY DEF WG!Held, HeldBy
  <2>2. ASSUME NEW S PROVE WG!Cardinality(S) = Cardinality(S)
    BY DEF WG!Cardinality, Cardinality
  <2>3. concurrency + WG!Cardinality(woken) + WG!Cardinality(WG!Held) + queue + running = Batch
    BY <2>1, <2>2, Counts
  <2>4. ASSUME fiberPc[Owner] = "done" PROVE queue + running = 0
    <3>1. taken[Owner] = Batch /\ Owner \in Fibers
      BY <1>1, <2>4 DEF GroupInv, Loops, WG!WorkerGroupAssumption
    <3>2. PICK rest \in Nat : Cardinality(HeldBy(taken)) = rest + taken[Owner]
      BY <3>1, Counts, HeldNone
    <3>3. QED BY <3>1, <3>2, Counts
  <2>5. QED BY <2>3, <2>4 DEF GroupInv, WG!TokensKept
<1>5. QED BY <1>2, <1>3, <1>4, PTL DEF WG!Spec

-----------------------------------------------------------------------------
(***************************************************************************)
(* Discovery: for any number of providers, changes and lost connections    *)
(***************************************************************************)
States == {"idle", "register", "read", "swap", "create", "lookup", "new", "update", "close"}

DiscoveryTypes ==
  /\ events \in Seq({"session", "child", "expired"})
  /\ pc \in [D!Threads -> States]
  /\ val \in [D!Threads -> SUBSET Ids] /\ old \in [D!Threads -> SUBSET Ids]
  /\ made \in [D!Threads -> SUBSET (Ids \X Int)]
  /\ inst \in [D!Threads -> Nat] /\ zk \subseteq Ids /\ datas \subseteq Ids
  /\ lbs \in Seq(SUBSET (Ids \X Int)) /\ cur \in 0..Len(lbs)
  /\ skipped \subseteq Ids

\* The differences add up: what the balancer has is what was in _datas before
\* the exchange, until the difference has reached it; less what was skipped.
AddsUp ==
  LET w == "watch" IN
  /\ pc[w] \in {"idle", "register", "read", "swap", "close"} => D!IdsOf(D!Items) = datas \ skipped
  /\ pc[w] \in {"create", "lookup", "new", "update"} =>
       D!IdsOf(D!Items) = old[w] \ skipped /\ datas = val[w]
  /\ pc[w] \in {"lookup", "new", "update"} => D!IdsOf(made[w]) = (val[w] \ old[w]) \ skipped
  /\ pc[w] = "new" => cur = 0
  /\ pc[w] = "update" => cur # 0 /\ inst[w] = cur

\* what the watcher's thread has read last
Latest == IF pc["watch"] = "swap" THEN val["watch"] ELSE datas

\* Either that is what is there, and a watch will tell, or it will read again;
\* or the read has failed.
Fresh ==
  session = "up" /\ ~missed =>
    \/ watch = TRUE /\ Latest = zk
    \/ pc["watch"] \in {"register", "read"}
    \/ \E i \in DOMAIN events : events[i] \in {"session", "child"}

FollowInv ==
  /\ DiscoveryTypes
  /\ ~timed => pc["timer"] = "idle" /\ AddsUp /\ Fresh

LEMMA FollowInit == D!Init => FollowInv
<1> SUFFICES ASSUME D!Init PROVE FollowInv
  OBVIOUS
<1>1. DiscoveryTypes
  BY DEF D!Init, DiscoveryTypes, States, D!Threads
<1>2. pc["timer"] = "idle" /\ AddsUp /\ Fresh
  BY DEF D!Init, AddsUp, Fresh, D!Items, D!IdsOf, D!Threads
<1>3. QED BY <1>1, <1>2 DEF FollowInv

\* An event that is appended is there, and those before it stay.
LEMMA EventAppended ==
  ASSUME NEW s \in Seq({"session", "child", "expired"}), NEW e \in {"session", "child", "expired"}
  PROVE  /\ Append(s, e) \in Seq({"session", "child", "expired"})
         /\ \A i \in DOMAIN s : i \in DOMAIN Append(s, e) /\ Append(s, e)[i] = s[i]
         /\ \E i \in DOMAIN Append(s, e) : Append(s, e)[i] = e
<1>1. /\ Append(s, e) \in Seq({"session", "child", "expired"})
      /\ DOMAIN s = 1..Len(s) /\ DOMAIN Append(s, e) = 1..Len(s) + 1
      /\ Append(s, e)[Len(s) + 1] = e /\ Len(s) \in Nat
      /\ \A i \in 1..Len(s) : Append(s, e)[i] = s[i]
  OBVIOUS
<1>2. Len(s) + 1 \in 1..Len(s) + 1
  BY <1>1
<1>3. QED BY <1>1, <1>2

\* ZooKeeper changes nothing of ours but the events; the session comes up with
\* an event, and a change is told while there is a watch.
LEMMA ZooKeeperStep ==
  ASSUME FollowInv, D!ZooKeeper
  PROVE  FollowInv'
<1> USE DEF D!zkVars, D!bounds, D!locals, D!lbVars
<1>1. /\ UNCHANGED <<datas, pc, val, old, made, inst, gone, cur, lbs, skipped, timed, missed>>
      /\ events' = events \/ \E e \in {"session", "child", "expired"} : events' = Append(events, e)
  BY DEF D!ZooKeeper, D!Connect, D!Disconnect, D!Expire, D!StaleGone, D!Change
<1>2. /\ events' \in Seq({"session", "child", "expired"})
      /\ \A i \in DOMAIN events : i \in DOMAIN events' /\ events'[i] = events[i]
  <2>1. events \in Seq({"session", "child", "expired"})
    BY DEF FollowInv, DiscoveryTypes
  <2>2. CASE events' = events
    BY <2>1, <2>2
  <2>3. ASSUME NEW e \in {"session", "child", "expired"}, events' = Append(events, e)
        PROVE  /\ events' \in Seq({"session", "child", "expired"})
               /\ \A i \in DOMAIN events : i \in DOMAIN events' /\ events'[i] = events[i]
    BY <2>1, <2>3, EventAppended
  <2>4. QED BY <1>1, <2>2, <2>3
<1>3. DiscoveryTypes'
  <2>1. zk' \subseteq Ids
    BY DEF FollowInv, DiscoveryTypes, D!ZooKeeper, D!Connect, D!Disconnect, D!Expire,
           D!StaleGone, D!Change
  <2>2. QED BY <1>1, <1>2, <2>1 DEF FollowInv, DiscoveryTypes, D!Threads
<1>4. AddsUp => AddsUp'
  BY <1>1 DEF AddsUp, D!Items
<1>5. Latest' = Latest
  BY <1>1 DEF Latest
<1>6. (\E i \in DOMAIN events : events[i] \in {"session", "child"})
        => \E i \in DOMAIN events' : events'[i] \in {"session", "child"}
  BY <1>2
<1>7. Fresh => Fresh'
  <2>1. events \in Seq({"session", "child", "expired"})
    BY DEF FollowInv, DiscoveryTypes
  <2>2. CASE D!Connect
    <3>1. events' = Append(events, "session")
      BY <2>2 DEF D!Connect
    <3>2. \E i \in DOMAIN events' : events'[i] = "session"
      BY <2>1, <3>1, EventAppended
    <3>3. QED BY <3>2 DEF Fresh
  <2>3. CASE D!Disconnect \/ D!Expire
    <3>1. session' \in {"lost", "expired"}
      BY <2>3 DEF D!Disconnect, D!Expire
    <3>2. QED BY <3>1 DEF Fresh
  <2>4. CASE D!StaleGone
    BY <1>1, <1>5, <1>6, <2>4 DEF D!StaleGone, Fresh
  <2>5. ASSUME NEW i \in Ids, D!Change(i) PROVE Fresh => Fresh'
    <3>1. session' = session /\ events' = IF watch THEN Append(events, "child") ELSE events
      BY <2>5 DEF D!Change
    <3>2. CASE watch
      <4>1. \E j \in DOMAIN events' : events'[j] = "child"
        BY <2>1, <3>1, <3>2, EventAppended
      <4>2. QED BY <4>1 DEF Fresh
    <3>3. CASE ~watch
      BY <1>1, <1>6, <3>1, <3>3 DEF Fresh
    <3>4. QED BY <3>2, <3>3
  <2>6. QED BY <2>2, <2>3, <2>4, <2>5 DEF D!ZooKeeper
<1>8. QED BY <1>1, <1>3, <1>4, <1>7 DEF FollowInv

\* The watcher's thread takes an event; one that tells of a change makes it read.
LEMMA OnWatchStep ==
  ASSUME FollowInv, D!OnWatch
  PROVE  FollowInv'
<1> USE DEF D!zkVars, D!bounds, D!locals, D!lbVars
<1>1. /\ pc["watch"] = "idle" /\ events # << >> /\ events' = Tail(events)
      /\ pc' = [pc EXCEPT !["watch"] = CASE Head(events) = "session" -> "register"
                                        [] Head(events) = "child" -> "read"
                                        [] Head(events) = "expired" -> "idle"]
      /\ UNCHANGED <<zk, node, watch, timed, missed, datas, val, old, made, inst, gone, cur, lbs,
                     skipped>>
      /\ session' = "up" => session = "up"
      /\ D!Threads = {"watch", "timer"}
  BY DEF D!OnWatch, D!Threads
<1>2. PICK e \in {"session", "child", "expired"} : e = Head(events)
  BY <1>1 DEF FollowInv, DiscoveryTypes
<1>3. /\ events' \in Seq({"session", "child", "expired"})
      /\ \A i \in DOMAIN events :
           \/ i = 1 /\ events[i] = e
           \/ i - 1 \in DOMAIN events' /\ events'[i - 1] = events[i]
  <2>1. events \in Seq({"session", "child", "expired"}) /\ Len(events) \in Nat \ {0}
    BY <1>1 DEF FollowInv, DiscoveryTypes
  <2>2. /\ events' \in Seq({"session", "child", "expired"})
        /\ DOMAIN events = 1..Len(events) /\ DOMAIN events' = 1..Len(events) - 1
        /\ \A j \in 1..Len(events) - 1 : events'[j] = events[j + 1]
        /\ events[1] = e
    BY <1>1, <1>2, <2>1
  <2>3. ASSUME NEW i \in DOMAIN events, i # 1
        PROVE  i - 1 \in DOMAIN events' /\ events'[i - 1] = events[i]
    <3>1. i - 1 \in 1..Len(events) - 1 /\ i - 1 + 1 = i
      BY <2>1, <2>2, <2>3
    <3>2. QED BY <2>2, <3>1
  <2>4. QED BY <2>2, <2>3
<1>4. /\ e = "session" => pc' = [pc EXCEPT !["watch"] = "register"]
      /\ e = "child" => pc' = [pc EXCEPT !["watch"] = "read"]
      /\ e = "expired" => pc' = [pc EXCEPT !["watch"] = "idle"]
  BY <1>1, <1>2
<1>5. /\ pc \in [D!Threads -> States] /\ pc' \in [D!Threads -> States]
      /\ pc'["timer"] = pc["timer"]
      /\ pc'["watch"] = CASE e = "session" -> "register" [] e = "child" -> "read"
                          [] e = "expired" -> "idle"
  BY <1>1, <1>2, <1>4 DEF FollowInv, DiscoveryTypes, States
<1>6. DiscoveryTypes'
  BY <1>1, <1>3, <1>5 DEF FollowInv, DiscoveryTypes
<1>7. AddsUp => AddsUp'
  BY <1>1, <1>2, <1>5 DEF AddsUp, D!Items
<1>8. Fresh => Fresh'
  <2>1. CASE e \in {"session", "child"}
    BY <1>5, <2>1 DEF Fresh
  <2>2. CASE e = "expired"
    <3>1. Latest' = Latest /\ pc'["watch"] = pc["watch"]
      BY <1>1, <1>5, <2>2 DEF Latest
    <3>2. (\E i \in DOMAIN events : events[i] \in {"session", "child"})
            => \E i \in DOMAIN events' : events'[i] \in {"session", "child"}
      BY <1>3, <2>2
    <3>3. QED BY <1>1, <3>1, <3>2 DEF Fresh
  <2>3. QED BY <2>1, <2>2
<1>9. QED BY <1>1, <1>5, <1>6, <1>7, <1>8 DEF FollowInv

LEMMA OnTimerStep ==
  ASSUME FollowInv, D!OnTimer
  PROVE  FollowInv'
<1>1. DiscoveryTypes' /\ timed' = TRUE
  BY DEF D!OnTimer, D!zkVars, D!locals, D!lbVars, FollowInv, DiscoveryTypes, States, D!Threads
<1>2. QED BY <1>1 DEF FollowInv

LEMMA IdsOfHas == ASSUME NEW S, NEW i
  PROVE i \in D!IdsOf(S) <=> \E p \in S : p[1] = i
  BY DEF D!IdsOf

\* The streams that are made are for providers that are new; the other new ones
\* are skipped, and without a difference that is all.
LEMMA MadeIs ==
  ASSUME DiscoveryTypes, NEW t \in D!Threads, D!CreateStreams(t)
  PROVE  \E S \in SUBSET (Ids \X Int), A \in SUBSET (val[t] \ old[t]) :
           /\ made' = [made EXCEPT ![t] = S] /\ D!IdsOf(S) = A
           /\ skipped' = (skipped \cup (val[t] \ old[t])) \ A
           /\ \/ /\ A = {} /\ old[t] \subseteq val[t]
                 /\ pc' = [pc EXCEPT ![t] = "idle"]
              \/ pc' = [pc EXCEPT ![t] = "lookup"] /\ val' = val /\ old' = old
<1>6. PICK A \in SUBSET (val[t] \ old[t]) :
        /\ \E f \in [A -> streams + 1 .. streams + D!Cardinality(A)] :
             made' = [made EXCEPT ![t] = {<<i, f[i]>> : i \in A}]
        /\ skipped' = (skipped \cup (val[t] \ old[t])) \ A
        /\ \/ /\ A = {} /\ old[t] \subseteq val[t]
              /\ pc' = [pc EXCEPT ![t] = "idle"]
           \/ pc' = [pc EXCEPT ![t] = "lookup"] /\ val' = val /\ old' = old
  <2>1. PICK A \in SUBSET (val[t] \ old[t]) :
          /\ \E f \in [A -> streams + 1 .. streams + D!Cardinality(A)] :
               made' = [made EXCEPT ![t] = {<<i, f[i]>> : i \in A}]
          /\ skipped' = (skipped \cup (val[t] \ old[t])) \ A
          /\ IF A \cup (old[t] \ val[t]) = {} THEN pc' = [pc EXCEPT ![t] = "idle"]
             ELSE pc' = [pc EXCEPT ![t] = "lookup"] /\ val' = val /\ old' = old
    BY DEF D!CreateStreams, D!Added, D!Removed, D!Return
  <2>2. \/ /\ A = {} /\ old[t] \subseteq val[t]
           /\ pc' = [pc EXCEPT ![t] = "idle"]
        \/ pc' = [pc EXCEPT ![t] = "lookup"] /\ val' = val /\ old' = old
    BY <2>1
  <2>3. QED BY <2>1, <2>2
<1>1. PICK f \in [A -> streams + 1 .. streams + D!Cardinality(A)] :
        made' = [made EXCEPT ![t] = {<<i, f[i]>> : i \in A}]
  BY <1>6
<1>2. A \subseteq Ids
  BY DEF DiscoveryTypes
<1>3. \A i \in A : f[i] \in Int
  BY <1>1
<1>4. {<<i, f[i]>> : i \in A} \in SUBSET (Ids \X Int)
  BY <1>2, <1>3
<1>5. D!IdsOf({<<i, f[i]>> : i \in A}) = A
  <2> DEFINE S == {<<i, f[i]>> : i \in A}
  <2>1. ASSUME NEW i \in D!IdsOf(S) PROVE i \in A
    <3>1. PICK p \in S : p[1] = i
      BY IdsOfHas
    <3>2. PICK j \in A : p = <<j, f[j]>>
      BY <3>1
    <3>3. QED BY <3>1, <3>2
  <2>2. ASSUME NEW i \in A PROVE i \in D!IdsOf(S)
    <3>1. <<i, f[i]>> \in S /\ <<i, f[i]>>[1] = i
      BY <2>2
    <3> HIDE DEF S
    <3>2. QED BY <3>1, IdsOfHas
  <2>3. QED BY <2>1, <2>2
<1>7. QED BY <1>1, <1>4, <1>5, <1>6

\* What update() leaves of the items, and what it puts there.
Updated(kept, had, S, was, is) ==
  kept = {p \in had \ {p \in had : p[1] \in was \ is} : p[1] \notin D!IdsOf(S)} \cup S

LEMMA UpdatedIds ==
  ASSUME NEW had, NEW S, NEW kept, NEW was \in SUBSET Ids, NEW is \in SUBSET Ids,
         NEW less, D!IdsOf(had) = was \ less, D!IdsOf(S) = (is \ was) \ less,
         Updated(kept, had, S, was, is)
  PROVE  D!IdsOf(kept) = is \ less
<1> USE DEF Updated
<1>1. ASSUME NEW i \in D!IdsOf(kept) PROVE i \in is \ less
  <2>1. PICK p \in kept : p[1] = i
    BY IdsOfHas
  <2>2. CASE p \in S
    BY <2>1, <2>2, IdsOfHas
  <2>3. CASE p \notin S
    BY <2>1, <2>3, IdsOfHas
  <2>4. QED BY <2>2, <2>3
<1>2. ASSUME NEW i \in is \ less PROVE i \in D!IdsOf(kept)
  <2>1. CASE i \in was
    <3>1. PICK p \in had : p[1] = i
      BY <2>1, IdsOfHas
    <3>2. p \in kept
      BY <1>2, <2>1, <3>1
    <3>3. QED BY <3>1, <3>2, IdsOfHas
  <2>2. CASE i \notin was
    <3>1. PICK p \in S : p[1] = i
      BY <1>2, <2>2, IdsOfHas
    <3>2. p \in kept
      BY <3>1
    <3>3. QED BY <3>1, <3>2, IdsOfHas
  <2>3. QED BY <2>1, <2>2
<1>3. QED BY <1>1, <1>2

\* What both threads do keeps the types.
LEMMA StepTypes ==
  ASSUME DiscoveryTypes, NEW t \in D!Threads, D!Steps(t)
  PROVE  DiscoveryTypes'
<1> USE DEF D!zkVars, D!bounds, D!lbVars, D!locals
<1>1. CASE D!RegisterInfo(t)
  BY <1>1 DEF D!RegisterInfo, DiscoveryTypes, States
<1>2. CASE D!GetChildren(t)
  BY <1>2 DEF D!GetChildren, D!ChildrenFail, DiscoveryTypes, States
<1>3. CASE D!SwapDatas(t)
  BY <1>3 DEF D!SwapDatas, DiscoveryTypes, States
<1>4. CASE D!Lookup(t)
  BY <1>4 DEF D!Lookup, DiscoveryTypes, States
<1>5. CASE D!CloseDels(t)
  BY <1>5 DEF D!CloseDels, D!Return, DiscoveryTypes, States
<1>6. CASE D!CreateStreams(t)
  <2>1. made' \in [D!Threads -> SUBSET (Ids \X Int)]
    BY <1>6, MadeIs DEF DiscoveryTypes
  <2>2. /\ pc' \in [D!Threads -> States]
        /\ val' \in [D!Threads -> SUBSET Ids] /\ old' \in [D!Threads -> SUBSET Ids]
    BY <1>6 DEF D!CreateStreams, D!Return, DiscoveryTypes, States
  <2>3. UNCHANGED <<events, inst, zk, datas, lbs, cur>>
    BY <1>6 DEF D!CreateStreams
  <2>4. skipped' \subseteq Ids
    BY <1>6, MadeIs DEF DiscoveryTypes
  <2>5. QED BY <2>1, <2>2, <2>3, <2>4 DEF DiscoveryTypes
<1>7. CASE D!NewLoadBalance(t)
  <2>1. /\ lbs \in Seq(SUBSET (Ids \X Int)) /\ lbs' = Append(lbs, {})
        /\ cur' = Len(lbs) + 1
    BY <1>7 DEF D!NewLoadBalance, DiscoveryTypes
  <2>2. lbs' \in Seq(SUBSET (Ids \X Int)) /\ Len(lbs') = Len(lbs) + 1 /\ Len(lbs) \in Nat
    BY <2>1
  <2>3. QED BY <1>7, <2>1, <2>2 DEF D!NewLoadBalance, DiscoveryTypes, States
<1>8. CASE D!Update(t)
  <2>1. PICK S : lbs' = [lbs EXCEPT ![inst[t]] = S]
                 /\ S \subseteq lbs[inst[t]] \cup made[t]
    BY <1>8 DEF D!Update
  <2>2. lbs \in Seq(SUBSET (Ids \X Int)) /\ made[t] \subseteq Ids \X Int
    BY DEF DiscoveryTypes
  <2>3. lbs' \in Seq(SUBSET (Ids \X Int)) /\ Len(lbs') = Len(lbs)
    <3>1. CASE inst[t] \in DOMAIN lbs
      BY <2>1, <2>2, <3>1
    <3>2. CASE inst[t] \notin DOMAIN lbs
      <4>1. lbs \in [1..Len(lbs) -> SUBSET (Ids \X Int)] /\ Len(lbs) \in Nat
        BY <2>2
      <4>2. lbs' \in [1..Len(lbs) -> SUBSET (Ids \X Int)]
        BY <2>1, <3>2, <4>1
      <4>3. lbs' \in Seq(SUBSET (Ids \X Int)) /\ DOMAIN lbs' = 1..Len(lbs)
        BY <4>1, <4>2
      <4>4. QED BY <4>1, <4>3
    <3>3. QED BY <3>1, <3>2
  <2>4. /\ made' = [made EXCEPT ![t] = {}] /\ pc' = [pc EXCEPT ![t] = "close"]
        /\ UNCHANGED <<events, inst, zk, datas, val, old, cur, skipped>>
    BY <1>8 DEF D!Update
  <2>5. QED BY <2>3, <2>4 DEF DiscoveryTypes, States
<1>9. QED BY <1>1, <1>2, <1>3, <1>4, <1>5, <1>6, <1>7, <1>8 DEF D!Steps

\* A step of the watcher's thread, with the timer not yet at work.
LEMMA WatchStep ==
  ASSUME FollowInv, ~timed, D!Steps("watch")
  PROVE  pc'["timer"] = "idle" /\ AddsUp' /\ Fresh'
<1> DEFINE w == "watch"
<1> USE DEF D!zkVars, D!bounds, D!lbVars, D!locals
<1>1. /\ pc["timer"] = "idle" /\ AddsUp /\ Fresh /\ DiscoveryTypes
      /\ pc \in [D!Threads -> States] /\ val \in [D!Threads -> SUBSET Ids]
      /\ old \in [D!Threads -> SUBSET Ids] /\ made \in [D!Threads -> SUBSET (Ids \X Int)]
      /\ inst \in [D!Threads -> Nat]
      /\ w \in D!Threads /\ "timer" \in D!Threads /\ w # "timer"
  BY DEF FollowInv, DiscoveryTypes, D!Threads
<1>2. CASE D!RegisterInfo(w)
  <2>1. /\ pc[w] = "register" /\ pc' = [pc EXCEPT ![w] = "read"]
        /\ UNCHANGED <<zk, session, watch, missed, events, datas, val, old, made, inst, cur, lbs,
                       skipped>>
    BY <1>2 DEF D!RegisterInfo
  <2>2. pc'[w] = "read" /\ pc'["timer"] = "idle"
    BY <1>1, <2>1
  <2>3. QED BY <1>1, <2>1, <2>2 DEF AddsUp, Fresh, D!Items
<1>3. CASE D!GetChildren(w)
  <2>1. /\ pc[w] = "read"
        /\ UNCHANGED <<zk, session, events, datas, old, made, inst, cur, lbs, skipped>>
    BY <1>3 DEF D!GetChildren
  <2>2. CASE ~D!ChildrenFail(w)
    <3>1. pc'[w] = "swap" /\ pc'["timer"] = "idle" /\ val'[w] = zk /\ watch' = TRUE
      BY <1>1, <1>3, <2>2 DEF D!GetChildren
    <3>2. Latest' = zk
      BY <3>1 DEF Latest
    <3>3. QED BY <1>1, <2>1, <3>1, <3>2 DEF AddsUp, Fresh, D!Items
  <2>3. CASE D!ChildrenFail(w)
    <3>1. pc'[w] = "idle" /\ pc'["timer"] = "idle" /\ (session = "up" => missed' = TRUE)
      BY <1>1, <2>3 DEF D!ChildrenFail
    <3>2. AddsUp'
      BY <1>1, <2>1, <3>1 DEF AddsUp, D!Items
    <3>3. Fresh'
      BY <2>1, <3>1 DEF Fresh
    <3>4. QED BY <3>1, <3>2, <3>3
  <2>4. QED BY <2>2, <2>3
<1>4. CASE D!SwapDatas(w)
  <2>1. /\ pc[w] = "swap" /\ datas' = val[w]
        /\ UNCHANGED <<zk, session, watch, missed, events, val, made, inst, cur, lbs, skipped>>
    BY <1>4 DEF D!SwapDatas
  <2>2. pc'[w] = "create" /\ pc'["timer"] = "idle" /\ old'[w] = datas
    BY <1>1, <1>4 DEF D!SwapDatas
  <2>3. Latest' = Latest
    BY <2>1, <2>2 DEF Latest
  <2>4. QED BY <1>1, <2>1, <2>2, <2>3 DEF AddsUp, Fresh, D!Items
<1>5. CASE D!CreateStreams(w)
  <2>1. /\ pc[w] = "create"
        /\ UNCHANGED <<zk, session, watch, missed, events, datas, inst, cur, lbs>>
    BY <1>5 DEF D!CreateStreams
  <2>2. D!IdsOf(D!Items) = old[w] \ skipped /\ datas = val[w]
    BY <1>1, <2>1 DEF AddsUp
  <2>6. PICK S \in SUBSET (Ids \X Int), A \in SUBSET (val[w] \ old[w]) :
          /\ made' = [made EXCEPT ![w] = S] /\ D!IdsOf(S) = A
          /\ skipped' = (skipped \cup (val[w] \ old[w])) \ A
          /\ \/ /\ A = {} /\ old[w] \subseteq val[w]
                /\ pc' = [pc EXCEPT ![w] = "idle"]
             \/ pc' = [pc EXCEPT ![w] = "lookup"] /\ val' = val /\ old' = old
    BY <1>1, <1>5, MadeIs
  <2>3. CASE A = {} /\ old[w] \subseteq val[w] /\ pc' = [pc EXCEPT ![w] = "idle"]
    <3>1. pc'[w] = "idle" /\ pc'["timer"] = "idle"
      BY <1>1, <2>3
    <3>2. old[w] \ skipped = val[w] \ skipped'
      BY <2>3, <2>6
    <3>3. Latest' = Latest
      BY <2>1, <3>1 DEF Latest
    <3>4. QED BY <1>1, <2>1, <2>2, <3>1, <3>2, <3>3 DEF AddsUp, Fresh, D!Items
  <2>4. CASE pc' = [pc EXCEPT ![w] = "lookup"] /\ val' = val /\ old' = old
    <3>1. pc'[w] = "lookup" /\ pc'["timer"] = "idle" /\ val' = val /\ old' = old
      BY <1>1, <2>4
    <3>2. /\ D!IdsOf(made'[w]) = (val[w] \ old[w]) \ skipped'
          /\ old[w] \ skipped = old[w] \ skipped'
      BY <1>1, <2>6
    <3>3. Latest' = Latest
      BY <2>1, <3>1 DEF Latest
    <3>4. QED BY <1>1, <2>1, <2>2, <3>1, <3>2, <3>3 DEF AddsUp, Fresh, D!Items
  <2>5. QED BY <2>3, <2>4, <2>6
<1>6. CASE D!Lookup(w)
  <2>1. /\ pc[w] = "lookup" /\ cur \in Nat
        /\ UNCHANGED <<zk, session, watch, missed, events, datas, val, old, made, cur, lbs,
                       skipped>>
    BY <1>1, <1>6 DEF D!Lookup, DiscoveryTypes
  <2>2. /\ pc'[w] = IF cur = 0 THEN "new" ELSE "update"
        /\ pc'["timer"] = "idle" /\ inst'[w] = cur
    BY <1>1, <1>6 DEF D!Lookup
  <2>3. Latest' = Latest
    BY <2>1, <2>2 DEF Latest
  <2>4. QED BY <1>1, <2>1, <2>2, <2>3 DEF AddsUp, Fresh, D!Items
<1>7. CASE D!NewLoadBalance(w)
  <2>1. /\ pc[w] = "new" /\ lbs' = Append(lbs, {}) /\ cur' = Len(lbs) + 1
        /\ UNCHANGED <<zk, session, watch, missed, events, datas, val, old, made, skipped>>
    BY <1>7 DEF D!NewLoadBalance
  <2>2. pc'[w] = "update" /\ pc'["timer"] = "idle" /\ inst'[w] = cur'
    BY <1>1, <1>7 DEF D!NewLoadBalance
  <2>3. lbs \in Seq(SUBSET (Ids \X Int)) /\ Len(lbs) \in Nat
    BY <1>1 DEF DiscoveryTypes
  <2>4. lbs'[Len(lbs) + 1] = {} /\ cur' # 0 /\ cur = 0
    BY <1>1, <2>1, <2>3 DEF AddsUp
  <2>5. D!Items = {} /\ D!Items' = {}
    BY <2>1, <2>4 DEF D!Items
  <2>6. Latest' = Latest
    BY <2>1, <2>2 DEF Latest
  <2>7. QED BY <1>1, <2>1, <2>2, <2>4, <2>5, <2>6 DEF AddsUp, Fresh
<1>8. CASE D!Update(w)
  <2> DEFINE had == lbs[inst[w]]
             dels == {p \in had : p[1] \in old[w] \ val[w]}
             kept == {p \in had \ dels : p[1] \notin D!IdsOf(made[w])} \cup made[w]
  <2>1. /\ pc[w] = "update" /\ lbs' = [lbs EXCEPT ![inst[w]] = kept]
        /\ UNCHANGED <<zk, session, watch, missed, events, datas, val, old, inst, cur, skipped>>
    BY <1>8 DEF D!Update, D!Removed
  <2>2. /\ cur # 0 /\ inst[w] = cur /\ D!IdsOf(D!Items) = old[w] \ skipped
        /\ datas = val[w] /\ D!IdsOf(made[w]) = (val[w] \ old[w]) \ skipped
    BY <1>1, <2>1 DEF AddsUp
  <2>3. pc'[w] = "close" /\ pc'["timer"] = "idle"
    BY <1>1, <1>8 DEF D!Update
  <2>4. cur \in DOMAIN lbs
    BY <1>1, <2>2 DEF DiscoveryTypes
  <2>5. had = D!Items
    BY <2>2 DEF D!Items
  <2>6. val[w] \in SUBSET Ids /\ old[w] \in SUBSET Ids
    BY <1>1
  <2>7. D!IdsOf(kept) = val[w] \ skipped
    <3>1. /\ D!IdsOf(had) = old[w] \ skipped
          /\ D!IdsOf(made[w]) = (val[w] \ old[w]) \ skipped
      BY <2>2, <2>5
    <3>2. Updated(kept, had, made[w], old[w], val[w])
      BY DEF Updated
    <3> HIDE DEF had, kept
    <3>3. QED BY <2>6, <3>1, <3>2, UpdatedIds
  <2>8. D!Items' = kept
    <3> HIDE DEF kept
    <3>1. QED BY <2>1, <2>2, <2>4 DEF D!Items
  <2>9. Latest' = Latest
    BY <2>1, <2>3 DEF Latest
  <2> HIDE DEF kept, dels, had
  <2>10. QED BY <1>1, <2>1, <2>2, <2>3, <2>7, <2>8, <2>9 DEF AddsUp, Fresh
<1>9. CASE D!CloseDels(w)
  <2>1. /\ pc[w] = "close"
        /\ UNCHANGED <<zk, session, watch, missed, events, datas, made, cur, lbs, skipped>>
    BY <1>9 DEF D!CloseDels
  <2>2. pc'[w] = "idle" /\ pc'["timer"] = "idle"
    BY <1>1, <1>9 DEF D!CloseDels, D!Return
  <2>3. Latest' = Latest
    BY <2>1, <2>2 DEF Latest
  <2>4. QED BY <1>1, <2>1, <2>2, <2>3 DEF AddsUp, Fresh, D!Items
<1>10. QED BY <1>2, <1>3, <1>4, <1>5, <1>6, <1>7, <1>8, <1>9 DEF D!Steps

LEMMA FollowStep == FollowInv /\ [D!Next]_D!vars => FollowInv'
<1> SUFFICES ASSUME FollowInv, [D!Next]_D!vars PROVE FollowInv'
  OBVIOUS
<1>1. CASE D!Rest \/ UNCHANGED D!vars
  <2>1. UNCHANGED <<zk, session, watch, missed, events, timed, datas, pc, val, old, made, inst,
                     cur, lbs, skipped>>
    BY <1>1 DEF D!Rest, D!vars, D!zkVars, D!bounds, D!locals, D!lbVars
  <2>2. DiscoveryTypes'
    BY <2>1 DEF FollowInv, DiscoveryTypes
  <2>3. AddsUp' = AddsUp /\ Fresh' = Fresh
    BY <2>1 DEF AddsUp, Fresh, Latest, D!Items
  <2>4. QED BY <2>1, <2>2, <2>3 DEF FollowInv
<1>2. ASSUME NEW t \in D!Threads, D!Steps(t) PROVE FollowInv'
  <2>1. DiscoveryTypes' /\ timed' = timed
    <3>1. timed' = timed
      BY <1>2 DEF D!Steps, D!RegisterInfo, D!GetChildren, D!SwapDatas, D!CreateStreams,
                  D!Lookup, D!NewLoadBalance, D!Update, D!CloseDels, D!bounds
    <3>2. QED BY <1>2, <3>1, StepTypes DEF FollowInv
  <2>2. CASE timed
    BY <2>1, <2>2 DEF FollowInv
  <2>3. CASE ~timed
    <3>1. pc[t] # "idle"
      BY <1>2 DEF D!Steps, D!RegisterInfo, D!GetChildren, D!SwapDatas, D!CreateStreams,
                  D!Lookup, D!NewLoadBalance, D!Update, D!CloseDels
    <3>2. t = "watch"
      BY <2>3, <3>1 DEF FollowInv, D!Threads
    <3>3. QED BY <1>2, <2>1, <2>3, <3>2, WatchStep DEF FollowInv
  <2>4. QED BY <2>2, <2>3
<1>3. QED
  BY <1>1, <1>2, ZooKeeperStep, OnWatchStep, OnTimerStep DEF D!Next

\* When the watcher is idle and nothing is left for it, what it has read last
\* is what is there, and the balancer has a stream for each of them.
LEMMA FollowInvShows == FollowInv => D!BalancerFollows
<1> SUFFICES ASSUME FollowInv, ~timed, ~missed, D!Idle, events = << >>, session = "up"
             PROVE  D!IdsOf(D!Items) = zk \ skipped
  BY DEF D!BalancerFollows
<1>1. pc["watch"] = "idle" /\ AddsUp /\ Fresh
  BY DEF FollowInv, D!Idle, D!Threads
<1>2. DOMAIN events = {}
  OBVIOUS
<1>3. Latest = zk
  BY <1>1, <1>2 DEF Fresh
<1>4. QED BY <1>1, <1>3 DEF AddsUp, Latest

\* Once the watcher has handled its events, SDLoadBalance has a stream for each
\* provider that is registered, save those for which _callback gave none, and for
\* no other, as long as the one-minute timer has not run and unless the last read
\* failed: the differences that onServiceChange is called with add up.
THEOREM DiscoveryBalancerFollows == D!Spec => []D!BalancerFollows
<1>1. QED BY FollowInit, FollowStep, FollowInvShows, PTL DEF D!Spec

-----------------------------------------------------------------------------
(***************************************************************************)
(* HolderStats: for any number of calls and slots                          *)
(***************************************************************************)
\* One worker, calls that are shorter than the window, and counters that can
\* count all of them.
CallsFit ==
  /\ HS!HolderStatsAssumption
  /\ OneThread /\ MaxAge < N
  /\ IsFiniteSet(Requests) /\ Cardinality(Requests) < 2^Width

Stages == {"idle", "init", "clear", "doing", "total", "wait", "dec", "done"}
Outcomes == {"none", "oks", "timeouts", "errs", "other"}

StatsTypes ==
  /\ now \in Nat /\ last \in Nat /\ last <= now
  /\ stats \in [HS!Slots -> [HS!Fields -> Nat]]
  /\ reqPc \in [Requests -> Stages]
  /\ ts \in [Requests -> Nat] /\ at \in [Requests -> Nat]
  /\ out \in [Requests -> Outcomes]

\* the stages in which a request has been counted in total, and under way
Past == {"wait", "dec", "done"}

\* Where a request may be: init() is done when it counts, a call is younger than
\* the window, and only one is not waiting.
Place(r) ==
  /\ ts[r] <= now
  /\ reqPc[r] \in {"doing", "total", "wait", "dec", "done"} => ts[r] <= last
  /\ reqPc[r] = "clear" => at[r] = last + 1 /\ last < ts[r]
  /\ reqPc[r] \notin {"idle", "done"} => now < ts[r] + N
  /\ reqPc[r] \notin {"dec", "done"} => out[r] = "none"
Alone == \A r, q \in Requests : HS!Busy(r) /\ HS!Busy(q) => r = q

\* The requests that a slot has counted: those under way, and those of its
\* second with each outcome ("total" for all of them).
Doing(k) == {r \in Requests : ts[r] % N = k /\ HS!Counted(r)}
Calls(k) == {r \in Requests : ts[r] % N = k /\ reqPc[r] \in Past /\ ts[r] > last - N}
Ended(k, o) == {r \in Calls(k) : out[r] = o}
Answers == {"oks", "timeouts", "errs"}

SlotExact(k) ==
  /\ stats[k]["doing"] = Cardinality(Doing(k))
  /\ stats[k]["total"] = Cardinality(Calls(k))
  /\ \A o \in Answers : stats[k][o] = Cardinality(Ended(k, o))

StatsInv ==
  /\ StatsTypes
  /\ Alone /\ \A r \in Requests : Place(r)
  /\ \A k \in HS!Slots : SlotExact(k)

LEMMA StatsInit == CallsFit /\ HS!Init => StatsInv
<1> SUFFICES ASSUME CallsFit, HS!Init PROVE StatsInv
  OBVIOUS
<1>1. N \in Nat \ {0}
  BY DEF CallsFit, HS!HolderStatsAssumption
<1>2. StatsTypes
  BY DEF HS!Init, StatsTypes, Stages, Outcomes, HS!Cleared
<1>3. Alone /\ \A r \in Requests : Place(r)
  BY DEF HS!Init, Alone, Place, HS!Busy
<1>4. ASSUME NEW k \in HS!Slots PROVE SlotExact(k)
  <2>1. Doing(k) = {} /\ Calls(k) = {} /\ \A o \in Answers : Ended(k, o) = {}
    BY DEF HS!Init, Doing, Calls, Ended, HS!Counted, Past
  <2>2. stats[k] = HS!Cleared
    BY DEF HS!Init
  <2>3. QED BY <2>1, <2>2, FS_EmptySet DEF SlotExact, HS!Cleared, HS!Fields, Answers
<1>5. QED BY <1>2, <1>3, <1>4 DEF StatsInv

\* What a slot has is counted requests, so it fits; one more still fits when
\* there is a request that has not been counted.
LEMMA CountFits ==
  ASSUME CallsFit, NEW S \in SUBSET Requests, NEW r \in Requests \ S
  PROVE  /\ IsFiniteSet(S) /\ Cardinality(S) \in Nat
         /\ Cardinality(S) + 1 < 2^Width
         /\ Cardinality(S \cup {r}) = Cardinality(S) + 1
<1>1. IsFiniteSet(Requests) /\ Cardinality(Requests) < 2^Width
  BY DEF CallsFit
<1>2. IsFiniteSet(S) /\ Cardinality(S) \in Nat
  BY <1>1, FS_Subset, FS_CardinalityType
<1>3. Cardinality(S \cup {r}) = Cardinality(S) + 1
  BY <1>2, FS_AddElement
<1>4. Cardinality(S \cup {r}) <= Cardinality(Requests)
  BY <1>1, FS_Subset
<1>5. Cardinality(Requests) \in Nat /\ 2^Width \in Int
  BY <1>1, FS_CardinalityType DEF CallsFit, HS!HolderStatsAssumption
<1>6. QED BY <1>1, <1>2, <1>3, <1>4, <1>5

LEMMA SumFits == ASSUME NEW W \in Int, NEW n \in Nat, n < W PROVE (n + W) % W = n
  OBVIOUS

\* AddFetch adds to one field of one slot when the result fits.
LEMMA AddFetchAdds ==
  ASSUME CallsFit, StatsTypes, NEW r \in Requests, NEW f \in HS!Fields, NEW v \in {-1, 1},
         HS!AddFetch(r, f, v),
         stats[ts[r] % N][f] + v \in Nat, stats[ts[r] % N][f] + v < 2^Width
  PROVE  /\ ts[r] % N \in HS!Slots
         /\ stats' \in [HS!Slots -> [HS!Fields -> Nat]]
         /\ \A k \in HS!Slots, g \in HS!Fields :
              stats'[k][g] = IF k = ts[r] % N /\ g = f THEN stats[k][g] + v ELSE stats[k][g]
<1>1. N \in Nat \ {0} /\ Width \in Nat /\ 2^Width \in Int
  BY DEF CallsFit, HS!HolderStatsAssumption
<1>2. ts[r] % N \in HS!Slots
  BY <1>1 DEF StatsTypes, HS!Slots
<1>3. PICK s \in HS!Slots : s = ts[r] % N
  BY <1>2
<1>4. PICK n \in Nat : n = stats[s][f] + v
  BY <1>3
<1>5. (stats[s][f] + v + 2^Width) % 2^Width = n
  BY <1>1, <1>3, <1>4, SumFits
<1>6. stats' = [stats EXCEPT ![s] = [stats[s] EXCEPT ![f] = n]]
  BY <1>2, <1>3, <1>5 DEF HS!AddFetch, StatsTypes
<1>7. QED BY <1>2, <1>3, <1>4, <1>6 DEF StatsTypes

\* Seconds of the same slot are at least a window apart.
LEMMA DivMod == ASSUME NEW W \in Nat \ {0}, NEW n \in Nat
  PROVE n \div W \in Nat /\ n % W \in 0..W-1 /\ n = W * (n \div W) + (n % W)
  OBVIOUS
LEMMA SecondApart ==
  ASSUME NEW W \in Nat \ {0}, NEW s \in Nat, NEW t \in Nat, s % W = t % W, s < t
  PROVE  s + W <= t
<1>1. PICK a \in Nat : s = W * a + (s % W)
  BY DivMod
<1>2. PICK b \in Nat : t = W * b + (t % W)
  BY DivMod
<1>3. PICK d \in Int : d = b - a
  OBVIOUS
<1>4. W * b = W * a + W * d
  BY <1>3
<1>5. W * d > 0
  BY <1>1, <1>2, <1>4
<1>6. d >= 1
  BY <1>5
<1>7. W * d >= W
  BY <1>6
<1>8. QED BY <1>1, <1>2, <1>4, <1>7
LEMMA SameSlot ==
  ASSUME NEW W \in Nat \ {0}, NEW s \in Nat PROVE (s + W) % W = s % W
<1>1. PICK a \in Nat, m \in 0..W-1 : s = W * a + m /\ m = s % W
  BY DivMod
<1>2. PICK b \in Nat, n \in 0..W-1 : s + W = W * b + n /\ n = (s + W) % W
  <2>1. PICK u \in Nat : u = s + W
    OBVIOUS
  <2>2. QED BY <2>1, DivMod
<1>3. PICK d \in Int : d = b - a - 1
  OBVIOUS
<1>4. W * b = W * a + W + W * d
  BY <1>3
<1>5. W * d = m - n
  BY <1>1, <1>2, <1>4
<1>6. W * d < W /\ -W < W * d
  BY <1>5
<1>7. ~ d >= 1 /\ ~ d <= -1
  <2>1. d >= 1 => W * d >= W
    OBVIOUS
  <2>2. d <= -1 => W * d <= -W
    OBVIOUS
  <2>3. QED BY <1>6, <2>1, <2>2
<1>8. d = 0
  BY <1>7
<1>9. W * d = 0
  BY <1>8
<1>10. m = n
  BY <1>5, <1>9
<1>11. QED BY <1>1, <1>2, <1>10

\* What a step of one request r leaves to the others.
OthersKept(r) ==
  \A q \in Requests \ {r} : reqPc'[q] = reqPc[q] /\ ts'[q] = ts[q] /\ out'[q] = out[q]

\* With one worker the requests that are not r wait, or are outside.
LEMMA OneBusy ==
  ASSUME CallsFit, StatsInv, NEW r \in Requests, HS!MayRun(r)
  PROVE  \A q \in Requests \ {r} : reqPc[q] \in {"idle", "wait", "done"}
  BY DEF CallsFit, HS!MayRun, HS!Busy, StatsInv, StatsTypes, Stages

LEMMA AloneKept ==
  ASSUME CallsFit, StatsInv, NEW r \in Requests, HS!MayRun(r), OthersKept(r)
  PROVE  Alone'
  BY OneBusy DEF OthersKept, Alone, HS!Busy

\* A step that moves r where nothing counts it.
LEMMA SlotsKept ==
  ASSUME StatsInv, NEW r \in Requests, OthersKept(r),
         last' = last, stats' = stats,
         ~HS!Counted(r), reqPc[r] \notin Past, ~(HS!Counted(r))', reqPc'[r] \notin Past
  PROVE  \A k \in HS!Slots : SlotExact(k)'
<1> SUFFICES ASSUME NEW k \in HS!Slots PROVE SlotExact(k)'
  OBVIOUS
<1>1. Doing(k)' = Doing(k)
  BY DEF OthersKept, Doing, HS!Counted
<1>2. Calls(k)' = Calls(k)
  BY DEF OthersKept, Calls
<1>3. \A o \in Answers : Ended(k, o)' = Ended(k, o)
  <2>1. r \notin Calls(k)
    BY DEF Calls
  <2>2. QED BY <1>2, <2>1 DEF OthersKept, Ended, Calls
<1>4. QED BY <1>1, <1>2, <1>3 DEF StatsInv, SlotExact

LEMMA BeginKeeps ==
  ASSUME CallsFit, StatsInv, NEW r \in Requests, HS!Begin(r) PROVE StatsInv'
<1>1. StatsTypes'
  BY DEF StatsInv, StatsTypes, Stages, HS!Begin
<1>2. OthersKept(r)
  BY DEF StatsInv, StatsTypes, OthersKept, HS!Begin
<1>3. Alone'
  BY <1>2, AloneKept DEF HS!Begin
<1>4. reqPc[r] = "idle" /\ reqPc'[r] = "init" /\ ts'[r] = now
  BY DEF StatsInv, StatsTypes, HS!Begin
<1>5. \A k \in HS!Slots : SlotExact(k)'
  BY <1>2, <1>4, SlotsKept DEF HS!Begin, HS!Counted, Past
<1>6. ASSUME NEW q \in Requests PROVE Place(q)'
  BY <1>2, <1>4 DEF StatsInv, StatsTypes, Place, OthersKept, HS!Begin, CallsFit,
    HS!HolderStatsAssumption
<1>7. QED BY <1>1, <1>3, <1>5, <1>6 DEF StatsInv

LEMMA InitCheckKeeps ==
  ASSUME CallsFit, StatsInv, NEW r \in Requests, HS!InitCheck(r) PROVE StatsInv'
<1>1. StatsTypes'
  BY DEF StatsInv, StatsTypes, Stages, HS!InitCheck
<1>2. OthersKept(r)
  BY DEF StatsInv, StatsTypes, OthersKept, HS!InitCheck
<1>3. Alone'
  BY <1>2, AloneKept DEF HS!InitCheck
<1>4. reqPc[r] = "init" /\ ts'[r] = ts[r]
      /\ (IF last < ts[r] THEN reqPc'[r] = "clear" /\ at'[r] = last + 1
                          ELSE reqPc'[r] = "doing")
      /\ \A q \in Requests \ {r} : at'[q] = at[q]
  BY DEF StatsInv, StatsTypes, HS!InitCheck
<1>5. \A k \in HS!Slots : SlotExact(k)'
  BY <1>2, <1>4, SlotsKept DEF HS!InitCheck, HS!Counted, Past
<1>6. ASSUME NEW q \in Requests PROVE Place(q)'
  BY <1>2, <1>4 DEF StatsInv, StatsTypes, Place, OthersKept, HS!InitCheck
<1>7. QED BY <1>1, <1>3, <1>5, <1>6 DEF StatsInv

LEMMA TickKeeps == ASSUME CallsFit, StatsInv, HS!Tick PROVE StatsInv'
<1>1. StatsTypes' /\ Alone'
  BY DEF StatsInv, StatsTypes, HS!Tick, Alone, HS!Busy
<1>2. ASSUME NEW q \in Requests PROVE Place(q)'
  BY DEF StatsInv, StatsTypes, Stages, Place, HS!Tick, HS!Busy, CallsFit, HS!HolderStatsAssumption
<1>3. ASSUME NEW k \in HS!Slots PROVE SlotExact(k)'
  <2>1. Doing(k)' = Doing(k) /\ Calls(k)' = Calls(k)
    BY DEF Doing, Calls, HS!Counted, HS!Tick
  <2>2. stats' = stats /\ \A o \in Answers : Ended(k, o)' = Ended(k, o)
    BY <2>1 DEF Ended, HS!Tick
  <2>3. QED BY <2>1, <2>2 DEF StatsInv, SlotExact
<1>4. QED BY <1>1, <1>2, <1>3 DEF StatsInv

\* Nothing refers to a slot that Clear reuses, and what it counted is out of the
\* window; a slot that it does not reuse has nothing that leaves the window.
LEMMA ClearKeeps ==
  ASSUME CallsFit, StatsInv, NEW r \in Requests, HS!Clear(r) PROVE StatsInv'
<1>1. N \in Nat \ {0} /\ StatsTypes
  BY DEF CallsFit, HS!HolderStatsAssumption, StatsInv
<1>2. /\ reqPc[r] = "clear" /\ reqPc' = [reqPc EXCEPT ![r] = "doing"]
      /\ last' = ts[r] /\ now' = now /\ ts' = ts /\ at' = at /\ out' = out
  BY DEF HS!Clear
<1>3. last < ts[r] /\ ts[r] <= now /\ at[r] = last + 1
  BY <1>2 DEF StatsInv, Place
<1>4. StatsTypes'
  <2>1. stats' \in [HS!Slots -> [HS!Fields -> Nat]]
    BY <1>1 DEF StatsTypes, HS!Clear, HS!Cleared
  <2>2. QED BY <1>1, <1>2, <1>3, <2>1 DEF StatsTypes, Stages
<1>5. OthersKept(r)
  BY <1>1, <1>2 DEF StatsTypes, OthersKept
<1>6. Alone'
  BY <1>5, AloneKept DEF HS!Clear
<1>7. reqPc'[r] = "doing" /\ \A q \in Requests \ {r} : reqPc'[q] = reqPc[q]
  BY <1>1, <1>2 DEF StatsTypes
<1>8. ASSUME NEW q \in Requests PROVE Place(q)'
  BY <1>1, <1>2, <1>3, <1>7, OneBusy DEF StatsInv, StatsTypes, Place, HS!Clear
<1>9. ASSUME NEW k \in HS!Slots PROVE SlotExact(k)'
  <2>1. CASE \E t \in last + 1..ts[r] : t % N = k
    <3>1. PICK t \in last + 1..ts[r] : t % N = k
      BY <2>1
    <3>2. t \in Nat /\ last < t /\ t <= ts[r]
      BY <1>1 DEF StatsTypes
    <3>3. stats'[k] = HS!Cleared
      BY <1>3, <2>1 DEF HS!Clear
    <3>4. ASSUME NEW q \in Requests, ts[q] % N = k, ts[q] <= last PROVE ts[q] + N <= t
      <4>1. ts[q] \in Nat /\ last \in Nat
        BY <1>1 DEF StatsTypes
      <4>2. ts[q] % N = t % N /\ ts[q] < t
        BY <3>1, <3>2, <3>4, <4>1
      <4>3. QED BY ONLY <1>1, <3>2, <4>1, <4>2, SecondApart
    <3>5. Doing(k)' = {}
      <4> SUFFICES ASSUME NEW q \in Requests, (HS!Counted(q))', ts[q] % N = k PROVE FALSE
        BY <1>2 DEF Doing
      <4>1. q # r /\ reqPc[q] = "wait"
        BY <1>7, OneBusy DEF HS!Clear, HS!Counted
      <4>2. now < ts[q] + N /\ ts[q] <= last
        BY <4>1 DEF StatsInv, Place
      <4>3. ts[q] + N <= t
        BY <3>4, <4>2
      <4>4. QED BY <1>1, <1>3, <3>2, <4>2, <4>3 DEF StatsTypes
    <3>6. Calls(k)' = {}
      <4> SUFFICES ASSUME NEW q \in Requests, reqPc'[q] \in Past, ts[q] % N = k,
                          ts[q] > ts[r] - N
                   PROVE  FALSE
        BY <1>2 DEF Calls
      <4>1. q # r /\ reqPc[q] \in Past
        BY <1>7 DEF Past
      <4>2. ts[q] <= last
        BY <4>1 DEF StatsInv, Place, Past
      <4>3. ts[q] + N <= t
        BY <3>4, <4>2
      <4>4. QED BY <1>1, <3>2, <4>3 DEF StatsTypes
    <3>7. \A o \in Answers : Ended(k, o)' = {}
      BY <3>6 DEF Ended
    <3>8. QED BY <3>3, <3>5, <3>6, <3>7, FS_EmptySet
            DEF SlotExact, HS!Cleared, HS!Fields, Answers
  <2>2. CASE ~ \E t \in last + 1..ts[r] : t % N = k
    <3>1. stats'[k] = stats[k]
      BY <1>3, <2>2 DEF HS!Clear
    <3>2. Doing(k)' = Doing(k)
      BY <1>2, <1>7 DEF Doing, HS!Counted
    <3>3. ASSUME NEW q \in Requests, reqPc[q] \in Past, ts[q] % N = k, ts[q] > last - N
          PROVE  ts[q] > ts[r] - N
      <4>1. ts[q] \in Nat /\ last \in Nat /\ ts[r] \in Nat
        BY <1>1 DEF StatsTypes
      <4>2. (ts[q] + N) % N = k
        BY <1>1, <3>3, <4>1, SameSlot
      <4>3. ~ (ts[q] + N \in last + 1..ts[r])
        BY <2>2, <4>2
      <4>4. QED BY <1>1, <3>3, <4>1, <4>3
    <3>4. Calls(k)' = Calls(k)
      <4>1. \A q \in Requests : ts[q] > ts[r] - N => ts[q] > last - N
        BY <1>1, <1>3 DEF StatsTypes
      <4>2. \A q \in Requests : reqPc'[q] \in Past <=> reqPc[q] \in Past
        BY <1>2, <1>7 DEF Past
      <4>3. QED BY <1>2, <3>3, <4>1, <4>2 DEF Calls
    <3>5. \A o \in Answers : Ended(k, o)' = Ended(k, o)
      BY <1>2, <3>4 DEF Ended
    <3>6. QED BY <3>1, <3>2, <3>4, <3>5 DEF StatsInv, SlotExact
  <2>3. QED BY <2>1, <2>2
<1>10. QED BY <1>4, <1>6, <1>8, <1>9 DEF StatsInv

LEMMA IncDoingKeeps ==
  ASSUME CallsFit, StatsInv, NEW r \in Requests, HS!IncDoing(r) PROVE StatsInv'
<1>1. StatsTypes /\ Place(r) /\ "doing" \in HS!Fields
  BY DEF StatsInv, HS!Fields
<1>2. /\ reqPc[r] = "doing" /\ reqPc' = [reqPc EXCEPT ![r] = "total"]
      /\ last' = last /\ now' = now /\ ts' = ts /\ at' = at /\ out' = out
  BY DEF HS!IncDoing
<1>3. OthersKept(r) /\ reqPc'[r] = "total"
  BY <1>1, <1>2 DEF StatsTypes, OthersKept
<1>4. Alone'
  BY <1>3, AloneKept DEF HS!IncDoing
<1>5. ASSUME NEW q \in Requests PROVE Place(q)'
  BY <1>2, <1>3 DEF StatsInv, Place, OthersKept
<1>6. PICK s \in HS!Slots : s = ts[r] % N
  BY <1>1 DEF StatsTypes, CallsFit, HS!HolderStatsAssumption, HS!Slots
<1>7. /\ r \notin Doing(s) /\ Doing(s)' = Doing(s) \cup {r}
      /\ \A k \in HS!Slots \ {s} : Doing(k)' = Doing(k)
  BY <1>2, <1>3, <1>6 DEF OthersKept, Doing, HS!Counted
<1>8. stats[s]["doing"] = Cardinality(Doing(s)) /\ Doing(s) \in SUBSET Requests
  BY DEF StatsInv, SlotExact, Doing
<1>9. /\ Cardinality(Doing(s)) \in Nat /\ Cardinality(Doing(s)) + 1 < 2^Width
      /\ Cardinality(Doing(s)') = Cardinality(Doing(s)) + 1
  BY <1>7, <1>8, CountFits
<1>10. stats[ts[r] % N]["doing"] + 1 \in Nat /\ stats[ts[r] % N]["doing"] + 1 < 2^Width
  BY <1>6, <1>8, <1>9
<1>11. HS!AddFetch(r, "doing", 1)
  BY DEF HS!IncDoing
<1>12. /\ stats' \in [HS!Slots -> [HS!Fields -> Nat]]
       /\ \A k \in HS!Slots, g \in HS!Fields :
            stats'[k][g] = IF k = ts[r] % N /\ g = "doing" THEN stats[k][g] + 1 ELSE stats[k][g]
  BY <1>1, <1>10, <1>11, AddFetchAdds
<1>13. StatsTypes'
  BY <1>1, <1>2, <1>12 DEF StatsTypes, Stages
<1>14. ASSUME NEW k \in HS!Slots PROVE SlotExact(k)'
  <2>1. Calls(k)' = Calls(k)
    BY <1>2, <1>3 DEF OthersKept, Calls, Past
  <2>2. \A o \in Answers : Ended(k, o)' = Ended(k, o)
    BY <1>2, <2>1 DEF Ended
  <2>3. stats'[k]["doing"] = Cardinality(Doing(k)')
    BY <1>1, <1>6, <1>7, <1>8, <1>9, <1>12 DEF StatsInv, SlotExact
  <2>4. stats'[k]["total"] = stats[k]["total"] /\ \A o \in Answers : stats'[k][o] = stats[k][o]
    BY <1>12 DEF HS!Fields, Answers
  <2>5. QED BY <2>1, <2>2, <2>3, <2>4 DEF StatsInv, SlotExact
<1>15. QED BY <1>4, <1>5, <1>13, <1>14 DEF StatsInv

LEMMA IncTotalKeeps ==
  ASSUME CallsFit, StatsInv, NEW r \in Requests, HS!IncTotal(r) PROVE StatsInv'
<1>1. StatsTypes /\ Place(r) /\ "total" \in HS!Fields
  BY DEF StatsInv, HS!Fields
<1>2. /\ reqPc[r] = "total" /\ reqPc' = [reqPc EXCEPT ![r] = "wait"]
      /\ last' = last /\ now' = now /\ ts' = ts /\ at' = at /\ out' = out
  BY DEF HS!IncTotal
<1>3. OthersKept(r) /\ reqPc'[r] = "wait"
  BY <1>1, <1>2 DEF StatsTypes, OthersKept
<1>4. Alone'
  BY <1>3, AloneKept DEF HS!IncTotal
<1>5. ASSUME NEW q \in Requests PROVE Place(q)'
  BY <1>2, <1>3 DEF StatsInv, Place, OthersKept
<1>6. PICK s \in HS!Slots : s = ts[r] % N
  BY <1>1 DEF StatsTypes, CallsFit, HS!HolderStatsAssumption, HS!Slots
<1>7. ts[r] > last - N
  BY <1>1, <1>2 DEF Place, StatsTypes, CallsFit, HS!HolderStatsAssumption
<1>8. /\ r \notin Calls(s) /\ Calls(s)' = Calls(s) \cup {r}
      /\ \A k \in HS!Slots \ {s} : Calls(k)' = Calls(k)
  BY <1>2, <1>3, <1>6, <1>7 DEF OthersKept, Calls, Past
<1>9. stats[s]["total"] = Cardinality(Calls(s)) /\ Calls(s) \in SUBSET Requests
  BY DEF StatsInv, SlotExact, Calls
<1>10. /\ Cardinality(Calls(s)) \in Nat /\ Cardinality(Calls(s)) + 1 < 2^Width
       /\ Cardinality(Calls(s)') = Cardinality(Calls(s)) + 1
  BY <1>8, <1>9, CountFits
<1>11. stats[ts[r] % N]["total"] + 1 \in Nat /\ stats[ts[r] % N]["total"] + 1 < 2^Width
  BY <1>6, <1>9, <1>10
<1>12. HS!AddFetch(r, "total", 1)
  BY DEF HS!IncTotal
<1>13. /\ stats' \in [HS!Slots -> [HS!Fields -> Nat]]
       /\ \A k \in HS!Slots, g \in HS!Fields :
            stats'[k][g] = IF k = ts[r] % N /\ g = "total" THEN stats[k][g] + 1 ELSE stats[k][g]
  BY <1>1, <1>11, <1>12, AddFetchAdds
<1>14. StatsTypes'
  BY <1>1, <1>2, <1>13 DEF StatsTypes, Stages
<1>15. ASSUME NEW k \in HS!Slots PROVE SlotExact(k)'
  <2>1. Doing(k)' = Doing(k)
    BY <1>2, <1>3 DEF OthersKept, Doing, HS!Counted
  <2>2. \A o \in Answers : Ended(k, o)' = Ended(k, o)
    <3>1. out[r] = "none" /\ out'[r] = "none"
      BY <1>1, <1>2 DEF Place
    <3>2. QED BY <1>6, <1>8, <3>1, <1>2 DEF Ended, Answers
  <2>3. stats'[k]["total"] = Cardinality(Calls(k)')
    BY <1>1, <1>6, <1>8, <1>9, <1>10, <1>13 DEF StatsInv, SlotExact
  <2>4. stats'[k]["doing"] = stats[k]["doing"] /\ \A o \in Answers : stats'[k][o] = stats[k][o]
    BY <1>13 DEF HS!Fields, Answers
  <2>5. QED BY <2>1, <2>2, <2>3, <2>4 DEF StatsInv, SlotExact
<1>16. QED BY <1>4, <1>5, <1>14, <1>15 DEF StatsInv

LEMMA AnswerKeeps ==
  ASSUME CallsFit, StatsInv, NEW r \in Requests,
         NEW o \in {"oks", "timeouts", "errs", "other"}, HS!Answer(r, o)
  PROVE  StatsInv'
<1>1. StatsTypes /\ Place(r)
  BY DEF StatsInv
<1>2. /\ reqPc[r] = "wait" /\ reqPc' = [reqPc EXCEPT ![r] = "dec"]
      /\ last' = last /\ now' = now /\ ts' = ts /\ at' = at /\ out' = [out EXCEPT ![r] = o]
  BY DEF HS!Answer
<1>3. OthersKept(r) /\ reqPc'[r] = "dec" /\ out'[r] = o /\ out[r] = "none"
  BY <1>1, <1>2 DEF StatsTypes, OthersKept, Place
<1>4. Alone'
  BY <1>3, AloneKept DEF HS!Answer
<1>5. ASSUME NEW q \in Requests PROVE Place(q)'
  BY <1>2, <1>3 DEF StatsInv, Place, OthersKept
<1>6. PICK s \in HS!Slots : s = ts[r] % N
  BY <1>1 DEF StatsTypes, CallsFit, HS!HolderStatsAssumption, HS!Slots
<1>7. ts[r] > last - N
  BY <1>1, <1>2 DEF Place, StatsTypes, CallsFit, HS!HolderStatsAssumption
<1>8. \A k \in HS!Slots : Doing(k)' = Doing(k) /\ Calls(k)' = Calls(k)
  BY <1>2, <1>3 DEF OthersKept, Doing, HS!Counted, Calls, Past
<1>9. r \in Calls(s) /\ \A k \in HS!Slots \ {s} : r \notin Calls(k)
  BY <1>2, <1>6, <1>7 DEF Calls, Past
<1>10. \A k \in HS!Slots : Calls(k) \in SUBSET Requests
  BY DEF Calls
<1>11. ASSUME NEW k \in HS!Slots, NEW p \in Answers, k # s \/ p # o
       PROVE  Ended(k, p)' = Ended(k, p)
  <2>1. \A q \in Calls(k) : out'[q] = p <=> out[q] = p
    BY <1>3, <1>9, <1>10, <1>11 DEF OthersKept, Answers
  <2>2. QED BY <1>8, <2>1 DEF Ended
<1>12. CASE o = "other"
  <2>1. stats' = stats
    BY <1>12 DEF HS!Answer
  <2>2. \A k \in HS!Slots, p \in Answers : Ended(k, p)' = Ended(k, p)
    BY <1>11, <1>12 DEF Answers
  <2>3. \A k \in HS!Slots : SlotExact(k)'
    BY <1>8, <2>1, <2>2 DEF StatsInv, SlotExact
  <2>4. StatsTypes'
    BY <1>1, <1>2, <2>1 DEF StatsTypes, Stages, Outcomes
  <2>5. QED BY <1>4, <1>5, <2>3, <2>4 DEF StatsInv
<1>13. CASE o # "other"
  <2>1. o \in Answers /\ o \in HS!Fields
    BY <1>13 DEF Answers, HS!Fields
  <2>2. r \notin Ended(s, o) /\ Ended(s, o)' = Ended(s, o) \cup {r}
    <3>1. r \notin Ended(s, o)
      BY <1>3, <2>1 DEF Ended, Answers
    <3>2. \A q \in Calls(s) : out'[q] = o <=> (out[q] = o \/ q = r)
      BY <1>3, <1>10 DEF OthersKept
    <3>3. QED BY <1>8, <1>9, <3>1, <3>2 DEF Ended
  <2>3. stats[s][o] = Cardinality(Ended(s, o)) /\ Ended(s, o) \in SUBSET Requests
    BY <1>10, <2>1 DEF StatsInv, SlotExact, Ended
  <2>4. /\ Cardinality(Ended(s, o)) \in Nat /\ Cardinality(Ended(s, o)) + 1 < 2^Width
        /\ Cardinality(Ended(s, o)') = Cardinality(Ended(s, o)) + 1
    BY <2>2, <2>3, CountFits
  <2>5. stats[ts[r] % N][o] + 1 \in Nat /\ stats[ts[r] % N][o] + 1 < 2^Width
    BY <1>6, <2>3, <2>4
  <2>6. HS!AddFetch(r, o, 1)
    BY <1>13 DEF HS!Answer
  <2>7. /\ stats' \in [HS!Slots -> [HS!Fields -> Nat]]
        /\ \A k \in HS!Slots, g \in HS!Fields :
             stats'[k][g] = IF k = ts[r] % N /\ g = o THEN stats[k][g] + 1 ELSE stats[k][g]
    <3>1. PICK v, f : v = 1 /\ f = o
      OBVIOUS
    <3>2. /\ v \in {-1, 1} /\ f \in HS!Fields /\ HS!AddFetch(r, f, v)
          /\ stats[ts[r] % N][f] + v \in Nat /\ stats[ts[r] % N][f] + v < 2^Width
      BY <2>1, <2>5, <2>6, <3>1
    <3>3. /\ stats' \in [HS!Slots -> [HS!Fields -> Nat]]
          /\ \A k \in HS!Slots, g \in HS!Fields :
               stats'[k][g] = IF k = ts[r] % N /\ g = f THEN stats[k][g] + v ELSE stats[k][g]
      BY <1>1, <3>2, AddFetchAdds
    <3>4. QED BY <3>1, <3>3
  <2>8. StatsTypes'
    BY <1>1, <1>2, <2>7 DEF StatsTypes, Stages, Outcomes
  <2>9. ASSUME NEW k \in HS!Slots PROVE SlotExact(k)'
    <3>1. stats'[k]["doing"] = stats[k]["doing"] /\ stats'[k]["total"] = stats[k]["total"]
      BY <2>1, <2>7 DEF HS!Fields, Answers
    <3>2. ASSUME NEW p \in Answers PROVE stats'[k][p] = Cardinality(Ended(k, p)')
      <4>1. p \in HS!Fields /\ stats[k][p] = Cardinality(Ended(k, p))
        BY DEF Answers, HS!Fields, StatsInv, SlotExact
      <4>2. CASE k = s /\ p = o
        BY <1>6, <2>3, <2>4, <2>7, <4>1, <4>2
      <4>3. CASE k # s \/ p # o
        BY <1>6, <1>11, <2>7, <4>1, <4>3
      <4>4. QED BY <4>2, <4>3
    <3>3. QED BY <1>8, <3>1, <3>2 DEF StatsInv, SlotExact
  <2>10. QED BY <1>4, <1>5, <2>8, <2>9 DEF StatsInv
<1>14. QED BY <1>12, <1>13

LEMMA DecDoingKeeps ==
  ASSUME CallsFit, StatsInv, NEW r \in Requests, HS!DecDoing(r) PROVE StatsInv'
<1>1. StatsTypes /\ Place(r) /\ "doing" \in HS!Fields
  BY DEF StatsInv, HS!Fields
<1>2. /\ reqPc[r] = "dec" /\ reqPc' = [reqPc EXCEPT ![r] = "done"]
      /\ last' = last /\ now' = now /\ ts' = ts /\ at' = at /\ out' = out
  BY DEF HS!DecDoing
<1>3. OthersKept(r) /\ reqPc'[r] = "done"
  BY <1>1, <1>2 DEF StatsTypes, OthersKept
<1>4. Alone'
  BY <1>3, AloneKept DEF HS!DecDoing
<1>5. ASSUME NEW q \in Requests PROVE Place(q)'
  BY <1>2, <1>3 DEF StatsInv, Place, OthersKept
<1>6. PICK s \in HS!Slots : s = ts[r] % N
  BY <1>1 DEF StatsTypes, CallsFit, HS!HolderStatsAssumption, HS!Slots
<1>7. /\ r \notin Doing(s)' /\ Doing(s) = Doing(s)' \cup {r} /\ Doing(s)' \in SUBSET Requests
      /\ \A k \in HS!Slots \ {s} : Doing(k)' = Doing(k)
  BY <1>2, <1>3, <1>6 DEF OthersKept, Doing, HS!Counted
<1>8. stats[s]["doing"] = Cardinality(Doing(s))
  BY DEF StatsInv, SlotExact
<1>9. /\ Cardinality(Doing(s)') \in Nat /\ Cardinality(Doing(s)') + 1 < 2^Width
      /\ Cardinality(Doing(s)) = Cardinality(Doing(s)') + 1
  <2>1. PICK S \in SUBSET Requests : S = Doing(s)'
    BY <1>7
  <2>2. QED BY <1>7, <2>1, CountFits
<1>10. PICK W \in Int : W = 2^Width
  BY DEF CallsFit, HS!HolderStatsAssumption
<1>11. stats[ts[r] % N]["doing"] + -1 \in Nat /\ stats[ts[r] % N]["doing"] + -1 < 2^Width
  BY <1>6, <1>8, <1>9, <1>10
<1>12. HS!AddFetch(r, "doing", -1)
  BY DEF HS!DecDoing
<1>13. /\ stats' \in [HS!Slots -> [HS!Fields -> Nat]]
       /\ \A k \in HS!Slots, g \in HS!Fields :
            stats'[k][g] = IF k = ts[r] % N /\ g = "doing" THEN stats[k][g] + -1 ELSE stats[k][g]
  BY <1>1, <1>11, <1>12, AddFetchAdds
<1>14. StatsTypes'
  BY <1>1, <1>2, <1>13 DEF StatsTypes, Stages
<1>15. ASSUME NEW k \in HS!Slots PROVE SlotExact(k)'
  <2>1. Calls(k)' = Calls(k)
    BY <1>2, <1>3 DEF OthersKept, Calls, Past
  <2>2. \A o \in Answers : Ended(k, o)' = Ended(k, o)
    BY <1>2, <2>1 DEF Ended
  <2>3. stats'[k]["doing"] = Cardinality(Doing(k)')
    <3>1. CASE k = s
      BY <1>1, <1>6, <1>8, <1>9, <1>13, <3>1
    <3>2. CASE k # s
      <4>1. stats'[k]["doing"] = stats[k]["doing"] /\ Doing(k)' = Doing(k)
        BY <1>1, <1>6, <1>7, <1>13, <3>2
      <4>2. QED BY <4>1 DEF StatsInv, SlotExact
    <3>3. QED BY <3>1, <3>2
  <2>4. stats'[k]["total"] = stats[k]["total"] /\ \A o \in Answers : stats'[k][o] = stats[k][o]
    BY <1>13 DEF HS!Fields, Answers
  <2>5. QED BY <2>1, <2>2, <2>3, <2>4 DEF StatsInv, SlotExact
<1>16. QED BY <1>4, <1>5, <1>14, <1>15 DEF StatsInv

LEMMA StatsStep == CallsFit /\ StatsInv /\ [HS!Next]_(HS!vars) => StatsInv'
<1> SUFFICES ASSUME CallsFit, StatsInv, [HS!Next]_(HS!vars) PROVE StatsInv'
  OBVIOUS
<1>1. CASE UNCHANGED HS!vars
  <2>1. StatsTypes' /\ Alone' /\ \A r \in Requests : Place(r)'
    BY <1>1 DEF StatsInv, StatsTypes, Alone, Place, HS!Busy, HS!vars
  <2>2. ASSUME NEW k \in HS!Slots PROVE SlotExact(k)'
    <3>1. Doing(k)' = Doing(k) /\ Calls(k)' = Calls(k)
      BY <1>1 DEF Doing, Calls, HS!Counted, HS!vars
    <3>2. stats' = stats /\ \A o \in Answers : Ended(k, o)' = Ended(k, o)
      BY <1>1, <3>1 DEF Ended, HS!vars
    <3>3. QED BY <3>1, <3>2 DEF StatsInv, SlotExact
  <2>3. QED BY <2>1, <2>2 DEF StatsInv
<1>2. CASE HS!Tick
  BY <1>2, TickKeeps
<1>3. ASSUME NEW r \in Requests, HS!Steps(r) PROVE StatsInv'
  BY <1>3, BeginKeeps, InitCheckKeeps, ClearKeeps, IncDoingKeeps, IncTotalKeeps, AnswerKeeps,
    DecDoingKeeps DEF HS!Steps
<1>4. QED BY <1>1, <1>2, <1>3 DEF HS!Next

\* When no call is being counted, all that have begun have been counted.
LEMMA StatsInvExact == CallsFit /\ StatsInv => HS!StatsExact
<1> SUFFICES ASSUME CallsFit, StatsInv PROVE HS!StatsExact
  OBVIOUS
<1>1. \A S : HS!Cardinality(S) = Cardinality(S)
  BY DEF HS!Cardinality, Cardinality
<1>2. HS!DoingExact
  <2>1. \A k \in HS!Slots : Doing(k) = {r \in Requests : HS!Counted(r) /\ ts[r] % N = k}
    BY DEF Doing
  <2>2. QED BY <1>1, <2>1 DEF HS!DoingExact, StatsInv, SlotExact
<1>3. HS!WindowExact
  <2> SUFFICES ASSUME \A r \in Requests : ~HS!Busy(r), NEW k \in HS!Slots
               PROVE  LET mine == {r \in Requests : reqPc[r] # "idle" /\ ts[r] % N = k
                                                    /\ ts[r] > last - N}
                      IN  /\ stats[k]["total"] = Cardinality(mine)
                          /\ \A o \in {"oks", "timeouts", "errs"} :
                               stats[k][o] = Cardinality({r \in mine : out[r] = o})
    BY <1>1 DEF HS!WindowExact
  <2>1. \A r \in Requests : reqPc[r] # "idle" <=> reqPc[r] \in Past
    BY DEF StatsInv, StatsTypes, Stages, HS!Busy, Past
  <2>2. Calls(k) = {r \in Requests : reqPc[r] # "idle" /\ ts[r] % N = k /\ ts[r] > last - N}
    BY <2>1 DEF Calls
  <2>3. QED BY <2>2 DEF StatsInv, SlotExact, Ended, Answers
<1>4. QED BY <1>2, <1>3 DEF HS!StatsExact

\* What the balancer reads of a holder is what its calls have done.
THEOREM StatsAreExact == CallsFit => (HS!Spec => []HS!StatsExact)
<1> SUFFICES ASSUME CallsFit PROVE HS!Spec => []HS!StatsExact
  OBVIOUS
<1>1. HS!Init => StatsInv
  BY StatsInit
<1>2. StatsInv /\ [HS!Next]_(HS!vars) => StatsInv'
  BY StatsStep
<1>3. StatsInv => HS!StatsExact
  BY StatsInvExact
<1>4. QED BY <1>1, <1>2, <1>3, PTL DEF HS!Spec

-----------------------------------------------------------------------------
(***************************************************************************)
(* LoadBalance: for any set of providers and weights, and every strategy   *)
(***************************************************************************)
\* A set of numbers that is not empty has a least one.
LEMMA LeastNumber ==
  ASSUME NEW T \in SUBSET Nat, T # {}
  PROVE  \E m \in T : \A n \in T : m <= n
<1>1. IsWellFoundedOn({ss \in Nat \X Nat : ss[1] < ss[2]}, Nat)
  BY NatLessThanWellFounded DEF OpToRel
<1>2. PICK m \in T : \A n \in T : ~ (<<n, m>> \in {ss \in Nat \X Nat : ss[1] < ss[2]})
  BY <1>1, WFMin
<1>3. \A n \in T : ~ n < m
  BY <1>2
<1>4. QED BY <1>3

LEMMA SumsTyped ==
  ASSUME NEW S, NEW s \in Seq(S), NEW w \in [S -> Nat]
  PROVE  LB!Sums(s, w) \in Seq(Nat) /\ Len(LB!Sums(s, w)) = Len(s)
<1> DEFINE n == Len(s)
           Adds(g, m) == g = [k \in 0..m |-> IF k = 0 THEN 0 ELSE g[k - 1] + w[s[k]]]
           Bad == {m \in Nat : m <= n /\ ~ \E g \in [0..m -> Nat] : Adds(g, m)}
<1>1. n \in Nat /\ \A k \in 1..n : w[s[k]] \in Nat
  OBVIOUS
<1>2. Bad = {}
  <2> SUFFICES ASSUME Bad # {} PROVE FALSE
    OBVIOUS
  <2>1. PICK m \in Bad : \A l \in Bad : m <= l
    BY LeastNumber
  <2>2. m \in Nat /\ m <= n /\ ~ \E g \in [0..m -> Nat] : Adds(g, m)
    OBVIOUS
  <2>3. CASE m = 0
    <3>1. [k \in 0..0 |-> 0] \in [0..0 -> Nat] /\ Adds([k \in 0..0 |-> 0], 0)
      OBVIOUS
    <3>2. QED BY <2>2, <2>3, <3>1
  <2>4. CASE m # 0
    <3>1. m - 1 \in Nat /\ ~ m <= m - 1
      BY <2>2, <2>4
    <3>2. m - 1 \notin Bad
      <4> HIDE DEF Bad
      <4>1. QED BY <2>1, <3>1
    <3>3. \E g \in [0..m - 1 -> Nat] : Adds(g, m - 1)
      <4> HIDE DEF Adds
      <4>1. m - 1 <= n
        BY <1>1, <2>2
      <4>2. QED BY <3>1, <3>2, <4>1
    <3>4. PICK g \in [0..m - 1 -> Nat] : Adds(g, m - 1)
      BY <3>3
    <3>5. PICK h : h = [k \in 0..m |-> IF k = m THEN g[m - 1] + w[s[m]] ELSE g[k]]
      OBVIOUS
    <3>6. h \in [0..m -> Nat]
      <4>1. w[s[m]] \in Nat /\ g[m - 1] \in Nat
        BY <1>1, <2>2, <2>4
      <4>2. \A k \in 0..m : k = m \/ k \in 0..m - 1
        BY <2>2
      <4>3. QED BY <3>5, <4>1, <4>2
    <3>7. Adds(h, m)
      <4>1. ASSUME NEW k \in 0..m
            PROVE  h[k] = IF k = 0 THEN 0 ELSE h[k - 1] + w[s[k]]
        <5>1. CASE k = m
          BY <2>2, <2>4, <3>5, <5>1
        <5>2. CASE k # m
          <6>1. k \in 0..m - 1 /\ (k # 0 => k - 1 \in 0..m - 1 /\ k - 1 # m /\ k - 1 \in 0..m)
            BY <2>2, <5>2
          <6>2. h[k] = g[k] /\ (k # 0 => h[k - 1] = g[k - 1])
            BY <3>5, <5>2, <6>1
          <6>3. g[k] = IF k = 0 THEN 0 ELSE g[k - 1] + w[s[k]]
            BY <3>4, <6>1
          <6>4. QED BY <6>2, <6>3
        <5>3. QED BY <5>1, <5>2
      <4>2. QED BY <3>5, <4>1
    <3>8. QED BY <2>2, <3>6, <3>7
  <2>5. QED BY <2>3, <2>4
<1>3. PICK g0 \in [0..n -> Nat] : Adds(g0, n)
  <2> HIDE DEF Adds
  <2>1. QED BY <1>1, <1>2
<1> DEFINE upTo == CHOOSE g : Adds(g, n)
<1>4. Adds(upTo, n)
  BY <1>3
<1>6. upTo \in [0..n -> Nat]
  <2> DEFINE Off == {m \in 0..n : upTo[m] # g0[m]}
  <2>1. Off = {}
    <3> SUFFICES ASSUME Off # {} PROVE FALSE
      OBVIOUS
    <3>0. Off \in SUBSET Nat
      BY <1>1
    <3>1. PICK m \in Off : \A l \in Off : m <= l
      <4> HIDE DEF Off
      <4>1. QED BY <3>0, LeastNumber
    <3>2. m \in 0..n /\ upTo[m] # g0[m] /\ m \in Nat
      BY <1>1
    <3>3. m # 0 => upTo[m - 1] = g0[m - 1]
      <4> SUFFICES ASSUME m # 0 PROVE upTo[m - 1] = g0[m - 1]
        OBVIOUS
      <4>1. m - 1 \in 0..n /\ ~ m <= m - 1
        BY <1>1, <3>2
      <4>2. m - 1 \notin Off
        <5> HIDE DEF Off
        <5>1. QED BY <3>1, <4>1
      <4>3. QED BY <4>1, <4>2
    <3> HIDE DEF upTo
    <3>4. g0[m] = IF m = 0 THEN 0 ELSE g0[m - 1] + w[s[m]]
      BY <1>3, <3>2
    <3>5. upTo[m] = IF m = 0 THEN 0 ELSE upTo[m - 1] + w[s[m]]
      BY <1>4, <3>2
    <3>6. QED BY <3>2, <3>3, <3>4, <3>5
  <2> HIDE DEF upTo
  <2>2. upTo = [k \in 0..n |-> upTo[k]]
    BY <1>4
  <2>3. QED BY <2>1, <2>2, <1>3
<1>7. LB!Sums(s, w) = [k \in 1..n |-> upTo[k]]
  BY DEF LB!Sums
<1> HIDE DEF upTo
<1>8. QED BY <1>1, <1>6, <1>7

BalanceInv ==
  /\ valid \subseteq lbDatas /\ lbDatas \subseteq Providers
  /\ weight \in [Providers -> Nat]
  /\ items \in Seq(Providers) /\ weights \in Seq(Nat)
  /\ kind # "ROUNDROBIN" => Len(weights) = Len(items)

BalanceFits == LB!LoadBalanceAssumption /\ IsFiniteSet(Providers)

LEMMA BalanceInit == LB!Init => BalanceInv
  BY DEF LB!Init, BalanceInv

LEMMA InitNolockTypes ==
  ASSUME BalanceFits, NEW on \in SUBSET Providers, NEW w \in [Providers -> Nat],
         LB!InitNolock(on, w), kind' = kind
  PROVE  /\ weight' \in [Providers -> Nat]
         /\ items' \in Seq(Providers) /\ weights' \in Seq(Nat)
         /\ kind' # "ROUNDROBIN" => Len(weights') = Len(items')
<1>1. PICK n \in Nat : n = LB!Cardinality(on)
  <2>1. LB!Cardinality(on) = Cardinality(on)
    BY DEF LB!Cardinality, Cardinality
  <2>2. Cardinality(on) \in Nat
    BY FS_Subset, FS_CardinalityType DEF BalanceFits
  <2>3. QED BY <2>1, <2>2
<1>2. items' \in [1..n -> on]
  BY <1>1 DEF LB!InitNolock, LB!SetToSeqs
<1>3. items' \in Seq(Providers)
  BY <1>2
<1>4. weight' \in [Providers -> Nat]
  <2>1. \A s, i : LB!FairWeight(s, i) \in Nat
    BY DEF LB!FairWeight
  <2>2. CASE kind = "FAIR"
    BY <2>1, <2>2 DEF LB!InitNolock
  <2>3. CASE kind # "FAIR"
    BY <2>3 DEF LB!InitNolock
  <2>4. QED BY <2>2, <2>3
<1>5. CASE kind = "ROUNDROBIN"
  BY <1>3, <1>4, <1>5 DEF LB!InitNolock
<1>6. CASE kind # "ROUNDROBIN"
  <2>1. weights' = LB!Sums(items', weight')
    BY <1>6 DEF LB!InitNolock
  <2>2. QED BY <1>3, <1>4, <2>1, SumsTyped
<1>7. QED BY <1>5, <1>6

LEMMA BalanceStep == BalanceFits /\ BalanceInv /\ [LB!Next]_(LB!vars) => BalanceInv'
<1> SUFFICES ASSUME BalanceFits, BalanceInv, [LB!Next]_(LB!vars) PROVE BalanceInv'
  OBVIOUS
<1>1. CASE UNCHANGED <<kind, lbDatas, weight, items, weights>> /\ valid' \subseteq lbDatas'
  BY <1>1 DEF BalanceInv
<1>2. ASSUME NEW adds \in SUBSET Providers, NEW dels \in SUBSET Providers,
             NEW on \in SUBSET Providers, NEW w \in Weights, LB!Update(adds, dels, on, w)
      PROVE  BalanceInv'
  <2>1. valid' \subseteq lbDatas' /\ lbDatas' \subseteq Providers /\ kind' = kind
    BY <1>2 DEF LB!Update, BalanceInv
  <2>2. PICK ws : ws = [i \in Providers |-> IF i \in adds THEN w ELSE weight[i]]
    OBVIOUS
  <2>3. ws \in [Providers -> Nat] /\ LB!InitNolock(valid', ws)
    BY <1>2, <2>2 DEF LB!Update, BalanceInv, BalanceFits, LB!LoadBalanceAssumption
  <2>4. PICK v \in SUBSET Providers : v = valid'
    BY <2>1
  <2>5. LB!InitNolock(v, ws)
    BY <2>3, <2>4 DEF LB!InitNolock
  <2>6. QED BY <2>1, <2>3, <2>5, InitNolockTypes DEF BalanceInv
<1>3. CASE LB!Refresh
  <2>1. LB!InitNolock(valid, weight) /\ UNCHANGED <<kind, lbDatas, valid>>
    BY <1>3 DEF LB!Refresh
  <2>2. valid \in SUBSET Providers /\ weight \in [Providers -> Nat]
    BY DEF BalanceInv
  <2>3. QED BY <2>1, <2>2, InitNolockTypes DEF BalanceInv
<1>4. QED
  BY <1>1, <1>2, <1>3 DEF LB!Next, LB!Connects, LB!Disconnects, LB!Tick, LB!Crash, LB!Request,
    LB!vars, BalanceInv

\* The search starts at an item, if there is one.
LEMMA StartsInside ==
  ASSUME BalanceInv, ~LB!DividesByZero, NEW v \in LB!Draws
  PROVE  IF items = << >> THEN LB!Start(v) = -1 ELSE LB!Start(v) \in 0..Len(items) - 1
<1>1. PICK n \in Nat : n = Len(items)
  BY DEF BalanceInv
<1>2. weights \in Seq(Nat) /\ (items = << >> <=> n = 0)
  BY <1>1 DEF BalanceInv
<1>3. weights # << >> => LB!Last(weights) \in Nat /\ LB!Last(weights) = weights[Len(weights)]
  BY <1>2 DEF LB!Last
<1>4. v \in Nat
  BY <1>1, <1>3 DEF LB!Draws
<1>5. CASE kind = "ROUNDROBIN"
  <2>1. n # 0 => v % n \in 0..n - 1
    BY <1>1, <1>4
  <2>2. QED BY <1>1, <1>2, <1>5, <2>1 DEF LB!Start
<1>6. CASE kind # "ROUNDROBIN"
  <2>1. Len(weights) = n
    BY <1>1, <1>6 DEF BalanceInv
  <2>2. weights = << >> <=> n = 0
    BY <1>2, <2>1
  <2>3. CASE n = 0
    BY <1>2, <1>6, <2>2, <2>3 DEF LB!Start, LB!GetIdx
  <2>4. CASE n # 0
    <3>1. PICK all \in Nat : all = LB!Last(weights) /\ all = weights[n] /\ all > 0
      BY <1>3, <1>6, <2>1, <2>2, <2>4 DEF LB!DividesByZero
    <3>2. PICK d \in 0..all - 1 : d = v % all
      BY <1>4, <3>1
    <3>3. PICK T \in SUBSET Nat : T = {k \in 1..n : weights[k] > d}
      <4>1. {k \in 1..n : weights[k] > d} \in SUBSET Nat
        OBVIOUS
      <4>2. QED BY <4>1
    <3>4. n \in T
      BY <2>4, <3>1, <3>2, <3>3
    <3>5. PICK m \in T : \A k \in T : m <= k
      BY <3>4, LeastNumber
    <3>6. m \in 1..n /\ weights[m] > d
      BY <3>3
    <3>7. ASSUME NEW j \in 1..m - 1 PROVE weights[j] <= d
      <4>1. j \in 1..n /\ j \notin T
        BY <3>5, <3>6
      <4>2. weights[j] \in Nat
        BY <1>2, <2>1, <4>1
      <4>3. QED BY <3>2, <3>3, <4>1, <4>2
    <3>8. m \in LB!UpperBound(weights, d)
      BY <2>1, <3>6, <3>7, <1>2 DEF LB!UpperBound
    <3>9. LB!UpperBound(weights, d) \subseteq 1..n
      BY <1>2, <2>1 DEF LB!UpperBound
    <3>10. (CHOOSE k \in LB!UpperBound(weights, d) : TRUE) \in 1..n
      BY <3>8, <3>9
    <3>11. LB!Start(v) = (CHOOSE k \in LB!UpperBound(weights, d) : TRUE) - 1
      BY <1>6, <2>2, <2>4, <3>1, <3>2 DEF LB!Start, LB!GetIdx
    <3>12. QED BY <1>1, <1>2, <2>4, <3>10, <3>11
  <2>5. QED BY <2>3, <2>4
<1>7. QED BY <1>5, <1>6

\* The search comes past every position once.
LEMMA SearchReaches ==
  ASSUME NEW n \in Nat, NEW r \in 0..n - 1, NEW p \in 0..n - 1
  PROVE  \E i \in 0..n - 1 : (r + i) % n = p
<1>1. CASE r <= p
  <2>1. p - r \in 0..n - 1 /\ r + (p - r) = p /\ p % n = p
    BY <1>1
  <2>2. QED BY <2>1
<1>2. CASE p < r
  <2>1. p - r + n \in 0..n - 1 /\ r + (p - r + n) = p + n
    BY <1>2
  <2>2. (p + n) % n = p
    BY SumFits
  <2>3. QED BY <2>1, <2>2
<1>3. QED BY <1>1, <1>2

LEMMA BalanceFinds == BalanceInv => LB!GetFindsValid
<1> SUFFICES ASSUME BalanceInv, ~LB!DividesByZero, NEW v \in LB!Draws
             PROVE  IF LB!ToSet(items) \cap valid = {} THEN LB!Get(v) = None
                    ELSE LB!Get(v) \in valid \cap lbDatas
  BY DEF LB!GetFindsValid
<1>1. PICK n \in Nat : n = Len(items)
  BY DEF BalanceInv
<1>2. items \in [1..n -> Providers] /\ valid \subseteq lbDatas /\ LB!ToSet(items) = {items[k] : k \in 1..n}
  <2>1. items \in [1..n -> Providers] /\ DOMAIN items = 1..n /\ valid \subseteq lbDatas
    BY <1>1 DEF BalanceInv
  <2>2. QED BY <2>1 DEF LB!ToSet
<1>3. CASE n = 0
  <2>1. LB!Start(v) = -1 /\ LB!ToSet(items) \cap valid = {}
    BY <1>1, <1>2, <1>3, StartsInside DEF BalanceInv
  <2>2. LB!Get(v) = None
    BY <2>1 DEF LB!Get
  <2>3. QED BY <2>1, <2>2
<1>4. CASE n # 0
  <2>1. PICK r \in 0..n - 1 : r = LB!Start(v)
    BY <1>1, <1>4, StartsInside DEF BalanceInv
  <2>2. PICK ok \in SUBSET (0..n - 1) :
               ok = {i \in 0..n - 1 : items[((r + i) % n) + 1] \in valid}
    <3>1. {i \in 0..n - 1 : items[((r + i) % n) + 1] \in valid} \in SUBSET (0..n - 1)
      OBVIOUS
    <3>2. QED BY <3>1
  <2>3. LB!Get(v) = IF ok = {} THEN None ELSE items[((r + LB!Min(ok)) % n) + 1]
    <3>1. {i \in 0..Len(items) - 1 : items[((LB!Start(v) + i) % Len(items)) + 1] \in valid} = ok
      BY <1>1, <2>1, <2>2
    <3>2. LB!Start(v) # -1
      BY <2>1
    <3>3. QED BY <1>1, <2>1, <3>1, <3>2, Zenon DEF LB!Get
  <2>4. ASSUME NEW i \in ok PROVE items[((r + i) % n) + 1] \in valid \cap LB!ToSet(items)
    <3>1. (r + i) % n \in 0..n - 1
      BY <1>4, <2>2
    <3>2. ((r + i) % n) + 1 \in 1..n
      BY <3>1
    <3>3. QED BY <1>2, <2>2, <3>2
  <2>5. CASE LB!ToSet(items) \cap valid = {}
    BY <2>3, <2>4, <2>5
  <2>6. CASE LB!ToSet(items) \cap valid # {}
    <3>1. PICK k \in 1..n : items[k] \in valid
      BY <1>2, <2>6
    <3>2. k - 1 \in 0..n - 1
      OBVIOUS
    <3>3. PICK i \in 0..n - 1 : (r + i) % n = k - 1
      BY <3>2, SearchReaches
    <3>4. i \in ok
      BY <2>2, <3>1, <3>3
    <3>5. \E m \in ok : \A j \in ok : m <= j
      <4>1. ok \in SUBSET Nat /\ ok # {}
        BY <3>4
      <4>2. QED BY <4>1, LeastNumber
    <3>6. LB!Min(ok) \in ok
      BY <3>5 DEF LB!Min
    <3>7. QED BY <1>2, <2>3, <2>4, <2>6, <3>4, <3>6
  <2>7. QED BY <2>5, <2>6
<1>5. QED BY <1>3, <1>4

THEOREM BalanceGetFindsValid == BalanceFits => (LB!Spec => []LB!GetFindsValid)
<1> SUFFICES ASSUME BalanceFits PROVE LB!Spec => []LB!GetFindsValid
  OBVIOUS
<1>1. BalanceInv /\ [LB!Next]_(LB!vars) => BalanceInv'
  BY BalanceStep
<1>2. QED BY <1>1, BalanceInit, BalanceFinds, PTL DEF LB!Spec

-----------------------------------------------------------------------------
(***************************************************************************)
(* MCServices: a behaviour of the whole is one of each of its components,  *)
(* so that what is proved of a component holds of the whole                *)
(***************************************************************************)
LEMMA ServicesIsGroup == Spec => WG!Spec
<1>1. Init => WG!Init
  BY DEF Init
<1>2. [Next]_vars => [WG!Next]_(WG!vars)
  BY DEF Next, vars, groupVars, WG!vars, WG!sem, WG!jobs
<1>3. QED BY <1>1, <1>2, PTL DEF Spec, WG!Spec

LEMMA ServicesIsDiscovery == Spec => D!Spec
<1>1. Init => D!Init
  BY DEF Init
<1>2. [Next]_vars => [D!Next]_(D!vars)
  BY DEF Next, vars, discoveryVars, D!vars, D!zkVars, D!bounds, D!lbVars, D!locals
<1>3. QED BY <1>1, <1>2, PTL DEF Spec, D!Spec

LEMMA ServicesIsStats == Spec => HS!Spec
<1>1. Init => HS!Init
  BY DEF Init
<1>2. [Next]_vars => [HS!Next]_(HS!vars)
  BY DEF Next, vars, statsVars, HS!vars
<1>3. QED BY <1>1, <1>2, PTL DEF Spec, HS!Spec

LEMMA ServicesIsBalance == Spec => LB!Spec
<1>1. Init => LB!Init
  BY DEF Init
<1>2. [Next]_vars => [LB!Next]_(LB!vars)
  BY DEF Next, vars, balanceVars, LB!vars
<1>3. QED BY <1>1, <1>2, PTL DEF Spec, LB!Spec

\* MCServices' property of the worker group (FiberSync.cpp 22-66, Worker.cpp
\* 29-60): no token is lost or doubled and nobody waits while there is one.
THEOREM ServicesTokensKept == WG!WorkerGroupAssumption => (Spec => []TokensKept)
<1>1. WG!TokensKept => TokensKept
  BY DEF TokensKept
<1>2. QED BY <1>1, ServicesIsGroup, WorkerGroupTokensKept, PTL

\* MCServices' property of service discovery (streams/ServiceDiscovery.cpp
\* 308-489): until the timer has run, an idle watcher whose last read has not
\* failed means a balancer with exactly the providers that are registered, save
\* those that got no stream.
THEOREM ServicesBalancerFollows == Spec => []BalancerFollows
<1>1. D!BalancerFollows => BalancerFollows
  BY DEF BalancerFollows
<1>2. QED BY <1>1, ServicesIsDiscovery, DiscoveryBalancerFollows, PTL

\* MCServices' property of the statistics (streams/LoadBalance.cpp 85-153,
\* rpc/RockStream.cpp 237-263): on one worker, with calls that are shorter than the
\* window, each slot has exactly the calls of its second and their outcomes.
THEOREM ServicesStatsExact == CallsFit => (Spec => []StatsExact)
<1>1. HS!StatsExact => StatsExact
  BY DEF StatsExact
<1>2. QED BY <1>1, ServicesIsStats, StatsAreExact, PTL

\* MCServices' property of the balancer (streams/LoadBalance.cpp 228-324): get()
\* answers with a connected provider whenever its items have one.
THEOREM ServicesGetFindsValid == BalanceFits => (Spec => []GetFindsValid)
<1>1. LB!GetFindsValid => GetFindsValid
  BY DEF GetFindsValid
<1>2. QED BY <1>1, ServicesIsBalance, BalanceGetFindsValid, PTL
=============================================================================
