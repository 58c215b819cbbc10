--------------------------- MODULE SchedulerProofs ---------------------------
(***************************************************************************)
(* Proofs about the scheduler, for any number of fibers and workers, any   *)
(* crew, any calls of the fibers and a stop() at any time.                 *)
(*                                                                         *)
(* OneStack and ExactlyOneWakeUp need each other: a fiber that has queued  *)
(* itself is kept from a second stack by its status EXEC alone, and only   *)
(* while nothing else will bring it back is that status changed.  Tasks    *)
(* joins the two: it says for each place a worker may be at what the       *)
(* status of its fiber is and whether something will bring the fiber back. *)
(* Counters says what the three counters of the scheduler count, which is  *)
(* what stopping() relies on; LastOne adds what a single worker has read   *)
(* when it decides that it is done.                                        *)
(*                                                                         *)
(* The last part shows step by step that the scheduler implements          *)
(* TaskLife: Life, Binding and Stacks read off what has become of a task,  *)
(* and Tasks is what makes every step of a worker a step of one task, of   *)
(* the tasks that are woken together, or of none.                          *)
(***************************************************************************)
EXTENDS Scheduler, FiniteSetTheorems, SequenceTheorems, TLAPS

Working  == {"start", "exec", "swap", "back"}
Holding  == Working \cup {"settle"}
Leaving  == {"swap", "back", "settle"}
Idling   == {"stop1", "stop2", "stop3", "wait", "collect", "cbs", "handle", "dec", "leave"}
AfterTickle == {"scan", "start", "notask", "exec", "swap", "handle", "dec"}

\* A worker has a task in hand between taking it and settling it, and
\* callbacks between collecting and scheduling them.
Places ==
  \A w \in Workers :
    /\ pc[w] = "tickle" => after[w] \in AfterTickle
    /\ cur[w] # Nobody <=> At(w) \in Holding
    /\ cbs[w] # {} => At(w) = "cbs"
    /\ IsFiniteSet(cbs[w])

\* The fibers in the queue, and those among collected callbacks.
InQueue   == {queue[i].fiber : i \in DOMAIN queue}
Collected == UNION {cbs[w] : w \in Workers}
ToCome    == InQueue \cup Collected \cup events \cup timers

\* No fiber has two entries.
OnceIn(q) == \A i, j \in DOMAIN q : q[i].fiber = q[j].fiber => i = j

\* What will bring a fiber back is in one place, once.
NoDoubles ==
  /\ OnceIn(queue)
  /\ \A v, w \in Workers : v # w => cbs[v] \cap cbs[w] = {}
  /\ InQueue \cap Collected = {} /\ InQueue \cap events = {} /\ InQueue \cap timers = {}
  /\ Collected \cap events = {} /\ Collected \cap timers = {} /\ events \cap timers = {}

\* A fiber a worker has in hand: it will come back only when it is leaving, and
\* then its status is EXEC.
InHand(w) ==
  LET f == cur[w] IN
  /\ f \in used
  /\ At(w) = "start" => f \notin ToCome /\ status[f] \notin {"EXEC", "TERM"}
  /\ At(w) = "exec" => f \notin ToCome /\ status[f] = "EXEC"
  /\ At(w) \in Leaving => IF f \in ToCome THEN status[f] = "EXEC"
                          ELSE status[f] \in {"READY", "TERM"}

Held(f) == \E w \in Workers : cur[w] = f

Tasks ==
  /\ NoDoubles
  /\ ToCome \subseteq used
  /\ \A v, w \in Workers : v # w /\ cur[v] # Nobody => cur[v] # cur[w]
  /\ \A w \in Workers : cur[w] # Nobody => InHand(w)
  /\ \A f \in used : ~Held(f) =>
       status[f] # "EXEC" /\ (f \in ToCome <=> status[f] # "TERM")
  /\ \A f \in Fibers \ used : status[f] = "INIT"
  /\ IsFiniteSet(timers)

\* What the scheduler counts.
Count(S) == Cardinality({w \in Workers : At(w) \in S})

Counters ==
  /\ active = Count(Working)
  /\ idle = Count(Idling)
  /\ IsFiniteSet(events)
  /\ pending = Cardinality(events) + Count({"dec"})

\* Nothing is left and nothing will come.
AllDone == events = {} /\ timers = {} /\ queue = <<>> /\ stopFlag

Owner ==
  /\ stopFlag <=> client \in {"stop", "root", "join", "done"}
  /\ client = "root" => Caller \in Crew
  /\ client \notin {"join", "done"} /\ Caller \in Crew => pc[Caller] = "off"
  /\ \A w \in Workers : pc[w] = "off" => w = Caller
  /\ client = "done" => Gone

\* What a worker that is alone has found out stays true.
Alone(w) ==
  /\ pc[w] \in {"stop2", "stop3"} => timers = {}
  /\ pc[w] = "stop3" => pending = 0
  /\ idleDone[w] => AllDone /\ pc[w] \in {"leave", "scan", "notask", "exit"}
  /\ pc[w] = "exit" => idleDone[w]
  /\ pc[w] = "off" /\ client \in {"join", "done"} => AllDone

LastOne == \A w \in Workers : Crew = {w} => Alone(w)

SchedulerInv == TypeOK /\ Places /\ Tasks /\ Counters /\ Owner /\ LastOne

-----------------------------------------------------------------------------
(***************************************************************************)
(* Steps of a worker from place to place                                   *)
(***************************************************************************)
\* Worker w moves to p, the others stay.
Moves(w, p) == \A v \in Workers : At(v)' = IF v = w THEN p ELSE At(v)

LEMMA GotoMoves ==
  ASSUME TypeOK, Places, NEW w \in Workers, NEW p \in Pcs \ {"tickle"}, Goto(w, p)
  PROVE  /\ Moves(w, p) /\ pc' \in [Workers -> Pcs] /\ after' \in [Workers -> Pcs]
         /\ \A v \in Workers : pc'[v] = "tickle" => after'[v] \in AfterTickle
         /\ \A v \in Workers : pc'[v] = IF v = w THEN p ELSE pc[v]
  BY DEF Goto, Moves, At, TypeOK, Places

LEMMA TickleMoves ==
  ASSUME TypeOK, Places, NEW w \in Workers, NEW p \in AfterTickle, GotoViaTickle(w, p)
  PROVE  /\ Moves(w, p) /\ pc' \in [Workers -> Pcs] /\ after' \in [Workers -> Pcs]
         /\ \A v \in Workers : pc'[v] = "tickle" => after'[v] \in AfterTickle
         /\ \A v \in Workers : pc'[v] = IF v = w THEN "tickle" ELSE pc[v]
<1>1. p \in Pcs /\ "tickle" \in Pcs
  BY DEF AfterTickle, Pcs
<1>2. QED BY <1>1 DEF GotoViaTickle, Moves, At, TypeOK, Places

\* A count changes by the worker that moves.
LEMMA CountMoves ==
  ASSUME NEW S, NEW w \in Workers, NEW p, Moves(w, p)
  PROVE  /\ Count(S) \in Nat
         /\ Count(S)' = Count(S) + (IF p \in S THEN 1 ELSE 0) - (IF At(w) \in S THEN 1 ELSE 0)
         /\ At(w) \in S => Count(S) > 0
<1> DEFINE B == {v \in Workers : At(v) \in S}
           A == {v \in Workers : At(v)' \in S}
           O == B \ {w}
<1>1. IsFiniteSet(Workers)
  BY SchedulerAssumption
<1>2. IsFiniteSet(B) /\ Cardinality(B) \in Nat
  BY <1>1, FS_Subset, FS_CardinalityType
<1>3. IsFiniteSet(O) /\ Cardinality(O) = IF w \in B THEN Cardinality(B) - 1 ELSE Cardinality(B)
  BY <1>2, FS_RemoveElement
<1>4. A = IF p \in S THEN O \cup {w} ELSE O
  BY DEF Moves
<1>5. Cardinality(O \cup {w}) = Cardinality(O) + 1
  BY <1>3, FS_AddElement
<1>6. w \in B <=> At(w) \in S
  OBVIOUS
<1>7. Cardinality(O) \in Nat
  BY <1>3, FS_CardinalityType
<1>8. Count(S) = Cardinality(B) /\ Count(S)' = Cardinality(A)
  BY DEF Count
<1> HIDE DEF A, B, O
<1>9. QED BY <1>2, <1>3, <1>4, <1>5, <1>6, <1>7, <1>8

(***************************************************************************)
(* The queue                                                               *)
(***************************************************************************)
\* Two sequences of entries of different fibers, one after the other.
LEMMA AppendedOnce ==
  ASSUME NEW q \in Seq(Entries), NEW s \in Seq(Entries), OnceIn(q), OnceIn(s),
         \A i \in DOMAIN q, j \in DOMAIN s : q[i].fiber # s[j].fiber
  PROVE  /\ q \o s \in Seq(Entries) /\ OnceIn(q \o s)
         /\ {(q \o s)[i].fiber : i \in DOMAIN (q \o s)}
              = {q[i].fiber : i \in DOMAIN q} \cup {s[i].fiber : i \in DOMAIN s}
<1> DEFINE r == q \o s
<1>1. /\ r \in Seq(Entries) /\ Len(r) = Len(q) + Len(s)
      /\ \A i \in 1 .. Len(q) + Len(s) : r[i] = IF i <= Len(q) THEN q[i] ELSE s[i - Len(q)]
  BY ConcatProperties
<1>2. /\ DOMAIN r = 1..Len(q) + Len(s) /\ DOMAIN q = 1..Len(q) /\ DOMAIN s = 1..Len(s)
      /\ Len(q) \in Nat /\ Len(s) \in Nat
  BY <1>1, LenProperties
<1> HIDE DEF r
<1>3. ASSUME NEW i \in DOMAIN r, NEW j \in DOMAIN r, r[i].fiber = r[j].fiber PROVE i = j
  <2>1. CASE i <= Len(q) /\ j <= Len(q)
    <3>1. i \in DOMAIN q /\ j \in DOMAIN q /\ r[i] = q[i] /\ r[j] = q[j]
      BY <1>1, <1>2, <2>1
    <3>2. QED BY <1>3, <3>1 DEF OnceIn
  <2>2. CASE ~(i <= Len(q)) /\ ~(j <= Len(q))
    <3>1. /\ i - Len(q) \in DOMAIN s /\ j - Len(q) \in DOMAIN s
          /\ r[i] = s[i - Len(q)] /\ r[j] = s[j - Len(q)]
      BY <1>1, <1>2, <2>2
    <3>2. i - Len(q) = j - Len(q)
      BY <1>3, <3>1 DEF OnceIn
    <3>3. QED BY <1>2, <3>2
  <2>3. CASE i <= Len(q) /\ ~(j <= Len(q))
    <3>1. i \in DOMAIN q /\ j - Len(q) \in DOMAIN s /\ r[i] = q[i] /\ r[j] = s[j - Len(q)]
      BY <1>1, <1>2, <2>3
    <3>2. QED BY <1>3, <3>1
  <2>4. CASE ~(i <= Len(q)) /\ j <= Len(q)
    <3>1. i - Len(q) \in DOMAIN s /\ j \in DOMAIN q /\ r[i] = s[i - Len(q)] /\ r[j] = q[j]
      BY <1>1, <1>2, <2>4
    <3>2. QED BY <1>3, <3>1
  <2>5. QED BY <2>1, <2>2, <2>3, <2>4
<1>4. \A i \in DOMAIN q : i \in DOMAIN r /\ r[i] = q[i]
  BY <1>1, <1>2
<1>5. \A i \in DOMAIN s : i + Len(q) \in DOMAIN r /\ r[i + Len(q)] = s[i]
  BY <1>1, <1>2
<1>6. \A i \in DOMAIN r : (i \in DOMAIN q /\ r[i] = q[i])
                         \/ (i - Len(q) \in DOMAIN s /\ r[i] = s[i - Len(q)])
  BY <1>1, <1>2
<1>7. {r[i].fiber : i \in DOMAIN r}
        = {q[i].fiber : i \in DOMAIN q} \cup {s[i].fiber : i \in DOMAIN s}
  BY <1>4, <1>5, <1>6
<1>8. QED BY <1>1, <1>3, <1>7 DEF r, OnceIn

\* One entry less.
LEMMA RemovedOnce ==
  ASSUME NEW q \in Seq(Entries), OnceIn(q), NEW k \in DOMAIN q
  PROVE  /\ RemoveAt(q, k) \in Seq(Entries) /\ OnceIn(RemoveAt(q, k))
         /\ {RemoveAt(q, k)[i].fiber : i \in DOMAIN RemoveAt(q, k)}
              = {q[i].fiber : i \in DOMAIN q} \ {q[k].fiber}
<1> DEFINE a == SubSeq(q, 1, k - 1)
           b == SubSeq(q, k + 1, Len(q))
           r == RemoveAt(q, k)
<1>1. DOMAIN q = 1..Len(q) /\ Len(q) \in Nat /\ k \in 1..Len(q)
  BY LenProperties
<1>2. /\ a \in Seq(Entries) /\ Len(a) = k - 1
      /\ \A i \in 1..(k - 1) : a[i] = q[i]
  <2>1. \A i \in 1..(k - 1) : q[i] \in Entries
    BY <1>1, ElementOfSeq
  <2>2. QED BY <1>1, <2>1, SubSeqProperties
<1>3. /\ b \in Seq(Entries) /\ Len(b) = Len(q) - k
      /\ \A i \in 1..(Len(q) - k) : b[i] = q[k + i]
  <2>1. \A i \in (k + 1)..Len(q) : q[i] \in Entries
    BY <1>1, ElementOfSeq
  <2>2. /\ b \in Seq(Entries)
        /\ Len(b) = IF k + 1 <= Len(q) THEN Len(q) - (k + 1) + 1 ELSE 0
        /\ \A i \in 1..(Len(q) - (k + 1) + 1) : b[i] = q[(k + 1) + i - 1]
    BY <1>1, <2>1, SubSeqProperties
  <2>3. QED BY <1>1, <2>2
<1>4. r = a \o b
  BY DEF RemoveAt
<1> HIDE DEF a, b, r
<1>5. /\ r \in Seq(Entries) /\ Len(r) = Len(q) - 1
      /\ \A i \in 1..(Len(q) - 1) : r[i] = IF i < k THEN q[i] ELSE q[i + 1]
  <2>1. /\ r \in Seq(Entries) /\ Len(r) = Len(a) + Len(b)
        /\ \A i \in 1..(Len(a) + Len(b)) : r[i] = IF i <= Len(a) THEN a[i] ELSE b[i - Len(a)]
    BY <1>2, <1>3, <1>4, ConcatProperties
  <2>2. Len(r) = Len(q) - 1
    BY <1>1, <1>2, <1>3, <2>1
  <2>3. ASSUME NEW i \in 1..(Len(q) - 1) PROVE r[i] = IF i < k THEN q[i] ELSE q[i + 1]
    <3>1. r[i] = IF i <= k - 1 THEN a[i] ELSE b[i - (k - 1)]
      BY <1>1, <1>2, <1>3, <2>1
    <3>2. CASE i < k
      BY <1>1, <1>2, <3>1, <3>2
    <3>3. CASE ~(i < k)
      <4>1. i - (k - 1) \in 1..(Len(q) - k) /\ k + (i - (k - 1)) = i + 1
        BY <1>1, <3>3
      <4>2. QED BY <1>1, <1>3, <3>1, <3>3, <4>1
    <3>4. QED BY <3>2, <3>3
  <2>4. QED BY <2>1, <2>2, <2>3
<1>6. DOMAIN r = 1..(Len(q) - 1)
  BY <1>5, LenProperties
<1> DEFINE from(i) == IF i < k THEN i ELSE i + 1
<1>7. \A i \in DOMAIN r : from(i) \in DOMAIN q /\ from(i) # k /\ r[i] = q[from(i)]
  BY <1>1, <1>5, <1>6
<1>8. \A i, j \in DOMAIN r : from(i) = from(j) => i = j
  BY <1>1, <1>6
<1>9. \A j \in DOMAIN q : j # k => \E i \in DOMAIN r : from(i) = j
  <2> TAKE j \in DOMAIN q
  <2> HAVE j # k
  <2>1. CASE j < k
    <3>1. j \in DOMAIN r /\ from(j) = j
      BY <1>1, <1>6, <2>1
    <3>2. QED BY <3>1
  <2>2. CASE j > k
    <3>1. j - 1 \in DOMAIN r /\ from(j - 1) = j
      BY <1>1, <1>6, <2>2
    <3>2. QED BY <3>1
  <2>3. QED BY <1>1, <2>1, <2>2
<1> HIDE DEF from
<1>10. {r[i].fiber : i \in DOMAIN r} = {q[i].fiber : i \in DOMAIN q} \ {q[k].fiber}
  BY <1>7, <1>9 DEF OnceIn
<1>11. OnceIn(r)
  BY <1>7, <1>8 DEF OnceIn
<1>12. QED BY <1>5, <1>10, <1>11 DEF r

\* One more entry at the end.
LEMMA OneMoreOnce ==
  ASSUME NEW q \in Seq(Entries), OnceIn(q), NEW e \in Entries,
         e.fiber \notin {q[i].fiber : i \in DOMAIN q}
  PROVE  /\ q \o <<e>> \in Seq(Entries) /\ OnceIn(q \o <<e>>)
         /\ {(q \o <<e>>)[i].fiber : i \in DOMAIN (q \o <<e>>)}
              = {q[i].fiber : i \in DOMAIN q} \cup {e.fiber}
<1> DEFINE s == <<e>>
<1>1. s \in Seq(Entries) /\ DOMAIN s = {1} /\ s[1] = e
  OBVIOUS
<1> HIDE DEF s
<1>2. OnceIn(s)
  BY <1>1 DEF OnceIn
<1>3. \A i \in DOMAIN q, j \in DOMAIN s : q[i].fiber # s[j].fiber
  BY <1>1
<1>4. {s[i].fiber : i \in DOMAIN s} = {e.fiber}
  BY <1>1
<1>5. /\ q \o s \in Seq(Entries) /\ OnceIn(q \o s)
      /\ {(q \o s)[i].fiber : i \in DOMAIN (q \o s)}
           = {q[i].fiber : i \in DOMAIN q} \cup {s[i].fiber : i \in DOMAIN s}
  BY <1>1, <1>2, <1>3, AppendedOnce
<1>6. /\ q \o s \in Seq(Entries) /\ OnceIn(q \o s)
      /\ {(q \o s)[i].fiber : i \in DOMAIN (q \o s)}
           = {q[i].fiber : i \in DOMAIN q} \cup {e.fiber}
  BY <1>4, <1>5
<1>7. QED BY <1>6 DEF s

\* A set of callbacks in any order, each of them once.
LEMMA AllOnce ==
  ASSUME NEW S \in SUBSET Fibers, IsFiniteSet(S), NEW s \in SetToSeqs(S)
  PROVE  LET es == [i \in DOMAIN s |-> Entry(s[i], Anywhere)]
         IN  es \in Seq(Entries) /\ OnceIn(es) /\ {es[i].fiber : i \in DOMAIN es} = S
<1> DEFINE n == Cardinality(S)
           es == [i \in DOMAIN s |-> Entry(s[i], Anywhere)]
<1>1. /\ s \in [1..n -> S] /\ n \in Nat
      /\ \A i, j \in 1..n : i # j => s[i] # s[j]
  BY FS_CardinalityType DEF SetToSeqs
<1>2. s \in Injection(1..n, S)
  BY <1>1 DEF Injection, IsInjective
<1>3. Cardinality(1..n) = n /\ IsFiniteSet(1..n)
  BY <1>1, FS_Interval
<1>4. s \in Surjection(1..n, S)
  BY <1>2, <1>3, FS_Injection
<1>5. \A f \in S : \E i \in 1..n : s[i] = f
  BY <1>4 DEF Surjection
<1>6. es = [i \in 1..n |-> Entry(s[i], Anywhere)] /\ DOMAIN es = 1..n
  BY <1>1
<1>7. \A i \in 1..n : es[i] \in Entries /\ es[i].fiber = s[i]
  BY <1>1, <1>6 DEF Entries, Entry
<1> HIDE DEF es
<1>8. es \in Seq(Entries)
  <2>1. es \in [1..n -> Entries]
    BY <1>6, <1>7
  <2>2. QED BY <1>1, <2>1
<1>9. OnceIn(es)
  BY <1>1, <1>6, <1>7 DEF OnceIn
<1>10. {es[i].fiber : i \in DOMAIN es} = S
  BY <1>1, <1>5, <1>6, <1>7
<1>11. QED BY <1>8, <1>9, <1>10 DEF es

-----------------------------------------------------------------------------
(***************************************************************************)
(* Tasks                                                                   *)
(***************************************************************************)
taskVars == <<status, used, queue, events, timers, cur, cbs>>

\* w goes on with what it had in hand, or has nothing in hand.
GoesOn(w) ==
  \/ At(w)' = At(w)
  \/ At(w) \in Leaving /\ At(w)' \in Leaving
  \/ At(w) \notin Holding /\ At(w)' \notin Holding

LEMMA TasksMoved ==
  ASSUME Places, Tasks, UNCHANGED <<status, used, cur>>, \A w \in Workers : GoesOn(w),
         ToCome' = ToCome, NoDoubles', IsFiniteSet(timers)'
  PROVE  Tasks'
<1>1. \A f : Held(f)' = Held(f)
  BY DEF Held
<1>2. \A w \in Workers : cur[w] # Nobody => InHand(w)'
  BY DEF Places, Tasks, InHand, GoesOn, Holding, Leaving, Working
<1>3. QED BY <1>1, <1>2 DEF Tasks

LEMMA TasksFrame ==
  ASSUME Places, Tasks, UNCHANGED taskVars, \A w \in Workers : GoesOn(w)
  PROVE  Tasks'
<1>1. /\ InQueue' = InQueue /\ Collected' = Collected /\ ToCome' = ToCome
      /\ NoDoubles' = NoDoubles
  BY DEF taskVars, InQueue, Collected, ToCome, NoDoubles
<1>2. NoDoubles' /\ IsFiniteSet(timers)'
  BY <1>1 DEF Tasks, taskVars
<1>3. QED BY <1>1, <1>2, TasksMoved DEF taskVars

\* A fiber that may be taken is in no worker's hands.
LEMMA TakenIsFree ==
  ASSUME Places, Tasks, NEW w \in Workers, NEW i \in DOMAIN queue, MayTake(w, queue[i]),
         queue[i].fiber \in Fibers
  PROVE  LET f == queue[i].fiber
         IN  f \in used /\ ~Held(f) /\ status[f] \notin {"EXEC", "TERM"}
<1> DEFINE f == queue[i].fiber
<1>1. f \in InQueue /\ f \in ToCome /\ f \in used /\ status[f] # "EXEC"
  BY DEF InQueue, ToCome, Tasks, MayTake
<1>2. ASSUME NEW v \in Workers, cur[v] = f PROVE FALSE
  <2>1. InHand(v) /\ At(v) \in Holding
    BY <1>2, SchedulerAssumption DEF Places, Tasks
  <2>2. QED BY <1>1, <1>2, <2>1 DEF InHand, Holding, Working, Leaving
<1>3. QED BY <1>1, <1>2 DEF Held, Tasks

LEMMA ScanTasks ==
  ASSUME TypeOK, Places, Tasks, NEW w \in Workers, Scan(w)
  PROVE  Tasks'
<1>1. At(w) = "scan" /\ cur[w] = Nobody
  BY DEF Scan, At, Places, Holding, Working
<1>2. ASSUME NEW p \in {"start", "notask"}, Goto(w, p) \/ GotoViaTickle(w, p)
      PROVE  Moves(w, p)
  BY <1>2, GotoMoves, TickleMoves DEF Pcs, AfterTickle
<1>3. CASE Moves(w, "notask") /\ UNCHANGED taskVars
  <2>1. \A v \in Workers : GoesOn(v)
    BY <1>1, <1>3 DEF GoesOn, Moves, Holding, Working
  <2>2. QED BY <1>3, <2>1, TasksFrame
<1>4. ASSUME NEW i \in DOMAIN queue, MayTake(w, queue[i]), Moves(w, "start"),
             queue' = RemoveAt(queue, i), cur' = [cur EXCEPT ![w] = queue[i].fiber],
             UNCHANGED <<status, used, events, timers, cbs>>
      PROVE  Tasks'
  <2> DEFINE f == queue[i].fiber
  <2>1. queue \in Seq(Entries) /\ f \in Fibers
    <3>1. queue \in Seq(Entries)
      BY DEF TypeOK
    <3>2. queue[i] \in Entries
      BY <3>1, ElementOfSeq, LenProperties
    <3>3. QED BY <3>1, <3>2 DEF Entries
  <2>2. f \in used /\ ~Held(f) /\ status[f] \notin {"EXEC", "TERM"} /\ f \in InQueue
    BY <1>4, <2>1, TakenIsFree DEF InQueue
  <2>3. InQueue' = InQueue \ {f} /\ OnceIn(queue')
    <3>1. OnceIn(queue)
      BY DEF Tasks, NoDoubles
    <3>2. QED BY <1>4, <2>1, <3>1, RemovedOnce DEF InQueue
  <2>4. Collected' = Collected
    BY <1>4 DEF Collected
  <2>5. NoDoubles' /\ ToCome' = ToCome \ {f}
    BY <1>4, <2>2, <2>3, <2>4 DEF Tasks, NoDoubles, ToCome
  <2>6. cur'[w] = f /\ \A v \in Workers \ {w} : cur'[v] = cur[v]
    BY <1>4 DEF TypeOK
  <2> HIDE DEF f
  <2>7. \A u, v \in Workers : u # v /\ cur'[u] # Nobody => cur'[u] # cur'[v]
    BY <2>2, <2>6 DEF Tasks, Held
  <2>8. InHand(w)'
    BY <1>4, <2>2, <2>5, <2>6 DEF InHand, Moves, Leaving
  <2>9. ASSUME NEW v \in Workers, v # w, cur'[v] # Nobody PROVE InHand(v)'
    BY <1>4, <2>2, <2>5, <2>6, <2>9 DEF InHand, Moves, Tasks, Held
  <2>10. ASSUME NEW g \in used, ~Held(g)' PROVE g # f /\ ~Held(g)
    <3>1. g # f
      BY <2>6, <2>10 DEF Held
    <3>2. g # Nobody
      BY SchedulerAssumption DEF TypeOK
    <3>3. QED BY <1>1, <2>6, <2>10, <3>1, <3>2 DEF Held
  <2>11. \A g \in Fibers \ used : status'[g] = "INIT"
    BY <1>4 DEF Tasks
  <2>12. QED
    BY <1>4, <2>5, <2>7, <2>8, <2>9, <2>10, <2>11 DEF Tasks
<1>5. QED
  BY <1>2, <1>3, <1>4 DEF Scan, taskVars, fiberVars, sourceVars

\* A step of w, or of the owner, changes at most the fibers of F, which no
\* other worker has in hand.
LEMMA TasksStep ==
  ASSUME Places, Tasks, NEW w, NEW F, NoDoubles', IsFiniteSet(timers)',
         ToCome' \subseteq used', used \subseteq used', F \subseteq used',
         \A g \in Fibers \ F : status'[g] = status[g],
         \A v \in Workers \ {w} : cur'[v] = cur[v] /\ At(v)' = At(v) /\ cur[v] \notin F,
         w \in Workers => cur'[w] \in {cur[w], Nobody},
         w \in Workers /\ cur'[w] # Nobody => InHand(w)',
         used' \subseteq Fibers,
         \A g \in used' \ F : g \in used /\ (g \in ToCome' <=> g \in ToCome),
         \A g \in used' : g \in F \/ (w \in Workers /\ g = cur[w]) =>
            Held(g)' \/ (status'[g] # "EXEC" /\ (g \in ToCome' <=> status'[g] # "TERM"))
  PROVE  Tasks'
<1>1. \A u, v \in Workers : u # v /\ cur'[u] # Nobody => cur'[u] # cur'[v]
  BY DEF Tasks
<1>2. ASSUME NEW v \in Workers, v # w, cur'[v] # Nobody PROVE InHand(v)'
  <2>1. InHand(v) /\ cur'[v] = cur[v] /\ At(v)' = At(v) /\ cur[v] \in used' \ F
    BY <1>2 DEF Tasks, InHand
  <2>2. QED BY <2>1 DEF InHand
<1>3. ASSUME NEW g \in used', ~Held(g)'
      PROVE  status'[g] # "EXEC" /\ (g \in ToCome' <=> status'[g] # "TERM")
  <2>1. CASE g \in F \/ (w \in Workers /\ g = cur[w])
    BY <1>3, <2>1
  <2>2. CASE ~(g \in F \/ (w \in Workers /\ g = cur[w]))
    <3>1. ~Held(g)
      BY <1>3, <2>2 DEF Held
    <3>2. QED BY <2>2, <3>1 DEF Tasks
  <2>3. QED BY <2>1, <2>2
<1>4. \A g \in Fibers \ used' : status'[g] = "INIT"
  BY DEF Tasks
<1>5. QED BY <1>1, <1>2, <1>3, <1>4 DEF Tasks

\* schedule() of one task that is not in the queue yet.
LEMMA ScheduleOne ==
  ASSUME TypeOK, Places, Tasks, NEW w \in Workers, NEW f \in Fibers,
         NEW t \in Workers \cup {Anywhere}, NEW p \in AfterTickle,
         Schedule(w, <<Entry(f, t)>>, p), f \notin InQueue
  PROVE  /\ queue' \in Seq(Entries) /\ OnceIn(queue') /\ InQueue' = InQueue \cup {f}
         /\ Moves(w, p)
<1>1. Entry(f, t) \in Entries /\ Entry(f, t).fiber = f /\ queue \in Seq(Entries)
  BY DEF Entry, Entries, TypeOK
<1>2. queue' \in Seq(Entries) /\ OnceIn(queue') /\ InQueue' = InQueue \cup {f}
  <2>1. OnceIn(queue)
    BY DEF Tasks, NoDoubles
  <2>2. queue' = queue \o <<Entry(f, t)>>
    BY DEF Schedule
  <2>3. Entry(f, t).fiber \notin {queue[i].fiber : i \in DOMAIN queue}
    BY <1>1 DEF InQueue
  <2> DEFINE e == Entry(f, t)
  <2>4. e \in Entries /\ e.fiber = f /\ queue' = queue \o <<e>>
        /\ e.fiber \notin {queue[i].fiber : i \in DOMAIN queue}
    BY <1>1, <2>2, <2>3
  <2> HIDE DEF e
  <2>5. /\ queue \o <<e>> \in Seq(Entries) /\ OnceIn(queue \o <<e>>)
        /\ {(queue \o <<e>>)[i].fiber : i \in DOMAIN (queue \o <<e>>)}
             = {queue[i].fiber : i \in DOMAIN queue} \cup {e.fiber}
    BY <1>1, <2>1, <2>4, OneMoreOnce
  <2>6. QED BY <2>4, <2>5 DEF InQueue
<1>3. Moves(w, p)
  BY GotoMoves, TickleMoves DEF Schedule, AfterTickle, Pcs
<1>4. QED BY <1>2, <1>3

\* The task a worker has in hand.
LEMMA TaskInHand ==
  ASSUME TypeOK, Places, Tasks, NEW w \in Workers, At(w) \in Holding
  PROVE  /\ cur[w] \in Fibers /\ cur[w] # Nobody /\ cur[w] \in used /\ InHand(w)
         /\ \A v \in Workers \ {w} : cur[v] # cur[w]
  BY DEF TypeOK, Places, Tasks, InHand

LEMMA StartTasks ==
  ASSUME TypeOK, Places, Tasks, NEW w \in Workers, Start(w)
  PROVE  Tasks'
<1>1. At(w) = "start" /\ "start" \in Holding
  BY DEF Start, At, Holding, Working
<1>2. PICK f \in Fibers : f = cur[w]
  BY <1>1, TaskInHand
<1>3. f # Nobody /\ f \in used /\ (\A v \in Workers \ {w} : cur[v] # f)
      /\ f \notin ToCome /\ status[f] # "TERM"
  BY <1>1, <1>2, TaskInHand DEF InHand
<1>4. status' = [status EXCEPT ![f] = "EXEC"] /\ Moves(w, "exec")
  BY <1>2, <1>3, GotoMoves DEF Start, Pcs
<1>5. UNCHANGED <<used, queue, events, timers, cur, cbs>>
  BY <1>2, <1>3 DEF Start, sourceVars
<1>6. /\ InQueue' = InQueue /\ Collected' = Collected /\ ToCome' = ToCome
      /\ NoDoubles' = NoDoubles
  BY <1>5 DEF InQueue, Collected, ToCome, NoDoubles
<1>7. status'[f] = "EXEC" /\ \A g \in Fibers \ {f} : status'[g] = status[g]
  BY <1>4 DEF TypeOK
<1>8. InHand(w)'
  BY <1>2, <1>3, <1>4, <1>5, <1>6, <1>7 DEF InHand, Moves, Leaving
<1>9. Held(f)' /\ \A v \in Workers \ {w} : cur'[v] = cur[v] /\ At(v)' = At(v) /\ cur[v] \notin {f}
  BY <1>2, <1>3, <1>4, <1>5 DEF Held, Moves
<1>10. /\ \A g \in used' \ {f} : g \in used /\ (g \in ToCome' <=> g \in ToCome)
       /\ \A g \in used' : g \in {f} \/ (w \in Workers /\ g = cur[w]) => Held(g)'
  BY <1>2, <1>5, <1>6, <1>7, <1>9
<1>11. /\ NoDoubles' /\ IsFiniteSet(timers)' /\ ToCome' \subseteq used' /\ used \subseteq used'
       /\ cur'[w] = cur[w] /\ {f} \subseteq used' /\ used' \subseteq Fibers
  BY <1>3, <1>5, <1>6 DEF Tasks, TypeOK
<1>12. QED BY <1>7, <1>8, <1>9, <1>10, <1>11, TasksStep

\* READY: w queues the fiber; TERM: it is over; otherwise it is on HOLD, and
\* something will bring it back.
LEMMA SettleTasks ==
  ASSUME TypeOK, Places, Tasks, NEW w \in Workers, Settle(w)
  PROVE  Tasks'
<1>1. At(w) = "settle" /\ "settle" \in Holding /\ "settle" \in Leaving
  BY DEF Settle, At, Holding, Leaving
<1>2. PICK f \in Fibers : f = cur[w]
  BY <1>1, TaskInHand
<1>3. f # Nobody /\ f \in used /\ (\A v \in Workers \ {w} : cur[v] # f)
      /\ IF f \in ToCome THEN status[f] = "EXEC" ELSE status[f] \in {"READY", "TERM"}
  BY <1>1, <1>2, TaskInHand DEF InHand
<1>4. UNCHANGED <<used, events, timers, cbs>> /\ cur' = [cur EXCEPT ![w] = Nobody]
  BY DEF Settle, sourceVars
<1>5. cur'[w] = Nobody /\ (\A v \in Workers \ {w} : cur'[v] = cur[v] /\ cur[v] \notin {f})
      /\ Collected' = Collected
  BY <1>3, <1>4 DEF TypeOK, Collected
<1>6. CASE status[f] = "READY"
  <2>1. f \notin ToCome /\ UNCHANGED status /\ Schedule(w, <<Entry(f, Anywhere)>>, "scan")
    BY <1>2, <1>3, <1>6 DEF Settle
  <2>2. OnceIn(queue') /\ InQueue' = InQueue \cup {f} /\ Moves(w, "scan")
    BY <2>1, ScheduleOne DEF ToCome, AfterTickle
  <2>3. ToCome' = ToCome \cup {f} /\ NoDoubles'
    BY <1>4, <1>5, <2>1, <2>2 DEF ToCome, NoDoubles, Tasks
  <2>4. /\ \A g \in used' \ {f} : g \in used /\ (g \in ToCome' <=> g \in ToCome)
        /\ \A g \in used' : g \in {f} \/ (w \in Workers /\ g = cur[w]) =>
             status'[g] # "EXEC" /\ (g \in ToCome' <=> status'[g] # "TERM")
    BY <1>2, <1>4, <1>6, <2>1, <2>3
  <2>5. /\ IsFiniteSet(timers)' /\ ToCome' \subseteq used' /\ used \subseteq used'
        /\ {f} \subseteq used' /\ used' \subseteq Fibers
        /\ \A g \in Fibers \ {f} : status'[g] = status[g]
        /\ \A v \in Workers \ {w} : cur'[v] = cur[v] /\ At(v)' = At(v) /\ cur[v] \notin {f}
    BY <1>3, <1>4, <1>5, <2>1, <2>2, <2>3 DEF Tasks, TypeOK, Moves
  <2>6. NoDoubles'
    BY <2>3
  <2>7. QED BY <1>5, <2>4, <2>5, <2>6, TasksStep
<1>7. CASE status[f] # "READY"
  <2>1. /\ status' = [status EXCEPT ![f] = IF @ = "TERM" THEN @ ELSE "HOLD"]
        /\ queue' = queue /\ Moves(w, "scan")
    BY <1>2, <1>7, GotoMoves DEF Settle, Pcs
  <2>2. InQueue' = InQueue /\ ToCome' = ToCome /\ NoDoubles' = NoDoubles
    BY <1>4, <1>5, <2>1 DEF ToCome, NoDoubles, InQueue
  <2>3. /\ status'[f] = IF status[f] = "TERM" THEN "TERM" ELSE "HOLD"
        /\ \A g \in Fibers \ {f} : status'[g] = status[g]
    BY <2>1 DEF TypeOK
  <2>4. /\ \A g \in used' \ {f} : g \in used /\ (g \in ToCome' <=> g \in ToCome)
        /\ \A g \in used' : g \in {f} \/ (w \in Workers /\ g = cur[w]) =>
             status'[g] # "EXEC" /\ (g \in ToCome' <=> status'[g] # "TERM")
    BY <1>2, <1>3, <1>4, <1>7, <2>2, <2>3
  <2>5. /\ IsFiniteSet(timers)' /\ ToCome' \subseteq used' /\ used \subseteq used'
        /\ {f} \subseteq used' /\ used' \subseteq Fibers /\ NoDoubles'
        /\ \A v \in Workers \ {w} : cur'[v] = cur[v] /\ At(v)' = At(v) /\ cur[v] \notin {f}
    BY <1>3, <1>4, <1>5, <2>1, <2>2 DEF Tasks, TypeOK, Moves
  <2>6. QED BY <1>5, <2>3, <2>4, <2>5, TasksStep
<1>8. QED BY <1>6, <1>7

\* What a running fiber has in hand is its own, and nothing will bring it back.
LEMMA RunningTask ==
  ASSUME TypeOK, Places, Tasks, NEW w \in Workers, pc[w] = "exec"
  PROVE  /\ At(w) = "exec" /\ cur[w] \in Fibers /\ cur[w] # Nobody /\ cur[w] \in used
         /\ cur[w] \notin ToCome /\ status[cur[w]] = "EXEC"
         /\ \A v \in Workers \ {w} : cur[v] # cur[w]
<1>1. At(w) = "exec" /\ "exec" \in Holding
  BY DEF At, Holding, Working
<1>2. QED BY <1>1, TaskInHand DEF InHand

\* The fiber waits for an event, switches thread, yields or is over: it leaves.
LEMMA LeavingTasks ==
  ASSUME TypeOK, Places, Tasks, NEW w \in Workers, pc[w] = "exec",
         NEW f \in Fibers, f = cur[w], Moves(w, "swap"), UNCHANGED <<used, timers, cur>>,
         NoDoubles', ToCome' \subseteq ToCome \cup {f}, ToCome \subseteq ToCome',
         \A g \in Fibers \ {f} : status'[g] = status[g],
         IF f \in ToCome' THEN status'[f] = "EXEC" ELSE status'[f] \in {"READY", "TERM"}
  PROVE  Tasks'
<1>1. f \in used /\ f \notin ToCome /\ \A v \in Workers \ {w} : cur[v] # f
  BY RunningTask
<1>2. InHand(w)'
  BY <1>1 DEF InHand, Moves, Leaving
<1>3. Held(f)' /\ \A v \in Workers \ {w} : cur'[v] = cur[v] /\ At(v)' = At(v) /\ cur[v] \notin {f}
  BY <1>1 DEF Held, Moves
<1>4. /\ \A g \in used' \ {f} : g \in used /\ (g \in ToCome' <=> g \in ToCome)
      /\ \A g \in used' : g \in {f} \/ (w \in Workers /\ g = cur[w]) => Held(g)'
  BY <1>3
<1>5. /\ IsFiniteSet(timers)' /\ ToCome' \subseteq used' /\ used \subseteq used'
      /\ cur'[w] = cur[w] /\ {f} \subseteq used' /\ used' \subseteq Fibers
  BY <1>1 DEF Tasks, TypeOK
<1>6. QED BY <1>2, <1>3, <1>4, <1>5, TasksStep

LEMMA WaitEventTasks ==
  ASSUME TypeOK, Places, Tasks, NEW w \in Workers, WaitEvent(w)
  PROVE  Tasks'
<1>1. pc[w] = "exec"
  BY DEF WaitEvent, Call
<1>2. PICK f \in Fibers : f = cur[w]
  BY <1>1, RunningTask
<1>3. /\ UNCHANGED <<status, used, queue, timers, cur, cbs>>
      /\ events' = events \cup {f} /\ Moves(w, "swap")
  BY <1>2, GotoMoves DEF WaitEvent, Pcs
<1>4. InQueue' = InQueue /\ Collected' = Collected /\ ToCome' = ToCome \cup {f}
  BY <1>3 DEF InQueue, Collected, ToCome
<1>5. f \notin ToCome /\ status[f] = "EXEC"
  BY <1>1, <1>2, RunningTask
<1>6. NoDoubles'
  BY <1>3, <1>4, <1>5 DEF NoDoubles, ToCome, Tasks
<1>7. QED BY <1>1, <1>2, <1>3, <1>4, <1>5, <1>6, LeavingTasks

LEMMA SwitchToTasks ==
  ASSUME TypeOK, Places, Tasks, NEW w \in Workers, NEW t \in Targets, SwitchTo(w, t)
  PROVE  Tasks'
<1>1. pc[w] = "exec"
  BY DEF SwitchTo, Call
<1>2. PICK f \in Fibers : f = cur[w]
  BY <1>1, RunningTask
<1>3. f \notin ToCome /\ f \notin InQueue /\ status[f] = "EXEC" /\ t \in Workers \cup {Anywhere}
  BY <1>1, <1>2, RunningTask DEF ToCome, Targets, Crew
<1>4. /\ UNCHANGED <<status, used, events, timers, cur, cbs>>
      /\ Schedule(w, <<Entry(f, t)>>, "swap")
  BY <1>2 DEF SwitchTo, sourceVars
<1>5. OnceIn(queue') /\ InQueue' = InQueue \cup {f} /\ Moves(w, "swap")
  BY <1>3, <1>4, ScheduleOne DEF AfterTickle
<1>6. Collected' = Collected /\ ToCome' = ToCome \cup {f}
  BY <1>4, <1>5 DEF Collected, ToCome
<1>7. NoDoubles'
  BY <1>3, <1>4, <1>5, <1>6 DEF NoDoubles, ToCome, Tasks
<1>8. QED BY <1>1, <1>2, <1>3, <1>4, <1>5, <1>6, <1>7, LeavingTasks

\* YieldToReady and Finish: only the status changes.
LEMMA StatusTasks ==
  ASSUME TypeOK, Places, Tasks, NEW w \in Workers, YieldToReady(w) \/ Finish(w)
  PROVE  Tasks'
<1>1. pc[w] = "exec"
  BY DEF YieldToReady, Finish, Call
<1>2. PICK f \in Fibers : f = cur[w]
  BY <1>1, RunningTask
<1>3. /\ UNCHANGED <<used, queue, events, timers, cur, cbs>> /\ Moves(w, "swap")
      /\ \E s \in {"READY", "TERM"} : status' = [status EXCEPT ![f] = s]
  BY <1>2, GotoMoves DEF YieldToReady, Finish, Pcs, sourceVars
<1>4. InQueue' = InQueue /\ Collected' = Collected /\ ToCome' = ToCome /\ NoDoubles' = NoDoubles
  BY <1>3 DEF InQueue, Collected, ToCome, NoDoubles
<1>5. f \notin ToCome
  BY <1>1, <1>2, RunningTask
<1>6. status'[f] \in {"READY", "TERM"} /\ \A g \in Fibers \ {f} : status'[g] = status[g]
  BY <1>3 DEF TypeOK
<1>7. NoDoubles'
  BY <1>4 DEF Tasks
<1>8. QED BY <1>1, <1>2, <1>3, <1>4, <1>5, <1>6, <1>7, LeavingTasks

\* A task is handed to the scheduler.
LEMMA NewTask ==
  ASSUME TypeOK, Places, Tasks, NEW g \in Fibers \ used, UNCHANGED <<status, cur>>,
         \A h : h \in used' <=> h \in used \/ h = g,
         \A h : h \in ToCome' <=> h \in ToCome \/ h = g, NoDoubles', IsFiniteSet(timers)',
         \A v \in Workers : At(v)' = At(v)
  PROVE  Tasks'
<1>1. status[g] = "INIT" /\ g \notin ToCome
  BY DEF Tasks
<1>2. \A v \in Workers : cur[v] # g
  BY SchedulerAssumption DEF Tasks, InHand
<1>3. PICK w : w \notin Workers
  BY SchedulerAssumption
<1>4. \A v \in Workers \ {w} : cur'[v] = cur[v] /\ At(v)' = At(v) /\ cur[v] \notin {g}
  BY <1>2
<1>5. /\ \A h \in used' \ {g} : h \in used /\ (h \in ToCome' <=> h \in ToCome)
      /\ \A h \in used' : h \in {g} \/ (w \in Workers /\ h = cur[w]) =>
            status'[h] # "EXEC" /\ (h \in ToCome' <=> status'[h] # "TERM")
  BY <1>1, <1>3
<1>6. /\ ToCome' \subseteq used' /\ used \subseteq used' /\ {g} \subseteq used'
      /\ used' \subseteq Fibers /\ \A h \in Fibers \ {g} : status'[h] = status[h]
  BY DEF Tasks, TypeOK
<1>7. QED BY <1>3, <1>4, <1>5, <1>6, TasksStep

LEMMA SpawnTasks ==
  ASSUME TypeOK, Places, Tasks, NEW w \in Workers, NEW g \in Fibers, NEW t \in Targets,
         Spawn(w, g, t)
  PROVE  Tasks'
<1>1. At(w) = "exec" /\ g \notin used /\ g \notin InQueue /\ g \notin ToCome
      /\ t \in Workers \cup {Anywhere}
  BY DEF Spawn, Call, At, Tasks, ToCome, Targets, Crew
<1>2. /\ UNCHANGED <<status, events, timers, cur, cbs>> /\ used' = used \cup {g}
      /\ Schedule(w, <<Entry(g, t)>>, "exec")
  BY DEF Spawn, sourceVars
<1>3. OnceIn(queue') /\ InQueue' = InQueue \cup {g} /\ Moves(w, "exec")
  BY <1>1, <1>2, ScheduleOne DEF AfterTickle
<1>4. Collected' = Collected /\ ToCome' = ToCome \cup {g}
  BY <1>2, <1>3 DEF Collected, ToCome
<1>5. NoDoubles'
  BY <1>1, <1>2, <1>3, <1>4 DEF NoDoubles, ToCome, Tasks
<1>6. IsFiniteSet(timers)' /\ \A v \in Workers : At(v)' = At(v)
  BY <1>1, <1>2, <1>3 DEF Tasks, Moves
<1>7. QED BY <1>1, <1>2, <1>4, <1>5, <1>6, NewTask

LEMMA AddTimerTasks ==
  ASSUME TypeOK, Places, Tasks, NEW w \in Workers, NEW g \in Fibers, AddTimer(w, g)
  PROVE  Tasks'
<1>1. At(w) = "exec" /\ g \notin used /\ g \notin ToCome
  BY DEF AddTimer, Call, At, Tasks
<1>2. /\ UNCHANGED <<status, queue, events, cur, cbs>> /\ used' = used \cup {g}
      /\ timers' = timers \cup {g} /\ Moves(w, "exec")
  BY GotoMoves, TickleMoves DEF AddTimer, AfterTickle, Pcs
<1>3. InQueue' = InQueue /\ Collected' = Collected /\ ToCome' = ToCome \cup {g}
  BY <1>2 DEF InQueue, Collected, ToCome
<1>4. NoDoubles'
  BY <1>1, <1>2, <1>3 DEF NoDoubles, ToCome, Tasks
<1>5. IsFiniteSet(timers')
  BY <1>2, FS_AddElement DEF Tasks
<1>6. \A v \in Workers : At(v)' = At(v)
  BY <1>1, <1>2 DEF Moves
<1>7. QED BY <1>1, <1>2, <1>3, <1>4, <1>5, <1>6, NewTask

LEMMA ClientScheduleTasks ==
  ASSUME TypeOK, Places, Tasks, NEW f \in Fibers, NEW t \in Targets, ClientSchedule(f, t)
  PROVE  Tasks' /\ queue' \in Seq(Entries)
<1>1. f \notin used /\ f \notin InQueue /\ f \notin ToCome
  BY DEF ClientSchedule, Tasks, ToCome
<1>2. /\ UNCHANGED <<status, events, timers, cur, cbs, pc, after>>
      /\ used' = used \cup {f} /\ queue' = Append(queue, Entry(f, t))
  BY DEF ClientSchedule, sourceVars, workerVars
<1>3. queue' \in Seq(Entries) /\ OnceIn(queue') /\ InQueue' = InQueue \cup {f}
  <2> DEFINE e == Entry(f, t)
  <2>1. e \in Entries /\ e.fiber = f /\ queue \in Seq(Entries)
    BY DEF Entry, Entries, TypeOK, Targets, Crew
  <2>2. e.fiber \notin {queue[i].fiber : i \in DOMAIN queue}
    BY <1>1, <2>1 DEF InQueue
  <2>3. queue' = queue \o <<e>>
    BY <1>2, <2>1, AppendIsConcat
  <2>4. OnceIn(queue)
    BY DEF Tasks, NoDoubles
  <2> HIDE DEF e
  <2>5. /\ queue \o <<e>> \in Seq(Entries) /\ OnceIn(queue \o <<e>>)
        /\ {(queue \o <<e>>)[i].fiber : i \in DOMAIN (queue \o <<e>>)}
             = {queue[i].fiber : i \in DOMAIN queue} \cup {e.fiber}
    BY <2>1, <2>2, <2>4, OneMoreOnce
  <2>6. QED BY <2>1, <2>3, <2>5 DEF InQueue
<1>4. Collected' = Collected /\ ToCome' = ToCome \cup {f}
  BY <1>2, <1>3 DEF Collected, ToCome
<1>5. NoDoubles'
  BY <1>1, <1>2, <1>3, <1>4 DEF NoDoubles, ToCome, Tasks
<1>6. IsFiniteSet(timers)' /\ \A v \in Workers : At(v)' = At(v)
  BY <1>2 DEF Tasks, At
<1>7. QED BY <1>1, <1>2, <1>3, <1>4, <1>5, <1>6, NewTask

(***************************************************************************)
(* What will bring a task back goes from one place to another              *)
(***************************************************************************)
\* A worker between two places where it has nothing in hand.
LEMMA Empty ==
  ASSUME NEW w \in Workers, NEW p, Moves(w, p), p \notin Holding, At(w) \notin Holding
  PROVE  \A v \in Workers : GoesOn(v)
  BY DEF Moves, GoesOn

LEMMA CollectTasks ==
  ASSUME TypeOK, Places, Tasks, NEW w \in Workers, Collect(w)
  PROVE  Tasks'
<1>1. At(w) = "collect" /\ cbs[w] = {}
  BY DEF Collect, At, Places
<1>2. PICK E \in SUBSET timers :
        /\ timers' = timers \ E /\ cbs' = [cbs EXCEPT ![w] = E]
        /\ Goto(w, IF E = {} THEN "handle" ELSE "cbs")
  BY DEF Collect
<1>3. UNCHANGED <<status, used, queue, events, cur>>
  BY DEF Collect, fiberVars
<1>4. \E p \in {"handle", "cbs"} : Moves(w, p)
  <2>1. (IF E = {} THEN "handle" ELSE "cbs") \in Pcs \ {"tickle"}
    BY DEF Pcs
  <2>2. QED BY <1>2, <2>1, GotoMoves
<1>5. \A v \in Workers : GoesOn(v)
  BY <1>1, <1>4, Empty DEF Holding, Working
<1>6. \A v \in Workers : cbs'[v] = IF v = w THEN E ELSE cbs[v]
  BY <1>2 DEF TypeOK
<1>7. InQueue' = InQueue /\ Collected' = Collected \cup E
  BY <1>1, <1>3, <1>6 DEF InQueue, Collected
<1>8. E \cap Collected = {}
  BY DEF Tasks, NoDoubles
<1>9. \A u, v \in Workers : u # v => cbs'[u] \cap cbs'[v] = {}
  BY <1>6, <1>8 DEF Collected, Tasks, NoDoubles
<1>10. NoDoubles' /\ ToCome' = ToCome
  BY <1>2, <1>3, <1>7, <1>9 DEF NoDoubles, ToCome, Tasks
<1>11. IsFiniteSet(timers')
  BY <1>2, FS_Subset DEF Tasks
<1>12. QED BY <1>3, <1>5, <1>10, <1>11, TasksMoved

LEMMA ScheduleCbsTasks ==
  ASSUME TypeOK, Places, Tasks, NEW w \in Workers, ScheduleCbs(w)
  PROVE  Tasks' /\ queue' \in Seq(Entries)
<1>1. At(w) = "cbs"
  BY DEF ScheduleCbs, At
<1>2. UNCHANGED <<status, used, events, timers, cur>> /\ cbs' = [cbs EXCEPT ![w] = {}]
  BY DEF ScheduleCbs, fiberVars, sourceVars
<1>3. PICK s \in SetToSeqs(cbs[w]) :
        Schedule(w, [i \in DOMAIN s |-> Entry(s[i], Anywhere)], "handle")
  BY DEF ScheduleCbs
<1> DEFINE es == [i \in DOMAIN s |-> Entry(s[i], Anywhere)]
<1>4. es \in Seq(Entries) /\ OnceIn(es) /\ {es[i].fiber : i \in DOMAIN es} = cbs[w]
  <2>1. cbs[w] \in SUBSET Fibers /\ IsFiniteSet(cbs[w])
    BY DEF TypeOK, Places
  <2>2. QED BY <2>1, AllOnce
<1>5. queue' = queue \o es /\ \A v \in Workers : GoesOn(v)
  <2>1. Moves(w, "handle")
    BY <1>3, GotoMoves, TickleMoves DEF Schedule, AfterTickle, Pcs
  <2>2. QED BY <1>1, <1>3, <2>1, Empty DEF Schedule, Holding, Working
<1> HIDE DEF es
<1>6. queue \in Seq(Entries) /\ OnceIn(queue) /\ cbs[w] \cap InQueue = {}
  BY DEF TypeOK, Tasks, NoDoubles, Collected
<1>7. \A i \in DOMAIN queue, j \in DOMAIN es : queue[i].fiber # es[j].fiber
  BY <1>4, <1>6 DEF InQueue
<1>8. /\ queue \o es \in Seq(Entries) /\ OnceIn(queue \o es)
      /\ {(queue \o es)[i].fiber : i \in DOMAIN (queue \o es)}
           = {queue[i].fiber : i \in DOMAIN queue} \cup {es[i].fiber : i \in DOMAIN es}
  BY <1>4, <1>6, <1>7, AppendedOnce
<1>9. queue' \in Seq(Entries) /\ OnceIn(queue') /\ InQueue' = InQueue \cup cbs[w]
  BY <1>4, <1>5, <1>8 DEF InQueue
<1>10. \A v \in Workers : cbs'[v] = IF v = w THEN {} ELSE cbs[v]
  BY <1>2 DEF TypeOK
<1>11. Collected = Collected' \cup cbs[w] /\ Collected' \cap cbs[w] = {}
       /\ \A u, v \in Workers : u # v => cbs'[u] \cap cbs'[v] = {}
  BY <1>10 DEF Collected, Tasks, NoDoubles
<1>12. NoDoubles' /\ ToCome' = ToCome
  BY <1>2, <1>9, <1>11 DEF NoDoubles, ToCome, Tasks
<1>13. IsFiniteSet(timers)'
  BY <1>2 DEF Tasks
<1>14. QED BY <1>2, <1>5, <1>9, <1>12, <1>13, TasksMoved

LEMMA HandleTasks ==
  ASSUME TypeOK, Places, Tasks, NEW w \in Workers, Handle(w)
  PROVE  Tasks' /\ queue' \in Seq(Entries)
<1>1. At(w) = "handle"
  BY DEF Handle, At
<1>2. UNCHANGED <<status, used, timers, cur, cbs>> /\ Collected' = Collected
  BY DEF Handle, fiberVars, Collected
<1>3. CASE got[w] \in events /\ events' = Unregister(got[w])
           /\ Schedule(w, <<Entry(got[w], Anywhere)>>, "dec")
  <2>1. PICK f \in Fibers : f = got[w] /\ f \in events
    BY <1>3 DEF TypeOK
  <2>2. f \notin InQueue
    BY <2>1 DEF Tasks, NoDoubles
  <2>3. queue' \in Seq(Entries) /\ OnceIn(queue') /\ InQueue' = InQueue \cup {f} /\ Moves(w, "dec")
    BY <1>3, <2>1, <2>2, ScheduleOne DEF AfterTickle
  <2>4. events' = events \ {f}
    BY <1>3, <2>1 DEF Unregister
  <2>5. NoDoubles' /\ ToCome' = ToCome
    BY <1>2, <2>1, <2>3, <2>4 DEF NoDoubles, ToCome, Tasks
  <2>6. IsFiniteSet(timers)' /\ \A v \in Workers : GoesOn(v)
    BY <1>1, <1>2, <2>3, Empty DEF Tasks, Holding, Working
  <2>7. QED BY <1>2, <2>3, <2>5, <2>6, TasksMoved
<1>4. CASE UNCHANGED <<queue, events>> /\ Goto(w, "leave")
  <2>1. Moves(w, "leave")
    BY <1>4, GotoMoves DEF Pcs
  <2>2. \A v \in Workers : GoesOn(v)
    BY <1>1, <2>1, Empty DEF Holding, Working
  <2>3. QED BY <1>2, <1>4, <2>2, TasksFrame DEF taskVars, TypeOK
<1>5. QED BY <1>3, <1>4 DEF Handle

-----------------------------------------------------------------------------
(***************************************************************************)
(* Types, places and counters                                              *)
(***************************************************************************)
\* w goes to p, possibly by way of tickle().
Walks(w, p) ==
  /\ Moves(w, p)
  /\ pc' \in [Workers -> Pcs] /\ after' \in [Workers -> Pcs]
  /\ \A v \in Workers : pc'[v] = "tickle" => after'[v] \in AfterTickle
  /\ \A v \in Workers \ {w} : pc'[v] = pc[v]
  /\ pc'[w] = p \/ (pc'[w] = "tickle" /\ p \in AfterTickle)

LEMMA GotoWalks ==
  ASSUME TypeOK, Places, NEW w \in Workers, NEW p \in Pcs \ {"tickle"}, Goto(w, p)
  PROVE  Walks(w, p)
<1>1. Moves(w, p) /\ pc' \in [Workers -> Pcs] /\ after' \in [Workers -> Pcs]
  BY GotoMoves
<1>2. \A v \in Workers : pc'[v] = "tickle" => after'[v] \in AfterTickle
  BY GotoMoves
<1>3. \A v \in Workers : pc'[v] = IF v = w THEN p ELSE pc[v]
  BY GotoMoves
<1>4. QED BY <1>1, <1>2, <1>3 DEF Walks

LEMMA TickleWalks ==
  ASSUME TypeOK, Places, NEW w \in Workers, NEW p \in AfterTickle, GotoViaTickle(w, p)
  PROVE  Walks(w, p)
<1>1. Moves(w, p) /\ pc' \in [Workers -> Pcs] /\ after' \in [Workers -> Pcs]
  BY TickleMoves
<1>2. \A v \in Workers : pc'[v] = "tickle" => after'[v] \in AfterTickle
  BY TickleMoves
<1>3. \A v \in Workers : pc'[v] = IF v = w THEN "tickle" ELSE pc[v]
  BY TickleMoves
<1>4. QED BY <1>1, <1>2, <1>3 DEF Walks

LEMMA ScheduleWalks ==
  ASSUME TypeOK, Places, NEW w \in Workers, NEW p \in AfterTickle, NEW s, Schedule(w, s, p)
  PROVE  Walks(w, p)
<1>1. p \in Pcs \ {"tickle"}
  BY DEF AfterTickle, Pcs
<1>2. QED BY <1>1, GotoWalks, TickleWalks DEF Schedule

LEMMA PlacesStep ==
  ASSUME Places, NEW w \in Workers, NEW p, Walks(w, p),
         \A v \in Workers \ {w} : cur'[v] = cur[v] /\ cbs'[v] = cbs[v],
         cur'[w] # Nobody <=> p \in Holding,
         cbs'[w] # {} => p = "cbs", IsFiniteSet(cbs'[w])
  PROVE  Places'
BY DEF Places, Walks, Moves

\* Neither what w has in hand nor what it has collected changes.
LEMMA PlacesStay ==
  ASSUME Places, NEW w \in Workers, NEW p, Walks(w, p), UNCHANGED <<cur, cbs>>,
         At(w) \in Holding <=> p \in Holding, At(w) # "cbs"
  PROVE  Places'
BY PlacesStep DEF Places

One(b) == IF b THEN 1 ELSE 0

LEMMA CountersStep ==
  ASSUME TypeOK, Counters, NEW w \in Workers, NEW p, Walks(w, p),
         active' = active + One(p \in Working) - One(At(w) \in Working),
         idle' = idle + One(p \in Idling) - One(At(w) \in Idling),
         IsFiniteSet(events'),
         pending' = pending + Cardinality(events') - Cardinality(events)
                    + One(p = "dec") - One(At(w) = "dec")
  PROVE  Counters' /\ active' \in Nat /\ idle' \in Nat /\ pending' \in Nat
<1>1. Moves(w, p)
  BY DEF Walks
<1>2. /\ Count(Working) \in Nat
      /\ Count(Working)' = Count(Working) + One(p \in Working) - One(At(w) \in Working)
      /\ At(w) \in Working => Count(Working) > 0
  BY <1>1, CountMoves DEF One
<1>3. /\ Count(Idling) \in Nat
      /\ Count(Idling)' = Count(Idling) + One(p \in Idling) - One(At(w) \in Idling)
      /\ At(w) \in Idling => Count(Idling) > 0
  BY <1>1, CountMoves DEF One
<1>4. /\ Count({"dec"}) \in Nat
      /\ Count({"dec"})' = Count({"dec"}) + One(p = "dec") - One(At(w) = "dec")
      /\ At(w) = "dec" => Count({"dec"}) > 0
  BY <1>1, CountMoves DEF One
<1>5. Cardinality(events) \in Nat /\ Cardinality(events') \in Nat
  BY FS_CardinalityType DEF Counters
<1>6. active' = Count(Working)' /\ active' \in Nat
  BY <1>2 DEF Counters, One
<1>7. idle' = Count(Idling)' /\ idle' \in Nat
  BY <1>3 DEF Counters, One
<1>8. pending' = Cardinality(events') + Count({"dec"})' /\ pending' \in Nat
  BY <1>4, <1>5 DEF Counters, One
<1>9. QED BY <1>6, <1>7, <1>8 DEF Counters

\* Neither the counters nor what they count changes.
LEMMA CountersStay ==
  ASSUME TypeOK, Counters, NEW w \in Workers, NEW p, Walks(w, p),
         UNCHANGED <<active, idle, pending, events>>,
         At(w) \in Working <=> p \in Working, At(w) \in Idling <=> p \in Idling,
         At(w) = "dec" <=> p = "dec"
  PROVE  Counters'
<1>1. Cardinality(events) \in Nat /\ IsFiniteSet(events)
  BY FS_CardinalityType DEF Counters
<1>2. /\ active' = active + One(p \in Working) - One(At(w) \in Working)
      /\ idle' = idle + One(p \in Idling) - One(At(w) \in Idling)
      /\ pending' = pending + Cardinality(events') - Cardinality(events)
                     + One(p = "dec") - One(At(w) = "dec")
  BY <1>1 DEF One, TypeOK
<1>3. QED BY <1>1, <1>2, CountersStep

(***************************************************************************)
(* The steps of a worker                                                   *)
(***************************************************************************)
Base == TypeOK /\ Places /\ Tasks /\ Counters

\* A step that changes neither tasks nor counters.
LEMMA PlainKeeps ==
  ASSUME Base, NEW w \in Workers, NEW p \in Pcs \ {"tickle"}, Goto(w, p),
         UNCHANGED <<status, calls, used, queue, active, idle, pending, events, timers,
                     stopFlag, client, cur, cbs>>,
         pipe' \in {"empty", "edge", "seen"},
         got' \in [Workers -> Fibers \cup {Nobody, "pipe"}],
         idleDone' \in [Workers -> BOOLEAN],
         \/ At(w) = p
         \/ At(w) = "swap" /\ p = "back"
         \/ At(w) \in Idling \ {"cbs", "dec"} /\ p \in Idling \ {"cbs", "dec"}
  PROVE  Base'
<1>1. Walks(w, p)
  BY GotoWalks DEF Base
<1>2. TypeOK'
  BY <1>1 DEF Base, TypeOK, Walks
<1>3. /\ At(w) \in Working <=> p \in Working
      /\ At(w) \in Holding <=> p \in Holding
      /\ At(w) \in Idling <=> p \in Idling
      /\ At(w) = "dec" <=> p = "dec"
  BY DEF Working, Holding, Idling
<1>4. Counters'
  BY <1>1, <1>3, CountersStay DEF Base
<1>5. Places'
  BY <1>1, <1>3, PlacesStep DEF Base, Places, Idling
<1>6. \A v \in Workers : GoesOn(v)
  BY <1>1 DEF Walks, Moves, GoesOn, Leaving, Holding, Working, Idling
<1>7. Tasks'
  BY <1>6, TasksFrame DEF Base, taskVars
<1>8. QED BY <1>2, <1>4, <1>5, <1>7 DEF Base

LEMMA TickleKeeps ==
  ASSUME Base, NEW w \in Workers, Tickle(w)
  PROVE  Base'
<1>1. PICK p \in AfterTickle : p = after[w]
  BY DEF Tickle, Base, Places
<1>2. p \in Pcs \ {"tickle"}
  BY DEF AfterTickle, Pcs
<1>3. At(w) = p /\ Goto(w, p)
  BY <1>1 DEF Tickle, At
<1>4. pipe' \in {"empty", "edge", "seen"}
  BY DEF Tickle, WritePipe, Base, TypeOK
<1>5. QED
  BY <1>2, <1>3, <1>4, PlainKeeps DEF Tickle, Base, TypeOK, fiberVars, sourceVars, workerVars

LEMMA SwapOutKeeps ==
  ASSUME Base, NEW w \in Workers, SwapOut(w)
  PROVE  Base'
<1>1. At(w) = "swap" /\ Goto(w, "back") /\ "back" \in Pcs \ {"tickle"}
  BY DEF SwapOut, At, Pcs
<1>2. QED
  BY <1>1, PlainKeeps DEF SwapOut, Base, TypeOK, fiberVars, sourceVars, workerVars

\* stopping() and epoll_wait
LEMMA IdleKeeps ==
  ASSUME Base, NEW w \in Workers,
         \/ Stopping1(w) \/ Stopping2(w) \/ Stopping3(w)
         \/ WakeTimeout(w) \/ WakeTickle(w) \/ \E f \in Fibers : WakeEvent(w, f)
  PROVE  Base'
<1>1. PICK p \in {"stop2", "stop3", "wait", "leave", "collect"} : Goto(w, p)
  BY DEF Stopping1, Stopping2, Stopping3, WakeTimeout, WakeTickle, WakeEvent, Wake
<1>2. /\ p \in Pcs \ {"tickle"} /\ p \in Idling \ {"cbs", "dec"}
      /\ At(w) \in Idling \ {"cbs", "dec"}
  BY DEF Stopping1, Stopping2, Stopping3, WakeTimeout, WakeTickle, WakeEvent, Wake, At,
         Pcs, Idling
<1>3. /\ pipe' \in {"empty", "edge", "seen"}
      /\ got' \in [Workers -> Fibers \cup {Nobody, "pipe"}]
      /\ idleDone' \in [Workers -> BOOLEAN]
  BY DEF Stopping1, Stopping2, Stopping3, WakeTimeout, WakeTickle, WakeEvent, Wake,
         Base, TypeOK, SchedularStopping
<1>4. UNCHANGED <<status, calls, used, queue, active, idle, pending, events, timers,
                  stopFlag, client, cur, cbs>>
  BY DEF Stopping1, Stopping2, Stopping3, WakeTimeout, WakeTickle, WakeEvent, Wake,
         fiberVars, sourceVars
<1>5. QED BY <1>1, <1>2, <1>3, <1>4, PlainKeeps

LEMMA BackKeeps ==
  ASSUME Base, NEW w \in Workers, Back(w)
  PROVE  Base'
<1>1. At(w) = "back" /\ Walks(w, "settle")
  BY GotoWalks DEF Back, At, Pcs, Base
<1>2. UNCHANGED <<fiberVars, queue, idle, sourceVars, pipe, stopFlag, client, cur, got,
                  cbs, idleDone>> /\ active' = active - 1
  BY DEF Back, workerVars
<1>3. active \in Nat /\ idle \in Nat /\ pending \in Nat
      /\ IsFiniteSet(events) /\ Cardinality(events) \in Nat
  BY FS_CardinalityType DEF Base, TypeOK, Counters
<1>4. Counters' /\ active' \in Nat
  <2>1. /\ One("settle" \in Working) = 0 /\ One("back" \in Working) = 1
        /\ One("settle" \in Idling) = 0 /\ One("back" \in Idling) = 0
        /\ One("settle" = "dec") = 0 /\ One("back" = "dec") = 0
    BY DEF One, Working, Idling
  <2>2. events' = events /\ pending' = pending /\ idle' = idle
    BY <1>2 DEF sourceVars
  <2>3. QED BY <1>1, <1>2, <1>3, <2>1, <2>2, CountersStep DEF Base
<1>5. TypeOK'
  BY <1>1, <1>2, <1>4 DEF Base, TypeOK, Walks, fiberVars, sourceVars
<1>6. Places'
  BY <1>1, <1>2, PlacesStay DEF Base, Holding, Working
<1>7. \A v \in Workers : GoesOn(v)
  BY <1>1 DEF Walks, Moves, GoesOn, Leaving
<1>8. Tasks'
  BY <1>2, <1>7, TasksFrame DEF Base, taskVars, fiberVars, sourceVars
<1>9. QED BY <1>4, <1>5, <1>6, <1>8 DEF Base

LEMMA ScanKeeps ==
  ASSUME Base, NEW w \in Workers, Scan(w)
  PROVE  Base'
<1>1. At(w) = "scan" /\ cur[w] = Nobody /\ cbs[w] = {} /\ IsFiniteSet(cbs[w])
  BY DEF Scan, At, Base, Places, Holding, Working
<1>2. /\ UNCHANGED <<status, calls, used, idle, pending, events, timers, pipe, stopFlag, client, got,
                     cbs, idleDone>>
      /\ active \in Nat /\ idle \in Nat /\ pending \in Nat
      /\ IsFiniteSet(events) /\ Cardinality(events) \in Nat
  BY FS_CardinalityType DEF Scan, Base, TypeOK, Counters, fiberVars, sourceVars
<1>3. ASSUME NEW p \in {"start", "notask"}, Goto(w, p) \/ GotoViaTickle(w, p)
      PROVE  Walks(w, p)
  BY <1>3, GotoWalks, TickleWalks DEF Pcs, AfterTickle, Base
<1>4. Tasks'
  BY ScanTasks DEF Base
<1>5. CASE Walks(w, "notask") /\ UNCHANGED <<queue, active, cur>>
  <2>1. TypeOK'
    BY <1>2, <1>5 DEF Base, TypeOK, Walks
  <2>2. Places'
    BY <1>1, <1>2, <1>5, PlacesStay DEF Base, Holding, Working
  <2>3. Counters'
    BY <1>1, <1>2, <1>5, CountersStay DEF Base, Working, Idling
  <2>4. QED BY <1>4, <2>1, <2>2, <2>3 DEF Base
<1>6. ASSUME NEW k \in DOMAIN queue, Walks(w, "start"), queue' = RemoveAt(queue, k),
             active' = active + 1, cur' = [cur EXCEPT ![w] = queue[k].fiber]
      PROVE  Base'
  <2>1. queue \in Seq(Entries) /\ OnceIn(queue)
    BY DEF Base, TypeOK, Tasks, NoDoubles
  <2>2. queue' \in Seq(Entries)
    BY <1>6, <2>1, RemovedOnce
  <2>3. PICK f \in Fibers : f = queue[k].fiber
    <3>1. queue[k] \in Entries
      BY <2>1, ElementOfSeq, LenProperties
    <3>2. QED BY <3>1 DEF Entries
  <2>4. cur' \in [Workers -> Fibers \cup {Nobody}]
    BY <1>6, <2>3 DEF Base, TypeOK
  <2>5. cur'[w] = f /\ f # Nobody /\ \A v \in Workers \ {w} : cur'[v] = cur[v] /\ cbs'[v] = cbs[v]
    BY <1>2, <1>6, <2>3, SchedulerAssumption DEF Base, TypeOK
  <2>6. Places'
    BY <1>1, <1>2, <1>6, <2>5, PlacesStep DEF Base, Holding, Working
  <2>7. /\ One("start" \in Working) = 1 /\ One("scan" \in Working) = 0
        /\ One("start" \in Idling) = 0 /\ One("scan" \in Idling) = 0
        /\ One("start" = "dec") = 0 /\ One("scan" = "dec") = 0
    BY DEF One, Working, Idling
  <2>8. Counters' /\ active' \in Nat
    BY <1>1, <1>2, <1>6, <2>7, CountersStep DEF Base
  <2>9. TypeOK'
    BY <1>2, <1>6, <2>2, <2>4, <2>8 DEF Base, TypeOK, Walks
  <2>10. QED BY <1>4, <2>6, <2>8, <2>9 DEF Base
<1>7. QED BY <1>3, <1>5, <1>6 DEF Scan

LEMMA StartKeeps ==
  ASSUME Base, NEW w \in Workers, Start(w)
  PROVE  Base'
<1>1. At(w) = "start" /\ "start" \in Holding
  BY DEF Start, At, Holding, Working
<1>2. PICK f \in Fibers : f = cur[w]
  BY <1>1, TaskInHand DEF Base
<1>3. status[f] # "TERM"
  BY <1>1, <1>2, TaskInHand DEF Base, InHand
<1>4. status' = [status EXCEPT ![f] = "EXEC"] /\ Walks(w, "exec")
  BY <1>2, <1>3, GotoWalks DEF Start, Pcs, Base
<1>5. UNCHANGED <<calls, used, queue, active, idle, pending, events, timers, pipe, stopFlag, client,
                  cur, got, cbs, idleDone>>
  BY <1>2, <1>3 DEF Start, sourceVars
<1>6. TypeOK'
  BY <1>4, <1>5 DEF Base, TypeOK, Walks
<1>7. Places'
  BY <1>1, <1>4, <1>5, PlacesStay DEF Base, Holding, Working
<1>8. Counters'
  BY <1>1, <1>4, <1>5, CountersStay DEF Base, Working, Idling
<1>9. QED BY <1>6, <1>7, <1>8, StartTasks DEF Base

LEMMA SettleKeeps ==
  ASSUME Base, NEW w \in Workers, Settle(w)
  PROVE  Base'
<1>1. At(w) = "settle" /\ "settle" \in Holding
  BY DEF Settle, At, Holding
<1>2. PICK f \in Fibers : f = cur[w]
  BY <1>1, TaskInHand DEF Base
<1>3. /\ UNCHANGED <<calls, used, active, idle, pending, events, timers, pipe, stopFlag, client,
                     got, cbs, idleDone>>
      /\ cur' = [cur EXCEPT ![w] = Nobody]
  BY DEF Settle, sourceVars
<1>4. Tasks'
  BY SettleTasks DEF Base
<1>5. Walks(w, "scan") /\ queue' \in Seq(Entries) /\ status' \in [Fibers -> {"INIT", "HOLD", "EXEC", "READY", "TERM"}]
  <2>1. CASE status[f] = "READY"
    <3>1. Schedule(w, <<Entry(f, Anywhere)>>, "scan") /\ UNCHANGED status /\ queue \in Seq(Entries)
      BY <1>2, <2>1 DEF Settle, Base, TypeOK
    <3>2. Walks(w, "scan")
      BY <3>1, ScheduleWalks DEF AfterTickle, Base
    <3>3. Entry(f, Anywhere) \in Entries
      BY DEF Entry, Entries
    <3>4. queue' \in Seq(Entries)
      BY <3>1, <3>3 DEF Schedule
    <3>5. QED BY <3>1, <3>2, <3>4 DEF Base, TypeOK
  <2>2. CASE status[f] # "READY"
    <3>1. /\ status' = [status EXCEPT ![f] = IF @ = "TERM" THEN @ ELSE "HOLD"]
          /\ queue' = queue /\ Goto(w, "scan")
      BY <1>2, <2>2 DEF Settle
    <3>2. Walks(w, "scan")
      BY <3>1, GotoWalks DEF Pcs, Base
    <3>3. QED BY <3>1, <3>2 DEF Base, TypeOK
  <2>3. QED BY <2>1, <2>2
<1>6. TypeOK'
  BY <1>3, <1>5 DEF Base, TypeOK, Walks
<1>7. cbs[w] = {} /\ IsFiniteSet(cbs[w]) /\ cur'[w] = Nobody
      /\ \A v \in Workers \ {w} : cur'[v] = cur[v]
  BY <1>1, <1>3 DEF Base, Places, TypeOK
<1>8. Places'
  BY <1>3, <1>5, <1>7, PlacesStep DEF Base, Holding, Working
<1>9. Counters'
  BY <1>1, <1>3, <1>5, CountersStay DEF Base, Working, Idling
<1>10. QED BY <1>4, <1>6, <1>8, <1>9 DEF Base

LEMMA NoTaskKeeps ==
  ASSUME Base, NEW w \in Workers, NoTask(w)
  PROVE  Base'
<1>1. At(w) = "notask"
  BY DEF NoTask, At
<1>2. /\ UNCHANGED <<status, calls, used, queue, active, pending, events, timers, pipe, stopFlag,
                     client, cur, got, cbs, idleDone>>
      /\ active \in Nat /\ idle \in Nat /\ pending \in Nat
      /\ IsFiniteSet(events) /\ Cardinality(events) \in Nat
  BY FS_CardinalityType DEF NoTask, fiberVars, sourceVars, Base, TypeOK, Counters
<1>3. PICK p \in {"exit", "stop1"} : Walks(w, p) /\ idle' = idle + One(p = "stop1")
  <2>1. CASE Goto(w, "exit") /\ UNCHANGED idle
    BY <1>2, <2>1, GotoWalks DEF Pcs, Base, One
  <2>2. CASE Goto(w, "stop1") /\ idle' = idle + 1
    BY <2>2, GotoWalks DEF Pcs, Base, One
  <2>3. QED BY <2>1, <2>2 DEF NoTask
<1>4. /\ One(p \in Working) = 0 /\ One("notask" \in Working) = 0
      /\ One(p \in Idling) = One(p = "stop1") /\ One("notask" \in Idling) = 0
      /\ One(p = "dec") = 0 /\ One("notask" = "dec") = 0 /\ One(p = "stop1") \in {0, 1}
  BY DEF One, Working, Idling
<1>5. Counters' /\ idle' \in Nat
  BY <1>1, <1>2, <1>3, <1>4, CountersStep DEF Base
<1>6. TypeOK'
  BY <1>2, <1>3, <1>5 DEF Base, TypeOK, Walks
<1>7. Places'
  BY <1>1, <1>2, <1>3, PlacesStay DEF Base, Holding, Working
<1>8. \A v \in Workers : GoesOn(v)
  BY <1>1, <1>3, Empty DEF Walks, Holding, Working
<1>9. Tasks'
  BY <1>2, <1>8, TasksFrame DEF Base, taskVars
<1>10. QED BY <1>5, <1>6, <1>7, <1>9 DEF Base

\* A call of the running fiber leaves the fiber in hand and the counters alone.
LEMMA RunningKeeps ==
  ASSUME Base, NEW w \in Workers, NEW p \in {"exec", "swap"}, pc[w] = "exec", Walks(w, p),
         UNCHANGED <<active, idle, pending, events, pipe, stopFlag, client, cur, got, cbs,
                     idleDone>>,
         status' \in [Fibers -> {"INIT", "HOLD", "EXEC", "READY", "TERM"}],
         calls' \in [Fibers -> 0..MaxCalls], used' \subseteq Fibers,
         queue' \in Seq(Entries), timers' \subseteq Fibers, Tasks'
  PROVE  Base'
<1>1. At(w) = "exec"
  BY DEF At
<1>2. TypeOK'
  BY DEF Base, TypeOK, Walks
<1>3. Places'
  BY <1>1, PlacesStay DEF Base, Holding, Working
<1>4. Counters'
  BY <1>1, CountersStay DEF Base, Working, Idling
<1>5. QED BY <1>2, <1>3, <1>4 DEF Base

LEMMA CallCounts ==
  ASSUME TypeOK, Places, Tasks, NEW w \in Workers, Call(w)
  PROVE  pc[w] = "exec" /\ calls' \in [Fibers -> 0..MaxCalls]
<1>1. PICK f \in Fibers : f = cur[w] /\ pc[w] = "exec"
  BY RunningTask DEF Call
<1>2. calls[f] \in 0..MaxCalls /\ calls[f] > 0 /\ MaxCalls \in Nat
  BY <1>1, SchedulerAssumption DEF Call, TypeOK
<1>3. calls[f] - 1 \in 0..MaxCalls
  BY <1>2
<1>4. calls' = [calls EXCEPT ![f] = @ - 1]
  BY <1>1 DEF Call
<1>5. QED BY <1>1, <1>3, <1>4 DEF TypeOK

LEMMA CallsKeep ==
  ASSUME Base, NEW w \in Workers,
         \/ YieldToReady(w) \/ Finish(w) \/ \E t \in Targets : SwitchTo(w, t)
         \/ \E g \in Fibers : AddTimer(w, g) \/ \E t \in Targets : Spawn(w, g, t)
  PROVE  Base'
<1>1. TypeOK /\ Places /\ Tasks /\ queue \in Seq(Entries) /\ timers \subseteq Fibers /\ used \subseteq Fibers
      /\ calls \in [Fibers -> 0..MaxCalls]
  BY DEF Base, TypeOK
<1>2. CASE YieldToReady(w) \/ Finish(w)
  <2>1. pc[w] = "exec" /\ calls' \in [Fibers -> 0..MaxCalls]
    BY <1>1, <1>2, CallCounts DEF YieldToReady, Finish
  <2>2. status' \in [Fibers -> {"INIT", "HOLD", "EXEC", "READY", "TERM"}]
    BY <1>1, <1>2 DEF YieldToReady, Finish, TypeOK
  <2>3. Walks(w, "swap")
    BY <1>1, <1>2, GotoWalks DEF YieldToReady, Finish, Pcs
  <2>4. UNCHANGED <<used, queue, active, idle, pending, events, timers, pipe, stopFlag, client, cur,
                    got, cbs, idleDone>>
    BY <1>2 DEF YieldToReady, Finish, sourceVars
  <2>5. Tasks'
    BY <1>1, <1>2, StatusTasks
  <2>6. QED BY <1>1, <2>1, <2>2, <2>3, <2>4, <2>5, RunningKeeps
<1>3. ASSUME NEW t \in Targets, SwitchTo(w, t) PROVE Base'
  <2>1. pc[w] = "exec" /\ calls' \in [Fibers -> 0..MaxCalls]
    BY <1>1, <1>3, CallCounts DEF SwitchTo
  <2>2. /\ Schedule(w, <<Entry(cur[w], t)>>, "swap")
        /\ UNCHANGED <<status, used, active, idle, pending, events, timers, pipe, stopFlag, client,
                       cur, got, cbs, idleDone>>
    BY <1>3 DEF SwitchTo, sourceVars
  <2>3. Entry(cur[w], t) \in Entries
    BY <1>1, <2>1, RunningTask DEF Entry, Entries, Targets, Crew
  <2>4. Walks(w, "swap") /\ queue' \in Seq(Entries)
    <3>1. Walks(w, "swap")
      BY <1>1, <2>2, ScheduleWalks DEF AfterTickle
    <3>2. QED BY <1>1, <2>2, <2>3, <3>1 DEF Schedule
  <2>5. Tasks' /\ status' \in [Fibers -> {"INIT", "HOLD", "EXEC", "READY", "TERM"}]
    BY <1>1, <1>3, <2>2, SwitchToTasks DEF TypeOK
  <2>6. QED BY <1>1, <2>1, <2>2, <2>4, <2>5, RunningKeeps
<1>4. ASSUME NEW g \in Fibers, AddTimer(w, g) PROVE Base'
  <2>1. pc[w] = "exec" /\ calls' \in [Fibers -> 0..MaxCalls]
    BY <1>1, <1>4, CallCounts DEF AddTimer
  <2>2. UNCHANGED <<status, queue, active, idle, pending, events, pipe, stopFlag, client,
                    cur, got, cbs, idleDone>>
    BY <1>4 DEF AddTimer
  <2>3. timers' \subseteq Fibers /\ used' \subseteq Fibers
    BY <1>1, <1>4 DEF AddTimer
  <2>4. Walks(w, "exec")
    BY <1>1, <1>4, GotoWalks, TickleWalks DEF AddTimer, AfterTickle, Pcs
  <2>5. Tasks' /\ status' \in [Fibers -> {"INIT", "HOLD", "EXEC", "READY", "TERM"}]
    BY <1>1, <1>4, <2>2, AddTimerTasks DEF TypeOK
  <2>6. QED BY <1>1, <2>1, <2>2, <2>3, <2>4, <2>5, RunningKeeps
<1>5. ASSUME NEW g \in Fibers, NEW t \in Targets, Spawn(w, g, t) PROVE Base'
  <2>1. pc[w] = "exec" /\ calls' \in [Fibers -> 0..MaxCalls]
    BY <1>1, <1>5, CallCounts DEF Spawn
  <2>2. /\ Schedule(w, <<Entry(g, t)>>, "exec")
        /\ UNCHANGED <<status, active, idle, pending, events, timers, pipe, stopFlag, client,
                       cur, got, cbs, idleDone>>
    BY <1>5 DEF Spawn, sourceVars
  <2>3. Entry(g, t) \in Entries
    BY DEF Entry, Entries, Targets, Crew
  <2>4. Walks(w, "exec") /\ queue' \in Seq(Entries) /\ used' \subseteq Fibers
    <3>1. Walks(w, "exec")
      BY <1>1, <2>2, ScheduleWalks DEF AfterTickle
    <3>2. queue' \in Seq(Entries)
      BY <1>1, <2>2, <2>3 DEF Schedule
    <3>3. QED BY <1>1, <1>5, <3>1, <3>2 DEF Spawn
  <2>5. Tasks' /\ status' \in [Fibers -> {"INIT", "HOLD", "EXEC", "READY", "TERM"}]
    BY <1>1, <1>5, <2>2, SpawnTasks DEF TypeOK
  <2>6. QED BY <1>1, <2>1, <2>2, <2>4, <2>5, RunningKeeps
<1>6. QED BY <1>2, <1>3, <1>4, <1>5

LEMMA WaitEventKeeps ==
  ASSUME Base, NEW w \in Workers, WaitEvent(w)
  PROVE  Base'
<1>1. TypeOK /\ Places /\ Tasks /\ Counters
  BY DEF Base
<1>2. pc[w] = "exec" /\ At(w) = "exec" /\ calls' \in [Fibers -> 0..MaxCalls]
  BY <1>1, CallCounts DEF WaitEvent, At
<1>3. PICK f \in Fibers : f = cur[w] /\ f \notin events
  BY <1>1, <1>2, RunningTask DEF ToCome
<1>4. /\ UNCHANGED <<status, used, queue, active, idle, timers, pipe, stopFlag, client, cur, got,
                     cbs, idleDone>>
      /\ events' = events \cup {f} /\ pending' = pending + 1
  BY <1>3 DEF WaitEvent
<1>5. Walks(w, "swap")
  BY <1>1, GotoWalks DEF WaitEvent, Pcs
<1>6. /\ IsFiniteSet(events) /\ Cardinality(events) \in Nat
      /\ active \in Nat /\ idle \in Nat /\ pending \in Nat
  BY <1>1, FS_CardinalityType DEF TypeOK, Counters
<1>7. IsFiniteSet(events') /\ Cardinality(events') = Cardinality(events) + 1
  BY <1>3, <1>4, <1>6, FS_AddElement
<1>8. Counters' /\ pending' \in Nat
  <2>1. /\ One("swap" \in Working) = 1 /\ One("exec" \in Working) = 1
        /\ One("swap" \in Idling) = 0 /\ One("exec" \in Idling) = 0
        /\ One("swap" = "dec") = 0 /\ One("exec" = "dec") = 0
    BY DEF One, Working, Idling
  <2>2. /\ active' = active + One("swap" \in Working) - One(At(w) \in Working)
        /\ idle' = idle + One("swap" \in Idling) - One(At(w) \in Idling)
        /\ pending' = pending + Cardinality(events') - Cardinality(events)
                       + One("swap" = "dec") - One(At(w) = "dec")
    BY <1>2, <1>4, <1>6, <1>7, <2>1
  <2>3. QED BY <1>1, <1>5, <1>7, <2>2, CountersStep
<1>9. TypeOK'
  BY <1>1, <1>2, <1>4, <1>5, <1>8 DEF TypeOK, Walks
<1>10. Places'
  BY <1>1, <1>2, <1>4, <1>5, PlacesStay DEF Holding, Working
<1>11. QED BY <1>1, <1>8, <1>9, <1>10, WaitEventTasks DEF Base

LEMMA CollectKeeps ==
  ASSUME Base, NEW w \in Workers, Collect(w)
  PROVE  Base'
<1>1. TypeOK /\ Places /\ Tasks /\ Counters
  BY DEF Base
<1>2. At(w) = "collect" /\ cur[w] = Nobody
  BY <1>1 DEF Collect, At, Places, Holding, Working
<1>3. PICK E \in SUBSET timers :
        /\ timers' = timers \ E /\ cbs' = [cbs EXCEPT ![w] = E]
        /\ Goto(w, IF E = {} THEN "handle" ELSE "cbs")
  BY DEF Collect
<1>4. UNCHANGED <<status, calls, used, queue, active, idle, pending, events, pipe, stopFlag, client,
                  cur, got, idleDone>>
  BY DEF Collect, fiberVars
<1>5. PICK p \in {"handle", "cbs"} : Walks(w, p) /\ (E # {} => p = "cbs")
  <2>1. CASE E = {}
    BY <1>1, <1>3, <2>1, GotoWalks DEF Pcs
  <2>2. CASE E # {}
    BY <1>1, <1>3, <2>2, GotoWalks DEF Pcs
  <2>3. QED BY <2>1, <2>2
<1>6. E \subseteq Fibers /\ timers' \subseteq Fibers /\ IsFiniteSet(E)
  BY <1>1, <1>3, FS_Subset DEF TypeOK, Tasks
<1>7. cbs' \in [Workers -> SUBSET Fibers] /\ cbs'[w] = E
      /\ \A v \in Workers \ {w} : cbs'[v] = cbs[v]
  BY <1>1, <1>3, <1>6 DEF TypeOK
<1>8. TypeOK'
  BY <1>1, <1>4, <1>5, <1>6, <1>7 DEF TypeOK, Walks
<1>9. Places'
  BY <1>1, <1>2, <1>4, <1>5, <1>6, <1>7, PlacesStep DEF Holding, Working
<1>10. Counters'
  BY <1>1, <1>2, <1>4, <1>5, CountersStay DEF Working, Idling
<1>11. QED BY <1>1, <1>8, <1>9, <1>10, CollectTasks DEF Base

LEMMA ScheduleCbsKeeps ==
  ASSUME Base, NEW w \in Workers, ScheduleCbs(w)
  PROVE  Base'
<1>1. TypeOK /\ Places /\ Tasks /\ Counters
  BY DEF Base
<1>2. At(w) = "cbs" /\ cur[w] = Nobody
  BY <1>1 DEF ScheduleCbs, At, Places, Holding, Working
<1>3. /\ UNCHANGED <<status, calls, used, active, idle, pending, events, timers, pipe, stopFlag,
                     client, cur, got, idleDone>>
      /\ cbs' = [cbs EXCEPT ![w] = {}]
  BY DEF ScheduleCbs, fiberVars, sourceVars
<1>4. Walks(w, "handle")
  BY <1>1, ScheduleWalks DEF ScheduleCbs, AfterTickle
<1>5. Tasks' /\ queue' \in Seq(Entries)
  BY <1>1, ScheduleCbsTasks
<1>6. cbs' \in [Workers -> SUBSET Fibers] /\ cbs'[w] = {} /\ IsFiniteSet(cbs'[w])
      /\ \A v \in Workers \ {w} : cbs'[v] = cbs[v]
  BY <1>1, <1>3, FS_EmptySet DEF TypeOK
<1>7. TypeOK'
  BY <1>1, <1>3, <1>4, <1>5, <1>6 DEF TypeOK, Walks
<1>8. Places'
  BY <1>1, <1>2, <1>3, <1>4, <1>6, PlacesStep DEF Holding, Working
<1>9. Counters'
  BY <1>1, <1>2, <1>3, <1>4, CountersStay DEF Working, Idling
<1>10. QED BY <1>5, <1>7, <1>8, <1>9 DEF Base

LEMMA HandleKeeps ==
  ASSUME Base, NEW w \in Workers, Handle(w)
  PROVE  Base'
<1>1. TypeOK /\ Places /\ Tasks /\ Counters
  BY DEF Base
<1>2. At(w) = "handle"
  BY DEF Handle, At
<1>3. /\ UNCHANGED <<status, calls, used, active, idle, pending, timers, stopFlag, client,
                     cur, cbs, idleDone>>
      /\ got' \in [Workers -> Fibers \cup {Nobody, "pipe"}]
      /\ pipe' \in {"empty", "edge", "seen"}
  BY <1>1 DEF Handle, fiberVars, TypeOK
<1>4. Tasks' /\ queue' \in Seq(Entries)
  BY <1>1, HandleTasks
<1>5. events' \subseteq Fibers
  BY <1>1 DEF Handle, Unregister, TypeOK
<1>6. CASE got[w] \in events /\ events' = Unregister(got[w])
           /\ Schedule(w, <<Entry(got[w], Anywhere)>>, "dec")
  <2>1. PICK f \in Fibers : f = got[w] /\ f \in events
    BY <1>1, <1>6 DEF TypeOK
  <2>2. Walks(w, "dec")
    BY <1>1, <1>6, ScheduleWalks DEF AfterTickle
  <2>3. /\ IsFiniteSet(events) /\ Cardinality(events) \in Nat
        /\ active \in Nat /\ idle \in Nat /\ pending \in Nat
    BY <1>1, FS_CardinalityType DEF TypeOK, Counters
  <2>4. IsFiniteSet(events') /\ Cardinality(events') = Cardinality(events) - 1
    BY <1>6, <2>1, <2>3, FS_RemoveElement DEF Unregister
  <2>5. /\ One("dec" \in Working) = 0 /\ One("handle" \in Working) = 0
        /\ One("dec" \in Idling) = 1 /\ One("handle" \in Idling) = 1
        /\ One("dec" = "dec") = 1 /\ One("handle" = "dec") = 0
    BY DEF One, Working, Idling
  <2>6. /\ active' = active + One("dec" \in Working) - One(At(w) \in Working)
        /\ idle' = idle + One("dec" \in Idling) - One(At(w) \in Idling)
        /\ pending' = pending + Cardinality(events') - Cardinality(events)
                       + One("dec" = "dec") - One(At(w) = "dec")
    BY <1>2, <1>3, <2>3, <2>4, <2>5
  <2>7. Counters'
    BY <1>1, <2>2, <2>4, <2>6, CountersStep
  <2>8. TypeOK'
    BY <1>1, <1>3, <1>4, <1>5, <2>2 DEF TypeOK, Walks
  <2>9. Places'
    BY <1>1, <1>2, <1>3, <2>2, PlacesStay DEF Holding, Working
  <2>10. QED BY <1>4, <2>7, <2>8, <2>9 DEF Base
<1>7. CASE UNCHANGED <<queue, events>> /\ Goto(w, "leave")
  <2>1. Walks(w, "leave")
    BY <1>1, <1>7, GotoWalks DEF Pcs
  <2>2. TypeOK'
    BY <1>1, <1>3, <1>4, <1>5, <2>1 DEF TypeOK, Walks
  <2>3. Places'
    BY <1>1, <1>2, <1>3, <2>1, PlacesStay DEF Holding, Working
  <2>4. Counters'
    BY <1>1, <1>2, <1>3, <1>7, <2>1, CountersStay DEF Working, Idling
  <2>5. QED BY <1>4, <2>2, <2>3, <2>4 DEF Base
<1>8. QED BY <1>6, <1>7 DEF Handle

\* The counters go down.
LEMMA DownKeeps ==
  ASSUME Base, NEW w \in Workers, Dec(w) \/ Leave(w)
  PROVE  Base'
<1>1. TypeOK /\ Places /\ Tasks /\ Counters
  BY DEF Base
<1>2. /\ UNCHANGED <<status, calls, used, queue, active, events, timers, pipe, stopFlag, client,
                     cur, got, cbs, idleDone>>
  BY DEF Dec, Leave, fiberVars, sourceVars
<1>3. /\ IsFiniteSet(events) /\ Cardinality(events) \in Nat
      /\ active \in Nat /\ idle \in Nat /\ pending \in Nat
  BY <1>1, FS_CardinalityType DEF TypeOK, Counters
<1>4. PICK p \in {"leave", "scan"} :
        /\ Walks(w, p) /\ At(w) = (IF p = "leave" THEN "dec" ELSE "leave")
        /\ pending' = pending - One(p = "leave") /\ idle' = idle - One(p = "scan")
  <2>1. CASE Dec(w)
    <3>1. Walks(w, "leave") /\ At(w) = "dec" /\ pending' = pending - 1 /\ idle' = idle
      BY <1>1, <2>1, GotoWalks DEF Dec, Pcs, At
    <3>2. QED BY <1>3, <3>1 DEF One
  <2>2. CASE Leave(w)
    <3>1. Walks(w, "scan") /\ At(w) = "leave" /\ pending' = pending /\ idle' = idle - 1
      BY <1>1, <2>2, GotoWalks DEF Leave, Pcs, At, sourceVars
    <3>2. QED BY <1>3, <3>1 DEF One
  <2>3. QED BY <2>1, <2>2
<1>5. /\ One(p \in Working) = 0 /\ One(At(w) \in Working) = 0
      /\ One(p \in Idling) = One(p = "leave") /\ One(At(w) \in Idling) = 1
      /\ One(p = "dec") = 0 /\ One(At(w) = "dec") = One(p = "leave")
      /\ One(p = "scan") = 1 - One(p = "leave") /\ One(p = "leave") \in {0, 1}
  BY <1>4 DEF One, Working, Idling
<1>6. /\ active' = active + One(p \in Working) - One(At(w) \in Working)
      /\ idle' = idle + One(p \in Idling) - One(At(w) \in Idling)
      /\ pending' = pending + Cardinality(events') - Cardinality(events)
                     + One(p = "dec") - One(At(w) = "dec")
  BY <1>2, <1>3, <1>4, <1>5
<1>7. Counters' /\ idle' \in Nat /\ pending' \in Nat
  BY <1>1, <1>2, <1>3, <1>4, <1>6, CountersStep
<1>8. TypeOK'
  BY <1>1, <1>2, <1>4, <1>7 DEF TypeOK, Walks
<1>9. Places'
  BY <1>1, <1>2, <1>4, PlacesStay DEF Holding, Working
<1>10. \A v \in Workers : GoesOn(v)
  BY <1>4, Empty DEF Walks, Holding, Working
<1>11. Tasks'
  BY <1>1, <1>2, <1>10, TasksFrame DEF taskVars
<1>12. QED BY <1>7, <1>8, <1>9, <1>11 DEF Base

LEMMA WorkerKeeps ==
  ASSUME Base, NEW w \in Workers, WorkerStep(w)
  PROVE  Base'
BY TickleKeeps, ScanKeeps, StartKeeps, SwapOutKeeps, BackKeeps, SettleKeeps, NoTaskKeeps,
   CallsKeep, WaitEventKeeps, IdleKeeps, CollectKeeps, ScheduleCbsKeeps, HandleKeeps, DownKeeps
   DEF WorkerStep, RunStep, FiberStep

(***************************************************************************)
(* The owner                                                               *)
(***************************************************************************)
\* No worker moves.
LEMMA StillKeeps ==
  ASSUME Base, UNCHANGED <<pc, after, cur, cbs, events, active, idle, pending>>, TypeOK', Tasks'
  PROVE  Base'
<1>1. \A w \in Workers : At(w)' = At(w)
  BY DEF At
<1>2. Places'
  BY <1>1 DEF Base, Places
<1>3. \A S : Count(S)' = Count(S)
  BY <1>1 DEF Count
<1>4. Counters'
  BY <1>3 DEF Base, Counters
<1>5. QED BY <1>2, <1>4 DEF Base

LEMMA ClientKeeps ==
  ASSUME Base, Owner, Client
  PROVE  Base'
<1>1. TypeOK /\ Places /\ Tasks /\ Counters
  BY DEF Base
<1>2. ASSUME NEW f \in Fibers, NEW t \in Targets, ClientSchedule(f, t) PROVE Base'
  <2>1. Tasks' /\ queue' \in Seq(Entries)
    BY <1>1, <1>2, ClientScheduleTasks
  <2>2. UNCHANGED <<pc, after, cur, cbs, events, active, idle, pending>>
    BY <1>2 DEF ClientSchedule, sourceVars, workerVars
  <2>3. TypeOK'
    <3>1. used' \subseteq Fibers /\ client' \in {"open", "tickle"}
      BY <1>1, <1>2 DEF ClientSchedule, TypeOK
    <3>2. UNCHANGED <<status, calls, timers, pipe, stopFlag, got, idleDone>>
      BY <1>2 DEF ClientSchedule, sourceVars, workerVars
    <3>3. QED BY <1>1, <2>1, <2>2, <3>1, <3>2 DEF TypeOK
  <2>4. QED BY <2>1, <2>2, <2>3, StillKeeps
<1>3. ASSUME UNCHANGED <<fiberVars, queue, active, idle, sourceVars, pc, workerVars>>,
             pipe' \in {"empty", "edge", "seen"}, stopFlag' \in BOOLEAN,
             client' \in {"open", "tickle", "stop", "root", "join", "done"}
      PROVE  Base'
  <2>1. TypeOK'
    BY <1>1, <1>3 DEF TypeOK, fiberVars, sourceVars, workerVars
  <2>2. \A w \in Workers : GoesOn(w)
    BY <1>3 DEF GoesOn, At, workerVars
  <2>3. Tasks'
    BY <1>1, <1>3, <2>2, TasksFrame DEF taskVars, fiberVars, sourceVars, workerVars
  <2>4. QED BY <1>3, <2>1, <2>3, StillKeeps DEF sourceVars, workerVars
<1>4. CASE ClientTickle \/ Stop \/ StopTickle \/ Join
  <2>1. pipe' \in {"empty", "edge", "seen"} /\ stopFlag' \in BOOLEAN
    BY <1>1, <1>4 DEF ClientTickle, Stop, StopTickle, Join, WritePipe, TypeOK
  <2>2. client' \in {"open", "tickle", "stop", "root", "join", "done"}
    BY <1>4 DEF ClientTickle, Stop, StopTickle, Join
  <2>3. UNCHANGED <<fiberVars, queue, active, idle, sourceVars, pc, workerVars>>
    BY <1>4 DEF ClientTickle, Stop, StopTickle, Join
  <2>4. QED BY <1>3, <2>1, <2>2, <2>3
<1>5. CASE StopRoot
  <2>1. UNCHANGED <<fiberVars, queue, active, idle, sourceVars, pipe, stopFlag, workerVars>>
        /\ client' = "join"
    BY <1>5 DEF StopRoot
  <2>2. CASE pc' = pc
    BY <1>1, <1>3, <2>1, <2>2 DEF TypeOK
  <2>3. CASE pc' = [pc EXCEPT ![Caller] = "scan"]
    <3>1. Caller \in Workers /\ pc[Caller] = "off"
      BY <1>5 DEF StopRoot, Owner, Crew
    <3>2. Goto(Caller, "scan") /\ "scan" \in Pcs \ {"tickle"} /\ At(Caller) = "off"
      BY <2>1, <2>3, <3>1 DEF Goto, workerVars, Pcs, At
    <3>3. Walks(Caller, "scan")
      BY <1>1, <3>1, <3>2, GotoWalks
    <3>4. TypeOK'
      BY <1>1, <2>1, <3>3 DEF TypeOK, Walks, fiberVars, sourceVars, workerVars
    <3>5. Places'
      BY <1>1, <2>1, <3>1, <3>2, <3>3, PlacesStay DEF workerVars, Holding, Working
    <3>6. Counters'
      BY <1>1, <2>1, <3>1, <3>2, <3>3, CountersStay DEF sourceVars, Working, Idling
    <3>7. \A w \in Workers : GoesOn(w)
      BY <3>1, <3>2, <3>3, Empty DEF Walks, Holding, Working
    <3>8. Tasks'
      BY <1>1, <2>1, <3>7, TasksFrame DEF taskVars, fiberVars, sourceVars, workerVars
    <3>9. QED BY <3>4, <3>5, <3>6, <3>8 DEF Base
  <2>4. QED BY <1>5, <2>2, <2>3 DEF StopRoot
<1>6. QED BY <1>2, <1>4, <1>5 DEF Client

\* A step of a worker moves that worker alone, and it stays in the crew.
LEMMA OneMoves ==
  ASSUME TypeOK, Places, NEW w \in Workers, WorkerStep(w)
  PROVE  /\ \A v \in Workers \ {w} : pc'[v] = pc[v]
         /\ pc[w] \notin {"off", "none", "exit"} /\ pc'[w] \notin {"off", "none"}
         /\ UNCHANGED <<client, stopFlag>>
<1>1. pc[w] \notin {"off", "none", "exit"} /\ UNCHANGED <<client, stopFlag>>
  BY DEF WorkerStep, RunStep, FiberStep, Tickle, Scan, Start, SwapOut, Back, Settle, NoTask, WaitEvent,
         YieldToReady, Finish, SwitchTo, AddTimer, Spawn, Call, Stopping1, Stopping2, Stopping3,
         WakeTimeout, WakeTickle, WakeEvent, Wake, Collect, ScheduleCbs, Handle, Dec, Leave
<1>2. \E p \in AfterTickle \cup Idling \cup {"swap", "back", "settle", "exit"} :
         Goto(w, p) \/ GotoViaTickle(w, p)
  <2>1. CASE Tickle(w)
    BY <2>1 DEF Tickle, Places
  <2>2. CASE Scan(w) \/ Start(w) \/ SwapOut(w) \/ Back(w) \/ Settle(w) \/ NoTask(w)
    BY <2>2 DEF Scan, Start, SwapOut, Back, Settle, NoTask, Schedule, AfterTickle, Idling
  <2>3. CASE FiberStep(w)
    BY <2>3 DEF FiberStep, WaitEvent, YieldToReady, Finish, SwitchTo, AddTimer, Spawn, Schedule,
                AfterTickle
  <2>4. CASE Stopping1(w) \/ Stopping2(w) \/ Stopping3(w) \/ WakeTimeout(w) \/ WakeTickle(w)
             \/ \E f \in Fibers : WakeEvent(w, f)
    BY <2>4 DEF Stopping1, Stopping2, Stopping3, WakeTimeout, WakeTickle, WakeEvent, Wake, Idling
  <2>5. CASE Collect(w) \/ ScheduleCbs(w) \/ Handle(w) \/ Dec(w) \/ Leave(w)
    BY <2>5 DEF Collect, ScheduleCbs, Handle, Dec, Leave, Schedule, Idling, AfterTickle
  <2>6. QED BY <2>1, <2>2, <2>3, <2>4, <2>5 DEF WorkerStep, RunStep
<1>3. pc'[w] \notin {"off", "none"} /\ \A v \in Workers \ {w} : pc'[v] = pc[v]
  BY <1>2 DEF Goto, GotoViaTickle, TypeOK, AfterTickle, Idling
<1>4. QED BY <1>1, <1>3

LEMMA OwnerKeeps ==
  ASSUME Base, Owner, Next
  PROVE  Owner'
<1>1. TypeOK /\ Places
  BY DEF Base
<1>2. ASSUME NEW w \in Workers, WorkerStep(w) PROVE Owner'
  <2>1. Crew' = Crew
    BY <1>1, <1>2, OneMoves DEF Crew
  <2>2. client # "done"
    BY <1>1, <1>2, OneMoves DEF Owner, Gone, Crew
  <2>3. QED BY <1>1, <1>2, <2>1, <2>2, OneMoves DEF Owner, Crew
<1>3. ASSUME UNCHANGED pc, Owner PROVE Crew' = Crew
  BY <1>3 DEF Crew
<1>4. CASE \E f \in Fibers, t \in Targets : ClientSchedule(f, t)
  BY <1>3, <1>4 DEF ClientSchedule, Owner, Gone
<1>5. CASE ClientTickle \/ Stop \/ StopTickle \/ Join
  BY <1>3, <1>5 DEF ClientTickle, Stop, StopTickle, Join, Owner, Gone
<1>6. CASE StopRoot
  BY <1>1, <1>6 DEF StopRoot, Owner, Crew, TypeOK
<1>7. CASE Stopped
  BY <1>3, <1>7 DEF Stopped, vars, Owner, Gone
<1>8. QED BY <1>2, <1>4, <1>5, <1>6, <1>7 DEF Next, Client

-----------------------------------------------------------------------------
(***************************************************************************)
(* A worker that is alone                                                  *)
(***************************************************************************)
LEMMA CrewStays ==
  ASSUME Base, Owner, Next
  PROVE  Crew' = Crew
<1>1. TypeOK /\ Places
  BY DEF Base
<1>2. ASSUME NEW w \in Workers, WorkerStep(w) PROVE Crew' = Crew
  BY <1>1, <1>2, OneMoves DEF Crew
<1>3. CASE UNCHANGED pc
  BY <1>3 DEF Crew
<1>4. CASE StopRoot
  BY <1>1, <1>4 DEF StopRoot, Owner, Crew, TypeOK
<1>5. QED
  BY <1>2, <1>3, <1>4
     DEF Next, Client, ClientSchedule, ClientTickle, Stop, StopTickle, Join, Stopped, vars

\* When nothing is pending no event is registered.
LEMMA NothingPending ==
  ASSUME Base, pending = 0
  PROVE  events = {}
<1>1. IsFiniteSet(events) /\ Cardinality(events) \in Nat /\ pending = Cardinality(events) + Count({"dec"})
  BY FS_CardinalityType DEF Base, Counters
<1>2. Count({"dec"}) \in Nat
  <2>1. IsFiniteSet({w \in Workers : At(w) \in {"dec"}})
    BY SchedulerAssumption, FS_Subset
  <2>2. QED BY <2>1, FS_CardinalityType DEF Count
<1>3. Cardinality(events) = 0
  BY <1>1, <1>2
<1>4. QED BY <1>1, <1>3, FS_EmptySet

LEMMA LastWorkerKeeps ==
  ASSUME Base, NEW w \in Workers, Alone(w), WorkerStep(w)
  PROVE  Alone(w)'
<1>1. TypeOK /\ Places
  BY DEF Base
<1>2. pc'[w] # "off" /\ UNCHANGED stopFlag
  BY <1>1, OneMoves
<1>3. ASSUME UNCHANGED idleDone, pc[w] \notin {"leave", "scan", "notask", "exit"},
             pc'[w] \notin {"stop2", "stop3", "exit"}
      PROVE  Alone(w)'
  BY <1>2, <1>3 DEF Alone
<1>4. CASE Tickle(w)
  <2>1. pc'[w] = after[w] /\ after[w] \in AfterTickle
    BY <1>1, <1>4 DEF Tickle, Goto, TypeOK, Places
  <2>2. QED BY <1>3, <1>4, <2>1 DEF Tickle, AfterTickle, workerVars
<1>5. CASE Start(w) \/ SwapOut(w) \/ Back(w) \/ Settle(w)
  <2>1. pc'[w] \in {"scan", "exec", "back", "settle", "tickle"}
    BY <1>1, <1>5 DEF Start, SwapOut, Back, Settle, Schedule, Goto, GotoViaTickle, TypeOK
  <2>2. pc[w] \in {"start", "swap", "back", "settle"} /\ UNCHANGED idleDone
    BY <1>5 DEF Start, SwapOut, Back, Settle, workerVars
  <2>3. QED BY <1>3, <2>1, <2>2
<1>6. CASE FiberStep(w)
  <2>1. pc'[w] \in {"exec", "swap", "tickle"}
    BY <1>1, <1>6 DEF FiberStep, WaitEvent, YieldToReady, Finish, SwitchTo, AddTimer, Spawn,
                      Schedule, Goto, GotoViaTickle, TypeOK
  <2>2. pc[w] = "exec" /\ UNCHANGED idleDone
    BY <1>6 DEF FiberStep, WaitEvent, YieldToReady, Finish, SwitchTo, AddTimer, Spawn, Call
  <2>3. QED BY <1>3, <2>1, <2>2
<1>7. CASE WakeTimeout(w) \/ WakeTickle(w) \/ \E f \in Fibers : WakeEvent(w, f)
  <2>1. pc'[w] = "collect" /\ pc[w] = "wait" /\ UNCHANGED idleDone
    BY <1>1, <1>7 DEF WakeTimeout, WakeTickle, WakeEvent, Wake, Goto, TypeOK
  <2>2. QED BY <1>3, <2>1
<1>8. CASE Collect(w) \/ ScheduleCbs(w) \/ Handle(w) \/ Dec(w)
  <2>1. pc'[w] \in {"handle", "cbs", "dec", "leave", "tickle"}
    BY <1>1, <1>8 DEF Collect, ScheduleCbs, Handle, Dec, Schedule, Goto, GotoViaTickle, TypeOK
  <2>2. pc[w] \in {"collect", "cbs", "handle", "dec"} /\ UNCHANGED idleDone
    BY <1>8 DEF Collect, ScheduleCbs, Handle, Dec
  <2>3. QED BY <1>3, <2>1, <2>2
<1>9. CASE Scan(w)
  <2>1. pc[w] = "scan" /\ UNCHANGED <<idleDone, events, timers>>
        /\ pc'[w] \in {"start", "notask", "tickle"}
    BY <1>1, <1>9 DEF Scan, Goto, GotoViaTickle, TypeOK, sourceVars
  <2>2. CASE idleDone[w]
    <3>1. AllDone
      BY <2>2 DEF Alone
    <3>2. DOMAIN queue = {}
      BY <3>1 DEF AllDone
    <3>3. pc'[w] = "notask" /\ queue' = queue
      BY <1>1, <1>9, <3>2 DEF Scan, Goto, TypeOK
    <3>4. AllDone'
      BY <1>2, <2>1, <3>1, <3>3 DEF AllDone
    <3>5. QED BY <2>1, <3>3, <3>4 DEF Alone
  <2>3. CASE ~idleDone[w]
    BY <2>1, <2>3 DEF Alone
  <2>4. QED BY <2>2, <2>3
<1>10. CASE NoTask(w) \/ Leave(w)
  <2>1. UNCHANGED <<idleDone, events, timers, queue>> /\ AllDone' = AllDone
    BY <1>2, <1>10 DEF NoTask, Leave, sourceVars, AllDone
  <2>2. /\ pc[w] \in {"notask", "leave"}
        /\ pc'[w] \in {"stop1", "scan", "exit"} /\ (pc'[w] = "exit" => idleDone[w])
        /\ idleDone[w] => pc'[w] # "stop1"
    BY <1>1, <1>10 DEF NoTask, Leave, Goto, TypeOK
  <2>3. QED BY <2>1, <2>2 DEF Alone
<1>11. CASE Stopping1(w) \/ Stopping2(w)
  <2>1. /\ pc[w] \in {"stop1", "stop2"} /\ UNCHANGED <<idleDone, timers, pending>>
        /\ pc'[w] \in {"stop2", "stop3", "wait"}
    BY <1>1, <1>11 DEF Stopping1, Stopping2, Goto, TypeOK, sourceVars
  <2>2. /\ pc'[w] \in {"stop2", "stop3"} => timers = {}
        /\ pc'[w] = "stop3" => pending = 0
    BY <1>1, <1>11 DEF Stopping1, Stopping2, Goto, TypeOK, Alone
  <2>3. QED BY <2>1, <2>2 DEF Alone
<1>12. CASE Stopping3(w)
  <2>1. pc[w] = "stop3" /\ UNCHANGED <<events, timers, queue>>
    BY <1>12 DEF Stopping3, sourceVars
  <2>2. events = {} /\ timers = {}
    BY <2>1, NothingPending DEF Alone
  <2>3. CASE SchedularStopping
    <3>1. pc'[w] = "leave" /\ idleDone'[w]
      BY <1>1, <1>12, <2>3 DEF Stopping3, Goto, TypeOK
    <3>2. AllDone'
      BY <1>2, <2>1, <2>2, <2>3 DEF AllDone, SchedularStopping
    <3>3. QED BY <3>1, <3>2 DEF Alone
  <2>4. CASE ~SchedularStopping
    <3>1. pc'[w] = "wait" /\ ~idleDone'[w]
      BY <1>1, <1>12, <2>4 DEF Stopping3, Goto, TypeOK
    <3>2. QED BY <3>1 DEF Alone
  <2>5. QED BY <2>3, <2>4
<1>13. QED
  BY <1>4, <1>5, <1>6, <1>7, <1>8, <1>9, <1>10, <1>11, <1>12 DEF WorkerStep, RunStep

LEMMA LastOneKeeps ==
  ASSUME Base, Owner, LastOne, Next
  PROVE  LastOne'
<1> SUFFICES ASSUME NEW w \in Workers, Crew' = {w} PROVE Alone(w)'
  BY DEF LastOne
<1>1. Crew = {w} /\ Alone(w) /\ TypeOK
  BY CrewStays DEF LastOne, Base
<1>2. ASSUME NEW v \in Workers, WorkerStep(v) PROVE Alone(w)'
  <2>1. pc[v] # "none"
    BY <1>2, OneMoves DEF Base
  <2>2. v = w
    BY <1>1, <2>1 DEF Crew
  <2>3. QED BY <1>1, <1>2, <2>2, LastWorkerKeeps
<1>3. CASE (\E f \in Fibers, t \in Targets : ClientSchedule(f, t)) \/ Stop
  <2>1. ~AllDone
    BY <1>3 DEF ClientSchedule, Stop, Owner, AllDone
  <2>2. UNCHANGED <<pc, idleDone, timers, pending>> /\ client' \notin {"join", "done"}
    BY <1>3 DEF ClientSchedule, Stop, sourceVars, workerVars
  <2>3. QED BY <1>1, <2>1, <2>2 DEF Alone
<1>4. CASE ClientTickle \/ StopTickle \/ Join \/ Stopped
  <2>1. UNCHANGED <<pc, idleDone, timers, pending, events, queue, stopFlag>> /\ AllDone' = AllDone
    BY <1>4 DEF ClientTickle, StopTickle, Join, Stopped, vars, sourceVars, workerVars, AllDone
  <2>2. pc[w] = "off" /\ client' \in {"join", "done"} => client \in {"join", "done"}
    BY <1>1, <1>4 DEF ClientTickle, StopTickle, Join, Stopped, vars, Owner
  <2>3. QED BY <1>1, <2>1, <2>2 DEF Alone
<1>5. CASE StopRoot
  <2>1. Caller = w /\ pc[w] = "off" /\ ~idleDone[w]
    BY <1>1, <1>5 DEF StopRoot, Owner, Alone
  <2>2. UNCHANGED <<idleDone, timers, pending, events, queue, stopFlag>>
    BY <1>5 DEF StopRoot, sourceVars, workerVars
  <2>3. CASE timers = {} /\ pending = 0 /\ SchedularStopping
    <3>1. AllDone' /\ pc' = pc
      BY <1>5, <2>2, <2>3, NothingPending DEF StopRoot, AllDone, SchedularStopping
    <3>2. QED BY <2>1, <2>2, <3>1 DEF Alone
  <2>4. CASE ~(timers = {} /\ pending = 0 /\ SchedularStopping)
    <3>1. pc'[w] = "scan"
      BY <1>1, <1>5, <2>1, <2>4 DEF StopRoot, TypeOK
    <3>2. QED BY <2>1, <2>2, <3>1 DEF Alone
  <2>5. QED BY <2>3, <2>4
<1>6. QED BY <1>2, <1>3, <1>4, <1>5 DEF Next, Client

-----------------------------------------------------------------------------
(***************************************************************************)
(* The invariant                                                           *)
(***************************************************************************)
LEMMA NobodyAt ==
  ASSUME NEW S, \A w \in Workers : At(w) \notin S
  PROVE  Count(S) = 0
<1>1. {w \in Workers : At(w) \in S} = {}
  OBVIOUS
<1>2. QED BY <1>1, FS_EmptySet DEF Count

LEMMA InitInvariant ==
  ASSUME Init
  PROVE  SchedulerInv
<1>1. PICK crew \in Crews :
        pc = [w \in Workers |-> IF w \notin crew THEN "none"
                               ELSE IF w = Caller THEN "off" ELSE "scan"]
  BY DEF Init
<1>2. \A w \in Workers : At(w) \in {"none", "off", "scan"} /\ At(w) = pc[w]
  BY <1>1 DEF At
<1>3. TypeOK
  <2>1. pc \in [Workers -> Pcs] /\ after \in [Workers -> Pcs]
    BY <1>1 DEF Init, Pcs
  <2>2. calls \in [Fibers -> 0..MaxCalls]
    BY SchedulerAssumption DEF Init
  <2>3. queue \in Seq(Entries) /\ active \in Nat /\ idle \in Nat /\ pending \in Nat
    BY DEF Init
  <2>4. QED BY <2>1, <2>2, <2>3 DEF Init, TypeOK
<1>4. Places
  BY <1>2, FS_EmptySet DEF Init, Places, Holding, Working
<1>5. InQueue = {} /\ Collected = {} /\ ToCome = {}
  BY DEF Init, InQueue, Collected, ToCome
<1>6. Tasks
  <2>1. NoDoubles
    BY <1>5 DEF Init, NoDoubles, OnceIn
  <2>2. QED BY <1>5, <2>1, FS_EmptySet DEF Init, Tasks
<1>7. Counters
  <2>1. Count(Working) = 0 /\ Count(Idling) = 0 /\ Count({"dec"}) = 0
    BY <1>2, NobodyAt DEF Working, Idling
  <2>2. QED BY <2>1, FS_EmptySet DEF Init, Counters
<1>8. Owner
  BY <1>1 DEF Init, Owner, Crew
<1>9. LastOne
  BY <1>2 DEF Init, LastOne, Alone
<1>10. QED BY <1>3, <1>4, <1>6, <1>7, <1>8, <1>9 DEF SchedulerInv

LEMMA StepInvariant ==
  ASSUME SchedulerInv, [Next]_vars
  PROVE  SchedulerInv'
<1>1. Base /\ Owner /\ LastOne
  BY DEF SchedulerInv, Base
<1>2. CASE Next
  <2>1. Base'
    <3>1. CASE Client
      BY <1>1, <3>1, ClientKeeps
    <3>2. CASE \E w \in Workers : WorkerStep(w)
      BY <1>1, <3>2, WorkerKeeps
    <3>3. CASE Stopped
      <4>1. TypeOK' /\ Tasks'
        <5>1. \A w \in Workers : GoesOn(w)
          BY <3>3 DEF Stopped, vars, workerVars, GoesOn, At
        <5>2. Tasks'
          BY <1>1, <3>3, <5>1, TasksFrame
             DEF Stopped, vars, fiberVars, sourceVars, workerVars, taskVars, Base
        <5>3. TypeOK'
          BY <1>1, <3>3 DEF Stopped, vars, fiberVars, sourceVars, workerVars, Base, TypeOK
        <5>4. QED BY <5>2, <5>3
      <4>2. QED
        BY <1>1, <3>3, <4>1, StillKeeps DEF Stopped, vars, sourceVars, workerVars
    <3>4. QED BY <1>2, <3>1, <3>2, <3>3 DEF Next
  <2>2. QED BY <1>1, <1>2, <2>1, OwnerKeeps, LastOneKeeps DEF SchedulerInv, Base
<1>3. CASE UNCHANGED vars
  <2>2. \A w \in Workers : At(w)' = At(w)
    BY <1>3 DEF At, vars, workerVars
  <2>3. TypeOK'
    BY <1>1, <1>3 DEF vars, fiberVars, sourceVars, workerVars, Base, TypeOK
  <2>4. \A w \in Workers : GoesOn(w)
    BY <2>2 DEF GoesOn
  <2>5. Tasks'
    BY <1>1, <1>3, <2>4, TasksFrame DEF vars, fiberVars, sourceVars, workerVars, taskVars, Base
  <2>6. Base'
    BY <1>1, <1>3, <2>3, <2>5, StillKeeps DEF vars, sourceVars, workerVars
  <2>7. Crew' = Crew /\ AllDone' = AllDone
    BY <1>3 DEF vars, fiberVars, sourceVars, workerVars, Crew, AllDone
  <2>8. Owner' /\ LastOne'
    BY <1>1, <1>3, <2>7 DEF vars, fiberVars, sourceVars, workerVars, Owner, Gone, LastOne, Alone
  <2>9. QED BY <2>6, <2>8 DEF SchedulerInv, Base
<1>4. QED BY <1>2, <1>3

\* The tasks, the workers and the counters fit together as SchedulerInv says,
\* whatever the fibers call and whenever stop() comes.
THEOREM SchedulerInvariant == Spec => []SchedulerInv
<1>1. Init => SchedulerInv
  BY InitInvariant
<1>2. SchedulerInv /\ [Next]_vars => SchedulerInv'
  BY StepInvariant
<1>3. QED BY <1>1, <1>2, PTL DEF Spec

\* No two workers are ever on the stack of one fiber: run() passes over a
\* fiber that is still EXEC, and only its own worker changes that.
THEOREM SchedulerOneStack == Spec => []OneStack
<1>1. SchedulerInv => OneStack
  <2> SUFFICES ASSUME SchedulerInv, NEW v \in Workers, NEW w \in Workers, v # w
               PROVE  OnStack(v) \cap OnStack(w) = {}
    BY DEF OneStack
  <2>1. \A u \in Workers : OnStack(u) # {} => OnStack(u) = {cur[u]} /\ At(u) \in {"exec", "swap"}
    BY DEF OnStack, At
  <2>2. \A u \in Workers : OnStack(u) # {} => cur[u] # Nobody
    BY <2>1 DEF SchedulerInv, Places, Holding, Working
  <2>3. OnStack(v) # {} => cur[v] # cur[w]
    BY <2>2 DEF SchedulerInv, Tasks
  <2>4. QED BY <2>1, <2>3
<1>2. QED BY <1>1, SchedulerInvariant, PTL

LEMMA AtMostOne ==
  ASSUME NEW S, \A x, y \in S : x = y
  PROVE  Cardinality(S) = IF S = {} THEN 0 ELSE 1
<1>1. CASE S = {}
  BY <1>1, FS_EmptySet
<1>2. ASSUME NEW x \in S PROVE Cardinality(S) = 1
  <2>1. S = {x}
    BY <1>2
  <2>2. QED BY <2>1, FS_Singleton
<1>3. QED BY <1>1, <1>2

\* A task is never lost and never doubled: nothing brings it back twice, and
\* as long as it is not over and in no worker's hands something does.
THEOREM SchedulerExactlyOneWakeUp == Spec => []ExactlyOneWakeUp
<1>1. SchedulerInv => ExactlyOneWakeUp
  <2> SUFFICES ASSUME SchedulerInv, NEW f \in used
               PROVE  /\ WakeUps(f) <= 1
                      /\ status[f] # "TERM" /\ (\A w \in Workers : cur[w] # f) => WakeUps(f) = 1
    BY DEF ExactlyOneWakeUp
  <2>1. Tasks /\ NoDoubles
    BY DEF SchedulerInv, Tasks
  <2>2. Cardinality(Queued(f)) = IF f \in InQueue THEN 1 ELSE 0
    <3>1. \A x, y \in Queued(f) : x = y
      BY <2>1 DEF Queued, NoDoubles, OnceIn
    <3>2. Queued(f) = {} <=> f \notin InQueue
      BY DEF Queued, InQueue
    <3>3. QED BY <3>1, <3>2, AtMostOne
  <2>3. Cardinality({w \in Workers : f \in cbs[w]}) = IF f \in Collected THEN 1 ELSE 0
    <3> DEFINE S == {w \in Workers : f \in cbs[w]}
    <3>1. \A x, y \in S : x = y
      BY <2>1 DEF NoDoubles
    <3>2. S = {} <=> f \notin Collected
      BY DEF Collected
    <3> HIDE DEF S
    <3>3. Cardinality(S) = IF f \in Collected THEN 1 ELSE 0
      BY <3>1, <3>2, AtMostOne
    <3>4. QED BY <3>3 DEF S
  <2>4. WakeUps(f) = (IF f \in InQueue THEN 1 ELSE 0) + (IF f \in Collected THEN 1 ELSE 0)
                     + (IF f \in events THEN 1 ELSE 0) + (IF f \in timers THEN 1 ELSE 0)
    BY <2>2, <2>3 DEF WakeUps
  <2>5. WakeUps(f) = IF f \in ToCome THEN 1 ELSE 0
    BY <2>1, <2>4 DEF NoDoubles, ToCome
  <2>6. status[f] # "TERM" /\ (\A w \in Workers : cur[w] # f) => f \in ToCome
    BY <2>1 DEF Tasks, Held
  <2>7. QED BY <2>5, <2>6
<1>2. QED BY <1>1, SchedulerInvariant, PTL

\* A scheduler with one worker leaves nothing behind: when stop() has returned,
\* every task that was ever handed to it is over.
THEOREM SchedulerStopLeavesNothingAlone == Spec => []StopLeavesNothingAlone
<1>1. SchedulerInv => StopLeavesNothingAlone
  <2> SUFFICES ASSUME SchedulerInv, Cardinality(Crew) = 1, client = "done", NEW f \in used
               PROVE  status[f] \in {"TERM", "INIT"}
    BY DEF StopLeavesNothingAlone, StopLeavesNothing
  <2>1. IsFiniteSet(Crew)
    BY SchedulerAssumption, FS_Subset DEF Crew
  <2>2. PICK w \in Workers : Crew = {w}
    <3>1. \E x : Crew = {x}
      BY <2>1, FS_Singleton
    <3>2. QED BY <3>1 DEF Crew
  <2>3. pc[w] \in {"exit", "off"}
    BY <2>2 DEF SchedulerInv, Owner, Gone
  <2>4. AllDone
    BY <2>2, <2>3 DEF SchedulerInv, LastOne, Alone
  <2>5. \A v \in Workers : At(v) \in {"exit", "off", "none"}
    BY <2>2, <2>3 DEF Crew, At
  <2>6. ~Held(f) /\ Collected = {}
    <3>1. f # Nobody
      BY SchedulerAssumption DEF SchedulerInv, TypeOK
    <3>2. \A v \in Workers : cur[v] = Nobody /\ cbs[v] = {}
      BY <2>5 DEF SchedulerInv, Places, Holding, Working
    <3>3. QED BY <3>1, <3>2 DEF Held, Collected
  <2>7. f \notin ToCome
    BY <2>4, <2>6 DEF AllDone, ToCome, InQueue
  <2>8. QED BY <2>6, <2>7 DEF SchedulerInv, Tasks
<1>2. QED BY <1>1, SchedulerInvariant, PTL
-----------------------------------------------------------------------------
(***************************************************************************)
(* The scheduler implements TaskLife                                       *)
(***************************************************************************)
\* The threads q keeps f for.
ThreadsIn(q, f) == {q[i].thread : i \in {j \in DOMAIN q : q[j].fiber = f}} \ {Anywhere}

ThreadsOf(E, f) == {e.thread : e \in {x \in E : x.fiber = f}} \ {Anywhere}

LEMMA ThreadsInRange ==
  ASSUME NEW q, NEW f
  PROVE  ThreadsIn(q, f) = ThreadsOf(Range(q), f)
BY DEF ThreadsIn, ThreadsOf, Range

LEMMA BindingIs == Binding = [f \in Fibers |-> ThreadsIn(queue, f)]
BY DEF Binding, Queued, ThreadsIn

LEMMA NotQueued ==
  ASSUME NEW q, NEW f, f \notin {q[i].fiber : i \in DOMAIN q}
  PROVE  ThreadsIn(q, f) = {}
BY DEF ThreadsIn

LEMMA ThreadsAppended ==
  ASSUME NEW q \in Seq(Entries), NEW s \in Seq(Entries), NEW f
  PROVE  ThreadsIn(q \o s, f) = ThreadsIn(q, f) \cup ThreadsIn(s, f)
<1>1. Range(q \o s) = Range(q) \cup Range(s)
  BY RangeConcatenation
<1>2. ThreadsOf(Range(q) \cup Range(s), f) = ThreadsOf(Range(q), f) \cup ThreadsOf(Range(s), f)
  BY DEF ThreadsOf
<1>3. QED BY <1>1, <1>2, ThreadsInRange

\* schedule() of one task binds it, and no other.
LEMMA BindOne ==
  ASSUME queue \in Seq(Entries), NEW f \in Fibers, NEW t \in Workers \cup {Anywhere},
         queue' = queue \o <<Entry(f, t)>>, f \notin InQueue
  PROVE  Binding' = [Binding EXCEPT ![f] = {t} \ {Anywhere}]
<1> DEFINE s == <<Entry(f, t)>>
<1>1. Entry(f, t) \in Entries /\ Entry(f, t).fiber = f /\ Entry(f, t).thread = t
  BY DEF Entry, Entries
<1>2. s \in Seq(Entries) /\ DOMAIN s = {1} /\ s[1] = Entry(f, t)
  BY <1>1
<1> HIDE DEF s
<1>3. \A g : ThreadsIn(s, g) = IF g = f THEN {t} \ {Anywhere} ELSE {}
  BY <1>1, <1>2 DEF ThreadsIn
<1>4. ThreadsIn(queue, f) = {}
  BY NotQueued DEF InQueue
<1>5. queue' = queue \o s
  BY DEF s
<1>6. \A g : ThreadsIn(queue \o s, g) = ThreadsIn(queue, g) \cup ThreadsIn(s, g)
  BY <1>2, ThreadsAppended
<1>7. ASSUME NEW g \in Fibers
      PROVE  ThreadsIn(queue', g) = IF g = f THEN {t} \ {Anywhere} ELSE ThreadsIn(queue, g)
  BY <1>3, <1>4, <1>5, <1>6
<1>8. Binding' = [g \in Fibers |-> ThreadsIn(queue', g)]
  BY DEF Binding, Queued, ThreadsIn
<1>9. QED BY <1>7, <1>8, BindingIs

\* The removal of its entry unbinds a task, and no other.
LEMMA Unbind ==
  ASSUME NEW q \in Seq(Entries), OnceIn(q), NEW k \in DOMAIN q, NEW g
  PROVE  ThreadsIn(RemoveAt(q, k), g) = IF g = q[k].fiber THEN {} ELSE ThreadsIn(q, g)
<1> DEFINE a == SubSeq(q, 1, k - 1)
           b == SubSeq(q, k + 1, Len(q))
           r == RemoveAt(q, k)
<1>1. DOMAIN q = 1..Len(q) /\ Len(q) \in Nat /\ k \in 1..Len(q)
  BY LenProperties
<1>2. a \in Seq(Entries) /\ Range(a) = {q[i] : i \in 1..(k - 1)}
  <2>1. /\ a \in Seq(Entries) /\ Len(a) = k - 1
        /\ \A i \in 1..(k - 1) : a[i] = q[i]
    <3>1. \A i \in 1..(k - 1) : q[i] \in Entries
      BY <1>1, ElementOfSeq
    <3>2. QED BY <1>1, <3>1, SubSeqProperties
  <2>2. Range(a) = {a[i] : i \in 1..(k - 1)}
    BY <2>1, RangeEquality
  <2>3. QED BY <2>1, <2>2
<1>3. b \in Seq(Entries) /\ Range(b) = {q[i] : i \in (k + 1)..Len(q)}
  <2>1. /\ b \in Seq(Entries) /\ Len(b) = Len(q) - k
        /\ \A i \in 1..(Len(q) - k) : b[i] = q[k + i]
    <3>1. \A i \in (k + 1)..Len(q) : q[i] \in Entries
      BY <1>1, ElementOfSeq
    <3>2. /\ b \in Seq(Entries)
          /\ Len(b) = IF k + 1 <= Len(q) THEN Len(q) - (k + 1) + 1 ELSE 0
          /\ \A i \in 1..(Len(q) - (k + 1) + 1) : b[i] = q[(k + 1) + i - 1]
      BY <1>1, <3>1, SubSeqProperties
    <3>3. QED BY <1>1, <3>2
  <2> HIDE DEF b
  <2>2. Range(b) = {b[i] : i \in 1..(Len(q) - k)}
    BY <2>1, RangeEquality
  <2>3. \A i \in (k + 1)..Len(q) : i - k \in 1..(Len(q) - k) /\ k + (i - k) = i
    BY <1>1
  <2>4. \A i \in 1..(Len(q) - k) : k + i \in (k + 1)..Len(q)
    BY <1>1
  <2>5. \A i \in (k + 1)..Len(q) : q[i] \in Range(b)
    <3> TAKE i \in (k + 1)..Len(q)
    <3>1. PICK j \in 1..(Len(q) - k) : j = i - k /\ k + j = i
      BY <2>3
    <3>2. QED BY <2>1, <2>2, <3>1
  <2>6. \A i \in 1..(Len(q) - k) : b[i] \in {q[j] : j \in (k + 1)..Len(q)}
    BY <2>1, <2>4
  <2>7. Range(b) = {q[i] : i \in (k + 1)..Len(q)}
    BY <2>2, <2>5, <2>6
  <2>8. QED BY <2>1, <2>7
<1>concat. r = a \o b
  BY DEF RemoveAt
<1> HIDE DEF a, b, r
<1>4. Range(r) = Range(a) \cup Range(b)
  BY <1>2, <1>3, <1>concat, RangeConcatenation
<1>5. Range(r) = {q[i] : i \in DOMAIN q \ {k}}
  <2>1. DOMAIN q \ {k} = (1..(k - 1)) \cup ((k + 1)..Len(q))
    BY <1>1
  <2>2. QED BY <1>2, <1>3, <1>4, <2>1
<1>6. {x \in Range(r) : x.fiber = g}
        = {q[i] : i \in {j \in DOMAIN q : q[j].fiber = g /\ j # k}}
  BY <1>5
<1>7. ThreadsIn(r, g) = {q[i].thread : i \in {j \in DOMAIN q : q[j].fiber = g /\ j # k}} \ {Anywhere}
  BY <1>6, ThreadsInRange DEF ThreadsOf
<1>8. CASE g = q[k].fiber
  <2>1. {j \in DOMAIN q : q[j].fiber = g /\ j # k} = {}
    BY <1>8 DEF OnceIn
  <2>2. QED BY <1>7, <1>8, <2>1 DEF r
<1>9. CASE g # q[k].fiber
  <2>1. {j \in DOMAIN q : q[j].fiber = g /\ j # k} = {j \in DOMAIN q : q[j].fiber = g}
    BY <1>9
  <2>2. QED BY <1>7, <1>9, <2>1 DEF r, ThreadsIn
<1>10. QED BY <1>8, <1>9

LEMMA UnbindOne ==
  ASSUME queue \in Seq(Entries), OnceIn(queue), NEW k \in DOMAIN queue,
         NEW f \in Fibers, f = queue[k].fiber, queue' = RemoveAt(queue, k)
  PROVE  Binding' = [Binding EXCEPT ![f] = {}]
<1>1. \A g : ThreadsIn(queue', g) = IF g = f THEN {} ELSE ThreadsIn(queue, g)
  BY Unbind
<1>2. Binding' = [g \in Fibers |-> ThreadsIn(queue', g)]
  BY DEF Binding, Queued, ThreadsIn
<1>3. QED BY <1>1, <1>2, BindingIs

\* Unbound tasks change no binding.
LEMMA BindNone ==
  ASSUME queue \in Seq(Entries), NEW s \in Seq(Entries),
         \A i \in DOMAIN s : s[i].thread = Anywhere, queue' = queue \o s
  PROVE  Binding' = Binding
<1>1. \A g : ThreadsIn(s, g) = {}
  BY DEF ThreadsIn
<1>2. \A g : ThreadsIn(queue \o s, g) = ThreadsIn(queue, g) \cup ThreadsIn(s, g)
  BY ThreadsAppended
<1>3. Binding' = [g \in Fibers |-> ThreadsIn(queue', g)]
  BY DEF Binding, Queued, ThreadsIn
<1>4. QED BY <1>1, <1>2, <1>3, BindingIs

\* What Life looks at.
LEMMA WaitsIs ==
  ASSUME NEW f
  PROVE  /\ Waits(f) <=> f \in Collected \cup events \cup timers
         /\ Queued(f) # {} <=> f \in InQueue
BY DEF Waits, Collected, Queued, InQueue

LEMMA WaitsBecomes ==
  ASSUME NEW f
  PROVE  /\ Waits(f)' <=> f \in Collected' \cup events' \cup timers'
         /\ (Queued(f) # {})' <=> f \in InQueue'
BY DEF Waits, Collected, Queued, InQueue

\* w has f in hand and f is in no other worker's hands.
LEMMA OnlyInHand ==
  ASSUME Places, Tasks, NEW w \in Workers, NEW f \in Fibers, f = cur[w], NEW p
  PROVE  InHandAt(f, p) <=> At(w) = p
BY SchedulerAssumption DEF InHandAt, Tasks

\* A fiber in nobody's hands.
LEMMA FreeIsNowhere ==
  ASSUME NEW f, ~Held(f), NEW p
  PROVE  ~InHandAt(f, p)
BY DEF InHandAt, Held

\* A task that will be brought back is neither over nor in a worker's hands
\* for running.
LEMMA ToComeLife ==
  ASSUME Places, Tasks, NEW f \in Fibers, f \in ToCome
  PROVE  /\ f \in used /\ status[f] # "TERM"
         /\ ~InHandAt(f, "start") /\ ~InHandAt(f, "exec")
         /\ Life(f) = IF f \in InQueue THEN "ready" ELSE "waiting"
<1>1. f \in used
  BY DEF Tasks
<1>2. ASSUME NEW w \in Workers, cur[w] = f
      PROVE  At(w) \in Leaving /\ status[f] = "EXEC"
  <2>1. InHand(w) /\ At(w) \in Holding
    BY <1>2, SchedulerAssumption DEF Places, Tasks
  <2>2. QED BY <1>2, <2>1 DEF InHand, Holding, Working, Leaving
<1>3. status[f] # "TERM"
  BY <1>1, <1>2 DEF Tasks, Held
<1>4. ~InHandAt(f, "start") /\ ~InHandAt(f, "exec")
  BY <1>2 DEF InHandAt, Leaving
<1>5. Waits(f) <=> f \notin InQueue
  BY WaitsIs DEF ToCome, Tasks, NoDoubles
<1>6. QED BY <1>1, <1>3, <1>4, <1>5, WaitsIs DEF Life

\* What is not touched stays what it is.
LEMMA LifeStays ==
  ASSUME NEW g, g \in used' <=> g \in used, status'[g] = status[g],
         g \in Collected' \cup events' \cup timers' <=> g \in Collected \cup events \cup timers,
         g \in InQueue' <=> g \in InQueue,
         InHandAt(g, "start")' <=> InHandAt(g, "start"),
         InHandAt(g, "exec")' <=> InHandAt(g, "exec")
  PROVE  Life(g)' = Life(g)
<1>1. (Waits(g)' <=> Waits(g)) /\ ((Queued(g) # {})' <=> Queued(g) # {})
  BY WaitsIs, WaitsBecomes
<1>2. QED BY <1>1 DEF Life

\* A worker that does not take up g leaves it where it is.
LEMMA HandsStay ==
  ASSUME NEW g, NEW w, NEW p, \A v \in Workers \ {w} : cur'[v] = cur[v] /\ At(v)' = At(v),
         w \in Workers => (cur'[w] # g \/ At(w)' # p) /\ (cur[w] # g \/ At(w) # p)
  PROVE  InHandAt(g, p)' <=> InHandAt(g, p)
BY DEF InHandAt

\* One task changes.
LEMMA LifeBecomes ==
  ASSUME NEW f \in Fibers, NEW l, Life(f)' = l,
         \A g \in Fibers \ {f} : Life(g)' = Life(g)
  PROVE  Lives' = [Lives EXCEPT ![f] = l]
BY DEF Lives

LEMMA LivesStay ==
  ASSUME \A g \in Fibers : Life(g)' = Life(g)
  PROVE  Lives' = Lives
BY DEF Lives

OnAStack == {"start", "exec", "swap"}

\* One worker changes.
LEMMA StacksBecome ==
  ASSUME NEW w \in Workers, NEW p, Moves(w, p), \A v \in Workers \ {w} : cur'[v] = cur[v]
  PROVE  Stacks' = [Stacks EXCEPT ![w] = IF p \in OnAStack THEN cur'[w] ELSE Nobody]
<1>1. Stacks' = [v \in Workers |-> IF At(v)' \in OnAStack THEN cur'[v] ELSE Nobody]
  BY DEF Stacks, OnAStack
<1>2. Stacks = [v \in Workers |-> IF At(v) \in OnAStack THEN cur[v] ELSE Nobody]
  BY DEF Stacks, OnAStack
<1>3. \A v \in Workers : At(v)' = IF v = w THEN p ELSE At(v)
  BY DEF Moves
<1>4. QED BY <1>1, <1>2, <1>3

LEMMA StacksStay ==
  ASSUME UNCHANGED cur, \A v \in Workers : At(v)' = At(v) \/ ({At(v), At(v)'} \cap OnAStack = {})
  PROVE  Stacks' = Stacks
<1>1. Stacks' = [v \in Workers |-> IF At(v)' \in OnAStack THEN cur'[v] ELSE Nobody]
  BY DEF Stacks, OnAStack
<1>2. Stacks = [v \in Workers |-> IF At(v) \in OnAStack THEN cur[v] ELSE Nobody]
  BY DEF Stacks, OnAStack
<1>3. QED BY <1>1, <1>2

LEMMA BindingStays ==
  ASSUME UNCHANGED queue
  PROVE  Binding' = Binding
BY DEF Binding, Queued

\* No task changes.
LEMMA LivesFrame ==
  ASSUME UNCHANGED taskVars, \A w \in Workers : GoesOn(w), Places
  PROVE  Lives' = Lives /\ Binding' = Binding
<1>1. InQueue' = InQueue /\ Collected' = Collected
  BY DEF taskVars, InQueue, Collected
<1>2. ASSUME NEW g \in Fibers, NEW p \in {"start", "exec"}
      PROVE  InHandAt(g, p)' <=> InHandAt(g, p)
  <2>1. \A v \in Workers : cur'[v] = cur[v] /\ (At(v)' = p <=> At(v) = p)
    BY DEF taskVars, GoesOn, Holding, Working, Leaving
  <2>2. QED BY <2>1 DEF InHandAt
<1>3. ASSUME NEW g \in Fibers PROVE Life(g)' = Life(g)
  BY <1>1, <1>2, LifeStays DEF taskVars
<1>4. QED BY <1>3, LivesStay, BindingStays DEF taskVars

\* A step that changes no task and leaves no stack.
Quiet ==
  /\ UNCHANGED taskVars
  /\ \A w \in Workers : \/ At(w)' = At(w)
                        \/ At(w) = "back" /\ At(w)' = "settle"
                        \/ At(w) \notin Holding /\ At(w)' \notin Holding

LEMMA QuietStutters ==
  ASSUME Places, Quiet
  PROVE  UNCHANGED TL!vars
<1>1. \A w \in Workers : GoesOn(w)
  BY DEF Quiet, GoesOn, Leaving
<1>2. UNCHANGED taskVars /\ UNCHANGED cur
  BY DEF Quiet, taskVars
<1>3. \A v \in Workers : At(v)' = At(v) \/ ({At(v), At(v)'} \cap OnAStack = {})
  BY DEF Quiet, OnAStack, Holding, Working
<1>4. QED BY <1>1, <1>2, <1>3, LivesFrame, StacksStay DEF TL!vars

\* Tickle, NoTask, stopping(), epoll_wait and the counters
LEMMA IdleIsQuiet ==
  ASSUME TypeOK, Places, NEW w \in Workers,
         \/ Tickle(w) \/ Back(w) \/ NoTask(w)
         \/ Stopping1(w) \/ Stopping2(w) \/ Stopping3(w)
         \/ WakeTimeout(w) \/ WakeTickle(w) \/ \E f \in Fibers : WakeEvent(w, f)
         \/ Dec(w) \/ Leave(w)
  PROVE  Quiet
<1>1. UNCHANGED taskVars
  BY DEF Tickle, Back, NoTask, Stopping1, Stopping2, Stopping3, WakeTimeout, WakeTickle,
         WakeEvent, Wake, Dec, Leave, fiberVars, sourceVars, workerVars, taskVars
<1>2. CASE Tickle(w)
  <2>1. PICK p \in AfterTickle : p = after[w]
    BY <1>2 DEF Tickle, Places
  <2>2. At(w) = p /\ Goto(w, p) /\ p \in Pcs \ {"tickle"}
    BY <1>2, <2>1 DEF Tickle, At, AfterTickle, Pcs
  <2>3. \A v \in Workers : At(v)' = At(v)
    BY <2>2, GotoMoves DEF Moves
  <2>4. QED BY <1>1, <2>3 DEF Quiet
<1>3. CASE Back(w)
  <2>1. At(w) = "back" /\ Moves(w, "settle")
    BY <1>3, GotoMoves DEF Back, At, Pcs
  <2>2. QED BY <1>1, <2>1 DEF Quiet, Moves
<1>4. CASE ~(Tickle(w) \/ Back(w))
  <2>1. PICK p \in {"exit", "stop1", "stop2", "stop3", "wait", "leave", "collect", "scan"} :
          Goto(w, p)
    BY <1>4 DEF NoTask, Stopping1, Stopping2, Stopping3, WakeTimeout, WakeTickle,
                WakeEvent, Wake, Dec, Leave
  <2>2. p \in Pcs \ {"tickle"} /\ p \notin Holding
    BY DEF Pcs, Holding, Working
  <2>3. At(w) \in Idling \cup {"notask"}
    BY <1>4 DEF NoTask, Stopping1, Stopping2, Stopping3, WakeTimeout, WakeTickle,
                WakeEvent, Wake, Dec, Leave, At, Idling
  <2>4. At(w) \notin Holding
    BY <2>3 DEF Idling, Holding, Working
  <2>5. Moves(w, p)
    BY <2>1, <2>2, GotoMoves
  <2>6. QED BY <1>1, <2>2, <2>4, <2>5 DEF Quiet, Moves
<1>5. QED BY <1>2, <1>3, <1>4

LEMMA SwapOutIsStep ==
  ASSUME TypeOK, Places, Tasks, NEW w \in Workers, SwapOut(w)
  PROVE  \E f \in Fibers : TL!SwapOut(w, f)
<1>1. At(w) = "swap" /\ "swap" \in Holding /\ Moves(w, "back")
  BY GotoMoves DEF SwapOut, At, Holding, Working, Pcs
<1>2. PICK f \in Fibers : f = cur[w]
  BY <1>1, TaskInHand
<1>3. UNCHANGED taskVars /\ UNCHANGED cur
  BY DEF SwapOut, taskVars, fiberVars, sourceVars, workerVars
<1>4. \A v \in Workers : GoesOn(v)
  BY <1>1 DEF GoesOn, Moves, Leaving
<1>5. Lives' = Lives /\ Binding' = Binding
  BY <1>3, <1>4, LivesFrame
<1>6. Stacks' = [Stacks EXCEPT ![w] = Nobody]
  BY <1>1, <1>3, StacksBecome DEF OnAStack
<1>7. Stacks[w] = f
  BY <1>1, <1>2 DEF Stacks
<1>8. Lives[f] \notin {"taken", "running"}
  <2>1. ~InHandAt(f, "start") /\ ~InHandAt(f, "exec")
    BY <1>1, <1>2, OnlyInHand
  <2>2. QED BY <2>1 DEF Lives, Life
<1>9. TL!SwapOut(w, f)
  BY <1>5, <1>6, <1>7, <1>8 DEF TL!SwapOut
<1>10. QED BY <1>9

\* A task taken from the queue
LEMMA ScanIsStep ==
  ASSUME TypeOK, Places, Tasks, NEW w \in Workers, Scan(w)
  PROVE  Quiet \/ \E f \in Fibers : TL!Take(w, f)
<1>1. At(w) = "scan" /\ cur[w] = Nobody /\ "scan" \notin Holding
  BY DEF Scan, At, Places, Holding, Working
<1>2. ASSUME NEW p \in {"start", "notask"}, Goto(w, p) \/ GotoViaTickle(w, p)
      PROVE  Moves(w, p)
  BY <1>2, GotoMoves, TickleMoves DEF Pcs, AfterTickle
<1>3. CASE Moves(w, "notask") /\ UNCHANGED taskVars
  BY <1>1, <1>3 DEF Quiet, Moves, Holding, Working
<1>4. ASSUME NEW i \in DOMAIN queue, MayTake(w, queue[i]), Moves(w, "start"),
             queue' = RemoveAt(queue, i), cur' = [cur EXCEPT ![w] = queue[i].fiber],
             UNCHANGED <<status, used, events, timers, cbs>>
      PROVE  \E f \in Fibers : TL!Take(w, f)
  <2>1. queue \in Seq(Entries) /\ OnceIn(queue)
    BY DEF TypeOK, Tasks, NoDoubles
  <2>2. queue[i] \in Entries
    BY <2>1, ElementOfSeq, LenProperties
  <2>3. PICK f \in Fibers : f = queue[i].fiber
    BY <2>2 DEF Entries
  <2>4. f \in used /\ ~Held(f) /\ status[f] \notin {"EXEC", "TERM"} /\ f \in InQueue
    BY <1>4, <2>3, TakenIsFree DEF InQueue
  <2>5. InQueue' = InQueue \ {f}
    BY <1>4, <2>1, <2>3, RemovedOnce DEF InQueue
  <2>6. Collected' = Collected
    BY <1>4 DEF Collected
  <2>7. cur'[w] = f /\ \A v \in Workers \ {w} : cur'[v] = cur[v] /\ At(v)' = At(v)
    BY <1>4, <2>3 DEF TypeOK, Moves
  <2>8. Lives' = [Lives EXCEPT ![f] = "taken"]
    <3>1. InHandAt(f, "start")'
      BY <1>4, <2>7 DEF InHandAt, Moves
    <3>2. f \notin Collected \cup events \cup timers
      BY <2>4 DEF Tasks, NoDoubles
    <3>3. ~Waits(f)'
      BY <1>4, <2>6, <3>2, WaitsBecomes
    <3>4. Life(f)' = "taken"
      BY <1>4, <2>4, <3>1, <3>3 DEF Life
    <3>5. ASSUME NEW g \in Fibers \ {f} PROVE Life(g)' = Life(g)
      <4>1. g # Nobody
        BY SchedulerAssumption
      <4>2. ASSUME NEW p PROVE InHandAt(g, p)' <=> InHandAt(g, p)
        BY <1>1, <2>7, <4>1, HandsStay
      <4>3. QED BY <1>4, <2>5, <2>6, <4>2, LifeStays
    <3>6. QED BY <3>4, <3>5, LifeBecomes
  <2>9. Binding' = [Binding EXCEPT ![f] = {}]
    BY <1>4, <2>1, <2>3, UnbindOne
  <2>10. Stacks' = [Stacks EXCEPT ![w] = f]
    BY <1>4, <2>7, StacksBecome DEF OnAStack
  <2>11. Lives[f] = "ready"
    BY <2>4, ToComeLife DEF Lives, ToCome
  <2>12. Binding[f] \subseteq {w}
    <3>1. queue[i].thread \in {Anywhere, w}
      BY <1>4 DEF MayTake
    <3>2. \A j \in Queued(f) : queue[j].thread \in {Anywhere, w}
      BY <2>1, <2>3, <3>1 DEF Queued, OnceIn
    <3>3. QED BY <3>2 DEF Binding
  <2>13. Stacks[w] = Nobody /\ \A v \in Workers : Stacks[v] # f
    BY <1>1, <2>4, SchedulerAssumption DEF Stacks, Held
  <2>14. {Anywhere} \ {Anywhere} = {}
    OBVIOUS
  <2>15. TL!Take(w, f)
    BY <2>8, <2>9, <2>10, <2>11, <2>12, <2>13, <2>14 DEF TL!Take, TL!Becomes, TL!Bind
  <2>16. QED BY <2>15
<1>5. QED
  BY <1>2, <1>3, <1>4 DEF Scan, taskVars, fiberVars, sourceVars

LEMMA StartIsStep ==
  ASSUME TypeOK, Places, Tasks, NEW w \in Workers, Start(w)
  PROVE  \E f \in Fibers : TL!Resume(w, f)
<1>1. At(w) = "start" /\ "start" \in Holding
  BY DEF Start, At, Holding, Working
<1>2. PICK f \in Fibers : f = cur[w]
  BY <1>1, TaskInHand
<1>3. f # Nobody /\ f \in used /\ f \notin ToCome /\ status[f] # "TERM"
  BY <1>1, <1>2, TaskInHand DEF InHand
<1>4. status' = [status EXCEPT ![f] = "EXEC"] /\ Moves(w, "exec")
  BY <1>2, <1>3, GotoMoves DEF Start, Pcs
<1>5. UNCHANGED <<used, queue, events, timers, cur, cbs>>
  BY <1>2, <1>3 DEF Start, sourceVars
<1>6. InQueue' = InQueue /\ Collected' = Collected
  BY <1>5 DEF InQueue, Collected
<1>7. status'[f] = "EXEC" /\ \A g \in Fibers \ {f} : status'[g] = status[g]
  BY <1>4 DEF TypeOK
<1>8. ~Waits(f)' /\ ~Waits(f)
  BY <1>3, <1>5, <1>6, WaitsIs, WaitsBecomes DEF ToCome
<1>9. /\ InHandAt(f, "start")
      /\ ~InHandAt(f, "start")' /\ InHandAt(f, "exec")'
  <2>1. \A v \in Workers \ {w} : cur[v] # f
    BY <1>1, <1>2, TaskInHand
  <2>2. QED BY <1>1, <1>2, <1>4, <1>5, <2>1 DEF InHandAt, Moves
<1>10. Lives[f] = "taken"
  BY <1>3, <1>8, <1>9 DEF Lives, Life
<1>11. Life(f)' = "running"
  BY <1>3, <1>5, <1>7, <1>8, <1>9 DEF Life
<1>12. ASSUME NEW g \in Fibers \ {f} PROVE Life(g)' = Life(g)
  <2>1. ASSUME NEW p PROVE InHandAt(g, p)' <=> InHandAt(g, p)
    BY <1>2, <1>4, <1>5, HandsStay DEF Moves
  <2>2. QED BY <1>5, <1>6, <1>7, <2>1, LifeStays
<1>13. Lives' = [Lives EXCEPT ![f] = "running"]
  BY <1>11, <1>12, LifeBecomes
<1>14. Stacks' = Stacks /\ Stacks[w] = f
  <2>1. Stacks' = [Stacks EXCEPT ![w] = f]
    BY <1>2, <1>4, <1>5, StacksBecome DEF OnAStack
  <2>2. Stacks[w] = f
    BY <1>1, <1>2 DEF Stacks
  <2>3. QED BY <2>1, <2>2 DEF Stacks
<1>15. Binding' = Binding
  BY <1>5, BindingStays
<1>16. TL!Resume(w, f)
  BY <1>10, <1>13, <1>14, <1>15 DEF TL!Resume, TL!Becomes
<1>17. QED BY <1>16

(***************************************************************************)
(* The steps of a running fiber                                            *)
(***************************************************************************)
LEMMA OnIs ==
  ASSUME TypeOK, Places, Tasks, NEW w \in Workers, pc[w] = "exec", NEW f \in Fibers, f = cur[w]
  PROVE  f \in TL!On(w) /\ Lives[f] = "running"
<1>1. /\ At(w) = "exec" /\ f \in used /\ f \notin ToCome /\ status[f] = "EXEC"
  BY RunningTask
<1>2. InHandAt(f, "exec") /\ ~InHandAt(f, "start")
  BY <1>1, OnlyInHand
<1>3. ~Waits(f)
  BY <1>1, WaitsIs DEF ToCome
<1>4. Lives[f] = "running"
  BY <1>1, <1>2, <1>3 DEF Lives, Life
<1>5. Stacks[w] = f
  BY <1>1 DEF Stacks
<1>6. QED BY <1>4, <1>5 DEF TL!On

\* The fiber leaves its place at exec; the others stay.
LEMMA LeavingLives ==
  ASSUME TypeOK, Places, Tasks, NEW w \in Workers, pc[w] = "exec", NEW f \in Fibers, f = cur[w],
         Moves(w, "swap"), UNCHANGED <<used, timers, cbs, cur>>,
         \A g \in Fibers \ {f} : status'[g] = status[g],
         \A g \in Fibers \ {f} : g \in events' <=> g \in events,
         \A g \in Fibers \ {f} : g \in InQueue' <=> g \in InQueue,
         NEW l,
         l = IF status'[f] = "TERM" THEN "over" ELSE IF f \in events' THEN "waiting"
             ELSE IF f \in InQueue' \/ status'[f] = "READY" THEN "ready" ELSE "lost"
  PROVE  Lives' = [Lives EXCEPT ![f] = l] /\ Stacks' = Stacks
<1>1. /\ At(w) = "exec" /\ f \in used /\ f \notin ToCome
      /\ \A v \in Workers \ {w} : cur[v] # f
  BY RunningTask
<1>2. Collected' = Collected
  BY DEF Collected
<1>3. ~InHandAt(f, "start")' /\ ~InHandAt(f, "exec")'
  BY <1>1 DEF InHandAt, Moves
<1>4. Waits(f)' <=> f \in events'
  BY <1>1, <1>2, WaitsBecomes DEF ToCome
<1>5. Life(f)' = l
  BY <1>1, <1>3, <1>4, WaitsBecomes DEF Life
<1>6. ASSUME NEW g \in Fibers \ {f} PROVE Life(g)' = Life(g)
  <2>1. ASSUME NEW p PROVE InHandAt(g, p)' <=> InHandAt(g, p)
    BY HandsStay DEF Moves
  <2>2. QED BY <1>2, <2>1, LifeStays
<1>7. Lives' = [Lives EXCEPT ![f] = l]
  BY <1>5, <1>6, LifeBecomes
<1>8. Stacks' = [Stacks EXCEPT ![w] = f] /\ Stacks[w] = f
  BY <1>1, StacksBecome DEF Stacks, OnAStack
<1>9. QED BY <1>7, <1>8 DEF Stacks

LEMMA WaitEventIsStep ==
  ASSUME TypeOK, Places, Tasks, NEW w \in Workers, WaitEvent(w)
  PROVE  TL!Wait(w)
<1>1. pc[w] = "exec"
  BY DEF WaitEvent, Call
<1>2. PICK f \in Fibers : f = cur[w]
  BY <1>1, RunningTask
<1>3. /\ UNCHANGED <<status, used, queue, timers, cur, cbs>>
      /\ events' = events \cup {f} /\ Moves(w, "swap")
  BY <1>2, GotoMoves DEF WaitEvent, Pcs
<1>4. status[f] = "EXEC" /\ InQueue' = InQueue
  BY <1>1, <1>2, <1>3, RunningTask DEF InQueue
<1>5. Lives' = [Lives EXCEPT ![f] = "waiting"] /\ Stacks' = Stacks
  BY <1>1, <1>2, <1>3, <1>4, LeavingLives
<1>6. Binding' = Binding
  BY <1>3, BindingStays
<1>7. f \in TL!On(w)
  BY <1>1, <1>2, OnIs
<1>8. QED BY <1>5, <1>6, <1>7 DEF TL!Wait, TL!Becomes

LEMMA SwitchToIsStep ==
  ASSUME TypeOK, Places, Tasks, NEW w \in Workers, NEW t \in Targets, SwitchTo(w, t)
  PROVE  TL!Yield(w, t)
<1>1. pc[w] = "exec"
  BY DEF SwitchTo, Call
<1>2. PICK f \in Fibers : f = cur[w]
  BY <1>1, RunningTask
<1>3. f \notin ToCome /\ f \notin InQueue /\ status[f] = "EXEC" /\ t \in Workers \cup {Anywhere}
  BY <1>1, <1>2, RunningTask DEF ToCome, Targets, Crew
<1>4. /\ UNCHANGED <<status, used, events, timers, cur, cbs>>
      /\ Schedule(w, <<Entry(f, t)>>, "swap")
  BY <1>2 DEF SwitchTo, sourceVars
<1>5. InQueue' = InQueue \cup {f} /\ Moves(w, "swap")
  BY <1>3, <1>4, ScheduleOne DEF AfterTickle
<1>6. f \notin events
  BY <1>3 DEF ToCome
<1>7. Lives' = [Lives EXCEPT ![f] = "ready"] /\ Stacks' = Stacks
  BY <1>1, <1>2, <1>3, <1>4, <1>5, <1>6, LeavingLives
<1>8. Binding' = [Binding EXCEPT ![f] = {t} \ {Anywhere}]
  <2>1. queue' = queue \o <<Entry(f, t)>> /\ queue \in Seq(Entries)
    BY <1>4 DEF Schedule, TypeOK
  <2>2. QED BY <1>3, <2>1, BindOne
<1>9. f \in TL!On(w)
  BY <1>1, <1>2, OnIs
<1>10. QED BY <1>7, <1>8, <1>9 DEF TL!Yield, TL!Becomes, TL!Bind

\* YieldToReady and Finish: only the status changes.
LEMMA StatusIsStep ==
  ASSUME TypeOK, Places, Tasks, NEW w \in Workers, YieldToReady(w) \/ Finish(w)
  PROVE  TL!Yield(w, Anywhere) \/ TL!Finish(w)
<1>1. pc[w] = "exec"
  BY DEF YieldToReady, Finish, Call
<1>2. PICK f \in Fibers : f = cur[w]
  BY <1>1, RunningTask
<1>3. /\ UNCHANGED <<used, queue, events, timers, cur, cbs>> /\ Moves(w, "swap")
      /\ \E s \in {"READY", "TERM"} : status' = [status EXCEPT ![f] = s]
  BY <1>2, GotoMoves DEF YieldToReady, Finish, Pcs, sourceVars
<1>4. PICK s \in {"READY", "TERM"} : status' = [status EXCEPT ![f] = s]
  BY <1>3
<1>5. status'[f] = s /\ \A g \in Fibers \ {f} : status'[g] = status[g]
  BY <1>4 DEF TypeOK
<1>6. f \notin ToCome /\ f \notin events /\ f \notin InQueue /\ InQueue' = InQueue
  BY <1>1, <1>2, <1>3, RunningTask DEF ToCome, InQueue
<1>7. f \in TL!On(w)
  BY <1>1, <1>2, OnIs
<1>8. Binding' = Binding /\ Binding = [Binding EXCEPT ![f] = {}]
  <2>1. ThreadsIn(queue, f) = {}
    BY <1>6, NotQueued DEF InQueue
  <2>2. QED BY <1>3, <2>1, BindingStays, BindingIs
<1>9. CASE s = "READY"
  <2>1. Lives' = [Lives EXCEPT ![f] = "ready"] /\ Stacks' = Stacks
    BY <1>1, <1>2, <1>3, <1>5, <1>6, <1>9, LeavingLives
  <2>2. {Anywhere} \ {Anywhere} = {}
    OBVIOUS
  <2>3. TL!Yield(w, Anywhere)
    BY <1>7, <1>8, <2>1, <2>2 DEF TL!Yield, TL!Becomes, TL!Bind
  <2>4. QED BY <2>3
<1>10. CASE s = "TERM"
  <2>1. Lives' = [Lives EXCEPT ![f] = "over"] /\ Stacks' = Stacks
    BY <1>1, <1>2, <1>3, <1>5, <1>6, <1>10, LeavingLives
  <2>2. TL!Finish(w)
    BY <1>7, <1>8, <2>1 DEF TL!Finish, TL!Becomes
  <2>3. QED BY <2>2
<1>11. QED BY <1>9, <1>10

\* A task is handed over, for now or for later.
LEMMA NewLives ==
  ASSUME TypeOK, Places, Tasks, NEW g \in Fibers \ used, UNCHANGED <<status, cur, cbs, events>>,
         used' = used \cup {g}, \A v \in Workers : At(v)' = At(v),
         \A h \in Fibers \ {g} : h \in timers' <=> h \in timers,
         \A h \in Fibers \ {g} : h \in InQueue' <=> h \in InQueue,
         g \in timers' \/ g \in InQueue'
  PROVE  /\ Lives[g] = "new" /\ Stacks' = Stacks
         /\ Lives' = [Lives EXCEPT ![g] = IF g \in timers' THEN "waiting" ELSE "ready"]
<1>1. Lives[g] = "new" /\ status[g] = "INIT" /\ g \notin ToCome
  BY DEF Lives, Life, Tasks
<1>2. Collected' = Collected
  BY DEF Collected
<1>3. \A v \in Workers : cur[v] # g
  BY SchedulerAssumption DEF Tasks, InHand
<1>4. ~InHandAt(g, "start")' /\ ~InHandAt(g, "exec")'
  BY <1>3 DEF InHandAt
<1>5. Waits(g)' <=> g \in timers'
  BY <1>1, <1>2, WaitsBecomes DEF ToCome
<1>6. Life(g)' = IF g \in timers' THEN "waiting" ELSE "ready"
  BY <1>1, <1>4, <1>5, WaitsBecomes DEF Life
<1>7. ASSUME NEW h \in Fibers \ {g} PROVE Life(h)' = Life(h)
  <2>1. ASSUME NEW p PROVE InHandAt(h, p)' <=> InHandAt(h, p)
    BY DEF InHandAt
  <2>2. QED BY <1>2, <2>1, LifeStays
<1>8. Lives' = [Lives EXCEPT ![g] = IF g \in timers' THEN "waiting" ELSE "ready"]
  BY <1>6, <1>7, LifeBecomes
<1>9. QED BY <1>1, <1>8, StacksStay

LEMMA SpawnIsStep ==
  ASSUME TypeOK, Places, Tasks, NEW w \in Workers, NEW g \in Fibers, NEW t \in Targets,
         Spawn(w, g, t)
  PROVE  TL!Submit(g, t)
<1>1. At(w) = "exec" /\ g \notin used /\ g \notin InQueue /\ g \notin timers
      /\ t \in Workers \cup {Anywhere}
  BY DEF Spawn, Call, At, Tasks, ToCome, Targets, Crew
<1>2. /\ UNCHANGED <<status, events, timers, cur, cbs>> /\ used' = used \cup {g}
      /\ Schedule(w, <<Entry(g, t)>>, "exec")
  BY DEF Spawn, sourceVars
<1>3. InQueue' = InQueue \cup {g} /\ Moves(w, "exec")
  BY <1>1, <1>2, ScheduleOne DEF AfterTickle
<1>4. \A v \in Workers : At(v)' = At(v)
  BY <1>1, <1>3 DEF Moves
<1>5. Lives[g] = "new" /\ Stacks' = Stacks /\ Lives' = [Lives EXCEPT ![g] = "ready"]
  BY <1>1, <1>2, <1>3, <1>4, NewLives
<1>6. Binding' = [Binding EXCEPT ![g] = {t} \ {Anywhere}]
  BY <1>1, <1>2, BindOne DEF Schedule, TypeOK
<1>7. QED BY <1>5, <1>6 DEF TL!Submit, TL!Becomes, TL!Bind

LEMMA ClientScheduleIsStep ==
  ASSUME TypeOK, Places, Tasks, NEW g \in Fibers, NEW t \in Targets, ClientSchedule(g, t)
  PROVE  TL!Submit(g, t)
<1>1. g \notin used /\ g \notin InQueue /\ g \notin timers /\ t \in Workers \cup {Anywhere}
  BY DEF ClientSchedule, Tasks, ToCome, Targets, Crew
<1>2. /\ UNCHANGED <<status, events, timers, cur, cbs, pc, after>>
      /\ used' = used \cup {g} /\ queue' = Append(queue, Entry(g, t))
  BY DEF ClientSchedule, sourceVars, workerVars
<1>3. queue' = queue \o <<Entry(g, t)>> /\ queue \in Seq(Entries)
  <2>1. Entry(g, t) \in Entries /\ queue \in Seq(Entries)
    BY <1>1 DEF Entry, Entries, TypeOK
  <2>2. QED BY <1>2, <2>1, AppendIsConcat
<1>4. InQueue' = InQueue \cup {g}
  <2> DEFINE e == Entry(g, t)
  <2>1. e \in Entries /\ e.fiber = g /\ OnceIn(queue) /\ queue' = queue \o <<e>>
        /\ e.fiber \notin {queue[i].fiber : i \in DOMAIN queue}
    BY <1>1, <1>3 DEF Entry, Entries, Tasks, NoDoubles, InQueue
  <2> HIDE DEF e
  <2>2. {(queue \o <<e>>)[i].fiber : i \in DOMAIN (queue \o <<e>>)}
          = {queue[i].fiber : i \in DOMAIN queue} \cup {e.fiber}
    BY <1>3, <2>1, OneMoreOnce
  <2>3. QED BY <2>1, <2>2 DEF InQueue
<1>5. \A v \in Workers : At(v)' = At(v)
  BY <1>2 DEF At
<1>6. Lives[g] = "new" /\ Stacks' = Stacks /\ Lives' = [Lives EXCEPT ![g] = "ready"]
  BY <1>1, <1>2, <1>4, <1>5, NewLives
<1>7. Binding' = [Binding EXCEPT ![g] = {t} \ {Anywhere}]
  BY <1>1, <1>3, BindOne
<1>8. QED BY <1>6, <1>7 DEF TL!Submit, TL!Becomes, TL!Bind

LEMMA AddTimerIsStep ==
  ASSUME TypeOK, Places, Tasks, NEW w \in Workers, NEW g \in Fibers, AddTimer(w, g)
  PROVE  TL!Delay(g)
<1>1. At(w) = "exec" /\ g \notin used
  BY DEF AddTimer, Call, At
<1>2. /\ UNCHANGED <<status, queue, events, cur, cbs>> /\ used' = used \cup {g}
      /\ timers' = timers \cup {g} /\ Moves(w, "exec")
  BY GotoMoves, TickleMoves DEF AddTimer, AfterTickle, Pcs
<1>3. InQueue' = InQueue /\ \A v \in Workers : At(v)' = At(v)
  BY <1>1, <1>2 DEF InQueue, Moves
<1>4. Lives[g] = "new" /\ Stacks' = Stacks /\ Lives' = [Lives EXCEPT ![g] = "waiting"]
  BY <1>1, <1>2, <1>3, NewLives
<1>5. Binding' = Binding
  BY <1>2, BindingStays
<1>6. QED BY <1>4, <1>5 DEF TL!Delay, TL!Becomes

(***************************************************************************)
(* What brings a task back                                                 *)
(***************************************************************************)
\* The fiber that is put down was ready, waiting or over already.
LEMMA SettleIsQuiet ==
  ASSUME TypeOK, Places, Tasks, NEW w \in Workers, Settle(w)
  PROVE  UNCHANGED TL!vars
<1>1. At(w) = "settle" /\ "settle" \in Holding /\ "settle" \in Leaving
  BY DEF Settle, At, Holding, Leaving
<1>2. PICK f \in Fibers : f = cur[w]
  BY <1>1, TaskInHand
<1>3. f # Nobody /\ f \in used /\ (\A v \in Workers \ {w} : cur[v] # f)
      /\ IF f \in ToCome THEN status[f] = "EXEC" ELSE status[f] \in {"READY", "TERM"}
  BY <1>1, <1>2, TaskInHand DEF InHand
<1>4. UNCHANGED <<used, events, timers, cbs>> /\ cur' = [cur EXCEPT ![w] = Nobody]
  BY DEF Settle, sourceVars
<1>5. cur'[w] = Nobody /\ (\A v \in Workers \ {w} : cur'[v] = cur[v])
      /\ Collected' = Collected
  BY <1>3, <1>4 DEF TypeOK, Collected
<1>6. /\ Moves(w, "scan")
      /\ \A g \in Fibers \ {f} : status'[g] = status[g]
      /\ status'[f] = IF status[f] = "EXEC" THEN "HOLD" ELSE status[f]
      /\ InQueue' = InQueue \cup (IF status[f] = "READY" THEN {f} ELSE {})
      /\ Binding' = Binding
  <2>1. CASE status[f] = "READY"
    <3>1. f \notin InQueue /\ UNCHANGED status /\ Schedule(w, <<Entry(f, Anywhere)>>, "scan")
      BY <1>2, <1>3, <2>1 DEF Settle, ToCome
    <3>2. InQueue' = InQueue \cup {f} /\ Moves(w, "scan")
      BY <3>1, ScheduleOne DEF AfterTickle
    <3>3. Binding' = Binding
      <4>1. queue \in Seq(Entries) /\ queue' = queue \o <<Entry(f, Anywhere)>>
        BY <3>1 DEF Schedule, TypeOK
      <4>2. Binding' = [Binding EXCEPT ![f] = {Anywhere} \ {Anywhere}]
        BY <3>1, <4>1, BindOne
      <4>3. {Anywhere} \ {Anywhere} = {} /\ ThreadsIn(queue, f) = {}
        BY <3>1, NotQueued DEF InQueue
      <4>4. QED BY <4>2, <4>3, BindingIs
    <3>4. QED BY <2>1, <3>1, <3>2, <3>3
  <2>2. CASE status[f] # "READY"
    <3>1. /\ status' = [status EXCEPT ![f] = IF @ = "TERM" THEN @ ELSE "HOLD"]
          /\ queue' = queue /\ Moves(w, "scan")
      BY <1>2, <2>2, GotoMoves DEF Settle, Pcs
    <3>2. /\ \A g \in Fibers \ {f} : status'[g] = status[g]
          /\ status'[f] = IF status[f] = "TERM" THEN "TERM" ELSE "HOLD"
      BY <3>1 DEF TypeOK
    <3>3. status'[f] = IF status[f] = "EXEC" THEN "HOLD" ELSE status[f]
      BY <1>3, <2>2, <3>2
    <3>4. InQueue' = InQueue \cup {} /\ Binding' = Binding
      BY <3>1, BindingStays DEF InQueue
    <3>5. QED BY <2>2, <3>1, <3>2, <3>3, <3>4
  <2>3. QED BY <2>1, <2>2
<1>7. ASSUME NEW g \in Fibers, NEW p \in {"start", "exec"}
      PROVE  InHandAt(g, p)' <=> InHandAt(g, p)
  <2>1. p # "settle" /\ p # "scan" /\ g # Nobody
    BY SchedulerAssumption
  <2>2. QED BY <1>1, <1>5, <1>6, <2>1, HandsStay DEF Moves
<1>8. ASSUME NEW g \in Fibers \ {f} PROVE Life(g)' = Life(g)
  BY <1>4, <1>5, <1>6, <1>7, LifeStays
<1>9. Life(f)' = Life(f)
  <2>1. /\ ~InHandAt(f, "start") /\ ~InHandAt(f, "exec")
        /\ ~InHandAt(f, "start")' /\ ~InHandAt(f, "exec")'
    BY <1>1, <1>2, <1>7, OnlyInHand
  <2>2. Waits(f)' <=> Waits(f)
    BY <1>4, <1>5, WaitsIs, WaitsBecomes
  <2>3. f \in ToCome <=> Waits(f) \/ Queued(f) # {}
    BY WaitsIs DEF ToCome
  <2>4. (Queued(f) # {})' <=> Queued(f) # {} \/ status[f] = "READY"
    BY <1>6, WaitsIs, WaitsBecomes
  <2>5. QED BY <1>3, <1>4, <1>6, <2>1, <2>2, <2>3, <2>4 DEF Life
<1>10. Lives' = Lives
  BY <1>8, <1>9, LivesStay
<1>11. Stacks' = Stacks
  <2>1. Stacks' = [Stacks EXCEPT ![w] = Nobody] /\ Stacks[w] = Nobody
    BY <1>1, <1>5, <1>6, StacksBecome DEF Stacks, OnAStack
  <2>2. QED BY <2>1 DEF Stacks
<1>12. QED BY <1>6, <1>10, <1>11 DEF TL!vars

\* A worker with nothing in hand moves on; tasks in S are queued, unbound.
LEMMA QueuedLives ==
  ASSUME TypeOK, Places, Tasks, NEW w \in Workers, NEW p, Moves(w, p),
         At(w) \notin Holding, p \notin Holding, UNCHANGED <<status, used, cur>>,
         NEW S \in SUBSET Fibers, S \cap InQueue = {}, InQueue' = InQueue \cup S,
         NEW A, A = Collected \cup events \cup timers,
         NEW B, B = Collected' \cup events' \cup timers',
         S \subseteq A, B = A \ S
  PROVE  /\ \A f \in S : Lives[f] = "waiting"
         /\ Lives' = [f \in Fibers |-> IF f \in S THEN "ready" ELSE Lives[f]]
         /\ Stacks' = Stacks
<1>1. ASSUME NEW g \in Fibers, NEW q \in {"start", "exec"}
      PROVE  InHandAt(g, q)' <=> InHandAt(g, q)
  <2>1. cur[w] = Nobody /\ g # Nobody
    BY SchedulerAssumption DEF Places
  <2>2. QED BY <2>1, HandsStay DEF Moves
<1>2. ASSUME NEW f \in Fibers, f \notin S PROVE Life(f)' = Life(f)
  BY <1>1, <1>2, LifeStays
<1>3. ASSUME NEW f \in S PROVE Life(f) = "waiting" /\ Life(f)' = "ready"
  <2>1. f \in ToCome /\ f \notin InQueue
    BY DEF ToCome
  <2>2. /\ f \in used /\ status[f] # "TERM" /\ Life(f) = "waiting"
        /\ ~InHandAt(f, "start") /\ ~InHandAt(f, "exec")
    BY <2>1, ToComeLife
  <2>3. ~Waits(f)' /\ (Queued(f) # {})'
    BY WaitsBecomes
  <2>4. QED BY <1>1, <2>2, <2>3 DEF Life
<1>4. \A f \in S : Lives[f] = "waiting"
  BY <1>3 DEF Lives
<1>5. Lives' = [f \in Fibers |-> IF f \in S THEN "ready" ELSE Lives[f]]
  BY <1>2, <1>3 DEF Lives
<1>6. Stacks' = Stacks
  BY StacksStay DEF Moves, Holding, Working, OnAStack
<1>7. QED BY <1>4, <1>5, <1>6

LEMMA CollectIsQuiet ==
  ASSUME TypeOK, Places, Tasks, NEW w \in Workers, Collect(w)
  PROVE  UNCHANGED TL!vars
<1>1. At(w) = "collect" /\ cbs[w] = {}
  BY DEF Collect, At, Places
<1>2. PICK E \in SUBSET timers :
        /\ timers' = timers \ E /\ cbs' = [cbs EXCEPT ![w] = E]
        /\ Goto(w, IF E = {} THEN "handle" ELSE "cbs")
  BY DEF Collect
<1>3. UNCHANGED <<status, used, queue, events, cur>>
  BY DEF Collect, fiberVars
<1>4. PICK p \in {"handle", "cbs"} : Moves(w, p)
  <2>1. (IF E = {} THEN "handle" ELSE "cbs") \in Pcs \ {"tickle"}
    BY DEF Pcs
  <2>2. QED BY <1>2, <2>1, GotoMoves
<1>5. \A v \in Workers : cbs'[v] = IF v = w THEN E ELSE cbs[v]
  BY <1>2 DEF TypeOK
<1>6. InQueue' = InQueue /\ Collected' = Collected \cup E
  BY <1>1, <1>3, <1>5 DEF InQueue, Collected
<1>7. Collected' \cup events' \cup timers' = Collected \cup events \cup timers
  BY <1>2, <1>3, <1>6
<1>8. At(w) \notin Holding /\ p \notin Holding
  BY <1>1 DEF Holding, Working
<1>9. Lives' = [f \in Fibers |-> IF f \in {} THEN "ready" ELSE Lives[f]] /\ Stacks' = Stacks
  <2>1. Collected' \cup events' \cup timers' = (Collected \cup events \cup timers) \ {}
    BY <1>7
  <2>2. InQueue' = InQueue \cup {} /\ {} \cap InQueue = {} /\ {} \in SUBSET Fibers
        /\ {} \subseteq Collected \cup events \cup timers
    BY <1>6
  <2>3. QED BY <1>3, <1>4, <1>8, <2>1, <2>2, QueuedLives
<1>10. Lives' = Lives
  BY <1>9 DEF Lives
<1>11. QED BY <1>3, <1>9, <1>10, BindingStays DEF TL!vars

LEMMA ScheduleCbsIsStep ==
  ASSUME TypeOK, Places, Tasks, NEW w \in Workers, ScheduleCbs(w)
  PROVE  TL!Wake(cbs[w]) /\ cbs[w] \in SUBSET Fibers
<1>1. At(w) = "cbs" /\ cbs[w] \in SUBSET Fibers /\ IsFiniteSet(cbs[w])
  BY DEF ScheduleCbs, At, TypeOK, Places
<1>2. UNCHANGED <<status, used, events, timers, cur>> /\ cbs' = [cbs EXCEPT ![w] = {}]
  BY DEF ScheduleCbs, fiberVars, sourceVars
<1>3. PICK s \in SetToSeqs(cbs[w]) :
        Schedule(w, [i \in DOMAIN s |-> Entry(s[i], Anywhere)], "handle")
  BY DEF ScheduleCbs
<1> DEFINE es == [i \in DOMAIN s |-> Entry(s[i], Anywhere)]
<1>4. es \in Seq(Entries) /\ OnceIn(es) /\ {es[i].fiber : i \in DOMAIN es} = cbs[w]
  BY <1>1, AllOnce
<1>5. \A i \in DOMAIN es : es[i].thread = Anywhere
  BY DEF Entry
<1>6. queue' = queue \o es /\ Moves(w, "handle")
  BY <1>3, GotoMoves, TickleMoves DEF Schedule, AfterTickle, Pcs
<1> HIDE DEF es
<1>7. queue \in Seq(Entries) /\ OnceIn(queue) /\ cbs[w] \cap InQueue = {}
  BY DEF TypeOK, Tasks, NoDoubles, Collected
<1>8. InQueue' = InQueue \cup cbs[w]
  <2>1. \A i \in DOMAIN queue, j \in DOMAIN es : queue[i].fiber # es[j].fiber
    BY <1>4, <1>7 DEF InQueue
  <2>2. {(queue \o es)[i].fiber : i \in DOMAIN (queue \o es)}
          = {queue[i].fiber : i \in DOMAIN queue} \cup {es[i].fiber : i \in DOMAIN es}
    BY <1>4, <1>7, <2>1, AppendedOnce
  <2>3. QED BY <1>4, <1>6, <2>2 DEF InQueue
<1>9. \A v \in Workers : cbs'[v] = IF v = w THEN {} ELSE cbs[v]
  BY <1>2 DEF TypeOK
<1>10. Collected = Collected' \cup cbs[w] /\ Collected' \cap cbs[w] = {}
  BY <1>9 DEF Collected, Tasks, NoDoubles
<1>11. cbs[w] \cap events = {} /\ cbs[w] \cap timers = {} /\ cbs[w] \subseteq Collected
  BY DEF Tasks, NoDoubles, Collected
<1>12. Collected' \cup events' \cup timers' = (Collected \cup events \cup timers) \ cbs[w]
  BY <1>2, <1>10, <1>11
<1>13. "handle" \notin Holding /\ "cbs" \notin Holding
  BY DEF Holding, Working
<1>14. /\ \A f \in cbs[w] : Lives[f] = "waiting"
       /\ Lives' = [f \in Fibers |-> IF f \in cbs[w] THEN "ready" ELSE Lives[f]]
       /\ Stacks' = Stacks
  BY <1>1, <1>2, <1>6, <1>7, <1>8, <1>11, <1>12, <1>13, QueuedLives
<1>15. Binding' = Binding
  BY <1>4, <1>5, <1>6, <1>7, BindNone
<1>16. QED BY <1>1, <1>14, <1>15 DEF TL!Wake

LEMMA HandleIsStep ==
  ASSUME TypeOK, Places, Tasks, NEW w \in Workers, Handle(w)
  PROVE  Quiet \/ \E S \in SUBSET Fibers : TL!Wake(S)
<1>1. At(w) = "handle" /\ At(w) \notin Holding
  BY DEF Handle, At, Holding, Working
<1>2. UNCHANGED <<status, used, timers, cur, cbs>> /\ Collected' = Collected
  BY DEF Handle, fiberVars, Collected
<1>3. CASE got[w] \in events /\ events' = Unregister(got[w])
           /\ Schedule(w, <<Entry(got[w], Anywhere)>>, "dec")
  <2>1. PICK f \in Fibers : f = got[w] /\ f \in events
    BY <1>3 DEF TypeOK
  <2>2. f \notin InQueue /\ f \notin timers /\ f \notin Collected
    BY <2>1 DEF Tasks, NoDoubles
  <2>3. InQueue' = InQueue \cup {f} /\ Moves(w, "dec")
    BY <1>3, <2>1, <2>2, ScheduleOne DEF AfterTickle
  <2>4. events' = events \ {f}
    BY <1>3, <2>1 DEF Unregister
  <2>5. Collected' \cup events' \cup timers' = (Collected \cup events \cup timers) \ {f}
    BY <1>2, <2>2, <2>4
  <2>6. "dec" \notin Holding
    BY DEF Holding, Working
  <2>7. /\ \A g \in {f} : Lives[g] = "waiting"
        /\ Lives' = [g \in Fibers |-> IF g \in {f} THEN "ready" ELSE Lives[g]]
        /\ Stacks' = Stacks
    <3>1. {f} \in SUBSET Fibers /\ {f} \cap InQueue = {} /\ {f} \subseteq Collected \cup events \cup timers
      BY <2>1, <2>2
    <3>2. QED BY <1>1, <1>2, <2>3, <2>5, <2>6, <3>1, QueuedLives
  <2>8. Binding' = Binding
    <3>1. queue \in Seq(Entries) /\ queue' = queue \o <<Entry(f, Anywhere)>>
      BY <1>3, <2>1 DEF Schedule, TypeOK
    <3>2. Binding' = [Binding EXCEPT ![f] = {Anywhere} \ {Anywhere}]
      BY <2>2, <3>1, BindOne
    <3>3. {Anywhere} \ {Anywhere} = {} /\ ThreadsIn(queue, f) = {}
      BY <2>2, NotQueued DEF InQueue
    <3>4. QED BY <3>2, <3>3, BindingIs
  <2>9. TL!Wake({f})
    BY <2>7, <2>8 DEF TL!Wake
  <2>10. QED BY <2>9
<1>4. CASE UNCHANGED <<queue, events>> /\ Goto(w, "leave")
  <2>1. Moves(w, "leave") /\ "leave" \notin Holding
    BY <1>4, GotoMoves DEF Pcs, Holding, Working
  <2>2. QED BY <1>1, <1>2, <1>4, <2>1 DEF Quiet, Moves, taskVars
<1>5. QED BY <1>3, <1>4 DEF Handle

-----------------------------------------------------------------------------
LEMMA WorkerLives ==
  ASSUME TypeOK, Places, Tasks, NEW w \in Workers, WorkerStep(w)
  PROVE  TL!Next \/ UNCHANGED TL!vars
<1>1. Targets \subseteq TL!Threads /\ Anywhere \in TL!Threads
  BY DEF Targets, Crew, TL!Threads
<1>2. CASE \/ Tickle(w) \/ Back(w) \/ NoTask(w)
           \/ Stopping1(w) \/ Stopping2(w) \/ Stopping3(w)
           \/ WakeTimeout(w) \/ WakeTickle(w) \/ \E f \in Fibers : WakeEvent(w, f)
           \/ Dec(w) \/ Leave(w)
  BY <1>2, IdleIsQuiet, QuietStutters
<1>3. CASE Scan(w)
  BY <1>3, ScanIsStep, QuietStutters DEF TL!Next
<1>4. CASE Start(w)
  BY <1>4, StartIsStep DEF TL!Next
<1>5. CASE SwapOut(w)
  BY <1>5, SwapOutIsStep DEF TL!Next
<1>6. CASE WaitEvent(w)
  BY <1>6, WaitEventIsStep DEF TL!Next
<1>7. CASE YieldToReady(w) \/ Finish(w)
  BY <1>1, <1>7, StatusIsStep DEF TL!Next
<1>8. CASE \E t \in Targets : SwitchTo(w, t)
  BY <1>1, <1>8, SwitchToIsStep DEF TL!Next
<1>9. CASE \E g \in Fibers : AddTimer(w, g) \/ \E t \in Targets : Spawn(w, g, t)
  BY <1>1, <1>9, AddTimerIsStep, SpawnIsStep DEF TL!Next
<1>10. CASE Settle(w) \/ Collect(w)
  BY <1>10, SettleIsQuiet, CollectIsQuiet
<1>11. CASE ScheduleCbs(w)
  BY <1>11, ScheduleCbsIsStep DEF TL!Next
<1>12. CASE Handle(w)
  BY <1>12, HandleIsStep, QuietStutters DEF TL!Next
<1>13. QED
  BY <1>2, <1>3, <1>4, <1>5, <1>6, <1>7, <1>8, <1>9, <1>10, <1>11, <1>12
     DEF WorkerStep, RunStep, FiberStep

LEMMA ClientLives ==
  ASSUME TypeOK, Places, Tasks, Owner, Client
  PROVE  TL!Next \/ UNCHANGED TL!vars
<1>1. ASSUME NEW f \in Fibers, NEW t \in Targets, ClientSchedule(f, t) PROVE TL!Next
  <2>1. t \in TL!Threads
    BY DEF Targets, Crew, TL!Threads
  <2>2. QED BY <1>1, <2>1, ClientScheduleIsStep DEF TL!Next
<1>2. CASE ClientTickle \/ Stop \/ StopTickle \/ Join
  <2>1. UNCHANGED taskVars /\ \A w \in Workers : At(w)' = At(w)
    BY <1>2 DEF ClientTickle, Stop, StopTickle, Join, taskVars, fiberVars, sourceVars,
                workerVars, At
  <2>2. QED BY <2>1, QuietStutters DEF Quiet
<1>3. CASE StopRoot
  <2>1. UNCHANGED taskVars /\ UNCHANGED after
    BY <1>3 DEF StopRoot, taskVars, fiberVars, sourceVars, workerVars
  <2>2. CASE pc' = pc
    BY <2>1, <2>2, QuietStutters DEF Quiet, At
  <2>3. CASE pc' = [pc EXCEPT ![Caller] = "scan"]
    <3>1. Caller \in Workers /\ pc[Caller] = "off"
      BY <1>3 DEF StopRoot, Owner, Crew
    <3>2. Goto(Caller, "scan") /\ "scan" \in Pcs \ {"tickle"} /\ At(Caller) = "off"
      BY <2>1, <2>3, <3>1 DEF Goto, Pcs, At
    <3>3. Moves(Caller, "scan")
      BY <3>1, <3>2, GotoMoves
    <3>4. QED BY <2>1, <3>2, <3>3, QuietStutters DEF Quiet, Moves, Holding, Working
  <2>4. QED BY <1>3, <2>2, <2>3 DEF StopRoot
<1>4. QED BY <1>1, <1>2, <1>3 DEF Client

LEMMA InitLives ==
  ASSUME Init
  PROVE  TL!Init
<1>1. \A f : Life(f) = "new" /\ Queued(f) = {}
  BY DEF Init, Life, Queued
<1>2. \A w \in Workers : cur[w] = Nobody
  BY DEF Init
<1>3. Lives = [f \in Fibers |-> "new"]
  BY <1>1 DEF Lives
<1>4. Binding = [f \in Fibers |-> {}]
  BY <1>1 DEF Binding
<1>5. Stacks = [w \in Workers |-> Nobody]
  BY <1>2 DEF Stacks
<1>6. QED BY <1>3, <1>4, <1>5 DEF TL!Init

\* run(), the idle fiber and schedule() lead a task through its life as
\* TaskLife states it: no task is lost, taken twice or brought back when it is
\* over, none runs on a thread it is not bound to, and none that was queued
\* while it ran is taken before it has left its stack.
THEOREM SchedulerImplementsTaskLife == Spec => ImplementsTaskLife
<1>1. Init => TL!Init
  BY InitLives
<1>2. SchedulerInv /\ [Next]_vars => [TL!Next]_(TL!vars)
  <2>1. ASSUME SchedulerInv, Next PROVE TL!Next \/ UNCHANGED TL!vars
    <3>1. CASE Client
      BY <2>1, <3>1, ClientLives DEF SchedulerInv
    <3>2. CASE \E w \in Workers : WorkerStep(w)
      BY <2>1, <3>2, WorkerLives DEF SchedulerInv
    <3>3. CASE UNCHANGED vars
      <4>1. Quiet
        BY <3>3 DEF Quiet, At, taskVars, vars, fiberVars, sourceVars, workerVars
      <4>2. QED BY <2>1, <4>1, QuietStutters DEF SchedulerInv
    <3>4. QED BY <2>1, <3>1, <3>2, <3>3 DEF Next, Stopped
  <2>2. ASSUME SchedulerInv, UNCHANGED vars PROVE UNCHANGED TL!vars
    <3>1. Quiet
      BY <2>2 DEF Quiet, At, taskVars, vars, fiberVars, sourceVars, workerVars
    <3>2. QED BY <2>2, <3>1, QuietStutters DEF SchedulerInv
  <2>3. QED BY <2>1, <2>2
<1>3. QED BY <1>1, <1>2, SchedulerInvariant, PTL DEF Spec, ImplementsTaskLife, TL!Spec

=============================================================================
