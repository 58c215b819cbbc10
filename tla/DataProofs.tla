---------------------------- MODULE DataProofs ----------------------------
(***************************************************************************)
(* Proofs about the components that MCData puts side by side, each for any *)
(* value of its constants: the pool of SQLite connections, the byte array, *)
(* the integers of variable length, the timed cache, the registry of the   *)
(* name server and the LRU caches.                                         *)
(* What TimerProofs and HttpProofs prove is carried over to MCData at the  *)
(* end.                                                                    *)
(***************************************************************************)
EXTENDS MCData, SequenceTheorems, FiniteSetTheorems, TLAPS

-----------------------------------------------------------------------------
(***************************************************************************)
(* SqlitePool: for any number of users, connections and transactions       *)
(***************************************************************************)
\* A connection is idle once, or has one user.
Apart ==
  /\ \A i, j \in DOMAIN conns : conns[i] = conns[j] => i = j
  /\ \A i \in DOMAIN conns : \A u \in Users : using[u] # conns[i]
  /\ \A u, v \in Users : u # v /\ using[u] # SP!None => using[u] # using[v]

\* A transaction keeps its connection; one that has begun is open in it.
Begun ==
  \A u \in Users :
    /\ mine[u] # 0 => using[u] # SP!None
    /\ status[u] # 0 => mine[u] # 0
    /\ status[u] = 1 => opened[using[u]] = mine[u]

\* A transaction nobody owns is one that could not be ended.
Left(c) ==
  \/ opened[c] \in {0} \cup failed
  \/ \E u \in Users : using[u] = c /\ mine[u] = opened[c] /\ status[u] = 1

SqliteInv == SP!TypeOK /\ Apart /\ Begun /\ \A c \in Conns : Left(c)

LEMMA SqliteInit == SP!SqliteAssumption /\ SP!Init => SqliteInv
<1>1. SUFFICES ASSUME SP!SqliteAssumption, SP!Init PROVE SqliteInv
  OBVIOUS
<1>2. SP!TypeOK
  BY <1>1 DEF SP!Init, SP!TypeOK, SP!SqliteAssumption, SP!NoTrans, SP!None
<1>3. Apart /\ Begun
  BY <1>1 DEF SP!Init, Apart, Begun, SP!NoTrans
<1>4. \A c \in Conns : Left(c)
  BY <1>1 DEF SP!Init, Left, SP!NoTrans
<1>5. QED
  BY <1>2, <1>3, <1>4 DEF SqliteInv

\* A user takes a connection that nobody has, idle or new.
LEMMA SqliteGet ==
  ASSUME SP!SqliteAssumption, SqliteInv, NEW u \in Users, SP!Get(u)
  PROVE  \E c \in Conns :
           /\ using' = [using EXCEPT ![u] = c] /\ using[u] = SP!None
           /\ \A v \in Users : using[v] # c
           /\ conns' \in Seq(Conns) /\ Len(conns') <= MaxConn
           /\ \A i, j \in DOMAIN conns' : conns'[i] = conns'[j] => i = j
           /\ \A i \in DOMAIN conns' : conns'[i] # c /\ \A v \in Users : using[v] # conns'[i]
<1> USE DEF SqliteInv
<1>1. /\ conns \in Seq(Conns) /\ DOMAIN conns = 1..Len(conns)
      /\ Len(conns) \in Nat /\ Len(conns) <= MaxConn /\ MaxConn \in Nat
  BY DEF SP!TypeOK, SP!SqliteAssumption
<1>2. CASE conns # << >>
  <2>1. using' = [using EXCEPT ![u] = conns[1]] /\ conns' = Tail(conns) /\ using[u] = SP!None
    BY <1>1, <1>2 DEF SP!Get
  <2>2. /\ conns' \in Seq(Conns) /\ DOMAIN conns' = 1..(Len(conns) - 1)
        /\ Len(conns') = Len(conns) - 1 /\ Len(conns) >= 1 /\ 1 \in DOMAIN conns
        /\ \A i \in 1..(Len(conns) - 1) : conns'[i] = conns[i + 1]
    BY <1>1, <1>2, <2>1
  <2>3. ASSUME NEW i \in DOMAIN conns'
        PROVE  /\ i + 1 \in DOMAIN conns /\ i + 1 # 1
               /\ conns'[i] = conns[i + 1] /\ i \in Int
    BY <1>1, <2>2
  <2>4. \A i \in DOMAIN conns' : conns'[i] # conns[1] /\ \A v \in Users : using[v] # conns'[i]
    BY <2>2, <2>3 DEF Apart
  <2>5. ASSUME NEW i \in DOMAIN conns', NEW j \in DOMAIN conns', conns'[i] = conns'[j]
        PROVE  i = j
    <3>1. i + 1 = j + 1
      BY <2>3, <2>5 DEF Apart
    <3>2. QED
      BY <2>3, <3>1
  <2>6. conns[1] \in Conns /\ \A v \in Users : using[v] # conns[1]
    BY <1>1, <2>2 DEF Apart
  <2>7. Len(conns') <= MaxConn
    BY <1>1, <2>2
  <2>8. QED
    BY <2>1, <2>2, <2>4, <2>5, <2>6, <2>7
<1>3. CASE conns = << >>
  <2>1. PICK c \in Conns \ SP!Used : using' = [using EXCEPT ![u] = c] /\ conns' = conns
    BY <1>3 DEF SP!Get
  <2>2. \A v \in Users : using[v] # c
    BY <2>1 DEF SP!Used, SP!SqliteAssumption
  <2>3. DOMAIN conns' = {} /\ using[u] = SP!None
    BY <1>3, <2>1 DEF SP!Get
  <2>4. QED
    BY <1>1, <2>1, <2>2, <2>3
<1>4. QED
  BY <1>2, <1>3

LEMMA SqliteGetStep ==
  ASSUME SP!SqliteAssumption, SqliteInv, NEW u \in Users, SP!Get(u),
         opened' = opened, status' = status, failed' = failed,
         mine' \in [Users -> SP!NoTrans..MaxTrans], \A v \in Users \ {u} : mine'[v] = mine[v],
         autoCommit' \in [Users -> BOOLEAN], trans' \in 0..MaxTrans
  PROVE  SqliteInv'
<1> USE DEF SqliteInv, SP!NoTrans
<1>1. PICK c \in Conns :
        /\ using' = [using EXCEPT ![u] = c] /\ using[u] = SP!None
        /\ \A v \in Users : using[v] # c
        /\ conns' \in Seq(Conns) /\ Len(conns') <= MaxConn
        /\ \A i, j \in DOMAIN conns' : conns'[i] = conns'[j] => i = j
        /\ \A i \in DOMAIN conns' : conns'[i] # c /\ \A v \in Users : using[v] # conns'[i]
  BY SqliteGet
<1>2. using'[u] = c /\ \A v \in Users \ {u} : using'[v] = using[v]
  BY <1>1 DEF SP!TypeOK
<1>3. SP!TypeOK'
  <2>1. using' \in [Users -> Conns \cup {SP!None}]
    BY <1>1 DEF SP!TypeOK
  <2>2. QED
    BY <1>1, <2>1 DEF SP!TypeOK
<1>4. Apart'
  BY <1>1, <1>2 DEF Apart
<1>5. mine[u] = 0 /\ status[u] = 0
  BY <1>1 DEF Begun
<1>6. Begun'
  BY <1>1, <1>2, <1>5 DEF Begun, SP!SqliteAssumption
<1>7. ASSUME NEW d \in Conns PROVE Left(d)'
  BY <1>1, <1>2, <1>5 DEF Left
<1>8. QED
  BY <1>3, <1>4, <1>6, <1>7

\* The deleter of a user's pointer: the connection goes back to the pool or is
\* closed.  What is left open in it must be nothing, or what could not be ended.
LEMMA SqliteFreeStep ==
  ASSUME SP!SqliteAssumption, SqliteInv, NEW u \in Users, NEW tx, SP!Free(u, tx),
         using[u] # SP!None, tx \in {0} \cup failed', failed \subseteq failed',
         failed' \subseteq 1..MaxTrans, trans' = trans
  PROVE  SqliteInv'
<1> USE DEF SqliteInv, SP!NoTrans
<1>1. PICK c \in Conns : c = using[u]
  BY DEF SP!TypeOK
<1>2. PICK o \in {0} \cup failed' :
        /\ opened' = [opened EXCEPT ![c] = o]
        /\ conns' = conns \/ (conns' = Append(conns, c) /\ Len(conns) < MaxConn)
        /\ using' = [using EXCEPT ![u] = SP!None] /\ mine' = [mine EXCEPT ![u] = 0]
        /\ status' = [status EXCEPT ![u] = 0]
        /\ autoCommit' = [autoCommit EXCEPT ![u] = FALSE]
  <2>1. CASE Len(conns) < MaxConn
    BY <1>1, <2>1 DEF SP!Free
  <2>2. CASE ~(Len(conns) < MaxConn)
    <3>1. /\ opened' = [opened EXCEPT ![c] = 0] /\ conns' = conns
          /\ using' = [using EXCEPT ![u] = SP!None] /\ mine' = [mine EXCEPT ![u] = 0]
          /\ status' = [status EXCEPT ![u] = 0]
          /\ autoCommit' = [autoCommit EXCEPT ![u] = FALSE]
      BY <1>1, <2>2 DEF SP!Free
    <3>2. 0 \in {0} \cup failed'
      OBVIOUS
    <3>3. QED
      BY <3>1, <3>2
  <2>3. QED
    BY <2>1, <2>2
<1>3. /\ using'[u] = SP!None /\ mine'[u] = 0 /\ status'[u] = 0
      /\ \A v \in Users \ {u} :
           using'[v] = using[v] /\ mine'[v] = mine[v] /\ status'[v] = status[v]
      /\ opened'[c] = o /\ \A d \in Conns \ {c} : opened'[d] = opened[d]
  BY <1>2 DEF SP!TypeOK
<1>4. c # SP!None /\ \A v \in Users \ {u} : using[v] # c
  BY <1>1 DEF Apart
<1>5. /\ conns \in Seq(Conns) /\ DOMAIN conns = 1..Len(conns) /\ Len(conns) \in Nat
      /\ MaxConn \in Nat
  BY DEF SP!TypeOK, SP!SqliteAssumption
<1>6. SP!TypeOK'
  <2>1. conns' \in Seq(Conns) /\ Len(conns') <= MaxConn
    <3>1. CASE conns' = conns
      BY <3>1 DEF SP!TypeOK
    <3>2. CASE conns' = Append(conns, c) /\ Len(conns) < MaxConn
      BY <1>5, <3>2
    <3>3. QED
      BY <1>2, <3>1, <3>2
  <2>2. opened' \in [Conns -> 0..MaxTrans]
    <3>1. o \in 0..MaxTrans
      BY <1>2 DEF SP!SqliteAssumption
    <3>2. QED
      BY <1>2, <3>1 DEF SP!TypeOK
  <2>3. /\ using' \in [Users -> Conns \cup {SP!None}]
        /\ mine' \in [Users -> 0..MaxTrans] /\ status' \in [Users -> 0..3]
        /\ autoCommit' \in [Users -> BOOLEAN]
    BY <1>2 DEF SP!TypeOK, SP!SqliteAssumption
  <2>4. QED
    BY <2>1, <2>2, <2>3 DEF SP!TypeOK
<1>7. Apart'
  <2>1. CASE conns' = conns
    <3>1. \A i \in DOMAIN conns : conns[i] # SP!None
      BY <1>5 DEF SP!SqliteAssumption
    <3>2. \A i \in DOMAIN conns' : \A v \in Users : using'[v] # conns'[i]
      BY <1>3, <2>1, <3>1 DEF Apart
    <3>3. \A v, w \in Users : v # w /\ using'[v] # SP!None => using'[v] # using'[w]
      BY <1>3 DEF Apart
    <3>4. QED
      BY <2>1, <3>2, <3>3 DEF Apart
  <2>2. CASE conns' = Append(conns, c)
    <3>1. /\ DOMAIN conns' = 1..(Len(conns) + 1) /\ conns'[Len(conns) + 1] = c
          /\ \A i \in 1..Len(conns) : conns'[i] = conns[i] /\ conns[i] \in Conns
      BY <1>5, <2>2
    <3>2. \A i \in 1..Len(conns) : conns[i] # c
      BY <1>1, <1>5 DEF Apart
    <3>3. \A i, j \in DOMAIN conns' : conns'[i] = conns'[j] => i = j
      BY <1>5, <3>1, <3>2 DEF Apart
    <3>4. \A i \in DOMAIN conns' : \A v \in Users : using'[v] # conns'[i]
      BY <1>3, <1>4, <1>5, <3>1 DEF Apart, SP!SqliteAssumption
    <3>5. \A v, w \in Users : v # w /\ using'[v] # SP!None => using'[v] # using'[w]
      BY <1>3 DEF Apart
    <3>6. QED
      BY <3>3, <3>4, <3>5 DEF Apart
  <2>3. QED
    BY <1>2, <2>1, <2>2
<1>8. Begun'
  <2>1. ASSUME NEW v \in Users \ {u}, status[v] = 1 PROVE using[v] \in Conns \ {c}
    BY <1>4, <2>1 DEF Begun, SP!TypeOK
  <2>2. QED
    BY <1>3, <2>1 DEF Begun
<1>9. ASSUME NEW d \in Conns PROVE Left(d)'
  <2>1. CASE d = c
    BY <1>2, <1>3, <2>1 DEF Left
  <2>2. CASE d # c /\ opened[d] \in {0} \cup failed
    BY <1>3, <2>2 DEF Left
  <2>3. ASSUME d # c, NEW v \in Users, using[v] = d, mine[v] = opened[d], status[v] = 1
        PROVE  Left(d)'
    BY <1>1, <1>3, <2>3 DEF Left
  <2>4. QED
    BY <2>1, <2>2, <2>3 DEF Left
<1>10. QED
  BY <1>6, <1>7, <1>8, <1>9

\* BEGIN, COMMIT and ROLLBACK: what is open in the user's connection changes.
LEMMA SqliteOpenStep ==
  ASSUME SP!SqliteAssumption, SqliteInv, NEW u \in Users, mine[u] # 0,
         NEW o \in {0, mine[u]}, NEW s \in 1..3, s = 1 <=> o = mine[u],
         opened' = [opened EXCEPT ![using[u]] = o],
         status' = [status EXCEPT ![u] = s],
         UNCHANGED <<conns, trans, using, mine, autoCommit, failed>>
  PROVE  SqliteInv'
<1> USE DEF SqliteInv, SP!NoTrans
<1>1. PICK c \in Conns : c = using[u]
  BY DEF SP!TypeOK, Begun
<1>2. /\ opened'[c] = o /\ \A d \in Conns \ {c} : opened'[d] = opened[d]
      /\ status'[u] = s /\ \A v \in Users \ {u} : status'[v] = status[v]
  BY <1>1 DEF SP!TypeOK
<1>3. SP!TypeOK'
  <2>1. o \in 0..MaxTrans
    BY DEF SP!TypeOK, SP!SqliteAssumption
  <2>2. opened' \in [Conns -> 0..MaxTrans] /\ status' \in [Users -> 0..3]
    BY <1>1, <2>1 DEF SP!TypeOK
  <2>3. QED
    BY <2>2 DEF SP!TypeOK
<1>4. Apart'
  BY DEF Apart
<1>5. ASSUME NEW v \in Users \ {u}, status[v] = 1 PROVE using[v] \in Conns \ {c}
  BY <1>1, <1>5 DEF Begun, Apart, SP!TypeOK
<1>6. Begun'
  BY <1>1, <1>2, <1>5 DEF Begun
<1>7. ASSUME NEW d \in Conns PROVE Left(d)'
  <2>1. CASE d = c
    BY <1>1, <1>2, <2>1 DEF Left
  <2>2. CASE d # c /\ opened[d] \in {0} \cup failed
    BY <1>2, <2>2 DEF Left
  <2>3. ASSUME d # c, NEW v \in Users, using[v] = d, mine[v] = opened[d], status[v] = 1
        PROVE  Left(d)'
    BY <1>1, <1>2, <2>3 DEF Left
  <2>4. QED
    BY <2>1, <2>2, <2>3 DEF Left
<1>8. QED
  BY <1>3, <1>4, <1>6, <1>7

\* Connections are closed that nobody has.
LEMMA SqliteCheckStep ==
  ASSUME SP!SqliteAssumption, SqliteInv, SP!CheckConnection
  PROVE  SqliteInv'
<1> USE DEF SqliteInv, SP!NoTrans
<1> DEFINE Keeps(n, kept) ==
      /\ \A i, j \in 1..n : i < j => kept[i] < kept[j]
      /\ conns' = [i \in 1..n |-> conns[kept[i]]]
      /\ opened' = [c \in Conns |-> IF c \in SP!Range(conns) \ SP!Range(conns') THEN 0
                                    ELSE opened[c]]
      /\ UNCHANGED <<trans, using, mine, autoCommit, status, failed>>
<1>0. PICK n \in 0..(Len(conns) - 1) : \E kept \in [1..n -> DOMAIN conns] : Keeps(n, kept)
  BY DEF SP!CheckConnection
<1>1. PICK kept \in [1..n -> DOMAIN conns] : Keeps(n, kept)
  BY <1>0
<1>2. /\ conns \in Seq(Conns) /\ DOMAIN conns = 1..Len(conns)
      /\ Len(conns) \in Nat /\ Len(conns) <= MaxConn /\ MaxConn \in Nat
  BY DEF SP!TypeOK, SP!SqliteAssumption
<1>3. /\ DOMAIN conns' = 1..n /\ n \in Nat /\ n <= Len(conns)
      /\ \A i \in 1..n : conns'[i] = conns[kept[i]] /\ kept[i] \in DOMAIN conns
  BY <1>1, <1>2
<1>4. /\ opened' \in [Conns -> 0..MaxTrans]
      /\ \A c \in Conns : opened'[c] = opened[c] \/ (opened'[c] = 0 /\ c \in SP!Range(conns))
  BY <1>1 DEF SP!TypeOK, SP!SqliteAssumption
<1>5. SP!TypeOK'
  <2>1. conns' \in [1..n -> Conns]
    BY <1>1, <1>2, <1>3
  <2>2. n \in Nat /\ conns' \in UNION {[1..m -> Conns] : m \in Nat}
    BY <1>3, <2>1
  <2>3. conns' \in Seq(Conns)
    BY <2>2, SeqDef
  <2>4. Len(conns') = n
    BY <1>3, <2>3
  <2>5. QED
    <3>1. conns' \in Seq(Conns) /\ Len(conns') <= MaxConn
      BY <1>2, <1>3, <2>3, <2>4
    <3>2. QED
      BY <1>1, <1>4, <3>1 DEF SP!TypeOK
<1>6. Apart'
  <2>1. ASSUME NEW i \in 1..n, NEW j \in 1..n, conns'[i] = conns'[j] PROVE i = j
    <3>1. kept[i] = kept[j]
      BY <1>3, <2>1 DEF Apart
    <3>2. kept[i] \in Int /\ kept[j] \in Int
      BY <1>2, <1>3
    <3>3. ~(i < j) /\ ~(j < i)
      BY <1>1, <3>1, <3>2
    <3>4. QED
      BY <3>3
  <2>2. \A i \in 1..n : \A u \in Users : using'[u] # conns'[i]
    BY <1>1, <1>3 DEF Apart
  <2>3. \A u, v \in Users : u # v /\ using'[u] # SP!None => using'[u] # using'[v]
    BY <1>1 DEF Apart
  <2>4. QED
    BY <1>3, <2>1, <2>2, <2>3 DEF Apart
<1>7. ASSUME NEW u \in Users, using[u] # SP!None PROVE opened'[using[u]] = opened[using[u]]
  <2>1. using[u] \in Conns
    BY <1>7 DEF SP!TypeOK
  <2>2. using[u] \notin SP!Range(conns)
    BY DEF Apart, SP!Range
  <2>3. QED
    BY <1>4, <2>1, <2>2
<1>8. Begun'
  <2>1. /\ \A u \in Users : using[u] # SP!None => opened'[using[u]] = opened[using[u]]
        /\ mine' = mine /\ status' = status /\ using' = using
    BY <1>1, <1>7
  <2>2. QED
    BY <2>1 DEF Begun
<1>9. ASSUME NEW c \in Conns PROVE Left(c)'
  BY <1>1, <1>4 DEF Left
<1>10. QED
  BY <1>5, <1>6, <1>8, <1>9

LEMMA SqliteStep ==
  ASSUME SP!SqliteAssumption, SqliteInv, [SP!Next]_SP!vars
  PROVE  SqliteInv'
<1> USE DEF SP!NoTrans
<1>1. ASSUME NEW u \in Users, SP!Execute(u) PROVE SqliteInv'
  BY <1>1, SqliteGetStep DEF SP!Execute, SqliteInv, SP!TypeOK
<1>2. ASSUME NEW u \in Users, SP!ExecuteEnds(u) PROVE SqliteInv'
  <2>1. /\ using[u] # SP!None /\ mine[u] = 0 /\ status[u] = 0
        /\ SP!Free(u, opened[using[u]]) /\ failed' = failed /\ trans' = trans
    BY <1>2 DEF SP!ExecuteEnds, SqliteInv, Begun
  <2>2. using[u] \in Conns /\ failed \subseteq 1..MaxTrans
    BY <2>1 DEF SqliteInv, SP!TypeOK
  <2>3. opened[using[u]] \in {0} \cup failed
    BY <2>1, <2>2 DEF SqliteInv, Left, Apart
  <2>4. QED
    BY <2>1, <2>2, <2>3, SqliteFreeStep
<1>3. ASSUME NEW u \in Users, SP!OpenTransaction(u) PROVE SqliteInv'
  <2>1. /\ SP!Get(u) /\ trans' = trans + 1 /\ trans < MaxTrans
        /\ mine' = [mine EXCEPT ![u] = trans + 1]
        /\ \E auto \in BOOLEAN : autoCommit' = [autoCommit EXCEPT ![u] = auto]
        /\ UNCHANGED <<opened, status, failed>>
    BY <1>3 DEF SP!OpenTransaction
  <2>2. trans' \in 0..MaxTrans
    BY <2>1 DEF SqliteInv, SP!TypeOK, SP!SqliteAssumption
  <2>3. /\ mine' \in [Users -> 0..MaxTrans] /\ \A v \in Users \ {u} : mine'[v] = mine[v]
    BY <2>1, <2>2 DEF SqliteInv, SP!TypeOK
  <2>4. autoCommit' \in [Users -> BOOLEAN]
    BY <2>1 DEF SqliteInv, SP!TypeOK
  <2>5. QED
    BY <2>1, <2>2, <2>3, <2>4, SqliteGetStep
<1>4. ASSUME NEW u \in Users, SP!Begin(u) PROVE SqliteInv'
  <2>1. /\ mine[u] # 0 /\ opened' = [opened EXCEPT ![using[u]] = mine[u]]
        /\ status' = [status EXCEPT ![u] = 1]
        /\ UNCHANGED <<conns, trans, using, mine, autoCommit, failed>>
    BY <1>4 DEF SP!Begin
  <2>2. mine[u] \in {0, mine[u]} /\ 1 \in 1..3 /\ (1 = 1 <=> mine[u] = mine[u])
    OBVIOUS
  <2>3. QED
    BY <2>1, <2>2, SqliteOpenStep
<1>5. ASSUME NEW u \in Users, NEW s \in {2, 3}, SP!Ends(u, s) PROVE SqliteInv'
  <2>1. /\ mine[u] # 0 /\ opened' = [opened EXCEPT ![using[u]] = 0]
        /\ status' = [status EXCEPT ![u] = s]
        /\ UNCHANGED <<conns, trans, using, mine, autoCommit, failed>>
    BY <1>5 DEF SP!Ends, SqliteInv, Begun
  <2>2. s \in 1..3 /\ s # 1
    BY <1>5
  <2>3. QED
    BY <2>1, <2>2, SqliteOpenStep
<1>6. ASSUME NEW u \in Users, SP!Destroy(u) PROVE SqliteInv'
  <2>1. /\ mine[u] # 0 /\ using[u] # SP!None /\ trans' = trans
        /\ mine[u] \in 1..MaxTrans /\ failed \subseteq 1..MaxTrans /\ using[u] \in Conns
    BY <1>6 DEF SP!Destroy, SqliteInv, Begun, SP!TypeOK, SP!SqliteAssumption
  <2>2. CASE SP!Free(u, 0) /\ failed' = failed
    BY <2>1, <2>2, SqliteFreeStep
  <2>3. CASE SP!Free(u, mine[u]) /\ failed' = failed \cup {mine[u]}
    <3>1. failed' \subseteq 1..MaxTrans /\ failed \subseteq failed' /\ mine[u] \in failed'
      BY <2>1, <2>3
    <3>2. QED
      BY <2>1, <2>3, <3>1, SqliteFreeStep
  <2>4. CASE status[u] # 1 /\ SP!Free(u, opened[using[u]]) /\ failed' = failed
    <3>1. opened[using[u]] \in {0} \cup failed
      BY <2>1, <2>4 DEF SqliteInv, Left, Apart
    <3>2. QED
      BY <2>1, <2>4, <3>1, SqliteFreeStep
  <2>5. QED
    BY <1>6, <2>2, <2>3, <2>4 DEF SP!Destroy
<1>7. ASSUME SP!CheckConnection PROVE SqliteInv'
  BY <1>7, SqliteCheckStep
<1>8. ASSUME UNCHANGED SP!vars PROVE SqliteInv'
  BY <1>8 DEF SP!vars, SqliteInv, SP!TypeOK, Apart, Begun, Left
<1>9. QED
  BY <1>1, <1>2, <1>3, <1>4, <1>5, <1>6, <1>7, <1>8 DEF SP!Next, SP!Commit, SP!Rollback

\* No connection of the pool has two users or is idle and in use, a transaction
\* that has begun is the one open in its connection, and anyone else meets an
\* open transaction only if it could not be ended (db/Sqlite.cpp 440-507,
\* 521-567, 662-671).
THEOREM SqliteTransactionIsOwn ==
  SP!SqliteAssumption => (SP!Spec => []SP!TransactionIsOwn)
<1>1. SUFFICES ASSUME SP!SqliteAssumption PROVE SP!Spec => []SP!TransactionIsOwn
  OBVIOUS
<1>2. SP!Init => SqliteInv
  BY <1>1, SqliteInit
<1>3. SqliteInv /\ [SP!Next]_SP!vars => SqliteInv'
  BY <1>1, SqliteStep
<1>4. SqliteInv => SP!TransactionIsOwn
  <2>1. SUFFICES ASSUME SqliteInv PROVE SP!TransactionIsOwn
    OBVIOUS
  <2>2. SP!IsInjective(conns)
    BY <2>1 DEF SqliteInv, Apart, SP!IsInjective
  <2>3. SP!Range(conns) \cap SP!Used = {}
    BY <2>1 DEF SqliteInv, Apart, SP!Range, SP!Used
  <2>4. \A c \in Conns : \/ opened[c] \in {SP!NoTrans} \cup failed
                         \/ \E u \in Users : using[u] = c /\ mine[u] = opened[c] /\ status[u] = 1
    BY <2>1 DEF SqliteInv, Left, SP!NoTrans
  <2>5. QED
    BY <2>1, <2>2, <2>3, <2>4 DEF SqliteInv, Apart, Begun, SP!TransactionIsOwn
<1>5. QED
  BY <1>2, <1>3, <1>4, PTL DEF SP!Spec

-----------------------------------------------------------------------------
(***************************************************************************)
(* ByteArray: for any size and number of nodes                             *)
(***************************************************************************)
LEMMA DivMod ==
  ASSUME NEW b \in Nat \ {0}, NEW a \in Nat
  PROVE  /\ a \div b \in Nat
         /\ a % b \in 0..b - 1
         /\ a = b * (a \div b) + (a % b)
  OBVIOUS

LEMMA TimesMonotone ==
  ASSUME NEW b \in Nat, NEW m \in Nat, NEW n \in Nat, m <= n
  PROVE  m * b \in Nat /\ n * b \in Nat /\ m * b <= n * b
  OBVIOUS

LEMMA DivUnique ==
  ASSUME NEW b \in Nat \ {0}, NEW q \in Nat, NEW r \in 0..b - 1
  PROVE  (b * q + r) \div b = q
  OBVIOUS

\* Byte a lies in one of the first n nodes.
LEMMA DivLess ==
  ASSUME NEW b \in Nat \ {0}, NEW a \in Nat, NEW n \in Nat
  PROVE  a \div b < n <=> a < n * b
  BY DivMod

\* k bytes after byte a, counted from the node of a on
LEMMA DivAdd ==
  ASSUME NEW b \in Nat \ {0}, NEW a \in Nat, NEW k \in Nat
  PROVE  (a \div b) + (((a % b) + k) \div b) = (a + k) \div b
<1> DEFINE q == a \div b r == a % b s == (r + k) \div b t == (r + k) % b
<1>1. q \in Nat /\ r \in 0..b - 1 /\ a = b * q + r
  BY DivMod
<1> HIDE DEF q, r
<1>2. r + k \in Nat
  BY <1>1
<1>3. s \in Nat /\ t \in 0..b - 1 /\ r + k = b * s + t
  BY <1>2, DivMod
<1> HIDE DEF s, t
<1>4. b * (q + s) + t = a + k /\ q + s \in Nat
  BY <1>1, <1>3
<1>5. (b * (q + s) + t) \div b = q + s
  BY <1>3, <1>4, DivUnique
<1>6. q + s = (a + k) \div b
  BY <1>4, <1>5
<1>7. QED BY <1>6 DEF q, r, s

\* The node of byte v in a list of n nodes, found from the first node ...
LEMMA AfterFirst ==
  ASSUME BA!ByteArrayAssumption, NEW n \in Nat, NEW v \in 0..n * BaseSize
  PROVE  BA!After(0, v \div BaseSize, n) = IF v = n * BaseSize THEN BA!Null ELSE v \div BaseSize
<1>1. BaseSize \in Nat \ {0} /\ v \in Nat
  BY DEF BA!ByteArrayAssumption
<1>2. v \div BaseSize \in Nat /\ (v \div BaseSize < n <=> v < n * BaseSize)
  BY <1>1, DivMod, DivLess
<1>3. n * BaseSize \in Nat
  BY <1>1
<1>4. QED BY <1>1, <1>2, <1>3 DEF BA!After

\* ... and from the node of byte p.
LEMMA AfterMoves ==
  ASSUME BA!ByteArrayAssumption, NEW n \in Nat, NEW p \in Nat, NEW k \in Nat, p + k <= n * BaseSize
  PROVE  BA!After(p \div BaseSize, ((p % BaseSize) + k) \div BaseSize, n)
           = IF p + k = n * BaseSize THEN BA!Null ELSE (p + k) \div BaseSize
<1>1. BaseSize \in Nat \ {0} /\ p + k \in Nat /\ n * BaseSize \in Nat
  BY DEF BA!ByteArrayAssumption
<1>2. (p + k) \div BaseSize \in Nat /\ ((p + k) \div BaseSize < n <=> p + k < n * BaseSize)
  BY <1>1, DivMod, DivLess
<1>3. (p \div BaseSize) + (((p % BaseSize) + k) \div BaseSize) = (p + k) \div BaseSize
  BY <1>1, DivAdd
<1>4. QED BY <1>1, <1>2, <1>3 DEF BA!After

\* _cur is the node of the position, and the null pointer is followed only at
\* the end of the last node.
CurAt ==
  /\ cur = IF position = BA!capacity THEN BA!Null ELSE position \div BaseSize
  /\ crashed => position = BA!capacity

BytesInv == BA!TypeOK /\ CurAt

LEMMA BytesInit == BA!ByteArrayAssumption /\ BA!Init => BytesInv /\ BA!B!Init
<1>1. SUFFICES ASSUME BA!ByteArrayAssumption, BA!Init PROVE BytesInv /\ BA!B!Init
  OBVIOUS
<1>2. BaseSize \in Nat \ {0} /\ MaxNodes \in Nat \ {0} /\ BA!capacity = BaseSize
  BY <1>1 DEF BA!ByteArrayAssumption, BA!Init, BA!capacity
<1>3. BA!TypeOK
  <2>1. mem \in [BA!Addresses -> Byte \cup {Junk}]
    BY <1>1 DEF BA!Init
  <2>2. nodes = 1 /\ cur = 0 /\ position = 0 /\ size = 0 /\ crashed = FALSE
    BY <1>1 DEF BA!Init
  <2>3. nodes \in 1..MaxNodes /\ cur \in 0..nodes - 1 \cup {BA!Null}
    BY <1>2, <2>2
  <2>4. position \in 0..size /\ size \in 0..BA!capacity
    BY <1>2, <2>2
  <2>5. crashed \in BOOLEAN
    BY <2>2
  <2>6. QED BY <2>1, <2>3, <2>4, <2>5 DEF BA!TypeOK
<1>4. CurAt
  <2>1. (BaseSize * 0 + 0) \div BaseSize = 0
    BY <1>2, DivUnique
  <2>2. QED BY <1>1, <1>2, <2>1 DEF BA!Init, CurAt
<1>5. BA!B!Init
  BY <1>1 DEF BA!Init, BA!B!Init, BA!content
<1>6. QED BY <1>3, <1>4, <1>5 DEF BytesInv

\* addCapacity makes room for n bytes and leaves _cur at the position.
LEMMA GrownFits ==
  ASSUME BA!ByteArrayAssumption, BytesInv, NEW n \in Nat \ {0},
         BA!Grown(n).nodes <= MaxNodes
  PROVE  /\ BA!Grown(n).nodes \in 1..MaxNodes /\ nodes <= BA!Grown(n).nodes
         /\ position + n <= BA!Grown(n).nodes * BaseSize
         /\ BA!Grown(n).cur = position \div BaseSize /\ BA!Grown(n).cur # BA!Null
<1> DEFINE room == nodes * BaseSize - position
           x == n - room + BaseSize - 1
           more == IF room >= n THEN 0 ELSE x \div BaseSize
<1>1. /\ BaseSize \in Nat \ {0} /\ MaxNodes \in Nat \ {0}
      /\ nodes \in 1..MaxNodes /\ position \in Nat /\ nodes * BaseSize \in Nat
      /\ position <= nodes * BaseSize
  BY DEF BA!ByteArrayAssumption, BytesInv, BA!TypeOK, BA!capacity
<1>2. room \in Nat
  BY <1>1
<1>3. /\ BA!Grown(n).nodes = nodes + more
      /\ BA!Grown(n).cur = IF room = 0 /\ more > 0 THEN nodes ELSE cur
  BY DEF BA!Grown, BA!capacity
<1>4. more \in Nat /\ n - room <= more * BaseSize
  <2>1. CASE room >= n
    BY <1>1, <1>2, <2>1
  <2>2. CASE room < n
    <3>1. x \in Nat /\ more = x \div BaseSize
      BY <1>1, <1>2, <2>2
    <3> HIDE DEF x, room
    <3> HIDE DEF more
    <3>2. more \in Nat /\ x % BaseSize \in 0..BaseSize - 1 /\ x = BaseSize * more + (x % BaseSize)
      BY <1>1, <3>1, DivMod
    <3>3. x = n - room + BaseSize - 1
      BY DEF x
    <3>4. QED BY <1>1, <1>2, <3>2, <3>3
  <2>3. QED BY <1>1, <1>2, <2>1, <2>2
<1> HIDE DEF more
<1>5. (nodes + more) * BaseSize = nodes * BaseSize + more * BaseSize
  BY <1>1, <1>4
<1>6. nodes + more \in 1..MaxNodes /\ position + n <= (nodes + more) * BaseSize
  BY <1>1, <1>2, <1>3, <1>4, <1>5
<1>7. CASE room = 0
  <2>1. more > 0
    BY <1>1, <1>4, <1>7
  <2>2. position \div BaseSize = nodes
    <3>1. position = BaseSize * nodes + 0
      BY <1>1, <1>7
    <3>2. QED BY <1>1, <3>1, DivUnique
  <2>3. nodes # BA!Null
    BY <1>1, <1>4, <1>6, <2>1 DEF BA!Null
  <2>4. QED BY <1>1, <1>3, <1>4, <1>6, <1>7, <2>1, <2>2, <2>3
<1>8. CASE room # 0
  <2>1. position # nodes * BaseSize /\ position < nodes * BaseSize
    BY <1>1, <1>8
  <2>2. cur = position \div BaseSize
    BY <2>1 DEF BytesInv, CurAt, BA!capacity
  <2>3. position \div BaseSize < nodes /\ position \div BaseSize \in Nat
    <3>1. nodes \in Nat
      BY <1>1
    <3>2. position \div BaseSize \in Nat
      BY <1>1, DivMod
    <3>3. position \div BaseSize < nodes <=> position < nodes * BaseSize
      BY <1>1, <3>1, DivLess
    <3>4. QED BY <2>1, <3>2, <3>3
  <2>4. position \div BaseSize # BA!Null
    BY <1>1, <2>3 DEF BA!Null
  <2>5. QED BY <1>1, <1>3, <1>4, <1>6, <1>8, <2>2, <2>4
<1>9. QED BY <1>7, <1>8

\* Bytes stored at the position go to the addresses from the position on.
LEMMA StoredAt ==
  ASSUME BA!ByteArrayAssumption, BytesInv, NEW d
  PROVE  BA!Stored(position \div BaseSize, d) =
           [a \in BA!Addresses |->
             IF a + 1 - position \in DOMAIN d THEN d[a + 1 - position] ELSE mem[a]]
<1>1. BaseSize \in Nat \ {0} /\ position \in Nat /\ MaxNodes \in Nat
  BY DEF BA!ByteArrayAssumption, BytesInv, BA!TypeOK
<1>2. (position \div BaseSize) * BaseSize + (position % BaseSize) = position
  BY <1>1, DivMod
<1>3. QED BY <1>2 DEF BA!Stored, BA!Offset

LEMMA DataIsSeq == ASSUME NEW d \in BA!Data, BA!ByteArrayAssumption
  PROVE d \in Seq(Byte) /\ Len(d) \in Nat /\ DOMAIN d = 1..Len(d)
<1>1. PICK n \in 0..BaseSize + 1 : d \in [1..n -> Byte]
  BY DEF BA!Data
<1>2. n \in Nat
  BY DEF BA!ByteArrayAssumption
<1>3. d \in Seq(Byte)
  BY <1>1, <1>2, SeqDef
<1>4. QED BY <1>3

\* The bytes of the first n of m addresses are a sequence.
LEMMA MemoryIsSeq ==
  ASSUME NEW S, NEW f, NEW m \in Nat, NEW n \in Nat, n <= m, \A a \in 0..m - 1 : f[a] \in S
  PROVE  [i \in 1..n |-> f[i - 1]] \in Seq(S) /\ Len([i \in 1..n |-> f[i - 1]]) = n
<1>1. \A i \in 1..n : i - 1 \in 0..m - 1
  OBVIOUS
<1>2. [i \in 1..n |-> f[i - 1]] \in [1..n -> S]
  BY <1>1
<1>3. [i \in 1..n |-> f[i - 1]] \in Seq(S)
  BY <1>2, SeqDef
<1>4. DOMAIN [i \in 1..n |-> f[i - 1]] = 1..n
  OBVIOUS
<1> HIDE <1>2
<1>5. QED BY <1>3, <1>4

LEMMA ContentIsSeq ==
  ASSUME BA!ByteArrayAssumption, BytesInv
  PROVE  /\ BA!content \in Seq(Byte \cup {Junk}) /\ Len(BA!content) = size
         /\ size \in Nat /\ position \in 0..size /\ size <= nodes * BaseSize
         /\ nodes * BaseSize <= MaxNodes * BaseSize /\ nodes * BaseSize \in Nat
         /\ \A a \in 0..MaxNodes * BaseSize - 1 : mem[a] \in Byte \cup {Junk}
         /\ MaxNodes * BaseSize \in Nat
<1>1. /\ BaseSize \in Nat \ {0} /\ MaxNodes \in Nat /\ nodes \in 1..MaxNodes
      /\ position \in 0..size /\ size \in 0..nodes * BaseSize
      /\ mem \in [0..MaxNodes * BaseSize - 1 -> Byte \cup {Junk}]
  BY DEF BA!ByteArrayAssumption, BytesInv, BA!TypeOK, BA!capacity, BA!Addresses
<1>2. nodes * BaseSize \in Nat /\ MaxNodes * BaseSize \in Nat
      /\ nodes * BaseSize <= MaxNodes * BaseSize
  BY <1>1
<1>3. size \in Nat /\ \A a \in 0..size - 1 : mem[a] \in Byte \cup {Junk}
  BY <1>1, <1>2
<1>4. BA!content \in Seq(Byte \cup {Junk}) /\ Len(BA!content) = size
  BY <1>3, MemoryIsSeq DEF BA!content
<1>5. QED BY <1>1, <1>2, <1>3, <1>4

\* Whatever stores d at the position and moves the position and the size does
\* what Bytes says of writing d.
LEMMA StoresWrite ==
  ASSUME BA!ByteArrayAssumption, BytesInv, NEW d \in Seq(Byte),
         position' = position + Len(d), size' = BA!Larger(size, position'),
         nodes' \in 1..MaxNodes, nodes <= nodes', position' <= nodes' * BaseSize,
         mem' = [a \in BA!Addresses |->
                  IF a + 1 - position \in DOMAIN d THEN d[a + 1 - position] ELSE mem[a]]
  PROVE  /\ mem' \in [BA!Addresses -> Byte \cup {Junk}]
         /\ position' \in 0..size' /\ size' \in 0..nodes' * BaseSize
         /\ BA!B!Write(d)
<1>1. /\ BaseSize \in Nat \ {0} /\ MaxNodes \in Nat /\ nodes \in 1..MaxNodes
      /\ Len(d) \in Nat /\ DOMAIN d = 1..Len(d) /\ \A i \in 1..Len(d) : d[i] \in Byte
  BY DEF BA!ByteArrayAssumption, BytesInv, BA!TypeOK
<1>2. /\ Len(BA!content) = size /\ size \in Nat /\ position \in 0..size
      /\ size <= nodes * BaseSize /\ MaxNodes * BaseSize \in Nat
      /\ \A a \in 0..MaxNodes * BaseSize - 1 : mem[a] \in Byte \cup {Junk}
  BY ContentIsSeq
<1>3. /\ nodes * BaseSize <= nodes' * BaseSize /\ nodes' * BaseSize <= MaxNodes * BaseSize
      /\ nodes * BaseSize \in Nat /\ nodes' * BaseSize \in Nat
  <2>1. nodes \in Nat /\ nodes' \in Nat /\ nodes' <= MaxNodes /\ BaseSize \in Nat
    BY <1>1
  <2>2. QED BY <1>1, <2>1, TimesMonotone
<1>4. position' \in Nat /\ size' = IF size > position' THEN size ELSE position'
  BY <1>1, <1>2 DEF BA!Larger
<1>5. position' \in 0..size' /\ size' \in 0..nodes' * BaseSize
  BY <1>2, <1>3, <1>4
<1>6. mem' \in [BA!Addresses -> Byte \cup {Junk}]
  BY <1>1, <1>2 DEF BA!Addresses
<1>7. BA!content' = [i \in 1..size' |->
         IF i \in position + 1..position' THEN d[i - position] ELSE BA!content[i]]
  <2>1. BA!content' = [i \in 1..size' |-> mem'[i - 1]]
    BY DEF BA!content
  <2> SUFFICES ASSUME NEW i \in 1..size'
               PROVE  mem'[i - 1] = IF i \in position + 1..position' THEN d[i - position]
                                    ELSE BA!content[i]
    BY <2>1
  <2>2. i - 1 \in BA!Addresses /\ i - 1 + 1 - position = i - position
    BY <1>2, <1>3, <1>5 DEF BA!Addresses
  <2>3. mem'[i - 1] = IF i - position \in 1..Len(d) THEN d[i - position] ELSE mem[i - 1]
    BY <1>1, <2>2
  <2>4. CASE i \in position + 1..position'
    BY <1>1, <1>2, <2>3, <2>4
  <2>5. CASE i \notin position + 1..position'
    <3>1. i \in 1..size /\ ~(i - position \in 1..Len(d))
      BY <1>1, <1>2, <1>4, <2>5
    <3>2. BA!content[i] = mem[i - 1]
      BY <3>1 DEF BA!content
    <3>3. QED BY <2>3, <2>5, <3>1, <3>2
  <2>6. QED BY <2>4, <2>5
<1>8. size' = BA!B!End
  BY <1>2, <1>4 DEF BA!B!End
<1>9. BA!B!Write(d)
  BY <1>7, <1>8 DEF BA!B!Write
<1>10. QED BY <1>5, <1>6, <1>9

\* The node of the position, and the parts of the type, after a step.
LEMMA MovedTo ==
  ASSUME BA!ByteArrayAssumption, NEW n \in 1..MaxNodes, NEW v \in 0..n * BaseSize,
         nodes' = n, position' = v, crashed' = FALSE,
         cur' = IF v = n * BaseSize THEN BA!Null ELSE v \div BaseSize,
         mem' \in [BA!Addresses -> Byte \cup {Junk}],
         position' \in 0..size', size' \in 0..n * BaseSize
  PROVE  BytesInv'
<1>1. BaseSize \in Nat \ {0} /\ n \in Nat /\ v \in Nat /\ n * BaseSize \in Nat
  BY DEF BA!ByteArrayAssumption
<1>2. BA!capacity' = n * BaseSize
  BY DEF BA!capacity
<1>3. CurAt'
  BY <1>2 DEF CurAt
<1>4. cur' \in 0..nodes' - 1 \cup {BA!Null}
  <2>1. CASE v = n * BaseSize
    BY <2>1
  <2>2. CASE v # n * BaseSize
    <3>1. v < n * BaseSize
      BY <1>1, <2>2
    <3>2. v \div BaseSize \in Nat /\ v \div BaseSize < n
      BY <1>1, <3>1, DivMod, DivLess
    <3>3. QED BY <1>1, <2>2, <3>2
  <2>3. QED BY <2>1, <2>2
<1>5. crashed' \in BOOLEAN /\ ~crashed'
  OBVIOUS
<1>6. nodes' \in 1..MaxNodes
  OBVIOUS
<1>7. BA!TypeOK'
  BY <1>2, <1>4, <1>5, <1>6 DEF BA!TypeOK
<1>8. QED BY <1>3, <1>7 DEF BytesInv

LEMMA WriteStep ==
  ASSUME BA!ByteArrayAssumption, BytesInv, NEW d \in BA!Data, BA!Write(d)
  PROVE  BytesInv' /\ BA!B!Write(d)
<1>1. d \in Seq(Byte) /\ Len(d) \in Nat \ {0} /\ ~crashed /\ BA!Grown(Len(d)).nodes <= MaxNodes
  <2>1. d \in Seq(Byte) /\ Len(d) \in Nat /\ d # << >>
    BY DataIsSeq DEF BA!Write
  <2>2. Len(d) # 0
    BY <2>1
  <2>3. QED BY <2>1, <2>2 DEF BA!Write
<1>2. PICK g : g = BA!Grown(Len(d))
  OBVIOUS
<1>3. /\ g.nodes \in 1..MaxNodes /\ nodes <= g.nodes
      /\ position + Len(d) <= g.nodes * BaseSize
      /\ g.cur = position \div BaseSize /\ g.cur # BA!Null
  BY <1>1, <1>2, GrownFits
<1>4. /\ nodes' = g.nodes /\ position' = position + Len(d)
      /\ cur' = BA!After(g.cur, ((position % BaseSize) + Len(d)) \div BaseSize, nodes')
      /\ size' = BA!Larger(size, position')
      /\ mem' = BA!Stored(g.cur, d) /\ crashed' = FALSE
  BY <1>1, <1>2, <1>3 DEF BA!Write, BA!Offset, BytesInv, BA!TypeOK
<1>5. /\ mem' \in [BA!Addresses -> Byte \cup {Junk}]
      /\ position' \in 0..size' /\ size' \in 0..nodes' * BaseSize
      /\ BA!B!Write(d)
  <2>1. mem' = [a \in BA!Addresses |->
                 IF a + 1 - position \in DOMAIN d THEN d[a + 1 - position] ELSE mem[a]]
    BY <1>3, <1>4, StoredAt
  <2>2. nodes' \in 1..MaxNodes /\ nodes <= nodes' /\ position' <= nodes' * BaseSize
    BY <1>3, <1>4
  <2>3. QED BY <1>1, <1>4, <2>1, <2>2, StoresWrite
<1>6. position \in Nat /\ g.nodes \in Nat /\ g.nodes * BaseSize \in Nat
  BY <1>3 DEF BytesInv, BA!TypeOK, BA!ByteArrayAssumption
<1>7. cur' = IF position + Len(d) = g.nodes * BaseSize THEN BA!Null
             ELSE (position + Len(d)) \div BaseSize
  BY <1>1, <1>3, <1>4, <1>6, AfterMoves
<1>8. position + Len(d) \in 0..g.nodes * BaseSize
  BY <1>1, <1>3, <1>6
<1>9. BytesInv'
  BY <1>1, <1>3, <1>4, <1>5, <1>7, <1>8, MovedTo
<1>10. QED BY <1>5, <1>9

LEMMA ReceiveStep ==
  ASSUME BA!ByteArrayAssumption, BytesInv, NEW d \in BA!Data, NEW room \in 1..BaseSize + 1,
         BA!Receive(room, d)
  PROVE  BytesInv' /\ BA!B!Write(d)
<1>1. /\ d \in Seq(Byte) /\ Len(d) \in Nat /\ room \in Nat \ {0} /\ Len(d) <= room
      /\ ~crashed /\ BA!Grown(room).nodes <= MaxNodes
  <2>1. d \in Seq(Byte) /\ Len(d) \in Nat
    BY DataIsSeq
  <2>2. QED BY <2>1 DEF BA!Receive
<1>2. PICK g : g = BA!Grown(room)
  OBVIOUS
<1>3. /\ g.nodes \in 1..MaxNodes /\ nodes <= g.nodes
      /\ position + room <= g.nodes * BaseSize
      /\ g.cur = position \div BaseSize /\ g.cur # BA!Null
  BY <1>1, <1>2, GrownFits
<1>4. nodes' = g.nodes /\ mem' = BA!Stored(g.cur, d) /\ crashed' = FALSE
  BY <1>1, <1>2 DEF BA!Receive, BytesInv, BA!TypeOK
<1>5. /\ position \in Nat /\ size \in Nat /\ position <= size
      /\ g.nodes \in Nat /\ g.nodes * BaseSize \in Nat
  BY <1>3 DEF BytesInv, BA!TypeOK, BA!ByteArrayAssumption
<1>6. position + Len(d) \in 0..g.nodes * BaseSize
  BY <1>1, <1>3, <1>5
<1>7. /\ position' = position + Len(d) /\ size' = BA!Larger(size, position')
      /\ cur' = IF position + Len(d) = g.nodes * BaseSize THEN BA!Null
                ELSE (position + Len(d)) \div BaseSize
  <2>1. CASE d = << >>
    <3>1. cur' = g.cur /\ position' = position /\ size' = size
      BY <1>2, <2>1 DEF BA!Receive
    <3>2. Len(d) = 0 /\ position # g.nodes * BaseSize
      BY <1>1, <1>3, <1>5, <2>1
    <3>3. QED BY <1>3, <1>5, <3>1, <3>2 DEF BA!Larger
  <2>2. CASE d # << >>
    <3>1. BA!Seek(position + Len(d), g.nodes)
      BY <1>2, <2>2 DEF BA!Receive
    <3>2. BA!After(0, (position + Len(d)) \div BaseSize, g.nodes)
            = IF position + Len(d) = g.nodes * BaseSize THEN BA!Null
              ELSE (position + Len(d)) \div BaseSize
      BY <1>5, <1>6, AfterFirst
    <3>3. QED BY <3>1, <3>2 DEF BA!Seek
  <2>3. QED BY <2>1, <2>2
<1>8. /\ mem' \in [BA!Addresses -> Byte \cup {Junk}]
      /\ position' \in 0..size' /\ size' \in 0..nodes' * BaseSize
      /\ BA!B!Write(d)
  <2>1. mem' = [a \in BA!Addresses |->
                 IF a + 1 - position \in DOMAIN d THEN d[a + 1 - position] ELSE mem[a]]
    BY <1>3, <1>4, StoredAt
  <2>2. nodes' \in 1..MaxNodes /\ nodes <= nodes' /\ position' <= nodes' * BaseSize
    BY <1>3, <1>4, <1>5, <1>6, <1>7
  <2>3. QED BY <1>1, <1>7, <2>1, <2>2, StoresWrite
<1>9. BytesInv'
  BY <1>1, <1>3, <1>4, <1>6, <1>7, <1>8, MovedTo
<1>10. QED BY <1>8, <1>9

\* setPosition(v), called by the user or after the socket has written
LEMMA SeekStep ==
  ASSUME BA!ByteArrayAssumption, BytesInv, NEW v \in Nat, v <= nodes * BaseSize,
         BA!Seek(v, nodes), mem' = mem, nodes' = nodes, crashed' = FALSE
  PROVE  /\ BytesInv' /\ BA!B!SetPosition(v)
         /\ v <= size => BA!content' = BA!content
<1>1. /\ nodes \in 1..MaxNodes /\ nodes \in Nat /\ position \in 0..size /\ size \in Nat
      /\ size <= nodes * BaseSize /\ nodes * BaseSize \in Nat
      /\ nodes * BaseSize <= MaxNodes * BaseSize /\ MaxNodes * BaseSize \in Nat
      /\ mem \in [BA!Addresses -> Byte \cup {Junk}]
      /\ \A a \in 0..MaxNodes * BaseSize - 1 : mem[a] \in Byte \cup {Junk}
      /\ Len(BA!content) = size
  <2>1. nodes \in 1..MaxNodes /\ nodes \in Nat /\ mem \in [BA!Addresses -> Byte \cup {Junk}]
    BY DEF BytesInv, BA!TypeOK, BA!ByteArrayAssumption
  <2>2. QED BY <2>1, ContentIsSeq
<1>2. v \in 0..nodes * BaseSize
  BY <1>1
<1>3. /\ position' = v /\ size' = IF size > v THEN size ELSE v
      /\ cur' = IF v = nodes * BaseSize THEN BA!Null ELSE v \div BaseSize
  BY <1>1, <1>2, AfterFirst DEF BA!Seek, BA!Larger
<1>4. position' \in 0..size' /\ size' \in 0..nodes * BaseSize /\ size' \in Nat /\ size <= size'
  BY <1>1, <1>2, <1>3
<1>5. BytesInv'
  BY <1>1, <1>2, <1>3, <1>4, MovedTo
<1>6. BA!content' = [i \in 1..size' |-> mem[i - 1]]
  BY DEF BA!content
<1>7. Len(BA!content') = size'
  <2>1. PICK top \in Nat : top = MaxNodes * BaseSize
    BY <1>1
  <2>2. size' \in Nat /\ size' <= top /\ \A a \in 0..top - 1 : mem[a] \in Byte \cup {Junk}
    BY <1>1, <1>4, <2>1
  <2>3. Len([i \in 1..size' |-> mem[i - 1]]) = size'
    BY <2>2, MemoryIsSeq
  <2>4. QED BY <1>6, <2>3
<1>8. \A i \in 1..Len(BA!content) : BA!content'[i] = BA!content[i]
  <2>1. SUFFICES ASSUME NEW i \in 1..size PROVE BA!content'[i] = BA!content[i]
    BY <1>1
  <2>2. i \in 1..size'
    BY <1>1, <1>4
  <2>3. QED BY <1>6, <2>1, <2>2 DEF BA!content
<1>9. BA!B!SetPosition(v)
  BY <1>1, <1>3, <1>7, <1>8 DEF BA!B!SetPosition, BA!B!End
<1>10. ASSUME v <= size PROVE BA!content' = BA!content
  <2>1. size' = size
    BY <1>1, <1>3, <1>10
  <2>2. QED BY <1>6, <2>1 DEF BA!content
<1>11. QED BY <1>5, <1>9, <1>10

LEMMA SetPositionStep ==
  ASSUME BA!ByteArrayAssumption, BytesInv, NEW v \in Nat, BA!SetPosition(v)
  PROVE  BytesInv' /\ BA!B!SetPosition(v)
<1>1. /\ v <= nodes * BaseSize /\ BA!Seek(v, nodes)
      /\ mem' = mem /\ nodes' = nodes /\ crashed' = FALSE
  BY DEF BA!SetPosition, BA!capacity, BytesInv, BA!TypeOK
<1>2. QED BY <1>1, SeekStep

LEMMA SendStep ==
  ASSUME BA!ByteArrayAssumption, BytesInv, NEW k \in Nat, BA!Send(k)
  PROVE  BytesInv' /\ BA!B!Read(k)
<1>1. /\ position + k <= size /\ BA!Seek(position + k, nodes)
      /\ mem' = mem /\ nodes' = nodes /\ crashed' = FALSE
      /\ position + k \in Nat
  BY DEF BA!Send, BA!ReadSize, BytesInv, BA!TypeOK
<1>2. size \in Nat /\ size <= nodes * BaseSize /\ nodes * BaseSize \in Nat /\ Len(BA!content) = size
  BY ContentIsSeq
<1>3. position + k <= nodes * BaseSize
  BY <1>1, <1>2
<1>4. BytesInv' /\ BA!content' = BA!content
  BY <1>1, <1>3, SeekStep
<1>5. position' = position + k
  BY <1>1 DEF BA!Seek
<1>6. BA!B!Read(k)
  BY <1>1, <1>2, <1>4, <1>5 DEF BA!B!Read
<1>7. QED BY <1>4, <1>6

LEMMA ReadStep ==
  ASSUME BA!ByteArrayAssumption, BytesInv, NEW n \in Nat, BA!Read(n)
  PROVE  BytesInv' /\ (~crashed' => BA!B!Read(n))
<1>1. /\ crashed = FALSE /\ position + n <= size /\ mem' = mem /\ nodes' = nodes /\ size' = size
      /\ mem \in [BA!Addresses -> Byte \cup {Junk}] /\ nodes \in 1..MaxNodes /\ nodes \in Nat
  BY DEF BA!Read, BA!ReadSize, BytesInv, BA!TypeOK, BA!ByteArrayAssumption
<1>2. /\ size \in Nat /\ size <= nodes * BaseSize /\ nodes * BaseSize \in Nat
      /\ position \in 0..size /\ Len(BA!content) = size
  BY ContentIsSeq
<1>3. BA!content' = BA!content
  BY <1>1 DEF BA!content
<1>4. crashed' = (cur = BA!Null)
  BY DEF BA!Read
<1>5. CASE cur = BA!Null
  <2>1. crashed' = TRUE /\ cur' = cur /\ position' = position
    BY <1>4, <1>5 DEF BA!Read
  <2>2. position = nodes * BaseSize
    <3>1. BaseSize \in Nat \ {0} /\ BA!Null = MaxNodes
      BY DEF BA!ByteArrayAssumption, BA!Null
    <3>2. SUFFICES ASSUME position # nodes * BaseSize PROVE FALSE
      OBVIOUS
    <3>3. position < nodes * BaseSize /\ position \in Nat
      BY <1>2, <3>2
    <3>4. position \div BaseSize < nodes /\ position \div BaseSize \in Nat
      BY <1>1, <3>1, <3>3, DivMod, DivLess
    <3>5. cur = position \div BaseSize
      BY <3>2 DEF BytesInv, CurAt, BA!capacity
    <3>6. QED BY <1>1, <1>5, <3>1, <3>4, <3>5
  <2>3. CurAt'
    BY <1>1, <2>1, <2>2 DEF BytesInv, CurAt, BA!capacity
  <2>4. BA!TypeOK'
    BY <1>1, <2>1 DEF BytesInv, BA!TypeOK, BA!capacity
  <2>5. QED BY <2>1, <2>3, <2>4 DEF BytesInv
<1>6. CASE cur # BA!Null
  <2>1. /\ crashed' = FALSE /\ position' = position + n
        /\ cur' = IF n = 0 THEN cur
                  ELSE BA!After(cur, ((position % BaseSize) + n) \div BaseSize, nodes)
    BY <1>4, <1>6 DEF BA!Read, BA!Offset
  <2>2. cur = position \div BaseSize /\ position # nodes * BaseSize
    BY <1>6 DEF BytesInv, CurAt, BA!capacity
  <2>3. position \in Nat /\ position + n <= nodes * BaseSize /\ position + n \in 0..nodes * BaseSize
    BY <1>1, <1>2
  <2>4. cur' = IF position + n = nodes * BaseSize THEN BA!Null ELSE (position + n) \div BaseSize
    <3>1. CASE n = 0
      BY <1>2, <2>1, <2>2, <2>3, <3>1
    <3>2. CASE n # 0
      BY <1>1, <2>1, <2>2, <2>3, <3>2, AfterMoves
    <3>3. QED BY <3>1, <3>2
  <2>5. /\ mem' \in [BA!Addresses -> Byte \cup {Junk}]
        /\ position' \in 0..size' /\ size' \in 0..nodes * BaseSize
    BY <1>1, <1>2, <2>1, <2>3
  <2>6. BytesInv'
    BY <1>1, <2>1, <2>3, <2>4, <2>5, MovedTo
  <2>7. BA!B!Read(n)
    BY <1>1, <1>2, <1>3, <2>1 DEF BA!B!Read
  <2>8. QED BY <2>6, <2>7
<1>7. QED BY <1>5, <1>6

LEMMA ClearStep ==
  ASSUME BA!ByteArrayAssumption, BytesInv, BA!Clear
  PROVE  BytesInv' /\ BA!B!Clear
<1>1. BaseSize \in Nat \ {0} /\ MaxNodes \in Nat \ {0} /\ 1 * BaseSize = BaseSize
  BY DEF BA!ByteArrayAssumption
<1>2. /\ position' = 0 /\ size' = 0 /\ nodes' = 1 /\ cur' = 0 /\ crashed' = FALSE
      /\ mem' = [a \in BA!Addresses |-> IF a < BaseSize THEN mem[a] ELSE Junk]
      /\ mem \in [BA!Addresses -> Byte \cup {Junk}]
  BY DEF BA!Clear, BytesInv, BA!TypeOK
<1>3. mem' \in [BA!Addresses -> Byte \cup {Junk}]
  BY <1>2
<1>4. 0 \div BaseSize = 0
  <2>1. (BaseSize * 0 + 0) \div BaseSize = 0
    BY <1>1, DivUnique
  <2>2. QED BY <1>1, <2>1
<1>5. BytesInv'
  <2>1. 1 \in 1..MaxNodes /\ 0 \in 0..1 * BaseSize /\ 0 # 1 * BaseSize
    BY <1>1
  <2>2. position' \in 0..size' /\ size' \in 0..1 * BaseSize
    BY <1>1, <1>2
  <2>3. QED BY <1>2, <1>3, <1>4, <2>1, <2>2, MovedTo
<1>6. BA!content' = << >>
  BY <1>2 DEF BA!content
<1>7. QED BY <1>2, <1>5, <1>6 DEF BA!B!Clear

\* m bytes of the content from the position on
LEMMA ContentFrom ==
  ASSUME BA!ByteArrayAssumption, BytesInv, NEW m \in 0..size - position
  PROVE  SubSeq(BA!content, position + 1, position + m) = [i \in 1..m |-> mem[position + i - 1]]
<1>1. size \in Nat /\ position \in 0..size /\ BA!content \in Seq(Byte \cup {Junk})
      /\ Len(BA!content) = size
  BY ContentIsSeq
<1>2. SubSeq(BA!content, position + 1, position + m)
        = [i \in 1..m |-> BA!content[i + (position + 1) - 1]]
  BY <1>1
<1>3. ASSUME NEW i \in 1..m
      PROVE  BA!content[i + (position + 1) - 1] = mem[position + i - 1]
  <2>1. PICK j : j = i + (position + 1) - 1
    OBVIOUS
  <2>2. j \in 1..size /\ j - 1 = position + i - 1
    BY <1>1, <2>1
  <2>3. BA!content[j] = mem[j - 1]
    BY <2>2 DEF BA!content
  <2>4. QED BY <2>1, <2>2, <2>3
<1>4. QED BY <1>2, <1>3

\* _cur is at the position, what is read is what is there, and toString() shows
\* it if that takes two nodes at most.
LEMMA BytesInvIsExact == BA!ByteArrayAssumption /\ BytesInv => BA!CurExact
<1> SUFFICES ASSUME BA!ByteArrayAssumption, BytesInv PROVE BA!CurExact
  OBVIOUS
<1>1. /\ BaseSize \in Nat \ {0} /\ size \in Nat /\ position \in 0..size /\ position \in Nat
      /\ size <= nodes * BaseSize /\ nodes * BaseSize \in Nat
      /\ BA!capacity = nodes * BaseSize
  BY ContentIsSeq DEF BA!ByteArrayAssumption, BA!capacity
<1>2. ASSUME size - position > 0
      PROVE  cur = position \div BaseSize
             /\ cur * BaseSize + (position % BaseSize) = position
             /\ cur * BaseSize \in Nat /\ position % BaseSize \in 0..BaseSize - 1
  <2>1. position # nodes * BaseSize
    BY <1>1, <1>2
  <2>2. cur = position \div BaseSize
    BY <1>1, <2>1 DEF BytesInv, CurAt
  <2>3. PICK q \in Nat : q = position \div BaseSize
    BY <1>1, DivMod
  <2>4. position % BaseSize \in 0..BaseSize - 1 /\ position = BaseSize * q + (position % BaseSize)
    BY <1>1, <2>3, DivMod
  <2>5. q * BaseSize = BaseSize * q /\ q * BaseSize \in Nat
    BY <1>1
  <2>6. QED BY <2>2, <2>3, <2>4, <2>5
<1>3. ASSUME NEW n \in 1..BA!ReadSize
      PROVE  BA!Fetched(n) = SubSeq(BA!content, position + 1, position + n)
  <2>1. size - position > 0 /\ n \in 0..size - position
    BY <1>1 DEF BA!ReadSize
  <2>2. PICK b : b = cur * BaseSize
    OBVIOUS
  <2>3. PICK o : o = position % BaseSize
    OBVIOUS
  <2>4. b + o = position /\ b \in Nat /\ o \in Nat
    BY <1>1, <1>2, <2>1, <2>2, <2>3
  <2>5. BA!Fetched(n) = [i \in 1..n |-> mem[b + o + i - 1]]
    BY <2>2, <2>3 DEF BA!Fetched, BA!Offset
  <2>6. QED BY <2>1, <2>4, <2>5, ContentFrom
<1>4. ASSUME BA!Offset + BA!ReadSize <= 2 * BaseSize, BA!ReadSize > 0
      PROVE  BA!Shown = SubSeq(BA!content, position + 1, size)
  <2>1. PICK b : b = cur * BaseSize
    OBVIOUS
  <2>2. PICK o : o = position % BaseSize
    OBVIOUS
  <2>3. PICK m : m = size - position
    OBVIOUS
  <2>4. /\ b + o = position /\ b \in Nat /\ o \in 0..BaseSize - 1 /\ m \in Nat \ {0}
        /\ o + m <= 2 * BaseSize /\ position + m = size
    BY <1>1, <1>2, <1>4, <2>1, <2>2, <2>3 DEF BA!ReadSize, BA!Offset
  <2>5. PICK last : last = (o + m - 1) \div BaseSize
    OBVIOUS
  <2>6. BA!Shown = [i \in 1..m |->
          mem[b + IF (o + i - 1) \div BaseSize = last THEN o + i - 1 ELSE (o + i - 1) % BaseSize]]
    BY <2>1, <2>2, <2>3, <2>5 DEF BA!Shown, BA!ReadSize, BA!Offset
  <2>7. ASSUME NEW i \in 1..m, (o + i - 1) \div BaseSize # last
        PROVE  (o + i - 1) % BaseSize = o + i - 1
    <3>1. PICK from \in Nat : from = o + i - 1
      BY <2>4
    <3>2. PICK q \in Nat : q = from \div BaseSize
      BY <1>1, DivMod
    <3>3. PICK r \in 0..BaseSize - 1 : r = from % BaseSize
      BY <1>1, DivMod
    <3>4. from = BaseSize * q + r
      BY <1>1, <3>2, <3>3, DivMod
    <3>5. PICK end \in Nat : end = o + m - 1
      BY <2>4
    <3>6. last \in Nat /\ (last < 2 <=> end < 2 * BaseSize)
      BY <1>1, <2>5, <3>5, DivLess, DivMod
    <3>7. last < 2
      BY <1>1, <2>4, <3>5, <3>6
    <3>8. q < 2
      <4>1. q < 2 <=> from < 2 * BaseSize
        BY <1>1, <3>2, DivLess
      <4>2. QED BY <1>1, <2>4, <3>1, <4>1
    <3>9. q # last
      BY <2>7, <3>1, <3>2
    <3>10. CASE q = 0
      BY <1>1, <3>1, <3>3, <3>4, <3>10
    <3>11. CASE q = 1 /\ last = 0
      <4>1. last < 1 <=> end < 1 * BaseSize
        BY <1>1, <2>5, <3>5, DivLess
      <4>2. end < BaseSize
        BY <1>1, <3>11, <4>1
      <4>3. from >= BaseSize /\ from <= end
        BY <1>1, <2>4, <3>1, <3>4, <3>5, <3>11
      <4>4. QED BY <1>1, <4>2, <4>3
    <3>12. QED BY <3>6, <3>7, <3>8, <3>9, <3>10, <3>11
  <2>8. BA!Shown = [i \in 1..m |-> mem[position + i - 1]]
    <3>1. ASSUME NEW i \in 1..m PROVE b + (o + i - 1) = position + i - 1
      BY <1>1, <2>4
    <3>2. QED BY <2>6, <2>7, <3>1
  <2>9. m \in 0..size - position /\ position + m = size
    BY <1>1, <2>3, <2>4
  <2>10. QED BY <2>8, <2>9, ContentFrom
<1>5. QED BY <1>1, <1>3, <1>4 DEF BA!CurExact, BytesInv, CurAt

LEMMA BytesStep ==
  ASSUME BA!ByteArrayAssumption, BytesInv, [BA!Next]_(BA!vars)
  PROVE  BytesInv'
<1>1. \A k \in 0..size : k \in Nat
  BY DEF BytesInv, BA!TypeOK
<1>2. \A v \in 0..BA!capacity : v \in Nat
  OBVIOUS
<1>3. ASSUME NEW d \in BA!Data, BA!Write(d) PROVE BytesInv'
  BY <1>3, WriteStep
<1>4. ASSUME NEW d \in BA!Data, NEW room \in 1..BaseSize + 1, BA!Receive(room, d) PROVE BytesInv'
  BY <1>4, ReceiveStep
<1>5. ASSUME NEW k \in 0..size, BA!Read(k) \/ BA!Send(k) PROVE BytesInv'
  BY <1>1, <1>5, ReadStep, SendStep
<1>6. ASSUME NEW v \in 0..BA!capacity, BA!SetPosition(v) PROVE BytesInv'
  BY <1>2, <1>6, SetPositionStep
<1>7. CASE BA!Clear
  BY <1>7, ClearStep
<1>8. CASE UNCHANGED BA!vars
  BY <1>8 DEF BA!vars, BytesInv, BA!TypeOK, CurAt, BA!capacity
<1>9. QED BY <1>3, <1>4, <1>5, <1>6, <1>7, <1>8 DEF BA!Next

\* Whatever the operation does to the nodes, it does what Bytes says.
LEMMA BytesStepIsBytes ==
  ASSUME BA!ByteArrayAssumption, BytesInv, BA!CurExact'
  PROVE  BA!StepIsBytes
<1>1. ASSUME NEW d \in BA!Data, BA!Write(d) PROVE BA!B!Write(d)
  BY <1>1, WriteStep
<1>2. ASSUME NEW r \in 1..BaseSize + 1, NEW d \in BA!Data, BA!Receive(r, d)
      PROVE  BA!B!Write(d)
  BY <1>2, ReceiveStep
<1>3. ASSUME ~crashed', NEW n \in 0..size, BA!Read(n) \/ BA!Send(n) PROVE BA!B!Read(n)
  <2>1. n \in Nat
    BY DEF BytesInv, BA!TypeOK
  <2>2. QED BY <1>3, <2>1, ReadStep, SendStep
<1>4. ASSUME NEW v \in 0..BA!capacity, BA!SetPosition(v) PROVE BA!B!SetPosition(v)
  BY <1>4, SetPositionStep
<1>5. BA!Clear => BA!B!Clear
  BY ClearStep
<1>6. QED BY <1>1, <1>2, <1>3, <1>4, <1>5 DEF BA!StepIsBytes

\* ByteArray implements Bytes for any size and number of nodes
\* (ByteArray.cpp 408-649): after any operations _cur is at the position and
\* what is read is what is there, and every operation that does not follow the
\* null pointer does what Bytes says of it.
THEOREM ByteArrayImplementsBytes ==
  BA!ByteArrayAssumption => (BA!Spec => BA!ImplementsBytes)
<1>1. SUFFICES ASSUME BA!ByteArrayAssumption PROVE BA!Spec => BA!ImplementsBytes
  OBVIOUS
<1>2. BA!Init => BytesInv /\ BA!B!Init
  BY <1>1, BytesInit
<1>3. BytesInv /\ [BA!Next]_(BA!vars) => BytesInv'
  BY <1>1, BytesStep
<1>4. BytesInv => BA!CurExact
  BY <1>1, BytesInvIsExact
<1>5. BytesInv /\ BA!CurExact' => BA!StepIsBytes
  BY <1>1, BytesStepIsBytes
<1>6. QED BY <1>2, <1>3, <1>4, <1>5, PTL DEF BA!Spec, BA!ImplementsBytes

-----------------------------------------------------------------------------
(***************************************************************************)
(* Varint: for any number of bits in a group and in an integer             *)
(***************************************************************************)
\* A set of numbers that is not empty has a least one.
LEMMA LeastNumber ==
  ASSUME NEW S \in SUBSET Nat, S # {}
  PROVE  \E m \in S : \A n \in S : m <= n
<1>1. IsWellFoundedOn({ss \in Nat \X Nat : ss[1] < ss[2]}, Nat)
  BY NatLessThanWellFounded DEF OpToRel
<1>2. PICK m \in S : \A n \in S : ~ (<<n, m>> \in {ss \in Nat \X Nat : ss[1] < ss[2]})
  BY <1>1, WFMin
<1>3. \A n \in S : ~ n < m
  BY <1>2
<1>4. QED BY <1>3

\* 2^n is the number of subsets of 1..n: one more element doubles it.
LEMMA PowerTwo ==
  ASSUME NEW n \in Nat
  PROVE  2^n \in Nat \ {0} /\ 2^(n + 1) = 2 * 2^n
<1> DEFINE P == SUBSET (1..n)
           Q == {x \cup {n + 1} : x \in P}
<1>1. /\ IsFiniteSet(1..n) /\ Cardinality(1..n) = n
      /\ IsFiniteSet(1..n + 1) /\ Cardinality(1..n + 1) = n + 1
  <2>1. 1 \in Int /\ n \in Int /\ n + 1 \in Int
    OBVIOUS
  <2>2. Cardinality(1..n) = IF 1 > n THEN 0 ELSE n - 1 + 1
    BY <2>1, FS_Interval
  <2>3. Cardinality(1..n + 1) = IF 1 > n + 1 THEN 0 ELSE n + 1 - 1 + 1
    BY <2>1, FS_Interval
  <2>4. IsFiniteSet(1..n) /\ IsFiniteSet(1..n + 1)
    BY <2>1, FS_Interval
  <2>5. QED BY <2>2, <2>3, <2>4
<1>2. IsFiniteSet(P) /\ Cardinality(P) = 2^n
  BY <1>1, FS_SUBSET
<1>3. Cardinality(SUBSET (1..n + 1)) = 2^(n + 1)
  BY <1>1, FS_SUBSET
<1>4. IsFiniteSet(Q) /\ Cardinality(Q) = Cardinality(P)
  <2>1. PICK f : f = [x \in P |-> x \cup {n + 1}]
    OBVIOUS
  <2>2. f \in [P -> Q] /\ \A y \in Q : \E x \in P : f[x] = y
    BY <2>1
  <2>3. ASSUME NEW x \in P, NEW y \in P, f[x] = f[y] PROVE x = y
    <3>1. n + 1 \notin x /\ n + 1 \notin y
      OBVIOUS
    <3>2. x \cup {n + 1} = y \cup {n + 1}
      BY <2>1, <2>3
    <3>3. QED BY <3>1, <3>2
  <2> HIDE DEF P, Q
  <2>4. f \in Injection(P, Q)
    BY <2>2, <2>3 DEF Injection, IsInjective
  <2>5. f \in Surjection(P, Q)
    BY <2>2 DEF Surjection
  <2>6. ExistsBijection(P, Q)
    BY <2>4, <2>5 DEF ExistsBijection, Bijection
  <2>7. QED BY <1>2, <2>6, FS_Bijection
<1>5. SUBSET (1..n + 1) = P \cup Q /\ P \cap Q = {}
  <2>1. 1..n + 1 = (1..n) \cup {n + 1} /\ n + 1 \notin 1..n
    OBVIOUS
  <2>2. ASSUME NEW y \in SUBSET (1..n + 1), n + 1 \in y PROVE y \in Q
    <3>1. y \ {n + 1} \in P /\ (y \ {n + 1}) \cup {n + 1} = y
      BY <2>1, <2>2
    <3>2. QED BY <3>1
  <2>3. ASSUME NEW y \in SUBSET (1..n + 1), n + 1 \notin y PROVE y \in P
    BY <2>1, <2>3
  <2>4. P \subseteq SUBSET (1..n + 1) /\ Q \subseteq SUBSET (1..n + 1)
    BY <2>1
  <2>5. P \cap Q = {}
    BY <2>1
  <2>6. QED BY <2>2, <2>3, <2>4, <2>5
<1>6. P # {}
  <2>1. {} \in P
    OBVIOUS
  <2>2. QED BY <2>1
<1> HIDE DEF P, Q
<1>7. Cardinality(P \cup Q) = Cardinality(P) + Cardinality(Q) - Cardinality({})
  BY <1>2, <1>4, <1>5, FS_Union
<1>8. Cardinality(P) \in Nat /\ Cardinality(P) # 0
  BY <1>2, <1>6, FS_CardinalityType, FS_EmptySet
<1>9. Cardinality(P \cup Q) = 2 * Cardinality(P)
  <2>1. Cardinality({}) = 0
    BY FS_EmptySet
  <2>2. QED BY <1>4, <1>7, <1>8, <2>1
<1>10. 2^n \in Nat \ {0} /\ 2^(n + 1) = 2 * 2^n
  <2>1. Cardinality(P \cup Q) = 2^(n + 1)
    BY <1>3, <1>5
  <2>2. QED BY <1>2, <1>8, <1>9, <2>1
<1>11. QED BY <1>10

LEMMA PowerSum ==
  ASSUME NEW m \in Nat, NEW n \in Nat
  PROVE  2^(m + n) = 2^m * 2^n
<1> DEFINE Bad == {k \in Nat : 2^(m + k) # 2^m * 2^k}
<1>1. SUFFICES ASSUME Bad # {} PROVE FALSE
  OBVIOUS
<1>2. PICK k \in Bad : \A l \in Bad : k <= l
  <2>1. Bad \in SUBSET Nat
    OBVIOUS
  <2> HIDE DEF Bad
  <2>2. QED BY <1>1, <2>1, LeastNumber
<1>3. k \in Nat /\ 2^(m + k) # 2^m * 2^k
  OBVIOUS
<1>4. PICK a \in Nat : a = 2^m
  BY PowerTwo
<1>5. CASE k = 0
  <2>1. 2^0 = 1 /\ m + 0 = m
    OBVIOUS
  <2>2. QED BY <1>3, <1>4, <1>5, <2>1
<1>6. CASE k # 0
  <2>1. PICK l \in Nat : k = l + 1
    <3>1. k - 1 \in Nat /\ k = (k - 1) + 1
      BY <1>3, <1>6
    <3>2. QED BY <3>1
  <2>2. l \notin Bad
    <3>1. ~ k <= l
      BY <2>1
    <3> HIDE DEF Bad
    <3>2. QED BY <1>2, <3>1
  <2>3. PICK b \in Nat : b = 2^l
    BY PowerTwo
  <2>4. 2^(m + l) = a * b
    BY <1>4, <2>2, <2>3
  <2>5. 2^((m + l) + 1) = 2 * 2^(m + l) /\ 2^(l + 1) = 2 * 2^l
    <3>1. m + l \in Nat
      OBVIOUS
    <3>2. QED BY <3>1, PowerTwo
  <2>6. (m + l) + 1 = m + k
    BY <2>1
  <2>7. 2^(m + k) = 2 * (a * b) /\ 2^k = 2 * b
    BY <2>1, <2>3, <2>4, <2>5, <2>6
  <2>8. 2 * (a * b) = a * (2 * b)
    OBVIOUS
  <2>9. QED BY <1>3, <1>4, <2>7, <2>8
<1>7. QED BY <1>5, <1>6

LEMMA PowerGrows ==
  ASSUME NEW m \in Nat, NEW n \in Nat, m <= n
  PROVE  2^m <= 2^n
<1>1. PICK k \in Nat : n = m + k
  <2>1. n - m \in Nat /\ n = m + (n - m)
    OBVIOUS
  <2>2. QED BY <2>1
<1>2. PICK a \in Nat : a = 2^m
  BY PowerTwo
<1>3. PICK b \in Nat \ {0} : b = 2^k
  BY PowerTwo
<1>4. 2^n = a * b
  BY <1>1, <1>2, <1>3, PowerSum
<1>5. a <= a * b
  <2>1. PICK c \in Nat : b = c + 1
    <3>1. b - 1 \in Nat /\ b = (b - 1) + 1
      OBVIOUS
    <3>2. QED BY <3>1
  <2>2. a * (c + 1) = a * c + a /\ a * c \in Nat
    OBVIOUS
  <2>3. QED BY <2>1, <2>2
<1>6. QED BY <1>2, <1>4, <1>5

VarBytes == 0..2^(Group + 1) - 1
Codes == 0..2^VI!Full - 1

\* What the loop of writeUint makes of u, if f has it for smaller numbers.
GroupsStep(f, u) ==
  IF u < 2^Group THEN <<u>> ELSE <<(u % 2^Group) + 2^Group>> \o f[u \div 2^Group]
GroupsUpTo(f, n) == f = [u \in 0..n |-> GroupsStep(f, u)]

LEMMA PowersFit ==
  ASSUME VI!VarintAssumption
  PROVE  /\ 2^Group \in Nat /\ 2^Group >= 2 /\ 2^(Group + 1) = 2 * 2^Group
         /\ 2^Half \in Nat \ {0} /\ 2^VI!Full \in Nat \ {0} /\ 2^Half <= 2^VI!Full
         /\ 2^Half = 2 * 2^(Half - 1) /\ 2^(Half - 1) \in Nat \ {0}
         /\ 2^VI!Full = 2 * 2^(VI!Full - 1) /\ 2^(VI!Full - 1) \in Nat \ {0}
         /\ 2^(Half - 1) <= 2^(VI!Full - 1)
<1>1. /\ Group \in Nat /\ Half \in Nat /\ VI!Full \in Nat
      /\ Group - 1 \in Nat /\ Half - 1 \in Nat /\ VI!Full - 1 \in Nat
      /\ Half <= VI!Full /\ Half - 1 <= VI!Full - 1
      /\ (Group - 1) + 1 = Group /\ (Half - 1) + 1 = Half /\ (VI!Full - 1) + 1 = VI!Full
  BY DEF VI!VarintAssumption, VI!Full
<1>2. \A n \in Nat : 2^n \in Nat \ {0} /\ 2^(n + 1) = 2 * 2^n
  BY PowerTwo
<1>3. 2^Half <= 2^VI!Full /\ 2^(Half - 1) <= 2^(VI!Full - 1)
  BY <1>1, PowerGrows
<1>4. 2^Group = 2 * 2^(Group - 1) /\ 2^(Group - 1) \in Nat \ {0}
  BY <1>1, <1>2
<1>5. 2^Half = 2 * 2^(Half - 1) /\ 2^(Half - 1) \in Nat \ {0}
  BY <1>1, <1>2
<1>6. 2^VI!Full = 2 * 2^(VI!Full - 1) /\ 2^(VI!Full - 1) \in Nat \ {0}
  BY <1>1, <1>2
<1>7. /\ 2^(Group + 1) = 2 * 2^Group /\ 2^Group \in Nat
      /\ 2^Half \in Nat \ {0} /\ 2^VI!Full \in Nat \ {0}
  BY <1>1, <1>2
<1>8. 2^Group >= 2
  BY <1>4
<1>9. QED BY <1>3, <1>5, <1>6, <1>7, <1>8

\* What is left after a group is less, and not zero.
LEMMA GroupLess ==
  ASSUME NEW p \in Nat, p >= 2, NEW u \in Nat, p <= u
  PROVE  /\ u \div p \in Nat /\ 1 <= u \div p /\ u \div p < u
         /\ u % p \in 0..p - 1 /\ u = p * (u \div p) + (u % p)
<1>1. u \div p \in Nat /\ u % p \in 0..p - 1 /\ u = p * (u \div p) + (u % p)
  <2>1. p \in Nat \ {0}
    OBVIOUS
  <2>2. QED BY <2>1, DivMod
<1>2. PICK q \in Nat, r \in Nat : q = u \div p /\ r = u % p
  BY <1>1
<1>3. u = p * q + r /\ r < p
  BY <1>1, <1>2
<1>4. q # 0
  <2>1. ASSUME q = 0 PROVE FALSE
    <3>1. p * q = 0
      BY <2>1
    <3>2. QED BY <1>3, <3>1
  <2>2. QED BY <2>1
<1>5. q < u
  <2>1. PICK d \in Nat : p = d + 2
    <3>1. p - 2 \in Nat /\ p = (p - 2) + 2
      OBVIOUS
    <3>2. QED BY <3>1
  <2>2. (d + 2) * q = d * q + 2 * q /\ d * q \in Nat
    OBVIOUS
  <2>3. QED BY <1>3, <1>4, <2>1, <2>2
<1>6. QED BY <1>1, <1>2, <1>4, <1>5

LEMMA GroupsExist ==
  ASSUME VI!VarintAssumption, NEW n \in Nat
  PROVE  \E g : GroupsUpTo(g, n)
<1> DEFINE Bad == {m \in Nat : ~ \E g : GroupsUpTo(g, m)}
<1>1. SUFFICES ASSUME Bad # {} PROVE FALSE
  OBVIOUS
<1>2. PICK m \in Bad : \A l \in Bad : m <= l
  <2>1. Bad \in SUBSET Nat
    OBVIOUS
  <2> HIDE DEF Bad
  <2>2. QED BY <1>1, <2>1, LeastNumber
<1>3. m \in Nat /\ ~ \E g : GroupsUpTo(g, m)
  OBVIOUS
<1>4. PICK p \in Nat : p = 2^Group /\ p >= 2
  BY PowersFit
<1>5. \E g : \A u \in 0..m - 1 : g[u] = GroupsStep(g, u)
  <2>1. CASE m = 0
    BY <2>1
  <2>2. CASE m # 0
    <3>1. m - 1 \in Nat /\ ~ m <= m - 1
      BY <1>3, <2>2
    <3>2. m - 1 \notin Bad
      <4> HIDE DEF Bad
      <4>1. QED BY <1>2, <3>1
    <3>3. PICK g : GroupsUpTo(g, m - 1)
      BY <3>1, <3>2
    <3>4. QED BY <3>3 DEF GroupsUpTo
  <2>3. QED BY <2>1, <2>2
<1>6. PICK g : \A u \in 0..m - 1 : g[u] = GroupsStep(g, u)
  BY <1>5
<1>7. PICK h : h = [u \in 0..m |-> IF u = m THEN GroupsStep(g, m) ELSE g[u]]
  OBVIOUS
<1>8. ASSUME NEW u \in 0..m PROVE h[u] = GroupsStep(h, u)
  <2>1. h[u] = GroupsStep(g, u)
    <3>1. CASE u = m
      BY <1>7, <3>1
    <3>2. CASE u # m
      <4>1. u \in 0..m - 1
        BY <1>3, <3>2
      <4>2. QED BY <1>6, <1>7, <3>2, <4>1
    <3>3. QED BY <3>1, <3>2
  <2>2. u >= p => h[u \div p] = g[u \div p]
    <3>1. SUFFICES ASSUME u >= p PROVE h[u \div p] = g[u \div p]
      OBVIOUS
    <3>2. u \div p \in Nat /\ u \div p < u
      BY <1>3, <1>4, <3>1, GroupLess
    <3>3. PICK q \in Nat : q = u \div p /\ q < u
      BY <3>2
    <3>4. q \in 0..m /\ q # m
      BY <1>3, <3>3
    <3>5. h[q] = g[q]
      BY <1>7, <3>4
    <3>6. QED BY <3>3, <3>5
  <2>3. u < p \/ u >= p
    BY <1>3, <1>4
  <2>4. QED BY <1>4, <2>1, <2>2, <2>3 DEF GroupsStep
<1>9. h = [u \in 0..m |-> GroupsStep(h, u)]
  BY <1>7, <1>8
<1>10. QED BY <1>3, <1>9 DEF GroupsUpTo

LEMMA GroupsIs ==
  ASSUME VI!VarintAssumption
  PROVE  \A u \in Codes : VI!Groups[u] = GroupsStep(VI!Groups, u)
<1> DEFINE n == 2^VI!Full - 1
<1>1. n \in Nat
  BY PowersFit
<1>2. \E g : GroupsUpTo(g, n)
  <2> HIDE DEF n
  <2>1. QED BY <1>1, GroupsExist
<1>3. VI!Groups = CHOOSE g : GroupsUpTo(g, n)
  BY DEF VI!Groups, GroupsUpTo, GroupsStep
<1>4. GroupsUpTo(VI!Groups, n)
  <2> HIDE DEF n
  <2>1. QED BY <1>2, <1>3
<1>5. QED BY <1>4 DEF GroupsUpTo, Codes

LEMMA SmallerCode ==
  ASSUME VI!VarintAssumption, NEW m \in Codes, NEW q \in Nat, q < m
  PROVE  q \in Codes /\ ~ m <= q
<1>1. PICK c \in Nat : Codes = 0..c
  <2>1. 2^VI!Full - 1 \in Nat
    BY PowersFit
  <2>2. QED BY <2>1 DEF Codes
<1>2. QED BY <1>1

\* A code has at least one byte.
LEMMA GroupsTyped ==
  ASSUME VI!VarintAssumption, NEW n \in Codes
  PROVE  VI!Groups[n] \in Seq(VarBytes) /\ Len(VI!Groups[n]) \in Nat \ {0}
<1> DEFINE Fine(u) == VI!Groups[u] \in Seq(VarBytes) /\ Len(VI!Groups[u]) \in Nat \ {0}
           Bad == {u \in Codes : ~Fine(u)}
<1>1. SUFFICES ASSUME Bad # {} PROVE FALSE
  OBVIOUS
<1>2. PICK m \in Bad : \A l \in Bad : m <= l
  <2>1. Bad \in SUBSET Nat
    BY DEF Codes
  <2> HIDE DEF Bad
  <2>2. QED BY <1>1, <2>1, LeastNumber
<1>3. m \in Codes /\ m \in Nat /\ ~Fine(m)
  BY DEF Codes
<1>4. PICK p \in Nat : p = 2^Group /\ p >= 2 /\ VarBytes = 0..2 * p - 1
  BY PowersFit DEF VarBytes
<1>5. VI!Groups[m] = GroupsStep(VI!Groups, m)
  BY <1>3, GroupsIs
<1>6. CASE m < p
  <2>1. VI!Groups[m] = <<m>>
    BY <1>4, <1>5, <1>6 DEF GroupsStep
  <2>2. m \in VarBytes
    BY <1>3, <1>4, <1>6
  <2>3. <<m>> \in Seq(VarBytes) /\ Len(<<m>>) = 1
    BY <2>2
  <2>4. QED BY <1>3, <2>1, <2>3
<1>7. CASE ~ m < p
  <2>1. m >= p
    BY <1>3, <1>4, <1>7
  <2>2. m \div p \in Nat /\ m \div p < m /\ m % p \in 0..p - 1
    BY <1>3, <1>4, <2>1, GroupLess
  <2>3. PICK q \in Nat, r \in 0..p - 1 : q = m \div p /\ r = m % p /\ q < m
    BY <2>2
  <2>4. q \in Codes /\ ~ m <= q
    BY <1>3, <2>3, SmallerCode
  <2>5. Fine(q)
    <3>1. q \notin Bad
      <4> HIDE DEF Bad
      <4>1. QED BY <1>2, <2>4
    <3>2. QED BY <2>4, <3>1
  <2>6. VI!Groups[m] = <<r + p>> \o VI!Groups[q]
    BY <1>4, <1>5, <1>7, <2>3 DEF GroupsStep
  <2>7. r + p \in VarBytes
    BY <1>4, <2>3
  <2>8. <<r + p>> \in Seq(VarBytes) /\ Len(<<r + p>>) = 1
    BY <2>7
  <2>9. PICK s \in Seq(VarBytes), t \in Seq(VarBytes) :
          s = <<r + p>> /\ t = VI!Groups[q] /\ Len(s) = 1 /\ Len(t) \in Nat
    BY <2>5, <2>8
  <2>10. s \o t \in Seq(VarBytes) /\ Len(s \o t) = Len(s) + Len(t)
    BY <2>9, ConcatProperties
  <2>11. QED BY <1>3, <2>6, <2>9, <2>10
<1>8. QED BY <1>6, <1>7

\* The first byte of a code is r and a mark, the others are the code of q.
Goes(u, p, q, r) ==
  /\ VI!Groups[u][1] = r + p
  /\ Len(VI!Groups[u]) = Len(VI!Groups[q]) + 1
  /\ \A j \in 1..Len(VI!Groups[q]) : VI!Groups[u][j + 1] = VI!Groups[q][j]

LEMMA GroupsFirst ==
  ASSUME VI!VarintAssumption, NEW u \in Codes, NEW p \in Nat, p = 2^Group, p >= 2
  PROVE  /\ u < p => Len(VI!Groups[u]) = 1 /\ VI!Groups[u][1] = u
         /\ p <= u => u \div p \in Codes /\ Goes(u, p, u \div p, u % p)
<1>1. VI!Groups[u] = GroupsStep(VI!Groups, u) /\ u \in Nat
  BY GroupsIs DEF Codes
<1>2. ASSUME u < p PROVE Len(VI!Groups[u]) = 1 /\ VI!Groups[u][1] = u
  <2>1. VI!Groups[u] = <<u>>
    BY <1>1, <1>2 DEF GroupsStep
  <2>2. QED BY <2>1
<1>3. ASSUME p <= u PROVE u \div p \in Codes /\ Goes(u, p, u \div p, u % p)
  <2>1. u \div p \in Nat /\ u \div p < u /\ u % p \in 0..p - 1
    BY <1>1, <1>3, GroupLess
  <2>2. PICK q \in Nat, r \in 0..p - 1 : q = u \div p /\ r = u % p /\ q < u
    BY <2>1
  <2>3. q \in Codes
    BY <1>1, <2>2, SmallerCode
  <2>4. VI!Groups[u] = <<r + p>> \o VI!Groups[q]
    <3>1. ~ u < p
      BY <1>1, <1>3
    <3>2. QED BY <1>1, <2>2, <3>1 DEF GroupsStep
  <2>5. VI!Groups[q] \in Seq(VarBytes) /\ Len(VI!Groups[q]) \in Nat
    BY <2>3, GroupsTyped
  <2>6. r + p \in VarBytes
    BY <2>2, PowersFit DEF VarBytes
  <2>7. PICK s \in Seq(VarBytes), t \in Seq(VarBytes) :
          s = <<r + p>> /\ t = VI!Groups[q] /\ Len(s) = 1 /\ s[1] = r + p /\ Len(t) \in Nat
    <3>1. <<r + p>> \in Seq(VarBytes) /\ Len(<<r + p>>) = 1 /\ <<r + p>>[1] = r + p
      BY <2>6
    <3>2. QED BY <2>5, <3>1
  <2>8. /\ Len(s \o t) = Len(s) + Len(t)
        /\ \A i \in 1..Len(s) + Len(t) : (s \o t)[i] = IF i <= Len(s) THEN s[i] ELSE t[i - Len(s)]
    BY <2>7, ConcatProperties
  <2>9. (s \o t)[1] = r + p /\ Len(s \o t) = Len(t) + 1
    BY <2>7, <2>8
  <2>10. ASSUME NEW j \in 1..Len(t) PROVE (s \o t)[j + 1] = t[j]
    <3>1. j + 1 \in 1..Len(s) + Len(t) /\ ~ j + 1 <= Len(s) /\ j + 1 - Len(s) = j
      BY <2>7
    <3>2. QED BY <2>8, <3>1
  <2>11. s \o t = VI!Groups[u] /\ t = VI!Groups[q]
    BY <2>4, <2>7
  <2>12. Goes(u, p, q, r)
    BY <2>9, <2>10, <2>11 DEF Goes
  <2>13. QED BY <2>2, <2>3, <2>12
<1>4. QED BY <1>2, <1>3

\* What the loop of readUint makes of byte i, if f has it for the ones after it.
ParseStep(f, i) ==
  LET bit == Group * (i - 1)
      b   == (bytes[i] % 2^Group) * 2^bit
  IN IF bit >= VI!Width(kind) THEN [value |-> 0, taken |-> 0]
     ELSE IF bytes[i] < 2^Group THEN [value |-> b, taken |-> 1]
     ELSE [value |-> b + f[i + 1].value, taken |-> 1 + f[i + 1].taken]
From(k) == {i \in Nat : k <= i}
ParseFrom(f, k) == f = [i \in From(k) |-> ParseStep(f, i)]

LEMMA ParseExists ==
  ASSUME VI!VarintAssumption, VI!Width(kind) \in Nat
  PROVE  \E f : ParseFrom(f, 0)
<1> DEFINE W == VI!Width(kind)
           Bad == {d \in Nat : d <= W + 1 /\ ~ \E f : ParseFrom(f, W + 1 - d)}
<1>1. SUFFICES ASSUME Bad # {} PROVE FALSE
  <2>1. W + 1 \in Nat /\ W + 1 <= W + 1 /\ W + 1 - (W + 1) = 0
    OBVIOUS
  <2>2. W + 1 \notin Bad => \E f : ParseFrom(f, W + 1 - (W + 1))
    BY <2>1
  <2>3. QED BY <1>1, <2>1, <2>2
<1>2. PICK d \in Bad : \A l \in Bad : d <= l
  <2>1. Bad \in SUBSET Nat
    OBVIOUS
  <2> HIDE DEF Bad
  <2>2. QED BY <1>1, <2>1, LeastNumber
<1>3. d \in Nat /\ d <= W + 1 /\ ~ \E f : ParseFrom(f, W + 1 - d)
  OBVIOUS
<1>4. PICK k \in Nat : k = W + 1 - d
  <2>1. W + 1 - d \in Nat
    BY <1>3
  <2>2. QED BY <2>1
<1>5. CASE d = 0
  <2>1. ASSUME NEW i \in From(k) PROVE Group * (i - 1) >= W
    <3>1. PICK j \in Nat : i - 1 = W + j
      <4>1. i - 1 - W \in Nat /\ i - 1 = W + (i - 1 - W)
        BY <1>4, <1>5, <2>1 DEF From
      <4>2. QED BY <4>1
    <3>2. PICK g \in Nat : Group = g + 1
      <4>1. Group - 1 \in Nat /\ Group = (Group - 1) + 1
        BY DEF VI!VarintAssumption
      <4>2. QED BY <4>1
    <3>3. PICK w \in Nat : w = W
      OBVIOUS
    <3>4. (g + 1) * (w + j) = g * (w + j) + (w + j) /\ g * (w + j) \in Nat
      OBVIOUS
    <3>5. (g + 1) * (w + j) >= w
      BY <3>4
    <3>6. QED BY <3>1, <3>2, <3>3, <3>5
  <2> DEFINE f == [i \in From(k) |-> [value |-> 0, taken |-> 0]]
  <2>2. \A i \in From(k) : ParseStep(f, i) = [value |-> 0, taken |-> 0]
    <3> HIDE DEF f
    <3>1. QED BY <2>1 DEF ParseStep
  <2>3. f = [i \in From(k) |-> ParseStep(f, i)]
    BY <2>2
  <2>4. ParseFrom(f, k)
    BY <2>3 DEF ParseFrom
  <2>5. QED BY <1>3, <1>4, <2>4
<1>6. CASE d # 0
  <2>1. d - 1 \in Nat /\ ~ d <= d - 1 /\ d - 1 <= W + 1 /\ W + 1 - (d - 1) = k + 1
    BY <1>3, <1>4, <1>6
  <2>2. d - 1 \notin Bad
    <3> HIDE DEF Bad
    <3>1. QED BY <1>2, <2>1
  <2>3. PICK f : ParseFrom(f, k + 1)
    BY <2>1, <2>2
  <2>4. PICK h : h = [i \in From(k) |-> IF i = k THEN ParseStep(f, k) ELSE f[i]]
    OBVIOUS
  <2>5. ASSUME NEW i \in From(k) PROVE h[i] = ParseStep(h, i)
    <3>1. i + 1 \in From(k) /\ i + 1 # k /\ (i # k => i \in From(k + 1))
      BY <1>4 DEF From
    <3>2. h[i + 1] = f[i + 1]
      BY <2>4, <3>1
    <3>3. ParseStep(h, i) = ParseStep(f, i)
      BY <3>2 DEF ParseStep
    <3>4. h[i] = ParseStep(f, i)
      <4>1. CASE i = k
        BY <2>4, <4>1
      <4>2. CASE i # k
        BY <2>3, <2>4, <3>1, <4>2 DEF ParseFrom
      <4>3. QED BY <4>1, <4>2
    <3>5. QED BY <3>3, <3>4
  <2>6. h = [i \in From(k) |-> ParseStep(h, i)]
    BY <2>4, <2>5
  <2>7. ParseFrom(h, k)
    BY <2>6 DEF ParseFrom
  <2>8. QED BY <1>3, <1>4, <2>7
<1>7. QED BY <1>5, <1>6

LEMMA ParseIs ==
  ASSUME VI!VarintAssumption, VI!Width(kind) \in Nat
  PROVE  \A i \in Nat : VI!Parse[i] = ParseStep(VI!Parse, i)
<1>1. From(0) = Nat
  BY DEF From
<1>2. VI!Parse = CHOOSE f : ParseFrom(f, 0)
  BY <1>1 DEF VI!Parse, ParseFrom, ParseStep
<1>3. ParseFrom(VI!Parse, 0)
  BY <1>2, ParseExists
<1>4. QED BY <1>1, <1>3 DEF ParseFrom

\* The code of u is in bytes from byte k on, and u is what remains of a number
\* below 2^W when k - 1 groups are gone.
Suffix(k, u) ==
  \A j \in 1..Len(VI!Groups[u]) : bytes[k + j - 1] = VI!Groups[u][j]
Remains(k, u) == u * 2^(Group * (k - 1)) < 2^VI!Width(kind) /\ (u = 0 => k = 1)
Parsed(k, u) ==
  /\ VI!Parse[k].value = u * 2^(Group * (k - 1))
  /\ VI!Parse[k].taken = Len(VI!Groups[u])

\* A number that is not zero has no more bits than there are.
LEMMA BitsLeft ==
  ASSUME NEW w \in Nat, NEW n \in Nat, NEW u \in Nat, u # 0, u * 2^n < 2^w
  PROVE  n < w
<1>1. SUFFICES ASSUME w <= n PROVE FALSE
  OBVIOUS
<1>2. PICK a \in Nat, b \in Nat : a = 2^w /\ b = 2^n /\ a <= b
  BY <1>1, PowerTwo, PowerGrows
<1>3. PICK v \in Nat : u = v + 1
  <2>1. u - 1 \in Nat /\ u = (u - 1) + 1
    OBVIOUS
  <2>2. QED BY <2>1
<1>4. (v + 1) * b = v * b + b /\ v * b \in Nat
  OBVIOUS
<1>5. QED BY <1>2, <1>3, <1>4

LEMMA ParseGroups ==
  ASSUME VI!VarintAssumption, VI!Width(kind) \in Nat \ {0},
         NEW n \in Codes, NEW at \in Nat \ {0}, Suffix(at, n), Remains(at, n)
  PROVE  Parsed(at, n)
<1> DEFINE W == VI!Width(kind)
           Bad == {u \in Codes : \E k \in Nat \ {0} : Suffix(k, u) /\ Remains(k, u) /\ ~Parsed(k, u)}
<1>1. SUFFICES ASSUME Bad # {} PROVE FALSE
  OBVIOUS
<1>2. PICK u \in Bad : \A l \in Bad : u <= l
  <2>1. Bad \in SUBSET Nat
    BY DEF Codes
  <2> HIDE DEF Bad
  <2>2. QED BY <1>1, <2>1, LeastNumber
<1>3. PICK k \in Nat \ {0} : Suffix(k, u) /\ Remains(k, u) /\ ~Parsed(k, u)
  OBVIOUS
<1>4. u \in Codes /\ u \in Nat
  BY DEF Codes
<1>5. PICK p \in Nat : p = 2^Group /\ p >= 2
  BY PowersFit
<1>6. PICK bit \in Nat : bit = Group * (k - 1)
  <2>1. PICK j \in Nat : k - 1 = j
    OBVIOUS
  <2>2. Group * j \in Nat
    BY DEF VI!VarintAssumption
  <2>3. QED BY <2>1, <2>2
<1>7. PICK e \in Nat \ {0} : e = 2^bit
  BY PowerTwo
<1>8. bit < W
  <2>1. CASE u = 0
    <3>1. k - 1 = 0
      BY <1>3, <2>1 DEF Remains
    <3>2. Group * 0 = 0
      BY DEF VI!VarintAssumption
    <3>3. QED BY <1>6, <3>1, <3>2
  <2>2. CASE u # 0
    BY <1>3, <1>4, <1>6, <2>2, BitsLeft DEF Remains
  <2>3. QED BY <2>1, <2>2
<1>9. PICK x : x = bytes[k]
  OBVIOUS
<1>10. VI!Parse[k] = IF x < p THEN [value |-> (x % p) * e, taken |-> 1]
                     ELSE [value |-> (x % p) * e + VI!Parse[k + 1].value,
                           taken |-> 1 + VI!Parse[k + 1].taken]
  <2>1. VI!Parse[k] = ParseStep(VI!Parse, k)
    BY ParseIs
  <2>2. ~ bit >= W
    BY <1>8
  <2>3. QED BY <1>5, <1>6, <1>7, <1>9, <2>1, <2>2 DEF ParseStep
<1>11. Len(VI!Groups[u]) \in Nat \ {0}
  BY <1>4, GroupsTyped
<1>12. x = VI!Groups[u][1]
  <2>1. 1 \in 1..Len(VI!Groups[u]) /\ k + 1 - 1 = k
    BY <1>11
  <2>2. QED BY <1>3, <1>9, <2>1 DEF Suffix
<1>13. CASE u < p
  <2>1. x = u /\ Len(VI!Groups[u]) = 1
    BY <1>4, <1>5, <1>12, <1>13, GroupsFirst
  <2>2. x % p = u
    BY <1>4, <1>5, <1>13, <2>1
  <2>3. VI!Parse[k] = [value |-> u * e, taken |-> 1]
    BY <1>10, <1>13, <2>1, <2>2
  <2>4. QED BY <1>3, <1>6, <1>7, <2>1, <2>3 DEF Parsed
<1>14. CASE ~ u < p
  <2>1. p <= u
    BY <1>4, <1>5, <1>14
  <2>2. PICK q \in Nat, r \in 0..p - 1 :
          q = u \div p /\ r = u % p /\ 1 <= q /\ q < u /\ u = p * q + r
    <3>1. /\ u \div p \in Nat /\ 1 <= u \div p /\ u \div p < u
          /\ u % p \in 0..p - 1 /\ u = p * (u \div p) + (u % p)
      BY <1>4, <1>5, <2>1, GroupLess
    <3>2. PICK q, r : q = u \div p /\ r = u % p
      OBVIOUS
    <3>3. q \in Nat /\ r \in 0..p - 1 /\ 1 <= q /\ q < u /\ u = p * q + r
      BY <3>1, <3>2
    <3>4. QED BY <3>2, <3>3
  <2>3. /\ q \in Codes /\ x = r + p /\ Len(VI!Groups[u]) = Len(VI!Groups[q]) + 1
        /\ \A j \in 1..Len(VI!Groups[q]) : VI!Groups[u][j + 1] = VI!Groups[q][j]
    <3>1. u \div p \in Codes /\ Goes(u, p, u \div p, u % p)
      BY <1>4, <1>5, <2>1, GroupsFirst
    <3>2. q \in Codes /\ Goes(u, p, q, r)
      BY <2>2, <3>1
    <3>3. QED BY <1>12, <3>2 DEF Goes
  <2>4. x % p = r /\ ~ x < p
    <3>1. (r + p) % p = r /\ ~ r + p < p
      BY <1>5
    <3>2. QED BY <2>3, <3>1
  <2>5. Len(VI!Groups[q]) \in Nat
    BY <2>3, GroupsTyped
  <2>6. Suffix(k + 1, q)
    <3>1. ASSUME NEW j \in 1..Len(VI!Groups[q]) PROVE bytes[k + 1 + j - 1] = VI!Groups[q][j]
      <4>1. j + 1 \in 1..Len(VI!Groups[u]) /\ k + (j + 1) - 1 = k + 1 + j - 1
        BY <2>3, <2>5
      <4>2. bytes[k + (j + 1) - 1] = VI!Groups[u][j + 1]
        BY <1>3, <4>1 DEF Suffix
      <4>3. QED BY <2>3, <4>1, <4>2
    <3>2. QED BY <3>1 DEF Suffix
  <2>7. Group * (k + 1 - 1) = bit + Group /\ 2^(bit + Group) = e * p
    <3>1. PICK g \in Nat, j \in Nat : g = Group /\ j = k - 1
      BY DEF VI!VarintAssumption
    <3>2. k + 1 - 1 = j + 1 /\ g * (j + 1) = g * j + g
      BY <3>1
    <3>3. 2^(bit + Group) = 2^bit * 2^Group
      BY <3>1, PowerSum
    <3>4. QED BY <1>5, <1>6, <1>7, <3>1, <3>2, <3>3
  <2>8. u * e = q * (e * p) + r * e /\ r * e \in Nat /\ q * (e * p) \in Nat
    <3>1. (p * q + r) * e = q * (e * p) + r * e
      BY <1>5
    <3>2. QED BY <2>2, <3>1
  <2>9. Remains(k + 1, q)
    <3>1. u * e < 2^W
      BY <1>3, <1>6, <1>7 DEF Remains
    <3>2. 2^W \in Nat
      BY PowerTwo
    <3>3. q * (e * p) < 2^W
      BY <1>4, <1>7, <2>8, <3>1, <3>2
    <3>4. q # 0
      BY <2>2
    <3>5. QED BY <2>7, <3>3, <3>4 DEF Remains
  <2>10. Parsed(k + 1, q)
    <3>1. q \notin Bad
      <4>1. ~ u <= q
        BY <1>4, <2>2
      <4> HIDE DEF Bad
      <4>2. QED BY <1>2, <4>1
    <3>2. k + 1 \in Nat \ {0}
      OBVIOUS
    <3>3. QED BY <2>3, <2>6, <2>9, <3>1, <3>2
  <2>11. VI!Parse[k].value = r * e + q * (e * p) /\ VI!Parse[k].taken = 1 + Len(VI!Groups[q])
    BY <1>10, <2>4, <2>7, <2>10 DEF Parsed
  <2>12. r * e + q * (e * p) = u * e /\ 1 + Len(VI!Groups[q]) = Len(VI!Groups[u])
    BY <1>4, <1>7, <2>3, <2>5, <2>8
  <2>13. QED BY <1>3, <1>6, <1>7, <2>11, <2>12 DEF Parsed
<1>15. QED BY <1>13, <1>14

Kind == {"uint32", "int32", "uint64", "int64"}
CodeOf(k, v) == IF VI!Signed(k) THEN VI!EncodeZigzag(v) ELSE v

\* What is read is what was written, unless zigzag has cut an int64.
Exact(k, v, b) == k # "int64" \/ v \in VI!Values("int32") => b = v

VarintInv ==
  /\ kind \in Kind /\ value \in VI!Values(kind) /\ back \in VI!Values(kind)
  /\ \/ bytes = << >> /\ taken = 0
     \/ /\ bytes = VI!Groups[CodeOf(kind, value)]
        /\ taken # 0 => taken = Len(bytes) /\ Exact(kind, value, back)

LEMMA WidthIs ==
  ASSUME VI!VarintAssumption, NEW k \in Kind
  PROVE  /\ VI!Width(k) \in Nat \ {0}
         /\ 2^Half <= 2^VI!Width(k) /\ 2^VI!Width(k) <= 2^VI!Full
         /\ 2^VI!Width(k) \in Nat \ {0}
<1>1. VI!Width(k) = Half \/ VI!Width(k) = VI!Full
  BY DEF VI!Width
<1>2. Half \in Nat \ {0} /\ VI!Full \in Nat \ {0}
  BY DEF VI!VarintAssumption, VI!Full
<1>3. 2^Half \in Nat \ {0} /\ 2^VI!Full \in Nat \ {0} /\ 2^Half <= 2^VI!Full
  BY PowersFit
<1>4. QED BY <1>1, <1>2, <1>3

\* The numbers of each kind, with h for what an int32 reaches.
LEMMA ValuesAre ==
  ASSUME VI!VarintAssumption
  PROVE  \E h \in Nat \ {0}, f \in Nat \ {0} :
           /\ 2^Half = 2 * h /\ 2^VI!Full = 2 * f /\ h <= f
           /\ VI!Values("int32") = -h..h - 1 /\ VI!Values("int64") = -f..f - 1
           /\ VI!Values("uint32") = 0..2 * h - 1 /\ VI!Values("uint64") = 0..2 * f - 1
<1>1. PICK h, f : h = 2^(Half - 1) /\ f = 2^(VI!Full - 1)
  OBVIOUS
<1>2. h \in Nat \ {0} /\ f \in Nat \ {0} /\ 2^Half = 2 * h /\ 2^VI!Full = 2 * f /\ h <= f
  BY <1>1, PowersFit
<1>3. VI!Values("int32") = -h..h - 1 /\ VI!Values("int64") = -f..f - 1
  BY <1>1 DEF VI!Values, VI!Signed, VI!Width
<1>4. VI!Values("uint32") = 0..2 * h - 1 /\ VI!Values("uint64") = 0..2 * f - 1
  BY <1>2 DEF VI!Values, VI!Signed, VI!Width
<1>5. QED BY <1>2, <1>3, <1>4

LEMMA ZigzagFits ==
  ASSUME NEW h \in Nat \ {0}, 2^Half = 2 * h, NEW v \in Int
  PROVE  /\ VI!EncodeZigzag(v) \in 0..2 * h - 1
         /\ v \in -h..h - 1 => VI!DecodeZigzag(VI!EncodeZigzag(v)) = v
<1>1. PICK z \in Int : z = IF v < 0 THEN -(2 * v) - 1 ELSE 2 * v
  OBVIOUS
<1>2. VI!EncodeZigzag(v) = z % (2 * h)
  BY <1>1 DEF VI!EncodeZigzag
<1>3. z % (2 * h) \in 0..2 * h - 1
  OBVIOUS
<1>4. ASSUME v \in -h..h - 1 PROVE VI!DecodeZigzag(VI!EncodeZigzag(v)) = v
  <2>1. z \in 0..2 * h - 1
    BY <1>1, <1>4
  <2>2. z % (2 * h) = z
    BY <2>1
  <2>3. VI!DecodeZigzag(z) = v
    <3>1. CASE v < 0
      <4>1. PICK a \in Nat : v = -a - 1
        <5>1. -v - 1 \in Nat /\ v = -(-v - 1) - 1
          BY <3>1
        <5>2. QED BY <5>1
      <4>2. z = 2 * a + 1
        BY <1>1, <3>1, <4>1
      <4>3. z % 2 = 1 /\ z \div 2 = a
        BY <4>2
      <4>4. QED BY <4>1, <4>3 DEF VI!DecodeZigzag
    <3>2. CASE ~ v < 0
      <4>1. z = 2 * v /\ v \in Nat
        BY <1>1, <3>2
      <4>2. z % 2 = 0 /\ z \div 2 = v
        BY <4>1
      <4>3. QED BY <4>2 DEF VI!DecodeZigzag
    <3>3. QED BY <3>1, <3>2
  <2>4. QED BY <1>2, <2>2, <2>3
<1>5. QED BY <1>2, <1>3, <1>4

LEMMA DecodedFits ==
  ASSUME NEW h \in Nat \ {0}, NEW u \in 0..2 * h - 1
  PROVE  VI!DecodeZigzag(u) \in -h..h - 1
<1>1. PICK q \in Nat, r \in 0..1 : q = u \div 2 /\ r = u % 2 /\ u = 2 * q + r
  OBVIOUS
<1>2. q <= h - 1
  BY <1>1
<1>3. VI!DecodeZigzag(u) = IF r = 0 THEN q ELSE -q - 1
  BY <1>1 DEF VI!DecodeZigzag
<1>4. QED BY <1>2, <1>3

\* The number that is written fits in the width of its kind.
LEMMA CodeFits ==
  ASSUME VI!VarintAssumption, NEW k \in Kind, NEW v \in VI!Values(k)
  PROVE  /\ CodeOf(k, v) \in Codes /\ CodeOf(k, v) < 2^VI!Width(k)
         /\ VI!Signed(k) => CodeOf(k, v) < 2^Half
<1>1. PICK h \in Nat \ {0}, f \in Nat \ {0} :
        /\ 2^Half = 2 * h /\ 2^VI!Full = 2 * f /\ h <= f
        /\ VI!Values("int32") = -h..h - 1 /\ VI!Values("int64") = -f..f - 1
        /\ VI!Values("uint32") = 0..2 * h - 1 /\ VI!Values("uint64") = 0..2 * f - 1
  BY ValuesAre
<1>2. Codes = 0..2 * f - 1
  BY <1>1 DEF Codes
<1>3. CASE k \in {"int32", "int64"}
  <2>1. v \in Int
    BY <1>1, <1>3
  <2>2. CodeOf(k, v) = VI!EncodeZigzag(v)
    BY <1>3 DEF CodeOf, VI!Signed
  <2>3. CodeOf(k, v) \in 0..2 * h - 1
    BY <1>1, <2>1, <2>2, ZigzagFits
  <2>4. PICK c : c = CodeOf(k, v)
    OBVIOUS
  <2>5. c \in Codes /\ c < 2 * h
    BY <1>1, <1>2, <2>3, <2>4
  <2>6. PICK w \in Nat : w = 2^VI!Width(k) /\ 2 * h <= w
    BY <1>1, WidthIs
  <2>7. c < w
    BY <1>1, <2>3, <2>4, <2>6
  <2>8. QED BY <1>1, <2>4, <2>5, <2>6, <2>7
<1>4. CASE k \in {"uint32", "uint64"}
  <2>1. CodeOf(k, v) = v /\ ~VI!Signed(k)
    BY <1>4 DEF CodeOf, VI!Signed
  <2>2. v \in Codes /\ v < 2^VI!Width(k)
    <3>1. CASE k = "uint32"
      <4>1. v \in 0..2 * h - 1 /\ 2^VI!Width(k) = 2 * h
        BY <1>1, <3>1 DEF VI!Width
      <4>2. QED BY <1>1, <1>2, <4>1
    <3>2. CASE k = "uint64"
      <4>1. v \in 0..2 * f - 1 /\ 2^VI!Width(k) = 2 * f
        BY <1>1, <3>2 DEF VI!Width
      <4>2. QED BY <1>2, <4>1
    <3>3. QED BY <1>4, <3>1, <3>2
  <2>3. QED BY <2>1, <2>2
<1>5. QED BY <1>3, <1>4 DEF Kind

LEMMA VarintInit == VI!VarintAssumption /\ VI!Init => VarintInv
<1> SUFFICES ASSUME VI!VarintAssumption, VI!Init PROVE VarintInv
  OBVIOUS
<1>1. kind \in Kind /\ value \in VI!Values(kind) /\ bytes = << >> /\ taken = 0 /\ back = 0
  BY DEF VI!Init, Kind
<1>2. 0 \in VI!Values(kind)
  BY <1>1, ValuesAre DEF Kind
<1>3. QED BY <1>1, <1>2 DEF VarintInv

\* Write and Read keep the invariant: the groups that were written are parsed.
LEMMA VarintStep ==
  ASSUME VI!VarintAssumption, VarintInv, [VI!Next]_(VI!vars)
  PROVE  VarintInv'
<1>1. kind \in Kind /\ value \in VI!Values(kind)
  BY DEF VarintInv
<1>2. CASE VI!Write
  <2>1. /\ bytes' = VI!Groups[CodeOf(kind, value)] /\ taken = 0 /\ taken' = taken
        /\ kind' = kind /\ value' = value /\ back' = back
    <3>1. bytes = << >> /\ VI!Groups[CodeOf(kind, value)] # << >>
      <4>1. Len(VI!Groups[CodeOf(kind, value)]) # 0
        BY <1>1, CodeFits, GroupsTyped
      <4>2. QED BY <1>2, <4>1 DEF VI!Write
    <3>2. taken = 0
      BY <3>1 DEF VarintInv
    <3>3. QED BY <1>2, <3>2 DEF VI!Write, CodeOf
  <2>2. QED BY <1>1, <2>1 DEF VarintInv
<1>3. CASE VI!Read
  <2>1. bytes # << >> /\ taken = 0 /\ kind' = kind /\ value' = value /\ bytes' = bytes
    BY <1>3 DEF VI!Read
  <2>2. PICK c : c = CodeOf(kind, value) /\ bytes = VI!Groups[c]
    BY <2>1 DEF VarintInv
  <2>3. /\ c \in Codes /\ c \in Nat /\ c < 2^VI!Width(kind)
        /\ VI!Signed(kind) => c < 2^Half
    BY <1>1, <2>2, CodeFits DEF Codes
  <2>4. Group * (1 - 1) = 0 /\ 2^0 = 1 /\ c * 1 = c
    BY <2>3 DEF VI!VarintAssumption
  <2>5. Suffix(1, c) /\ Remains(1, c)
    <3>1. ASSUME NEW j \in 1..Len(VI!Groups[c]) PROVE bytes[1 + j - 1] = VI!Groups[c][j]
      <4>1. 1 + j - 1 = j
        BY <2>3, GroupsTyped
      <4>2. QED BY <2>2, <4>1
    <3>2. QED BY <2>3, <2>4, <3>1 DEF Suffix, Remains
  <2>6. VI!Parse[1].value = c /\ VI!Parse[1].taken = Len(bytes)
    <3>1. VI!Width(kind) \in Nat \ {0} /\ 1 \in Nat \ {0}
      BY <1>1, WidthIs
    <3>2. Parsed(1, c)
      BY <2>3, <2>5, <3>1, ParseGroups
    <3>3. QED BY <2>2, <2>4, <3>2 DEF Parsed
  <2>7. c % 2^VI!Width(kind) = c
    <3>1. PICK w \in Nat \ {0} : w = 2^VI!Width(kind)
      BY <1>1, WidthIs
    <3>2. c % w = c
      BY <2>3, <3>1
    <3>3. QED BY <3>1, <3>2
  <2>8. /\ taken' = Len(bytes)
        /\ back' = IF VI!Signed(kind) THEN VI!DecodeZigzag(c) ELSE c
    BY <1>3, <2>6, <2>7 DEF VI!Read
  <2>9. PICK h \in Nat \ {0}, f \in Nat \ {0} :
          /\ 2^Half = 2 * h /\ 2^VI!Full = 2 * f /\ h <= f
          /\ VI!Values("int32") = -h..h - 1 /\ VI!Values("int64") = -f..f - 1
          /\ VI!Values("uint32") = 0..2 * h - 1 /\ VI!Values("uint64") = 0..2 * f - 1
    BY ValuesAre
  <2>10. back' \in VI!Values(kind) /\ Exact(kind, value, back')
    <3>1. CASE kind \in {"int32", "int64"}
      <4>1. c = VI!EncodeZigzag(value) /\ back' = VI!DecodeZigzag(c) /\ c < 2 * h
        BY <2>2, <2>3, <2>8, <2>9, <3>1 DEF CodeOf, VI!Signed
      <4>2. c \in 0..2 * h - 1
        BY <2>3, <4>1
      <4>3. back' \in -h..h - 1
        BY <4>1, <4>2, DecodedFits
      <4>4. PICK b \in Int : b = back' /\ b \in -h..h - 1 /\ b \in -f..f - 1
        BY <2>9, <4>3
      <4>5. back' \in VI!Values(kind)
        BY <2>9, <3>1, <4>4
      <4>6. value \in Int
        BY <1>1, <2>9, <3>1
      <4>7. value \in -h..h - 1 => back' = value
        BY <2>9, <4>1, <4>6, ZigzagFits
      <4>8. Exact(kind, value, back')
        BY <1>1, <2>9, <3>1, <4>7 DEF Exact
      <4>9. QED BY <4>5, <4>8
    <3>2. CASE kind \in {"uint32", "uint64"}
      <4>1. back' = value
        BY <2>2, <2>8, <3>2 DEF CodeOf, VI!Signed
      <4>2. QED BY <1>1, <4>1 DEF Exact
    <3>3. QED BY <1>1, <3>1, <3>2 DEF Kind
  <2>11. bytes' = VI!Groups[CodeOf(kind', value')] /\ taken' = Len(bytes')
    BY <2>1, <2>2, <2>8
  <2>12. kind' \in Kind /\ value' \in VI!Values(kind') /\ back' \in VI!Values(kind')
         /\ Exact(kind', value', back')
    BY <1>1, <2>1, <2>10
  <2>13. QED BY <2>11, <2>12 DEF VarintInv
<1>4. CASE UNCHANGED VI!vars
  BY <1>4 DEF VarintInv, VI!vars
<1>5. QED BY <1>2, <1>3, <1>4 DEF VI!Next

LEMMA VarintInvShows ==
  ASSUME VI!VarintAssumption, VarintInv
  PROVE  VI!RoundTrips /\ VI!TypeOK
<1>1. VI!RoundTrips
  BY DEF VarintInv, Exact, VI!RoundTrips
<1>2. bytes \in Seq(VarBytes) /\ taken \in 0..Len(bytes)
  <2>1. CASE bytes = << >> /\ taken = 0
    BY <2>1
  <2>2. CASE bytes = VI!Groups[CodeOf(kind, value)] /\ (taken # 0 => taken = Len(bytes))
    <3>1. bytes \in Seq(VarBytes) /\ Len(bytes) \in Nat
      BY <2>2, CodeFits, GroupsTyped DEF VarintInv
    <3>2. QED BY <2>2, <3>1
  <2>3. QED BY <2>1, <2>2 DEF VarintInv
<1>3. VI!TypeOK
  BY <1>2 DEF VarintInv, VI!TypeOK, Kind, VarBytes
<1>4. QED BY <1>1, <1>3

\* What is written is read back, and from all the bytes that were written, for
\* any width of a group and of the integers.
THEOREM VarintRoundTrips ==
  VI!VarintAssumption => (VI!Spec => [](VI!RoundTrips /\ VI!TypeOK))
<1> SUFFICES ASSUME VI!VarintAssumption
             PROVE  VI!Spec => [](VI!RoundTrips /\ VI!TypeOK)
  OBVIOUS
<1>1. VI!Init => VarintInv
  BY VarintInit
<1>2. VarintInv /\ [VI!Next]_(VI!vars) => VarintInv'
  BY VarintStep
<1>3. VarintInv => VI!RoundTrips /\ VI!TypeOK
  BY VarintInvShows
<1>4. QED BY <1>1, <1>2, <1>3, PTL DEF VI!Spec

-----------------------------------------------------------------------------
(***************************************************************************)
(* TimedCache: for any keys, values, times to live and limits              *)
(***************************************************************************)
TimedInv ==
  /\ tcNow \in Nat
  /\ timed \subseteq TC!Items
  /\ tcCache \in [Keys -> TC!Items \cup {TC!None}]
  /\ TC!NoDangling

\* What keeps the indexes together: an item that goes takes the entry of its
\* key along.
LEMMA TimedKeeps ==
  ASSUME TimedInv, NEW a, tcNow' \in Nat, timed' = timed \ {a},
         tcCache' \in [Keys -> TC!Items \cup {TC!None}],
         \A k \in Keys : tcCache'[k] # TC!None => tcCache'[k] = tcCache[k] /\ tcCache[k] # a
  PROVE  TimedInv'
  BY DEF TimedInv, TC!NoDangling

\* set() with the pruning that follows
LEMMA TimedSet ==
  ASSUME TC!TimedAssumption, TimedInv,
         NEW k \in Keys, NEW v \in Vals, NEW life \in Lives, TC!Set(k, v, life)
  PROVE  TimedInv'
<1> DEFINE new  == [key |-> k, val |-> v, ts |-> tcNow + life]
           same == {a \in timed : a.key = k /\ a.ts = new.ts}
           item == IF same = {} THEN new ELSE CHOOSE a \in same : TRUE
           S    == timed \cup {item}
           c    == [tcCache EXCEPT ![k] = item]
           out  == IF MaxSize = 0 \/ TC!Cardinality(TC!Cached(c)) < MaxSize + Elasticity
                   THEN {} ELSE TC!Pruned(S, c)
<1>1. /\ timed' = S \ out /\ tcNow' = tcNow
      /\ tcCache' = [j \in Keys |-> IF \E a \in out : a.key = j THEN TC!None ELSE c[j]]
  BY DEF TC!Set
<1>2. item \in TC!Items /\ item.key = k
  <2>1. new \in TC!Items /\ new.key = k
    BY DEF TC!Items, TimedInv, TC!TimedAssumption
  <2>2. \A a \in same : a \in TC!Items /\ a.key = k
    BY DEF TimedInv
  <2> HIDE DEF new, same
  <2>3. QED BY <2>1, <2>2
<1>3. \A j \in Keys : c[j] = IF j = k THEN item ELSE tcCache[j]
  BY DEF TimedInv
<1> HIDE DEF item, out, c
<1>4. tcCache' \in [Keys -> TC!Items \cup {TC!None}]
  BY <1>1, <1>2, <1>3 DEF TimedInv
<1>5. timed' \subseteq TC!Items
  BY <1>1, <1>2 DEF TimedInv
<1>6. ASSUME NEW j \in Keys, tcCache'[j] # TC!None
      PROVE  tcCache'[j] \in timed' /\ tcCache'[j].key = j
  <2>1. tcCache'[j] = c[j] /\ ~\E a \in out : a.key = j
    BY <1>1, <1>6
  <2>2. c[j] \in S /\ c[j].key = j
    BY <1>2, <1>3, <1>6, <2>1 DEF TimedInv, TC!NoDangling
  <2>3. c[j] \notin out
    BY <2>1, <2>2
  <2>4. QED BY <1>1, <2>1, <2>2, <2>3
<1>7. QED BY <1>1, <1>4, <1>5, <1>6 DEF TimedInv, TC!NoDangling

\* Every other operation takes items out, or none.
LEMMA TimedStep ==
  ASSUME TC!TimedAssumption, TimedInv, [TC!Next]_(TC!vars)
  PROVE  TimedInv'
<1>1. ASSUME NEW k \in Keys, TC!Del(k) PROVE TimedInv'
  <2>1. tcCache[k].key = k
    BY <1>1 DEF TC!Del, TimedInv, TC!NoDangling
  <2>2. /\ timed' = timed \ {tcCache[k]} /\ tcCache' = [tcCache EXCEPT ![k] = TC!None] /\ tcNow' \in Nat
    BY <1>1, <2>1 DEF TC!Del, TC!Dropped, TimedInv
  <2>3. tcCache' \in [Keys -> TC!Items \cup {TC!None}]
    BY <2>2 DEF TimedInv
  <2>4. \A j \in Keys : tcCache'[j] # TC!None => tcCache'[j] = tcCache[j] /\ tcCache[j] # tcCache[k]
    BY <2>1, <2>2 DEF TimedInv, TC!NoDangling
  <2>5. QED BY <2>2, <2>3, <2>4, TimedKeeps
<1>2. CASE TC!CheckItem
  <2>1. iter \in TC!Items /\ iter.key \in Keys
    BY <1>2 DEF TC!CheckItem, TC!Items
  <2>2. /\ timed' = timed \ {iter} /\ tcCache' = [tcCache EXCEPT ![iter.key] = TC!None]
        /\ tcNow' \in Nat
    BY <1>2 DEF TC!CheckItem, TC!Dropped, TimedInv
  <2>3. tcCache' \in [Keys -> TC!Items \cup {TC!None}]
    BY <2>2 DEF TimedInv
  <2>4. \A j \in Keys : tcCache'[j] # TC!None => tcCache'[j] = tcCache[j] /\ tcCache[j] # iter
    BY <2>1, <2>2 DEF TimedInv, TC!NoDangling
  <2>5. QED BY <2>2, <2>3, <2>4, TimedKeeps
<1>3. CASE TC!Clear
  BY <1>3 DEF TC!Clear, TimedInv, TC!NoDangling
<1>4. CASE TC!CheckTimeout \/ TC!CheckEnds \/ TC!Tick \/ UNCHANGED TC!vars
  BY <1>4 DEF TC!CheckTimeout, TC!CheckEnds, TC!Tick, TC!vars, TimedInv, TC!NoDangling
<1>5. QED BY <1>1, <1>2, <1>3, <1>4, TimedSet DEF TC!Next

\* Timed_Cache (ds/TimedCache.h 70-80, 196-230): whatever entries prune() and
\* checkTimeout() lose, the map never has an iterator whose item is gone, which
\* get() would follow.
THEOREM TimedNoDangling ==
  TC!TimedAssumption => (TC!Spec => []TC!NoDangling)
<1>1. SUFFICES ASSUME TC!TimedAssumption PROVE TC!Spec => []TC!NoDangling
  OBVIOUS
<1>2. TC!Init => TimedInv
  BY DEF TC!Init, TimedInv, TC!NoDangling
<1>3. TimedInv /\ [TC!Next]_(TC!vars) => TimedInv'
  BY <1>1, TimedStep
<1>4. TimedInv => TC!NoDangling
  BY DEF TimedInv
<1>5. QED BY <1>2, <1>3, <1>4, PTL DEF TC!Spec

\* The types need more: items of the set are in an order of their own, so that
\* the set has a first item, and after each item there is a next one or none.
TimedTypes ==
  /\ TimedInv /\ tcNow \in 0..MaxNow
  /\ \A a, b \in timed : a.key = b.key /\ a.ts = b.ts => a = b
  /\ iter \in TC!Items \cup {TC!None, TC!End, TC!Spin} /\ limit \in 0..MaxNow

LEMMA FirstTyped ==
  ASSUME TC!TimedAssumption, NEW S \in SUBSET TC!Items,
         \A a, b \in S : a.key = b.key /\ a.ts = b.ts => a = b
  PROVE  TC!First(S) \in S \cup {TC!End}
<1>1. CASE S = {}
  BY <1>1 DEF TC!First
<1>2. CASE S # {}
  <2>1. \A a \in S : a.ts \in Nat /\ a.key \in Nat
    BY DEF TC!Items, TC!TimedAssumption
  <2>2. PICK t \in {a.ts : a \in S} : \A n \in {a.ts : a \in S} : t <= n
    <3>1. {a.ts : a \in S} \in SUBSET Nat /\ {a.ts : a \in S} # {}
      BY <1>2, <2>1
    <3>2. PICK Q : Q = {a.ts : a \in S}
      OBVIOUS
    <3>3. QED BY <3>1, <3>2, LeastNumber
  <2>3. PICK k \in {a.key : a \in {b \in S : b.ts = t}} :
          \A n \in {a.key : a \in {b \in S : b.ts = t}} : k <= n
    <3>1. /\ {a.key : a \in {b \in S : b.ts = t}} \in SUBSET Nat
          /\ {a.key : a \in {b \in S : b.ts = t}} # {}
      BY <2>1, <2>2
    <3>2. PICK Q : Q = {a.key : a \in {b \in S : b.ts = t}}
      OBVIOUS
    <3>3. QED BY <3>1, <3>2, LeastNumber
  <2>4. PICK a \in S : a.ts = t /\ a.key = k
    BY <2>3
  <2>5. \A b \in S : t <= b.ts /\ (b.ts = t => k <= b.key)
    BY <2>2, <2>3
  <2>6. ASSUME NEW b \in S PROVE a = b \/ TC!Before(a, b)
    <3>1. /\ a.ts = t /\ a.key = k /\ t \in Nat /\ k \in Nat /\ b.ts \in Nat /\ b.key \in Nat
          /\ t <= b.ts /\ (b.ts = t => k <= b.key)
      BY <2>1, <2>4, <2>5
    <3>2. CASE b.ts = t /\ b.key = k
      BY <2>4, <3>2
    <3>3. CASE ~(b.ts = t /\ b.key = k)
      <4>1. a.ts < b.ts \/ (a.ts = b.ts /\ a.key < b.key)
        BY <3>1, <3>3
      <4>2. QED BY <4>1 DEF TC!Before
    <3>4. QED BY <3>2, <3>3
  <2>7. TC!First(S) = CHOOSE x \in S : \A b \in S : x = b \/ TC!Before(x, b)
    BY <1>2 DEF TC!First
  <2>8. QED BY <2>4, <2>6, <2>7
<1>3. QED BY <1>1, <1>2

LEMMA AfterTyped ==
  ASSUME TC!TimedAssumption, TimedTypes, NEW a
  PROVE  TC!After(timed, a) \in timed \cup {TC!End}
<1>1. PICK S : S = {b \in timed : TC!Before(a, b)}
  OBVIOUS
<1>2. S \in SUBSET TC!Items /\ S \subseteq timed /\ \A b, c \in S : b.key = c.key /\ b.ts = c.ts => b = c
  BY <1>1 DEF TimedTypes, TimedInv
<1>3. TC!First(S) \in S \cup {TC!End}
  BY <1>2, FirstTyped
<1>4. QED BY <1>1, <1>2, <1>3 DEF TC!After

\* What set() enters has a place of its own.
LEMMA SetApart ==
  ASSUME TC!TimedAssumption, TimedTypes,
         NEW k \in Keys, NEW v \in Vals, NEW life \in Lives, TC!Set(k, v, life)
  PROVE  (\A a, b \in timed : a.key = b.key /\ a.ts = b.ts => a = b)'
<1> DEFINE new  == [key |-> k, val |-> v, ts |-> tcNow + life]
           same == {a \in timed : a.key = k /\ a.ts = new.ts}
           item == IF same = {} THEN new ELSE CHOOSE a \in same : TRUE
<1>1. timed' \subseteq timed \cup {item}
  BY DEF TC!Set
<1>2. \A a, b \in timed : a.key = b.key /\ a.ts = b.ts => a = b
  BY DEF TimedTypes
<1>3. new.key = k /\ new.ts = tcNow + life
  OBVIOUS
<1>4. CASE same = {}
  <2>1. item = new
    BY <1>4
  <2>2. \A a \in timed : ~(a.key = new.key /\ a.ts = new.ts)
    BY <1>3, <1>4
  <2> HIDE DEF new, same, item
  <2>3. QED BY <1>1, <1>2, <2>1, <2>2
<1>5. CASE same # {}
  <2>1. item \in same
    BY <1>5
  <2>2. item \in timed
    BY <2>1
  <2> HIDE DEF new, same, item
  <2>3. QED BY <1>1, <1>2, <2>2
<1>6. QED BY <1>4, <1>5

LEMMA TimedTypesStep ==
  TC!TimedAssumption /\ TimedTypes /\ [TC!Next]_(TC!vars) => TimedTypes'
<1> SUFFICES ASSUME TC!TimedAssumption, TimedTypes, [TC!Next]_(TC!vars) PROVE TimedTypes'
  OBVIOUS
<1>1. TimedInv'
  BY TimedStep DEF TimedTypes
<1>2. tcNow \in 0..MaxNow /\ MaxNow \in Nat /\ limit \in 0..MaxNow
      /\ timed \subseteq TC!Items /\ timed' \subseteq TC!Items
      /\ iter \in TC!Items \cup {TC!None, TC!End, TC!Spin}
      /\ \A a, b \in timed : a.key = b.key /\ a.ts = b.ts => a = b
  BY <1>1 DEF TimedTypes, TimedInv, TC!TimedAssumption
<1>3. ASSUME NEW k \in Keys, NEW v \in Vals, NEW life \in Lives, TC!Set(k, v, life)
      PROVE  TimedTypes'
  <2>1. UNCHANGED <<tcNow, iter, limit>>
    BY <1>3 DEF TC!Set
  <2>2. QED BY <1>1, <1>2, <1>3, <2>1, SetApart DEF TimedTypes
<1>4. ASSUME timed' \subseteq timed, UNCHANGED <<tcNow, iter, limit>> PROVE TimedTypes'
  BY <1>1, <1>2, <1>4 DEF TimedTypes
<1>5. ASSUME NEW k \in Keys, TC!Del(k) PROVE TimedTypes'
  BY <1>4, <1>5 DEF TC!Del
<1>6. CASE TC!Clear
  BY <1>4, <1>6 DEF TC!Clear
<1>7. CASE TC!CheckTimeout
  <2>1. TC!First(timed) \in timed \cup {TC!End}
    BY <1>2, FirstTyped
  <2>2. iter' \in TC!Items \cup {TC!End} /\ limit' = tcNow /\ UNCHANGED <<tcNow, timed>>
    BY <1>2, <1>7, <2>1 DEF TC!CheckTimeout
  <2>3. QED BY <1>1, <1>2, <2>2 DEF TimedTypes
<1>8. CASE TC!CheckItem
  <2>1. timed' \subseteq timed /\ UNCHANGED <<tcNow, limit>>
    BY <1>8 DEF TC!CheckItem
  <2>2. iter' \in timed \cup timed' \cup {TC!End, TC!Spin}
    <3>1. \A a : TC!After(timed, a) \in timed \cup {TC!End}
      BY AfterTyped
    <3>2. QED BY <1>8, <3>1 DEF TC!CheckItem
  <2>3. QED BY <1>1, <1>2, <2>1, <2>2 DEF TimedTypes
<1>9. CASE TC!CheckEnds
  <2>1. iter' = TC!None /\ limit' = 0 /\ UNCHANGED <<tcNow, timed>>
    BY <1>9 DEF TC!CheckEnds
  <2>2. QED BY <1>1, <1>2, <2>1 DEF TimedTypes
<1>10. CASE TC!Tick
  <2>1. tcNow < MaxNow /\ tcNow' = tcNow + 1 /\ UNCHANGED <<timed, iter, limit>>
    BY <1>10 DEF TC!Tick
  <2>2. QED BY <1>1, <1>2, <2>1 DEF TimedTypes
<1>11. CASE UNCHANGED TC!vars
  BY <1>4, <1>11 DEF TC!vars
<1>12. QED
  BY <1>3, <1>5, <1>6, <1>7, <1>8, <1>9, <1>10, <1>11 DEF TC!Next

LEMMA TimedTypesInit == TC!TimedAssumption /\ TC!Init => TimedTypes
<1>1. TC!Init => TimedInv
  BY DEF TC!Init, TimedInv, TC!NoDangling
<1>2. QED BY <1>1 DEF TC!Init, TimedTypes, TC!TimedAssumption

-----------------------------------------------------------------------------
(***************************************************************************)
(* NameServer: the registry, for any streams, domains and weights          *)
(***************************************************************************)
RegistryTypes ==
  /\ linked \in [Streams -> BOOLEAN] /\ refused \in [Streams -> BOOLEAN]
  /\ domains \in NS!Tables /\ owners \in [Nodes -> SUBSET Streams]
  /\ sessions \in [Streams -> NS!Infos \cup {NS!None}]

\* A stream that has registered a node is among those that ever have.
Owned == \A s \in Streams : sessions[s] # NS!None => s \in owners[sessions[s].node]

RegistryInv == RegistryTypes /\ Owned /\ NS!RegistryExact

\* The two halves of what RegistryExact says of an entry.
Backed(k, n) ==
  domains[k][n] # NS!NoWeight =>
    \E s \in Streams : NS!Registers(s, k, n) /\ domains[k][n] = sessions[s].weight
Kept(s, k, n) ==
  NS!Registers(s, k, n) /\ owners[n] = {s} => domains[k][n] = sessions[s].weight

\* What set() enters for a stream: nothing, or more of the same node.
Fits(s, new) ==
  /\ new \in NS!Infos \cup {NS!None}
  /\ sessions[s] # NS!None /\ new # NS!None => new.node = sessions[s].node

\* The module starts with no session and empty domains.
LEMMA RegistryInit == NS!NameServerAssumption /\ NS!Init => RegistryInv
<1>1. SUFFICES ASSUME NS!NameServerAssumption, NS!Init PROVE RegistryInv
  OBVIOUS
<1>2. \A s \in Streams : sessions[s] = NS!None
  BY <1>1 DEF NS!Init
<1>3. RegistryTypes
  BY <1>1 DEF NS!Init, RegistryTypes, NS!Tables, NS!Empty
<1>4. NS!RegistryExact
  BY <1>1, <1>2 DEF NS!Init, NS!RegistryExact, NS!Empty, NS!Cmds, NS!Registers
<1>5. QED
  BY <1>2, <1>3, <1>4 DEF RegistryInv, Owned

\* The differences of two registrations over one stream, at one entry.
LEMMA UpdatedAt ==
  ASSUME NS!NameServerAssumption, RegistryTypes, NEW s \in Streams, NEW new, Fits(s, new),
         NEW k \in NsKeys
  PROVE  /\ NS!Updated(sessions[s], new)[k] \in [Nodes -> Weights \cup {NS!NoWeight}]
         /\ \A n \in Nodes :
              NS!Updated(sessions[s], new)[k][n] =
                IF k \in NS!Cmds(sessions[s]) \ NS!Cmds(new) /\ n = sessions[s].node
                THEN NS!NoWeight
                ELSE IF /\ k \in NS!Cmds(new) /\ n = new.node
                        /\ k \in NS!Cmds(sessions[s]) => sessions[s].weight # new.weight
                THEN new.weight
                ELSE domains[k][n]
<1> DEFINE old == sessions[s]
           dels == NS!Cmds(old) \ NS!Cmds(new)
           adds == (NS!Cmds(new) \ NS!Cmds(old))
                     \cup {j \in NS!Cmds(old) \cap NS!Cmds(new) : old.weight # new.weight}
<1>1. NS!Updated(old, new)[k] =
        IF k \in dels THEN [domains[k] EXCEPT ![old.node] = NS!NoWeight]
        ELSE IF k \in adds THEN [domains[k] EXCEPT ![new.node] = new.weight]
        ELSE domains[k]
  BY DEF NS!Updated
<1>2. domains[k] \in [Nodes -> Weights \cup {NS!NoWeight}]
  BY DEF RegistryTypes, NS!Tables
<1>3. /\ k \in NS!Cmds(old) => old.node \in Nodes
      /\ k \in NS!Cmds(new) => new.node \in Nodes /\ new.weight \in Weights
  BY DEF NS!Cmds, Fits, NS!Infos, RegistryTypes
<1>4. CASE k \in dels
  BY <1>1, <1>2, <1>3, <1>4
<1>5. CASE k \in adds
  BY <1>1, <1>2, <1>3, <1>5
<1>6. CASE k \notin dels /\ k \notin adds
  BY <1>1, <1>2, <1>6
<1>7. QED
  BY <1>4, <1>5, <1>6

\* set() keeps the domains exact, whether or not the stream is still connected,
\* and enters a connected stream only.
LEMMA SetExact ==
  ASSUME NS!NameServerAssumption, RegistryInv,
         NEW s \in Streams, NEW info, Fits(s, info), NS!Set(s, info)
  PROVE  /\ domains' \in NS!Tables /\ owners' \in [Nodes -> SUBSET Streams]
         /\ sessions' \in [Streams -> NS!Infos \cup {NS!None}]
         /\ Owned'
         /\ \A k \in NsKeys, n \in Nodes : Backed(k, n)'
         /\ \A k \in NsKeys, n \in Nodes, t \in Streams : Kept(t, k, n)'
         /\ \A t \in Streams \ {s} : sessions'[t] = sessions[t]
         /\ sessions'[s] # NS!None => linked[s] /\ info # NS!None
<1> DEFINE set == IF linked[s] THEN info ELSE NS!None
<1>1. PICK new : new = set
  OBVIOUS
<1>2. /\ domains' = NS!Updated(sessions[s], new) /\ sessions' = [sessions EXCEPT ![s] = new]
      /\ owners' = [n \in Nodes |-> IF new # NS!None /\ n = new.node
                                    THEN owners[n] \cup {s} ELSE owners[n]]
      /\ Fits(s, new)
      /\ new # NS!None => linked[s] /\ info # NS!None
  BY <1>1 DEF NS!Set, Fits
<1> HIDE DEF set
<1>3. /\ sessions' \in [Streams -> NS!Infos \cup {NS!None}] /\ sessions'[s] = new
      /\ \A t \in Streams \ {s} : sessions'[t] = sessions[t]
  BY <1>2 DEF RegistryInv, RegistryTypes, Fits
<1>4. /\ owners' \in [Nodes -> SUBSET Streams]
      /\ \A n \in Nodes : owners'[n] = IF new # NS!None /\ n = new.node
                                       THEN owners[n] \cup {s} ELSE owners[n]
  BY <1>2 DEF RegistryInv, RegistryTypes
<1>5. domains' \in NS!Tables
  <2>1. \A k \in NsKeys : domains'[k] \in [Nodes -> Weights \cup {NS!NoWeight}]
    BY <1>2, UpdatedAt DEF RegistryInv
  <2>2. domains' = [k \in NsKeys |-> domains'[k]]
    BY <1>2 DEF NS!Updated
  <2>3. QED
    BY <2>1, <2>2 DEF NS!Tables
<1>6. ASSUME NEW t \in Streams, sessions[t] # NS!None
      PROVE  sessions[t].node \in Nodes /\ t \in owners[sessions[t].node]
  BY <1>6 DEF RegistryInv, RegistryTypes, Owned, NS!Infos
<1>7. new # NS!None => new.node \in Nodes
  BY <1>2 DEF Fits, NS!Infos
<1>8. Owned'
  <2>1. SUFFICES ASSUME NEW t \in Streams, sessions'[t] # NS!None
                 PROVE  t \in owners'[sessions'[t].node]
    BY DEF Owned
  <2>2. CASE t = s
    BY <1>3, <1>4, <1>7, <2>1, <2>2
  <2>3. CASE t # s
    BY <1>3, <1>4, <1>6, <2>1, <2>3
  <2>4. QED
    BY <2>2, <2>3
<1>9. ASSUME NEW k \in NsKeys, NEW n \in Nodes
      PROVE  domains'[k][n] =
               IF k \in NS!Cmds(sessions[s]) \ NS!Cmds(new) /\ n = sessions[s].node
               THEN NS!NoWeight
               ELSE IF /\ k \in NS!Cmds(new) /\ n = new.node
                       /\ k \in NS!Cmds(sessions[s]) => sessions[s].weight # new.weight
               THEN new.weight
               ELSE domains[k][n]
  BY <1>2, UpdatedAt DEF RegistryInv
<1>10. \A t \in Streams : NS!Cmds(sessions[t]) # {} => sessions[t] # NS!None
  BY DEF NS!Cmds
<1>11. NS!Cmds(new) # {} => new # NS!None
  BY DEF NS!Cmds
<1>12. sessions[s] # NS!None /\ new # NS!None => new.node = sessions[s].node
  BY <1>2 DEF Fits
<1>13. ASSUME NEW k \in NsKeys, NEW n \in Nodes PROVE Backed(k, n)'
  <2>1. SUFFICES ASSUME domains'[k][n] # NS!NoWeight
                 PROVE  \E t \in Streams : /\ k \in NS!Cmds(sessions'[t]) /\ sessions'[t].node = n
                                           /\ domains'[k][n] = sessions'[t].weight
    BY DEF Backed, NS!Registers
  <2>2. CASE /\ k \in NS!Cmds(new) /\ n = new.node
             /\ k \in NS!Cmds(sessions[s]) => sessions[s].weight # new.weight
    BY <1>3, <1>9, <2>1, <2>2
  <2>3. CASE ~(/\ k \in NS!Cmds(new) /\ n = new.node
               /\ k \in NS!Cmds(sessions[s]) => sessions[s].weight # new.weight)
    <3>1. domains'[k][n] = domains[k][n] /\ domains[k][n] # NS!NoWeight
      BY <1>9, <2>1, <2>3
    <3>2. PICK t \in Streams : /\ k \in NS!Cmds(sessions[t]) /\ sessions[t].node = n
                               /\ domains[k][n] = sessions[t].weight
      BY <3>1 DEF RegistryInv, NS!RegistryExact, NS!Registers
    <3>3. CASE t # s
      BY <1>3, <3>1, <3>2, <3>3
    <3>4. CASE t = s
      <4>1. k \in NS!Cmds(new)
        BY <1>9, <2>1, <3>2, <3>4
      <4>2. new.node = n
        BY <1>10, <1>11, <1>12, <3>2, <3>4, <4>1
      <4>3. new.weight = sessions[s].weight
        BY <2>3, <3>2, <3>4, <4>1, <4>2
      <4>4. QED
        BY <1>3, <3>1, <3>2, <3>4, <4>1, <4>2, <4>3
    <3>5. QED
      BY <3>3, <3>4
  <2>4. QED
    BY <2>2, <2>3
<1>14. ASSUME NEW k \in NsKeys, NEW n \in Nodes, NEW t \in Streams PROVE Kept(t, k, n)'
  <2>1. SUFFICES ASSUME k \in NS!Cmds(sessions'[t]), sessions'[t].node = n, owners'[n] = {t}
                 PROVE  domains'[k][n] = sessions'[t].weight
    BY DEF Kept, NS!Registers
  <2>2. /\ k \in NS!Cmds(sessions[t]) /\ sessions[t].node = n /\ owners[n] = {t}
           => domains[k][n] = sessions[t].weight
    BY DEF RegistryInv, NS!RegistryExact, NS!Registers
  <2>3. CASE t # s
    <3>1. ~(new # NS!None /\ n = new.node) /\ owners[n] = {t}
      BY <1>4, <2>1, <2>3
    <3>2. ~(sessions[s] # NS!None /\ n = sessions[s].node)
      BY <1>6, <2>3, <3>1
    <3>3. domains'[k][n] = domains[k][n]
      BY <1>9, <1>10, <1>11, <3>1, <3>2
    <3>4. QED
      BY <1>3, <2>1, <2>2, <2>3, <3>1, <3>3
  <2>4. CASE t = s
    <3>1. k \in NS!Cmds(new) /\ new.node = n /\ new # NS!None
      BY <1>3, <1>11, <2>1, <2>4
    <3>2. CASE k \in NS!Cmds(sessions[s]) => sessions[s].weight # new.weight
      BY <1>3, <1>9, <2>4, <3>1, <3>2
    <3>3. CASE k \in NS!Cmds(sessions[s]) /\ sessions[s].weight = new.weight
      <4>1. sessions[s] # NS!None /\ sessions[s].node = n
        BY <1>10, <1>12, <3>1, <3>3
      <4>2. owners[n] = {s}
        BY <1>4, <1>6, <2>1, <2>4, <4>1
      <4>3. domains'[k][n] = domains[k][n]
        BY <1>9, <3>1, <3>3
      <4>4. QED
        BY <1>3, <2>2, <2>4, <3>3, <4>1, <4>2, <4>3
    <3>4. QED
      BY <3>2, <3>3
  <2>5. QED
    BY <2>3, <2>4
<1>15. QED
  BY <1>2, <1>3, <1>4, <1>5, <1>8, <1>13, <1>14

\* A step with set() keeps the invariant if it leaves connected who it enters.
LEMMA SetStep ==
  ASSUME NS!NameServerAssumption, RegistryInv,
         NEW s \in Streams, NEW info, Fits(s, info), NS!Set(s, info), UNCHANGED refused,
         linked' \in [Streams -> BOOLEAN], \A t \in Streams \ {s} : linked'[t] = linked[t],
         info # NS!None => linked'[s] = linked[s]
  PROVE  RegistryInv'
<1>1. RegistryTypes' /\ Owned'
  BY SetExact DEF RegistryInv, RegistryTypes
<1>2. /\ \A k \in NsKeys, n \in Nodes : Backed(k, n)'
      /\ \A k \in NsKeys, n \in Nodes, t \in Streams : Kept(t, k, n)'
  BY SetExact
<1>3. ASSUME NEW t \in Streams, sessions'[t] # NS!None PROVE linked'[t] \/ refused'[t]
  <2>1. /\ \A r \in Streams \ {s} : sessions'[r] = sessions[r]
        /\ sessions'[s] # NS!None => linked[s] /\ info # NS!None
    BY SetExact
  <2>2. \A r \in Streams : sessions[r] # NS!None => linked[r] \/ refused[r]
    BY DEF RegistryInv, NS!RegistryExact
  <2>3. QED
    BY <1>3, <2>1, <2>2
<1>4. NS!RegistryExact'
  BY <1>2, <1>3 DEF NS!RegistryExact, Backed, Kept
<1>5. QED
  BY <1>1, <1>4 DEF RegistryInv

\* What a registration enters is of the node of its stream.
LEMMA RegisterExact ==
  ASSUME NS!NameServerAssumption, RegistryInv, NEW s \in Streams, NS!HandleRegister(s)
  PROVE  RegistryInv'
<1>1. PICK info : Fits(s, info) /\ NS!Set(s, info)
  BY DEF NS!HandleRegister, Fits
<1>2. linked' = linked /\ refused' = refused
  BY DEF NS!HandleRegister
<1>3. linked \in [Streams -> BOOLEAN]
  BY DEF RegistryInv, RegistryTypes
<1>4. QED
  BY <1>1, <1>2, <1>3, SetStep

\* The end of a connection takes back what was registered over it.
LEMMA DisconnectExact ==
  ASSUME NS!NameServerAssumption, RegistryInv, NEW s \in Streams, NS!OnDisconnect(s)
  PROVE  RegistryInv'
<1>1. Fits(s, NS!None) /\ NS!Set(s, NS!None)
  BY DEF Fits, NS!OnDisconnect
<1>2. linked' = [linked EXCEPT ![s] = FALSE] /\ refused' = refused
  BY DEF NS!OnDisconnect
<1>3. /\ linked' \in [Streams -> BOOLEAN]
      /\ \A t \in Streams \ {s} : linked'[t] = linked[t]
  BY <1>2 DEF RegistryInv, RegistryTypes
<1>4. QED
  BY <1>1, <1>2, <1>3, SetStep

\* Every step keeps the invariant; the client touches no table of the server.
LEMMA RegistryStep ==
  ASSUME NS!NameServerAssumption, RegistryInv, [NS!Next]_(NS!vars)
  PROVE  RegistryInv'
<1>1. ASSUME NEW s \in Streams, NS!HandleRegister(s) PROVE RegistryInv'
  BY <1>1, RegisterExact
<1>2. ASSUME NEW s \in Streams, NS!OnDisconnect(s) PROVE RegistryInv'
  BY <1>2, DisconnectExact
<1>3. ASSUME NEW s \in Streams, NS!RefuseRegister(s) PROVE RegistryInv'
  <2>1. /\ linked' = [linked EXCEPT ![s] = FALSE] /\ refused' = [refused EXCEPT ![s] = TRUE]
        /\ UNCHANGED <<sessions, domains, owners>>
    BY <1>3 DEF NS!RefuseRegister
  <2>2. RegistryTypes' /\ Owned'
    BY <2>1 DEF RegistryInv, RegistryTypes, Owned
  <2>3. NS!RegistryExact'
    <3>1. \A t \in Streams : (linked[t] => linked'[t] \/ refused'[t]) /\ (refused[t] => refused'[t])
      BY <2>1 DEF RegistryInv, RegistryTypes
    <3>2. QED
      BY <2>1, <3>1 DEF RegistryInv, NS!RegistryExact, NS!Registers
  <2>4. QED
    BY <2>2, <2>3 DEF RegistryInv
<1>4. ASSUME UNCHANGED NS!serverVars PROVE RegistryInv'
  BY <1>4 DEF NS!serverVars, RegistryInv, RegistryTypes, Owned, NS!RegistryExact, NS!Registers
<1>5. ASSUME NS!Client PROVE UNCHANGED NS!serverVars
  BY <1>5 DEF NS!Client, NS!QueryDomainChange, NS!QueryAgain, NS!HandleQuery,
              NS!QueryFails, NS!Build, NS!Swap, NS!OnNotify
<1>6. ASSUME UNCHANGED NS!vars PROVE UNCHANGED NS!serverVars
  BY <1>6 DEF NS!vars
<1>7. QED
  BY <1>1, <1>2, <1>3, <1>4, <1>5, <1>6 DEF NS!Next, NS!Server

\* The domains hold what the sessions have registered and nothing else, but for
\* nodes that were registered over more than one stream; and sessions are of
\* streams that are connected or that the server itself has refused.
THEOREM RegistryIsExact == NS!NameServerAssumption => (NS!Spec => []NS!RegistryExact)
<1>1. SUFFICES ASSUME NS!NameServerAssumption PROVE NS!Spec => []NS!RegistryExact
  OBVIOUS
<1>2. NS!Init => RegistryInv
  BY <1>1, RegistryInit
<1>3. RegistryInv /\ [NS!Next]_(NS!vars) => RegistryInv'
  BY <1>1, RegistryStep
<1>4. RegistryInv => NS!RegistryExact
  BY DEF RegistryInv
<1>5. QED
  BY <1>2, <1>3, <1>4, PTL DEF NS!Spec

\* The types of the client's tables as well
RegistryAllTypes == RegistryInv /\ NS!TypeOK

LEMMA OnlyTyped ==
  ASSUME NEW table \in NS!Tables, NEW D
  PROVE  NS!Only(table, D) \in NS!Tables
  BY DEF NS!Only, NS!Tables

LEMMA NotesTyped ==
  ASSUME NS!TypeOK, NEW s \in Streams, NEW info, NS!Set(s, info)
  PROVE  notes' \subseteq NS!Changes
<1>1. notes \subseteq NS!Changes
  BY DEF NS!TypeOK
<1>2. QED BY <1>1 DEF NS!Set

LEMMA ServerTyped ==
  ASSUME NS!NameServerAssumption, RegistryAllTypes, NEW s \in Streams, RegistryInv',
         NS!HandleRegister(s) \/ NS!RefuseRegister(s) \/ NS!OnDisconnect(s)
  PROVE  NS!TypeOK'
<1>1. NS!TypeOK /\ nregs \in 0..MaxRegs /\ MaxRegs \in Nat
  BY DEF RegistryAllTypes, NS!TypeOK, NS!NameServerAssumption
<1>2. /\ linked' \in [Streams -> BOOLEAN] /\ refused' \in [Streams -> BOOLEAN]
      /\ domains' \in NS!Tables /\ owners' \in [Nodes -> SUBSET Streams]
  BY DEF RegistryInv, RegistryTypes
<1>3. sessions' \in [Streams -> NS!Infos \cup {NS!None}]
  BY DEF RegistryInv, RegistryTypes
<1>4. nregs' \in 0..MaxRegs
  BY <1>1 DEF NS!HandleRegister, NS!RefuseRegister, NS!OnDisconnect
<1>5. UNCHANGED <<queryDomains, nedits, view, qpc, asked, nsGot>>
  BY DEF NS!HandleRegister, NS!RefuseRegister, NS!OnDisconnect, NS!queryVars
<1>6. notes' \subseteq NS!Changes
  <2>1. CASE NS!HandleRegister(s)
    <3>1. \E i : NS!Set(s, i)
      BY <2>1 DEF NS!HandleRegister
    <3>2. QED BY <1>1, <1>2, <3>1, NotesTyped
  <2>2. CASE NS!OnDisconnect(s)
    <3>1. NS!Set(s, NS!None)
      BY <2>2 DEF NS!OnDisconnect
    <3>2. QED BY <1>1, <1>2, <3>1, NotesTyped
  <2>3. CASE NS!RefuseRegister(s)
    BY <1>1, <2>3 DEF NS!RefuseRegister, NS!TypeOK
  <2>4. QED BY <2>1, <2>2, <2>3
<1>7. QED BY <1>1, <1>2, <1>3, <1>4, <1>5, <1>6 DEF NS!TypeOK

LEMMA ClientTyped ==
  ASSUME NS!NameServerAssumption, NS!TypeOK, NS!Client
  PROVE  NS!TypeOK'
<1>1. /\ domains \in NS!Tables /\ view \in NS!Tables /\ nedits \in 0..MaxEdits
      /\ queryDomains \subseteq Domains
      /\ qpc \in [Queries -> {"off", "sent", "answered", "built"}]
      /\ asked \in [Queries -> SUBSET Domains] /\ nsGot \in [Queries -> NS!Tables]
      /\ notes \subseteq NS!Changes /\ MaxEdits \in Nat
  BY DEF NS!TypeOK, NS!NameServerAssumption
<1>2. ASSUME UNCHANGED NS!serverVars, view' \in NS!Tables, nedits' \in 0..MaxEdits,
             queryDomains' \subseteq Domains, notes' \subseteq NS!Changes,
             qpc' \in [Queries -> {"off", "sent", "answered", "built"}],
             asked' \in [Queries -> SUBSET Domains], nsGot' \in [Queries -> NS!Tables]
      PROVE  NS!TypeOK'
  BY <1>2 DEF NS!TypeOK, NS!serverVars
<1>3. ASSUME NEW x \in Queries, NEW D \in SUBSET Domains, NS!Ask(x, D)
      PROVE  /\ qpc' \in [Queries -> {"off", "sent", "answered", "built"}]
             /\ asked' \in [Queries -> SUBSET Domains] /\ nsGot' \in [Queries -> NS!Tables]
  BY <1>1, <1>3 DEF NS!Ask
<1>4. NS!Empty \in NS!Tables
  BY DEF NS!Empty, NS!Tables
<1>5. ASSUME NEW x \in Queries, NS!QueryDone(x)
      PROVE  /\ qpc' \in [Queries -> {"off", "sent", "answered", "built"}]
             /\ asked' \in [Queries -> SUBSET Domains] /\ nsGot' \in [Queries -> NS!Tables]
  BY <1>1, <1>4, <1>5 DEF NS!QueryDone
<1>6. ASSUME NEW x \in Queries, NS!QueryDomainChange(x) PROVE NS!TypeOK'
  <2>1. nedits' \in 0..MaxEdits
    BY <1>1, <1>6 DEF NS!QueryDomainChange
  <2>2. PICK D \in SUBSET Domains : queryDomains' = D /\ NS!Ask(x, D)
    BY <1>6 DEF NS!QueryDomainChange
  <2>3. QED BY <1>1, <1>2, <1>3, <1>6, <2>1, <2>2 DEF NS!QueryDomainChange
<1>7. ASSUME NEW x \in Queries, NS!QueryAgain(x) PROVE NS!TypeOK'
  <2>1. NS!Ask(x, queryDomains) /\ queryDomains \in SUBSET Domains
    BY <1>1, <1>7 DEF NS!QueryAgain
  <2>2. QED BY <1>1, <1>2, <1>3, <1>7, <2>1 DEF NS!QueryAgain
<1>8. ASSUME NEW x \in Queries, NS!HandleQuery(x) PROVE NS!TypeOK'
  <2>1. NS!Only(domains, asked[x]) \in NS!Tables
    BY <1>1, OnlyTyped
  <2>2. nsGot' \in [Queries -> NS!Tables]
    BY <1>1, <1>8, <2>1 DEF NS!HandleQuery
  <2>3. QED BY <1>1, <1>2, <1>8, <2>2 DEF NS!HandleQuery
<1>9. ASSUME NEW x \in Queries, NS!QueryFails(x) PROVE NS!TypeOK'
  BY <1>1, <1>2, <1>5, <1>9 DEF NS!QueryFails
<1>10. ASSUME NEW x \in Queries, NS!Build(x) PROVE NS!TypeOK'
  <2>1. NS!Only(nsGot[x], queryDomains) \in NS!Tables
    BY <1>1, OnlyTyped
  <2>2. nsGot' \in [Queries -> NS!Tables]
    BY <1>1, <1>10, <2>1 DEF NS!Build
  <2>3. QED BY <1>1, <1>2, <1>10, <2>2 DEF NS!Build
<1>11. ASSUME NEW x \in Queries, NS!Swap(x) PROVE NS!TypeOK'
  BY <1>1, <1>2, <1>5, <1>11 DEF NS!Swap
<1>12. ASSUME NEW c \in notes, NS!OnNotify(c) PROVE NS!TypeOK'
  <2>1. /\ c.key \in NsKeys /\ c.node \in Nodes /\ c.weight \in Weights \cup {NS!NoWeight}
    BY <1>1 DEF NS!Changes
  <2>2. view[c.key] \in [Nodes -> Weights \cup {NS!NoWeight}]
    BY <1>1, <2>1 DEF NS!Tables
  <2>3. [view EXCEPT ![c.key][c.node] = c.weight] \in NS!Tables
    BY <1>1, <2>1, <2>2 DEF NS!Tables
  <2>4. view' \in NS!Tables
    BY <1>1, <1>12, <2>3 DEF NS!OnNotify
  <2>5. QED BY <1>1, <1>2, <1>12, <2>4 DEF NS!OnNotify, NS!queryVars
<1>13. QED
  BY <1>6, <1>7, <1>8, <1>9, <1>10, <1>11, <1>12 DEF NS!Client

LEMMA RegistryTypesInit == NS!NameServerAssumption /\ NS!Init => RegistryAllTypes
<1> SUFFICES ASSUME NS!NameServerAssumption, NS!Init PROVE RegistryAllTypes
  OBVIOUS
<1>1. NS!Empty \in NS!Tables /\ 0 \in 0..MaxRegs /\ 0 \in 0..MaxEdits
  BY DEF NS!Empty, NS!Tables, NS!NameServerAssumption
<1>2. NS!TypeOK
  BY <1>1 DEF NS!Init, NS!TypeOK
<1>3. QED BY <1>2, RegistryInit DEF RegistryAllTypes

LEMMA RegistryTypesStep ==
  NS!NameServerAssumption /\ RegistryAllTypes /\ [NS!Next]_(NS!vars) => RegistryAllTypes'
<1> SUFFICES ASSUME NS!NameServerAssumption, RegistryAllTypes, [NS!Next]_(NS!vars)
             PROVE  RegistryAllTypes'
  OBVIOUS
<1>1. RegistryInv'
  BY RegistryStep DEF RegistryAllTypes
<1>2. CASE NS!Server
  BY <1>1, <1>2, ServerTyped DEF NS!Server, RegistryAllTypes
<1>3. CASE NS!Client
  BY <1>1, <1>3, ClientTyped DEF RegistryAllTypes
<1>4. CASE UNCHANGED NS!vars
  BY <1>1, <1>4 DEF NS!vars, NS!serverVars, NS!queryVars, NS!TypeOK, RegistryAllTypes
<1>5. QED BY <1>2, <1>3, <1>4 DEF NS!Next

-----------------------------------------------------------------------------
(***************************************************************************)
(* LruCache: for any keys, number of buckets, limits and elasticities      *)
(***************************************************************************)
Entry == [key : LruKeys, val : LruVals]

\* t is s without its place i, after x if any; the same with x in front of it
Erased(s, i, t) ==
  /\ Len(t) = Len(s) - 1
  /\ \A j \in 1..Len(t) : t[j] = IF j < i THEN s[j] ELSE s[j + 1]
Spliced(s, i, x, t) ==
  /\ Len(t) = Len(s) /\ t[1] = x
  /\ \A j \in 2..Len(t) : t[j] = IF j <= i THEN s[j - 1] ELSE s[j]
Pushed(s, x, t) == Len(t) = Len(s) + 1 /\ t[1] = x /\ \A j \in 1..Len(s) : t[j + 1] = s[j]

LEMMA PushIsPushed ==
  ASSUME NEW S, NEW s \in Seq(S), NEW x \in S
  PROVE  <<x>> \o s \in Seq(S) /\ Pushed(s, x, <<x>> \o s)
<1>1. <<x>> \in Seq(S) /\ Len(<<x>>) = 1 /\ <<x>>[1] = x
  OBVIOUS
<1>2. PICK o \in Seq(S) : o = <<x>>
  BY <1>1
<1>3. PICK n \in Nat : n = Len(s)
  OBVIOUS
<1>4. PICK t \in Seq(S) : t = o \o s
  BY ConcatProperties
<1>5. Len(t) = 1 + n /\ \A j \in 1..1 + n : t[j] = IF j <= 1 THEN o[j] ELSE s[j - 1]
  BY <1>1, <1>2, <1>3, <1>4, ConcatProperties
<1>6. t[1] = x
  BY <1>1, <1>2, <1>5
<1>7. ASSUME NEW j \in 1..n PROVE t[j + 1] = s[j]
  <2>1. j + 1 \in 1..1 + n /\ ~(j + 1 <= 1) /\ j + 1 - 1 = j
    OBVIOUS
  <2>2. QED BY <1>5, <2>1
<1>8. QED BY <1>2, <1>3, <1>4, <1>5, <1>6, <1>7 DEF Pushed

LEMMA RemoveIsErased ==
  ASSUME NEW S, NEW s \in Seq(S), NEW i \in 1..Len(s)
  PROVE  LC!RemoveAt(s, i) \in Seq(S) /\ Erased(s, i, LC!RemoveAt(s, i))
<1>1. PICK n \in Nat : n = Len(s)
  OBVIOUS
<1>2. PICK a \in Seq(S) : a = SubSeq(s, 1, i - 1)
  <2>1. \A j \in 1..i - 1 : s[j] \in S
    BY <1>1
  <2>2. 1 \in Int /\ i - 1 \in Int
    BY <1>1
  <2>3. SubSeq(s, 1, i - 1) \in Seq(S)
    BY <2>1, <2>2, SubSeqProperties
  <2>4. QED BY <2>3
<1>3. Len(a) = i - 1 /\ \A j \in 1..i - 1 : a[j] = s[j]
  <2>1. /\ Len(a) = IF 1 <= i - 1 THEN i - 1 - 1 + 1 ELSE 0
        /\ \A j \in 1..i - 1 - 1 + 1 : a[j] = s[1 + j - 1]
    <3>1. \A j \in 1..i - 1 : s[j] \in S
      BY <1>1
    <3>2. 1 \in Int /\ i - 1 \in Int
      BY <1>1
    <3>3. QED BY <1>2, <3>1, <3>2, SubSeqProperties
  <2>2. QED BY <1>1, <2>1
<1>4. PICK b \in Seq(S) : b = SubSeq(s, i + 1, n)
  <2>1. \A j \in i + 1..n : s[j] \in S
    BY <1>1
  <2>2. i + 1 \in Int /\ n \in Int
    BY <1>1
  <2>3. SubSeq(s, i + 1, n) \in Seq(S)
    BY <2>1, <2>2, SubSeqProperties
  <2>4. QED BY <2>3
<1>5. Len(b) = n - i /\ \A j \in 1..n - i : b[j] = s[i + j]
  <2>1. /\ Len(b) = IF i + 1 <= n THEN n - (i + 1) + 1 ELSE 0
        /\ \A j \in 1..n - (i + 1) + 1 : b[j] = s[i + 1 + j - 1]
    <3>1. \A j \in i + 1..n : s[j] \in S
      BY <1>1
    <3>2. QED BY <1>1, <1>4, <3>1, SubSeqProperties
  <2>2. QED BY <1>1, <2>1
<1>6. PICK t \in Seq(S) : t = a \o b
  BY ConcatProperties
<1>7. Len(t) = n - 1 /\ \A j \in 1..n - 1 : t[j] = IF j <= i - 1 THEN a[j] ELSE b[j - (i - 1)]
  <2>1. /\ Len(t) = Len(a) + Len(b)
        /\ \A j \in 1..Len(a) + Len(b) : t[j] = IF j <= Len(a) THEN a[j] ELSE b[j - Len(a)]
    BY <1>6, ConcatProperties
  <2>2. Len(a) = i - 1 /\ Len(a) + Len(b) = n - 1
    BY <1>1, <1>3, <1>5
  <2>3. QED BY <2>1, <2>2
<1>8. ASSUME NEW j \in 1..n - 1 PROVE t[j] = IF j < i THEN s[j] ELSE s[j + 1]
  <2>1. CASE j < i
    BY <1>1, <1>3, <1>7, <2>1
  <2>2. CASE ~(j < i)
    <3>1. j - (i - 1) \in 1..n - i /\ i + (j - (i - 1)) = j + 1
      BY <1>1, <2>2
    <3>2. QED BY <1>1, <1>5, <1>7, <2>2, <3>1
  <2>3. QED BY <2>1, <2>2
<1>9. t = LC!RemoveAt(s, i)
  BY <1>1, <1>2, <1>4, <1>6 DEF LC!RemoveAt
<1>10. QED BY <1>1, <1>6, <1>7, <1>8, <1>9 DEF Erased

LEMMA SpliceIsSpliced ==
  ASSUME NEW S, NEW s \in Seq(S), NEW i \in 1..Len(s), NEW x \in S
  PROVE  /\ <<x>> \o LC!RemoveAt(s, i) \in Seq(S)
         /\ Spliced(s, i, x, <<x>> \o LC!RemoveAt(s, i))
<1>1. PICK n \in Nat : n = Len(s)
  OBVIOUS
<1>2. PICK r \in Seq(S) : r = LC!RemoveAt(s, i) /\ Erased(s, i, r)
  BY RemoveIsErased
<1>3. PICK t \in Seq(S) : t = <<x>> \o r /\ Pushed(r, x, t)
  BY PushIsPushed
<1>4. Len(r) = n - 1 /\ Len(t) = n /\ t[1] = x
  BY <1>1, <1>2, <1>3 DEF Erased, Pushed
<1>5. ASSUME NEW j \in 2..n PROVE t[j] = IF j <= i THEN s[j - 1] ELSE s[j]
  <2>1. PICK k \in 1..n - 1 : j = k + 1
    <3>1. j - 1 \in 1..n - 1 /\ j = j - 1 + 1
      BY <1>1
    <3>2. QED BY <3>1
  <2>2. t[j] = r[k]
    BY <1>3, <1>4, <2>1 DEF Pushed
  <2>3. r[k] = IF k < i THEN s[k] ELSE s[k + 1]
    BY <1>2, <1>4 DEF Erased
  <2>4. QED BY <2>1, <2>2, <2>3
<1>6. QED BY <1>1, <1>2, <1>3, <1>4, <1>5 DEF Spliced

\* The list li of a bucket is the beginning of the keys u that were used, last
\* used first, each once; c are its keys.
Listed(li, c, u) ==
  /\ li \in Seq(Entry) /\ u \in Seq(LruKeys) /\ Len(li) <= Len(u)
  /\ \A i \in 1..Len(li) : li[i].key = u[i]
  /\ \A i, j \in 1..Len(u) : u[i] = u[j] => i = j
  /\ \A k : k \in c <=> \E i \in 1..Len(li) : u[i] = k

\* The place of a key, in the list and in the keys that were used
LEMMA PlaceInList ==
  ASSUME NEW li, NEW c, NEW u, Listed(li, c, u), NEW k \in c
  PROVE  /\ LC!PlaceOf(LC!KeysOf(li), k) \in 1..Len(li)
         /\ u[LC!PlaceOf(LC!KeysOf(li), k)] = k
<1>1. PICK n \in Nat : n = Len(li) /\ DOMAIN li = 1..n
  BY DEF Listed
<1>2. PICK ks : ks = LC!KeysOf(li)
  OBVIOUS
<1>3. DOMAIN ks = 1..n /\ \A i \in 1..n : ks[i] = u[i]
  BY <1>1, <1>2 DEF LC!KeysOf, Listed
<1>4. \E i \in DOMAIN ks : ks[i] = k
  BY <1>1, <1>3 DEF Listed
<1>5. PICK p : p = CHOOSE i \in DOMAIN ks : ks[i] = k
  OBVIOUS
<1>6. p \in DOMAIN ks /\ ks[p] = k
  BY <1>4, <1>5
<1>7. p = LC!PlaceOf(LC!KeysOf(li), k)
  BY <1>2, <1>5 DEF LC!PlaceOf
<1>8. QED BY <1>1, <1>3, <1>6, <1>7

LEMMA WithoutIs ==
  ASSUME NEW u \in Seq(LruKeys), NEW k, \A i, j \in 1..Len(u) : u[i] = u[j] => i = j
  PROVE  /\ \A p \in 1..Len(u) : u[p] = k => LC!Without(u, k) = LC!RemoveAt(u, p)
         /\ (\A p \in 1..Len(u) : u[p] # k) => LC!Without(u, k) = u
<1>1. DOMAIN u = 1..Len(u)
  OBVIOUS
<1>2. ASSUME NEW p \in 1..Len(u), u[p] = k PROVE LC!Without(u, k) = LC!RemoveAt(u, p)
  <2>1. PICK q : q = CHOOSE i \in DOMAIN u : u[i] = k
    OBVIOUS
  <2>2. q \in 1..Len(u) /\ u[q] = k
    BY <1>1, <1>2, <2>1
  <2>3. q = p /\ q = LC!PlaceOf(u, k)
    BY <1>2, <2>1, <2>2 DEF LC!PlaceOf
  <2>4. QED BY <1>2, <2>3 DEF LC!Without, LC!Contains
<1>3. ASSUME \A p \in 1..Len(u) : u[p] # k PROVE LC!Without(u, k) = u
  BY <1>3 DEF LC!Without, LC!Contains
<1>4. QED BY <1>2, <1>3

\* Where the first m places of v come from when place p of u went to the front
MovedFrom(u, v, m, p) ==
  \A i \in 1..m : \E j \in 1..m : v[i] = u[j] /\ j = IF i = 1 THEN p ELSE IF i <= p THEN i - 1 ELSE i
Once(u, m) == \A i, j \in 1..m : u[i] = u[j] => i = j

LEMMA SplicedFrom ==
  ASSUME NEW u, NEW v, NEW m \in Nat, NEW p \in 1..m, m = Len(u), Spliced(u, p, u[p], v)
  PROVE  MovedFrom(u, v, m, p) /\ (Once(u, m) => Once(v, m))
<1>5. Len(v) = m /\ v[1] = u[p] /\ \A j \in 2..m : v[j] = IF j <= p THEN u[j - 1] ELSE u[j]
  BY DEF Spliced
<1>7. \A i \in 1..m : \E j \in 1..m : v[i] = u[j] /\ j = IF i = 1 THEN p ELSE IF i <= p THEN i - 1 ELSE i
  <2>1. ASSUME NEW i \in 1..m
        PROVE  \E j \in 1..m : v[i] = u[j] /\ j = IF i = 1 THEN p ELSE IF i <= p THEN i - 1 ELSE i
    <3>1. CASE i = 1
      BY <1>5, <3>1
    <3>2. CASE i # 1
      <4>1. i \in 2..m /\ i - 1 \in 1..m
        BY <3>2
      <4>2. QED BY <1>5, <3>2, <4>1
    <3>3. QED BY <3>1, <3>2
  <2>2. QED BY <2>1
<1>8. ASSUME Once(u, m), NEW i \in 1..m, NEW j \in 1..m, v[i] = v[j] PROVE i = j
  <2>1. PICK a \in 1..m : v[i] = u[a] /\ a = IF i = 1 THEN p ELSE IF i <= p THEN i - 1 ELSE i
    BY <1>7
  <2>2. PICK b \in 1..m : v[j] = u[b] /\ b = IF j = 1 THEN p ELSE IF j <= p THEN j - 1 ELSE j
    BY <1>7
  <2>3. u[a] = u[b]
    BY <1>8, <2>1, <2>2
  <2>4. a = b
    BY <1>8, <2>3 DEF Once
  <2>5. QED BY <2>1, <2>2, <2>4
<1>9. QED BY <1>7, <1>8 DEF MovedFrom, Once

\* An entry that is in the list goes to its front.
LEMMA ListedHit ==
  ASSUME NEW li, NEW c, NEW u, Listed(li, c, u), NEW p \in 1..Len(li), NEW e \in Entry,
         e.key = u[p]
  PROVE  Listed(<<e>> \o LC!RemoveAt(li, p), c, <<u[p]>> \o LC!Without(u, u[p]))
<1>1. PICK n \in Nat, m \in Nat : n = Len(li) /\ m = Len(u) /\ n <= m
  BY DEF Listed
<1>2. p \in 1..m /\ u[p] \in LruKeys /\ li \in Seq(Entry) /\ u \in Seq(LruKeys)
  BY <1>1 DEF Listed
<1>3. PICK v \in Seq(LruKeys) :
        v = <<u[p]>> \o LC!Without(u, u[p]) /\ Spliced(u, p, u[p], v)
  <2>1. LC!Without(u, u[p]) = LC!RemoveAt(u, p)
    BY <1>1, <1>2, WithoutIs DEF Listed
  <2>2. QED BY <1>1, <1>2, <2>1, SpliceIsSpliced
<1>4. PICK l \in Seq(Entry) : l = <<e>> \o LC!RemoveAt(li, p) /\ Spliced(li, p, e, l)
  BY <1>2, SpliceIsSpliced
<1>5. /\ Len(v) = m /\ v[1] = u[p] /\ \A j \in 2..m : v[j] = IF j <= p THEN u[j - 1] ELSE u[j]
      /\ Len(l) = n /\ l[1] = e /\ \A j \in 2..n : l[j] = IF j <= p THEN li[j - 1] ELSE li[j]
  BY <1>1, <1>3, <1>4 DEF Spliced
<1>6. ASSUME NEW i \in 1..n PROVE l[i].key = v[i]
  <2>1. CASE i = 1
    BY <1>5, <2>1
  <2>2. CASE i # 1
    <3>1. i \in 2..n /\ i \in 2..m /\ i - 1 \in 1..n
      BY <1>1, <2>2
    <3>2. li[i - 1].key = u[i - 1] /\ li[i].key = u[i]
      BY <1>1, <3>1 DEF Listed
    <3>3. QED BY <1>5, <3>1, <3>2
  <2>3. QED BY <2>1, <2>2
<1>7. \A i \in 1..m : \E j \in 1..m :
        v[i] = u[j] /\ j = IF i = 1 THEN p ELSE IF i <= p THEN i - 1 ELSE i
  <2>1. m \in Nat /\ p \in 1..m /\ m = Len(u) /\ Spliced(u, p, u[p], v)
    BY <1>1, <1>2, <1>3
  <2>2. MovedFrom(u, v, m, p)
    BY <2>1, SplicedFrom
  <2>3. QED BY <2>2 DEF MovedFrom
<1>8. \A i, j \in 1..m : v[i] = v[j] => i = j
  <2>1. m \in Nat /\ p \in 1..m /\ m = Len(u) /\ Spliced(u, p, u[p], v)
    BY <1>1, <1>2, <1>3
  <2>2. Once(u, m)
    BY <1>1 DEF Listed, Once
  <2>3. Once(v, m)
    BY <2>1, <2>2, SplicedFrom
  <2>4. QED BY <2>3 DEF Once
<1>9. ASSUME NEW k PROVE k \in c <=> \E i \in 1..n : v[i] = k
  <2>1. ASSUME NEW i \in 1..n, v[i] = k PROVE \E j \in 1..n : u[j] = k
    <3>1. i \in 1..m /\ p \in 1..n
      BY <1>1
    <3>2. PICK j \in 1..m : v[i] = u[j] /\ j = IF i = 1 THEN p ELSE IF i <= p THEN i - 1 ELSE i
      BY <1>7, <3>1
    <3>3. j \in 1..n
      BY <3>1, <3>2
    <3>4. QED BY <2>1, <3>2, <3>3
  <2>2. ASSUME NEW j \in 1..n, u[j] = k PROVE \E i \in 1..n : v[i] = k
    <3>1. CASE j = p
      BY <1>5, <2>2, <3>1
    <3>2. CASE j < p
      <4>1. j + 1 \in 2..m /\ j + 1 \in 1..n /\ j + 1 <= p /\ j + 1 - 1 = j
        BY <1>1, <3>2
      <4>2. v[j + 1] = u[j]
        BY <1>5, <4>1
      <4>3. QED BY <2>2, <4>1, <4>2
    <3>3. CASE j > p
      <4>1. j \in 2..m /\ ~(j <= p)
        BY <1>1, <3>3
      <4>2. QED BY <1>5, <2>2, <4>1
    <3>4. QED BY <1>1, <3>1, <3>2, <3>3
  <2>3. QED BY <1>1, <2>1, <2>2 DEF Listed
<1>10. Listed(l, c, v)
  BY <1>1, <1>5, <1>6, <1>8, <1>9 DEF Listed
<1>11. QED BY <1>3, <1>4, <1>10

\* The keys of a list
LEMMA RangeIs ==
  ASSUME NEW li \in Seq(Entry), NEW u, \A i \in 1..Len(li) : li[i].key = u[i]
  PROVE  \A k : k \in LC!Range(LC!KeysOf(li)) <=> \E i \in 1..Len(li) : u[i] = k
<1>1. PICK n \in Nat : n = Len(li) /\ DOMAIN li = 1..n
  OBVIOUS
<1>2. PICK ks : ks = LC!KeysOf(li)
  OBVIOUS
<1>3. DOMAIN ks = 1..n /\ \A i \in 1..n : ks[i] = u[i]
  BY <1>1, <1>2 DEF LC!KeysOf
<1>4. LC!Range(ks) = {ks[i] : i \in DOMAIN ks}
  BY DEF LC!Range
<1>5. QED BY <1>1, <1>2, <1>3, <1>4

LEMMA ListedCardinality ==
  ASSUME NEW li, NEW c, NEW u, Listed(li, c, u)
  PROVE  Cardinality(c) = Len(li)
<1>1. PICK n \in Nat : n = Len(li)
  BY DEF Listed
<1>2. ExistsBijection(1..n, c)
  <2>1. PICK f : f = [i \in 1..n |-> u[i]]
    OBVIOUS
  <2>2. f \in [1..n -> c]
    BY <1>1, <2>1 DEF Listed
  <2>3. \A i, j \in 1..n : f[i] = f[j] => i = j
    <3>1. ASSUME NEW i \in 1..n, NEW j \in 1..n, u[i] = u[j] PROVE i = j
      <4>1. i \in 1..Len(u) /\ j \in 1..Len(u)
        BY <1>1 DEF Listed
      <4>2. QED BY <3>1, <4>1 DEF Listed
    <3>2. QED BY <2>1, <3>1
  <2>4. \A k \in c : \E i \in 1..n : f[i] = k
    BY <1>1, <2>1 DEF Listed
  <2>5. f \in Bijection(1..n, c)
    BY <2>2, <2>3, <2>4 DEF Bijection, Injection, Surjection, IsInjective
  <2>6. QED BY <2>5 DEF ExistsBijection
<1>3. IsFiniteSet(1..n) /\ Cardinality(1..n) = n
  <2>1. 1 \in Int /\ n \in Int
    OBVIOUS
  <2>2. QED BY <2>1, FS_Interval
<1>4. QED BY <1>1, <1>2, <1>3, FS_Bijection

\* del: the place goes from both.
LEMMA ListedDel ==
  ASSUME NEW li, NEW c, NEW u, Listed(li, c, u), NEW p \in 1..Len(li)
  PROVE  /\ Listed(LC!RemoveAt(li, p), c \ {u[p]}, LC!Without(u, u[p]))
         /\ ~LC!Contains(LC!Without(u, u[p]), u[p])
<1>1. PICK n \in Nat, m \in Nat : n = Len(li) /\ m = Len(u) /\ n <= m
  BY DEF Listed
<1>2. p \in 1..m /\ u[p] \in LruKeys /\ li \in Seq(Entry) /\ u \in Seq(LruKeys)
  BY <1>1 DEF Listed
<1>3. PICK v \in Seq(LruKeys) : v = LC!Without(u, u[p]) /\ Erased(u, p, v)
  <2>1. LC!Without(u, u[p]) = LC!RemoveAt(u, p)
    BY <1>1, <1>2, WithoutIs DEF Listed
  <2>2. QED BY <1>1, <1>2, <2>1, RemoveIsErased
<1>4. PICK l \in Seq(Entry) : l = LC!RemoveAt(li, p) /\ Erased(li, p, l)
  BY <1>2, RemoveIsErased
<1>5. /\ Len(v) = m - 1 /\ \A j \in 1..m - 1 : v[j] = IF j < p THEN u[j] ELSE u[j + 1]
      /\ Len(l) = n - 1 /\ \A j \in 1..n - 1 : l[j] = IF j < p THEN li[j] ELSE li[j + 1]
  BY <1>1, <1>3, <1>4 DEF Erased
<1>6. ASSUME NEW i \in 1..n - 1 PROVE l[i].key = v[i]
  <2>1. i \in 1..m - 1 /\ i \in 1..n /\ i + 1 \in 1..n
    BY <1>1
  <2>2. li[i].key = u[i] /\ li[i + 1].key = u[i + 1]
    BY <1>1, <2>1 DEF Listed
  <2>3. QED BY <1>5, <2>1, <2>2
<1>7. \A i \in 1..m - 1 : \E j \in 1..m : v[i] = u[j] /\ j = IF i < p THEN i ELSE i + 1
  <2>1. ASSUME NEW i \in 1..m - 1
        PROVE  \E j \in 1..m : v[i] = u[j] /\ j = IF i < p THEN i ELSE i + 1
    <3>1. i \in 1..m /\ i + 1 \in 1..m
      BY <1>1
    <3>2. QED BY <1>5, <3>1
  <2>2. QED BY <2>1
<1>8. ASSUME NEW i \in 1..m - 1, NEW j \in 1..m - 1, v[i] = v[j] PROVE i = j
  <2>1. PICK a \in 1..m : v[i] = u[a] /\ a = IF i < p THEN i ELSE i + 1
    BY <1>7
  <2>2. PICK b \in 1..m : v[j] = u[b] /\ b = IF j < p THEN j ELSE j + 1
    BY <1>7
  <2>3. u[a] = u[b]
    BY <1>8, <2>1, <2>2
  <2>4. a = b
    BY <1>1, <2>3 DEF Listed
  <2>5. QED BY <2>1, <2>2, <2>4
<1>9. ASSUME NEW i \in 1..m - 1 PROVE v[i] # u[p]
  <2>1. PICK a \in 1..m : v[i] = u[a] /\ a = IF i < p THEN i ELSE i + 1
    BY <1>7
  <2>2. a # p
    BY <2>1
  <2>3. QED BY <1>1, <1>2, <2>1, <2>2 DEF Listed
<1>10. ASSUME NEW k PROVE k \in c \ {u[p]} <=> \E i \in 1..n - 1 : v[i] = k
  <2>1. ASSUME NEW i \in 1..n - 1, v[i] = k PROVE k # u[p] /\ \E j \in 1..n : u[j] = k
    <3>1. i \in 1..m - 1 /\ i \in 1..n /\ i + 1 \in 1..n
      BY <1>1
    <3>2. QED BY <1>5, <1>9, <2>1, <3>1
  <2>2. ASSUME NEW j \in 1..n, u[j] = k, k # u[p] PROVE \E i \in 1..n - 1 : v[i] = k
    <3>1. CASE j < p
      <4>1. j \in 1..n - 1 /\ j \in 1..m - 1
        BY <1>1, <3>1
      <4>2. QED BY <1>5, <2>2, <3>1, <4>1
    <3>2. CASE j > p
      <4>1. j - 1 \in 1..n - 1 /\ j - 1 \in 1..m - 1 /\ ~(j - 1 < p) /\ j - 1 + 1 = j
        BY <1>1, <3>2
      <4>2. v[j - 1] = u[j]
        BY <1>5, <4>1
      <4>3. QED BY <2>2, <4>1, <4>2
    <3>3. QED BY <1>1, <2>2, <3>1, <3>2
  <2>3. QED BY <1>1, <2>1, <2>2 DEF Listed
<1>11. Listed(l, c \ {u[p]}, v)
  BY <1>1, <1>5, <1>6, <1>8, <1>10 DEF Listed
<1>12. ~LC!Contains(v, u[p])
  BY <1>5, <1>9 DEF LC!Contains
<1>13. QED BY <1>3, <1>4, <1>11, <1>12

\* The front q entries of a list
LEMMA ListedFront ==
  ASSUME NEW li, NEW c, NEW u, Listed(li, c, u), NEW q \in 0..Len(li)
  PROVE  /\ Listed(SubSeq(li, 1, q), LC!Range(LC!KeysOf(SubSeq(li, 1, q))), u)
         /\ Len(SubSeq(li, 1, q)) = q
<1>1. PICK n \in Nat : n = Len(li) /\ n <= Len(u) /\ li \in Seq(Entry)
  BY DEF Listed
<1>2. (\A j \in 1..q : li[j] \in Entry) /\ 1 \in Int /\ q \in Int
  BY <1>1
<1>3. SubSeq(li, 1, q) \in Seq(Entry)
  BY <1>2, SubSeqProperties
<1>4. PICK l \in Seq(Entry) : l = SubSeq(li, 1, q)
  BY <1>3
<1>5. Len(l) = (IF 1 <= q THEN q - 1 + 1 ELSE 0) /\ \A j \in 1..q - 1 + 1 : l[j] = li[1 + j - 1]
  BY <1>2, <1>4, SubSeqProperties
<1>6. Len(l) = q /\ \A j \in 1..q : l[j] = li[j]
  BY <1>1, <1>5
<1>7. \A i \in 1..q : l[i].key = u[i]
  <2>1. ASSUME NEW i \in 1..q PROVE l[i].key = u[i]
    <3>1. i \in 1..Len(li)
      BY <1>1
    <3>2. QED BY <1>6, <3>1 DEF Listed
  <2>2. QED BY <2>1
<1>8. PICK c2 : c2 = LC!Range(LC!KeysOf(l))
  OBVIOUS
<1>9. \A k : k \in c2 <=> \E i \in 1..Len(l) : u[i] = k
  BY <1>6, <1>7, <1>8, RangeIs
<1>10. q <= Len(u)
  BY <1>1
<1>11. Listed(l, c2, u)
  BY <1>6, <1>7, <1>9, <1>10 DEF Listed
<1>12. QED BY <1>4, <1>6, <1>8, <1>11

LEMMA ListedKeys ==
  ASSUME NEW li, NEW c, NEW u, Listed(li, c, u)
  PROVE  c = LC!Range(LC!KeysOf(li))
<1>1. PICK r : r = LC!Range(LC!KeysOf(li))
  OBVIOUS
<1>2. \A k : k \in r <=> \E i \in 1..Len(li) : u[i] = k
  BY <1>1, RangeIs DEF Listed
<1>3. \A k : k \in c <=> k \in r
  BY <1>2 DEF Listed
<1>4. QED BY <1>1, <1>3

\* The first n keys of u are those of v after its first.
Shifted(u, v, n) == v \in Seq(LruKeys) /\ n + 1 <= Len(v) /\ \A i \in 1..n : v[i + 1] = u[i]

\* A key that is not in the list is put in front of it.
LEMMA ListedMiss ==
  ASSUME NEW li, NEW c, NEW u, Listed(li, c, u), NEW k \in LruKeys, k \notin c,
         NEW e \in Entry, e.key = k
  PROVE  /\ Listed(<<e>> \o li, c \cup {k}, <<k>> \o LC!Without(u, k))
         /\ Len(<<e>> \o li) = Len(li) + 1
         /\ Shifted(u, <<k>> \o LC!Without(u, k), Len(li))
<1>1. PICK n \in Nat, m \in Nat : n = Len(li) /\ m = Len(u) /\ n <= m
  BY DEF Listed
<1>2. li \in Seq(Entry) /\ u \in Seq(LruKeys)
  BY DEF Listed
<1>3. PICK l \in Seq(Entry) : l = <<e>> \o li /\ Pushed(li, e, l)
  BY <1>2, PushIsPushed
<1>4. Len(l) = n + 1 /\ l[1] = e /\ \A i \in 1..n : l[i + 1] = li[i]
  BY <1>1, <1>3 DEF Pushed
<1>5. Once(u, m) /\ \A i \in 1..n : u[i] # k
  BY <1>1 DEF Listed, Once
<1>6. PICK v \in Seq(LruKeys), w \in Nat :
        /\ v = <<k>> \o LC!Without(u, k) /\ Len(v) = w /\ n + 1 <= w /\ v[1] = k
        /\ (\A i \in 1..n : v[i + 1] = u[i]) /\ Once(v, w)
  <2>1. CASE \A p \in 1..m : u[p] # k
    <3>1. LC!Without(u, k) = u
      BY <1>1, <1>2, <1>5, <2>1, WithoutIs DEF Once
    <3>2. PICK v \in Seq(LruKeys) : v = <<k>> \o LC!Without(u, k) /\ Pushed(u, k, v)
      BY <1>2, <3>1, PushIsPushed
    <3>3. Len(v) = m + 1 /\ v[1] = k /\ \A i \in 1..m : v[i + 1] = u[i]
      BY <1>1, <3>2 DEF Pushed
    <3>4. ASSUME NEW i \in 1..m + 1, NEW j \in 1..m + 1, v[i] = v[j] PROVE i = j
      <4>1. ASSUME NEW a \in 1..m + 1 PROVE a = 1 \/ (a - 1 \in 1..m /\ v[a] = u[a - 1])
        <5>1. CASE a # 1
          <6>1. a - 1 \in 1..m /\ a - 1 + 1 = a
            BY <5>1
          <6>2. QED BY <3>3, <6>1
        <5>2. QED BY <5>1
      <4>2. CASE i = 1 \/ j = 1
        <5>1. ASSUME NEW a \in 1..m + 1, v[a] = k PROVE a = 1
          <6>1. a - 1 \in 1..m => u[a - 1] # k
            BY <2>1
          <6>2. QED BY <4>1, <5>1, <6>1
        <5>2. v[i] = k /\ v[j] = k
          BY <3>3, <3>4, <4>2
        <5>3. QED BY <5>1, <5>2
      <4>3. CASE i # 1 /\ j # 1
        <5>1. i - 1 \in 1..m /\ j - 1 \in 1..m /\ u[i - 1] = u[j - 1]
          BY <3>4, <4>1, <4>3
        <5>2. i - 1 = j - 1
          BY <1>5, <5>1 DEF Once
        <5>3. QED BY <5>2
      <4>4. QED BY <4>2, <4>3
    <3>5. Once(v, m + 1)
      BY <3>4 DEF Once
    <3>6. (\A i \in 1..n : v[i + 1] = u[i]) /\ n + 1 <= m + 1 /\ m + 1 \in Nat
      BY <1>1, <3>3
    <3>7. QED BY <3>2, <3>3, <3>5, <3>6
  <2>2. CASE \E p \in 1..m : u[p] = k
    <3>1. PICK p \in 1..m : u[p] = k
      BY <2>2
    <3>2. n < p /\ n + 1 <= m
      BY <1>1, <1>5, <3>1
    <3>3. LC!Without(u, k) = LC!RemoveAt(u, p)
      BY <1>1, <1>2, <1>5, <3>1, WithoutIs DEF Once
    <3>4. PICK v \in Seq(LruKeys) : v = <<k>> \o LC!Without(u, k) /\ Spliced(u, p, u[p], v)
      BY <1>1, <1>2, <3>1, <3>3, SpliceIsSpliced
    <3>5. Len(v) = m /\ v[1] = k /\ \A j \in 2..m : v[j] = IF j <= p THEN u[j - 1] ELSE u[j]
      BY <1>1, <3>1, <3>4 DEF Spliced
    <3>6. Once(v, m)
      <4>1. m \in Nat /\ p \in 1..m /\ m = Len(u) /\ Spliced(u, p, u[p], v)
        BY <1>1, <3>4
      <4>2. QED BY <1>5, <4>1, SplicedFrom
    <3>7. ASSUME NEW i \in 1..n PROVE v[i + 1] = u[i]
      <4>1. i + 1 \in 2..m /\ i + 1 <= p /\ i + 1 - 1 = i
        BY <1>1, <3>2
      <4>2. QED BY <3>5, <4>1
    <3>8. QED BY <3>2, <3>4, <3>5, <3>6, <3>7
  <2>3. QED BY <2>1, <2>2
<1>7. ASSUME NEW i \in 1..n + 1 PROVE i = 1 \/ (i - 1 \in 1..n /\ i - 1 + 1 = i)
  OBVIOUS
<1>8. ASSUME NEW i \in 1..n + 1 PROVE l[i].key = v[i]
  <2>1. CASE i = 1
    BY <1>4, <1>6, <2>1
  <2>2. CASE i # 1
    <3>1. i - 1 \in 1..n /\ i - 1 + 1 = i
      BY <1>7, <2>2
    <3>2. li[i - 1].key = u[i - 1]
      BY <1>1, <3>1 DEF Listed
    <3>3. l[i] = li[i - 1] /\ v[i] = u[i - 1]
      BY <1>4, <1>6, <3>1
    <3>4. QED BY <3>2, <3>3
  <2>3. QED BY <2>1, <2>2
<1>9. ASSUME NEW x PROVE x \in c \cup {k} <=> \E i \in 1..n + 1 : v[i] = x
  <2>1. ASSUME NEW i \in 1..n + 1, v[i] = x PROVE x \in c \cup {k}
    <3>1. CASE i = 1
      BY <1>6, <2>1, <3>1
    <3>2. CASE i # 1
      <4>1. i - 1 \in 1..n /\ i - 1 + 1 = i
        BY <1>7, <3>2
      <4>2. u[i - 1] = x
        BY <1>6, <2>1, <4>1
      <4>3. QED BY <1>1, <4>1, <4>2 DEF Listed
    <3>3. QED BY <3>1, <3>2
  <2>2. ASSUME x \in c PROVE \E i \in 1..n + 1 : v[i] = x
    <3>1. PICK i \in 1..n : u[i] = x
      BY <1>1, <2>2 DEF Listed
    <3>2. i + 1 \in 1..n + 1 /\ v[i + 1] = x
      BY <1>6, <3>1
    <3>3. QED BY <3>2
  <2>3. x = k => \E i \in 1..n + 1 : v[i] = x
    <3>1. 1 \in 1..n + 1
      OBVIOUS
    <3>2. QED BY <1>6, <3>1
  <2>4. QED BY <2>1, <2>2, <2>3
<1>10. Listed(l, c \cup {k}, v)
  <2>1. \A i, j \in 1..Len(v) : v[i] = v[j] => i = j
    <3>1. Once(v, Len(v))
      BY <1>6
    <3>2. QED BY ONLY <3>1 DEF Once
  <2>2. Len(l) <= Len(v) /\ Len(l) = n + 1
    BY <1>4, <1>6
  <2>3. (\A i \in 1..Len(l) : l[i].key = v[i])
        /\ \A x : x \in c \cup {k} <=> \E i \in 1..Len(l) : v[i] = x
    BY <1>8, <1>9, <2>2
  <2>4. QED BY <2>1, <2>2, <2>3 DEF Listed
<1>11. Shifted(u, v, n)
  BY <1>6 DEF Shifted
<1>12. QED BY <1>1, <1>3, <1>4, <1>6, <1>10, <1>11

\* What is left of the list after prune() was used after what is not.
LEMMA MissEvicts ==
  ASSUME NEW li, NEW c, NEW u, Listed(li, c, u), NEW v, NEW n \in Nat, n = Len(li),
         Shifted(u, v, n),
         NEW q \in 0..n + 1, NEW l2, NEW c2, Listed(l2, c2, v), Len(l2) = q,
         NEW x \in c, x \notin c2
  PROVE  q < n + 1 /\ (\A j \in c2 : LC!Before(v, j, x)) /\ Cardinality(c2) = q
<1>1. PICK i \in 1..n : u[i] = x
  BY DEF Listed
<1>2. v[i + 1] = x /\ i + 1 \in 1..n + 1
  BY <1>1 DEF Shifted
<1>3. q < i + 1
  <2>1. i + 1 \notin 1..q
    BY <1>2 DEF Listed
  <2>2. QED BY <2>1
<1>4. DOMAIN v = 1..Len(v) /\ Len(v) \in Nat /\ n + 1 <= Len(v)
  BY DEF Shifted
<1>5. ASSUME NEW j \in c2 PROVE LC!Before(v, j, x)
  <2>1. PICK a \in 1..q : v[a] = j
    BY DEF Listed
  <2>2. a < i + 1 /\ a \in 1..Len(v) /\ i + 1 \in 1..Len(v)
    BY <1>2, <1>3, <1>4
  <2>3. QED BY <1>2, <1>4, <2>1, <2>2 DEF LC!Before
<1>6. QED BY <1>2, <1>3, <1>5, ListedCardinality

LruInv ==
  /\ hashed \in BOOLEAN /\ maxSize \in MaxSizes /\ elasticity \in Elasticities
  /\ keys \in [LC!Buckets -> Seq(Entry)] /\ used \in [LC!Buckets -> Seq(LruKeys)]
  /\ DOMAIN cache = LC!Buckets /\ cache = [b \in LC!Buckets |-> cache[b]]
  /\ \A b \in LC!Buckets : Listed(keys[b], cache[b], used[b])

LEMMA LruInit == LC!LruAssumption /\ LC!Init => LruInv
<1> SUFFICES ASSUME LC!LruAssumption, LC!Init PROVE LruInv
  OBVIOUS
<1>1. << >> \in Seq(Entry) /\ << >> \in Seq(LruKeys) /\ Len(<< >>) = 0
  OBVIOUS
<1>2. Listed(<< >>, {}, << >>)
  BY <1>1 DEF Listed
<1>3. QED BY <1>1, <1>2 DEF LC!Init, LruInv

LEMMA BucketIs ==
  ASSUME LC!LruAssumption, LruInv, NEW k \in LruKeys
  PROVE  LC!BucketOf(k) \in LC!Buckets
<1>1. Bucket \in Nat \ {0} /\ k \in Nat
  BY DEF LC!LruAssumption
<1>2. k % Bucket \in 0..Bucket - 1 /\ 0 \in 0..Bucket - 1
  BY <1>1
<1>3. QED BY <1>2 DEF LC!BucketOf, LC!Buckets

\* A step that changes bucket b
LEMMA LruChanges ==
  ASSUME LruInv, NEW b \in LC!Buckets, NEW l, NEW c, NEW v, Listed(l, c, v),
         keys' = [keys EXCEPT ![b] = l], cache' = [cache EXCEPT ![b] = c],
         used' = [used EXCEPT ![b] = v], UNCHANGED <<hashed, maxSize, elasticity>>
  PROVE  /\ LruInv' /\ cache'[b] = c /\ used'[b] = v
         /\ \A a \in LC!Buckets \ {b} : cache'[a] = cache[a]
<1>1. l \in Seq(Entry) /\ v \in Seq(LruKeys)
  BY DEF Listed
<1>2. keys' \in [LC!Buckets -> Seq(Entry)] /\ used' \in [LC!Buckets -> Seq(LruKeys)]
  BY <1>1 DEF LruInv
<1>3. DOMAIN cache' = LC!Buckets /\ cache' = [a \in LC!Buckets |-> cache'[a]]
  BY DEF LruInv
<1>4. keys'[b] = l /\ cache'[b] = c /\ used'[b] = v
  BY DEF LruInv
<1>5. \A a \in LC!Buckets \ {b} : keys'[a] = keys[a] /\ cache'[a] = cache[a] /\ used'[a] = used[a]
  BY DEF LruInv
<1>6. ASSUME NEW a \in LC!Buckets PROVE Listed(keys'[a], cache'[a], used'[a])
  <2>1. CASE a = b
    BY <1>4, <2>1
  <2>2. CASE a # b
    <3>1. Listed(keys[a], cache[a], used[a])
      BY DEF LruInv
    <3>2. QED BY <1>5, <2>2, <3>1
  <2>3. QED BY <2>1, <2>2
<1>7. LruInv'
  BY <1>2, <1>3, <1>6 DEF LruInv
<1>8. QED BY <1>4, <1>5, <1>7

\* A step that evicts nothing from bucket b
LEMMA LruKeeps ==
  ASSUME LruInv, NEW b \in LC!Buckets, \A a \in LC!Buckets \ {b} : cache'[a] = cache[a],
         \A x \in cache[b] \ cache'[b] : ~LC!Contains(used'[b], x)
  PROVE  LC!StepEvictsOldest
BY DEF LC!StepEvictsOldest

LEMMA LruGet ==
  ASSUME LC!LruAssumption, LruInv, NEW k \in LruKeys, LC!Get(k)
  PROVE  LruInv' /\ LC!StepEvictsOldest
<1>1. PICK b \in LC!Buckets : b = LC!BucketOf(k)
  BY BucketIs
<1>2. k \in cache[b] /\ Listed(keys[b], cache[b], used[b])
  BY <1>1 DEF LC!Get, LruInv
<1>3. PICK p : p = LC!EntryOf(k)
  OBVIOUS
<1>4. p \in 1..Len(keys[b]) /\ used[b][p] = k
  BY <1>1, <1>2, <1>3, PlaceInList DEF LC!EntryOf
<1>5. PICK e : e = keys[b][p]
  OBVIOUS
<1>6. e \in Entry /\ e.key = k
  BY <1>2, <1>4, <1>5 DEF Listed
<1>7. PICK l, v : l = <<e>> \o LC!RemoveAt(keys[b], p) /\ v = <<k>> \o LC!Without(used[b], k)
  OBVIOUS
<1>8. Listed(l, cache[b], v)
  BY <1>2, <1>4, <1>6, <1>7, ListedHit
<1>9. /\ keys' = [keys EXCEPT ![b] = l] /\ cache' = [cache EXCEPT ![b] = cache[b]]
      /\ used' = [used EXCEPT ![b] = v] /\ UNCHANGED <<hashed, maxSize, elasticity>>
  <2>1. cache' = cache /\ UNCHANGED <<hashed, maxSize, elasticity>>
    BY DEF LC!Get
  <2>2. cache = [cache EXCEPT ![b] = cache[b]]
    BY DEF LruInv
  <2>3. keys' = [keys EXCEPT ![b] = l]
    BY <1>1, <1>3, <1>5, <1>7 DEF LC!Get, LruInv
  <2>4. used' = [used EXCEPT ![b] = v]
    BY <1>1, <1>7 DEF LC!Get, LC!UseNow, LruInv
  <2>5. QED BY <2>1, <2>2, <2>3, <2>4
<1>10. /\ LruInv' /\ cache'[b] = cache[b]
       /\ \A a \in LC!Buckets \ {b} : cache'[a] = cache[a]
  BY <1>8, <1>9, LruChanges
<1>11. LC!StepEvictsOldest
  BY <1>10, LruKeeps
<1>12. QED BY <1>10, <1>11

LEMMA LruDel ==
  ASSUME LC!LruAssumption, LruInv, NEW k \in LruKeys, LC!Del(k)
  PROVE  LruInv' /\ LC!StepEvictsOldest
<1>1. CASE hashed
  BY <1>1, LruGet DEF LC!Del
<1>2. CASE ~hashed
  <2>1. PICK b \in LC!Buckets : b = LC!BucketOf(k)
    BY BucketIs
  <2>2. k \in cache[b] /\ Listed(keys[b], cache[b], used[b])
    BY <1>2, <2>1 DEF LC!Del, LruInv
  <2>3. PICK p : p = LC!EntryOf(k)
    OBVIOUS
  <2>4. p \in 1..Len(keys[b]) /\ used[b][p] = k
    BY <2>1, <2>2, <2>3, PlaceInList DEF LC!EntryOf
  <2>5. PICK l, c, v : l = LC!RemoveAt(keys[b], p) /\ c = cache[b] \ {k} /\ v = LC!Without(used[b], k)
    OBVIOUS
  <2>6. Listed(l, c, v) /\ ~LC!Contains(v, k)
    BY <2>2, <2>4, <2>5, ListedDel
  <2>7. /\ keys' = [keys EXCEPT ![b] = l] /\ cache' = [cache EXCEPT ![b] = c]
        /\ used' = [used EXCEPT ![b] = v] /\ UNCHANGED <<hashed, maxSize, elasticity>>
    <3>1. keys' = [keys EXCEPT ![b] = l]
      BY <1>2, <2>1, <2>3, <2>5 DEF LC!Del, LruInv
    <3>2. cache' = [cache EXCEPT ![b] = c]
      BY <1>2, <2>1, <2>5 DEF LC!Del, LruInv
    <3>3. used' = [used EXCEPT ![b] = v] /\ UNCHANGED <<hashed, maxSize, elasticity>>
      BY <1>2, <2>1, <2>5 DEF LC!Del, LruInv
    <3>4. QED BY <3>1, <3>2, <3>3
  <2>8. /\ LruInv' /\ cache'[b] = c /\ used'[b] = v
        /\ \A a \in LC!Buckets \ {b} : cache'[a] = cache[a]
    BY <2>6, <2>7, LruChanges
  <2>9. \A x \in cache[b] \ cache'[b] : x = k
    BY <2>5, <2>8
  <2>10. LC!StepEvictsOldest
    BY <2>6, <2>8, <2>9, LruKeeps
  <2>11. QED BY <2>8, <2>10
<1>3. QED BY <1>1, <1>2

LEMMA LruClear ==
  ASSUME LC!LruAssumption, LruInv, NEW b \in LC!Buckets, LC!Clear(b)
  PROVE  LruInv' /\ LC!StepEvictsOldest
<1>1. << >> \in Seq(Entry) /\ << >> \in Seq(LruKeys) /\ Len(<< >>) = 0
  OBVIOUS
<1>2. PICK l, c, v : l = << >> /\ c = {} /\ v = << >>
  OBVIOUS
<1>3. /\ keys' = [keys EXCEPT ![b] = l] /\ cache' = [cache EXCEPT ![b] = c]
      /\ used' = [used EXCEPT ![b] = v] /\ UNCHANGED <<hashed, maxSize, elasticity>>
  BY <1>2 DEF LC!Clear
<1>4. /\ LruInv' /\ cache'[b] = c /\ used'[b] = v
      /\ \A a \in LC!Buckets \ {b} : cache'[a] = cache[a]
  <2>1. Listed(<< >>, {}, << >>)
    BY <1>1 DEF Listed
  <2>2. Listed(l, c, v)
    BY <1>2, <2>1
  <2>3. QED BY <1>3, <2>2, LruChanges
<1>5. \A x : ~LC!Contains(v, x)
  BY <1>1, <1>2 DEF LC!Contains
<1>6. LC!StepEvictsOldest
  BY <1>4, <1>5, LruKeeps
<1>7. QED BY <1>4, <1>6

\* A key that is in the list goes to its front; one that is not is put there,
\* and the back of the list may go.
LEMMA LruSet ==
  ASSUME LC!LruAssumption, LruInv, NEW k \in LruKeys, NEW x \in LruVals, LC!Set(k, x)
  PROVE  LruInv' /\ LC!StepEvictsOldest
<1>1. PICK b \in LC!Buckets : b = LC!BucketOf(k)
  BY BucketIs
<1>2. Listed(keys[b], cache[b], used[b])
  BY DEF LruInv
<1>3. PICK e \in Entry : e = [key |-> k, val |-> x] /\ e.key = k
  <2>1. [key |-> k, val |-> x] \in Entry /\ [key |-> k, val |-> x].key = k
    BY DEF Entry
  <2>2. QED BY <2>1
<1>4. PICK v : v = <<k>> \o LC!Without(used[b], k)
  OBVIOUS
<1>5. used' = [used EXCEPT ![b] = v] /\ UNCHANGED <<hashed, maxSize, elasticity>>
  BY <1>1, <1>4 DEF LC!Set, LC!UseNow
<1>6. CASE k \in cache[b]
  <2>1. PICK p : p = LC!EntryOf(k)
    OBVIOUS
  <2>2. p \in 1..Len(keys[b]) /\ used[b][p] = k
    BY <1>1, <1>2, <1>6, <2>1, PlaceInList DEF LC!EntryOf
  <2>3. PICK l : l = <<e>> \o LC!RemoveAt(keys[b], p)
    OBVIOUS
  <2>4. Listed(l, cache[b], v)
    BY <1>2, <1>3, <1>4, <2>2, <2>3, ListedHit
  <2>5. keys' = [keys EXCEPT ![b] = l]
    BY <1>1, <1>3, <1>6, <2>1, <2>3 DEF LC!Set
  <2>6. keys'[b] = l
    BY <2>5 DEF LruInv
  <2>7. cache' = [cache EXCEPT ![b] = cache[b]]
    <3>1. cache[b] = LC!Range(LC!KeysOf(l))
      BY <2>4, ListedKeys
    <3>2. cache' = [cache EXCEPT ![b] = LC!Range(LC!KeysOf(keys'[b]))]
      BY <1>1 DEF LC!Set
    <3>3. QED BY <2>6, <3>1, <3>2
  <2>8. /\ LruInv' /\ cache'[b] = cache[b]
        /\ \A a \in LC!Buckets \ {b} : cache'[a] = cache[a]
    BY <1>5, <2>4, <2>5, <2>7, LruChanges
  <2>9. LC!StepEvictsOldest
    BY <2>8, LruKeeps
  <2>10. QED BY <2>8, <2>9
<1>7. CASE k \notin cache[b]
  <2>1. PICK new : new = <<e>> \o keys[b]
    OBVIOUS
  <2>2. PICK n \in Nat : n = Len(keys[b])
    BY <1>2 DEF Listed
  <2>3. Listed(new, cache[b] \cup {k}, v) /\ Len(new) = n + 1 /\ Shifted(used[b], v, n)
    <3>1. /\ Listed(<<e>> \o keys[b], cache[b] \cup {k}, <<k>> \o LC!Without(used[b], k))
          /\ Len(<<e>> \o keys[b]) = Len(keys[b]) + 1
          /\ Shifted(used[b], <<k>> \o LC!Without(used[b], k), Len(keys[b]))
      BY <1>2, <1>3, <1>7, ListedMiss
    <3>2. QED BY <1>4, <2>1, <2>2, <3>1
  <2>4. PICK l : l = LC!Pruned(new)
    OBVIOUS
  <2>5. keys' = [keys EXCEPT ![b] = l]
    BY <1>1, <1>3, <1>7, <2>1, <2>4 DEF LC!Set
  <2>6. keys'[b] = l
    BY <2>5 DEF LruInv
  <2>7. PICK c : c = LC!Range(LC!KeysOf(l))
    OBVIOUS
  <2>8. cache' = [cache EXCEPT ![b] = c]
    <3>1. cache' = [cache EXCEPT ![b] = LC!Range(LC!KeysOf(keys'[b]))]
      BY <1>1 DEF LC!Set
    <3>2. QED BY <2>6, <2>7, <3>1
  <2>9. maxSize \in Nat
    BY DEF LruInv, LC!LruAssumption
  <2>10. PICK q \in 0..n + 1 :
           Listed(l, c, v) /\ Len(l) = q /\ (q < n + 1 => q = maxSize)
    <3>1. CASE l = new
      <4>1. c = cache[b] \cup {k}
        BY <2>3, <2>7, <3>1, ListedKeys
      <4>2. n + 1 \in 0..n + 1
        OBVIOUS
      <4>3. QED BY <2>3, <3>1, <4>1, <4>2
    <3>2. CASE l # new
      <4>1. maxSize \in 0..Len(new) /\ l = SubSeq(new, 1, maxSize)
        BY <2>3, <2>4, <2>9, <3>2 DEF LC!Pruned
      <4>2. Listed(l, c, v) /\ Len(l) = maxSize
        BY <2>3, <2>7, <4>1, ListedFront
      <4>3. QED BY <2>3, <4>1, <4>2
    <3>3. QED BY <3>1, <3>2
  <2>11. /\ LruInv' /\ cache'[b] = c /\ used'[b] = v
         /\ \A a \in LC!Buckets \ {b} : cache'[a] = cache[a]
    BY <1>5, <2>5, <2>8, <2>10, LruChanges
  <2>12. ASSUME NEW y \in cache[b], y \notin c
         PROVE  (\A j \in c : LC!Before(v, j, y)) /\ LC!Cardinality(c) >= maxSize
    <3>1. Listed(l, c, v) /\ Len(l) = q /\ Shifted(used[b], v, n) /\ n = Len(keys[b])
      BY <2>2, <2>3, <2>10
    <3>2. q < n + 1 /\ (\A j \in c : LC!Before(v, j, y)) /\ Cardinality(c) = q
      BY <1>2, <2>12, <3>1, MissEvicts
    <3>3. LC!Cardinality(c) = Cardinality(c)
      BY DEF LC!Cardinality, Cardinality
    <3>4. QED BY <2>9, <2>10, <3>2, <3>3
  <2>13. LC!StepEvictsOldest
    BY <2>11, <2>12 DEF LC!StepEvictsOldest
  <2>14. QED BY <2>11, <2>13
<1>8. QED BY <1>6, <1>7

LEMMA LruSame ==
  ASSUME LruInv, UNCHANGED <<hashed, keys, cache, used>>, maxSize' \in MaxSizes,
         elasticity' \in Elasticities
  PROVE  LruInv' /\ LC!StepEvictsOldest
<1>1. LruInv'
  BY DEF LruInv
<1>2. QED BY <1>1 DEF LC!StepEvictsOldest

LEMMA LruStep ==
  LC!LruAssumption /\ LruInv /\ [LC!Next]_(LC!vars) => LruInv' /\ LC!StepEvictsOldest
<1> SUFFICES ASSUME LC!LruAssumption, LruInv, [LC!Next]_(LC!vars)
             PROVE  LruInv' /\ LC!StepEvictsOldest
  OBVIOUS
<1>1. CASE \E k \in LruKeys : LC!Get(k) \/ LC!Del(k) \/ \E v \in LruVals : LC!Set(k, v)
  BY <1>1, LruGet, LruDel, LruSet
<1>2. CASE \E b \in LC!Buckets : LC!Clear(b)
  BY <1>2, LruClear
<1>3. CASE LC!SetMaxSize \/ LC!SetElasticity \/ UNCHANGED LC!vars
  BY <1>3, LruSame DEF LC!SetMaxSize, LC!SetElasticity, LC!vars, LruInv
<1>4. QED BY <1>1, <1>2, <1>3 DEF LC!Next

\* What prune() evicts was used before all that stays, of which there is as much
\* as the limit allows.
THEOREM LruEvictsOldest == LC!LruAssumption => (LC!Spec => LC!EvictsOldest)
<1> SUFFICES ASSUME LC!LruAssumption PROVE LC!Spec => LC!EvictsOldest
  OBVIOUS
<1>1. LC!Init => LruInv
  BY LruInit
<1>2. LruInv /\ [LC!Next]_(LC!vars) => LruInv'
  BY LruStep
<1>3. LruInv /\ [LC!Next]_(LC!vars) => [LC!StepEvictsOldest]_(LC!vars)
  BY LruStep
<1>4. QED BY <1>1, <1>2, <1>3, PTL DEF LC!Spec, LC!EvictsOldest

-----------------------------------------------------------------------------
(***************************************************************************)
(* WebSocket: the types, whatever is mixed up                              *)
(***************************************************************************)
\* A part of a frame is of a frame the sender has begun, the receiver is inside
\* such a frame, and what it has agreed to read is within the limit.
SocketOK ==
  /\ WS!TypeOK /\ Len(frames) <= MaxFrames
  /\ spc # "idle" => frames # << >>
  /\ \A i \in DOMAIN wsWire : wsWire[i].part # "control" => wsWire[i].frame \in DOMAIN frames
  /\ rpc \in {"length", "mask", "data"} => wsHead \in DOMAIN frames
  /\ rpc \in {"mask", "data"} => wsSize + length <= MaxMessage

LEMMA SocketTypesInit == WS!WebSocketAssumption /\ WS!Init => SocketOK
<1> SUFFICES ASSUME WS!WebSocketAssumption, WS!Init PROVE SocketOK
  OBVIOUS
<1>1. /\ frames \in Seq(WS!Frames) /\ Len(frames) = 0
      /\ wsWire \in Seq(WS!Parts) /\ DOMAIN wsWire = {}
      /\ data \in Seq(1..MaxFrames) /\ got \in Seq(WS!Messages)
  BY DEF WS!Init
<1>2. WS!TypeOK
  <2>1. /\ 0 \in 0..MaxPings /\ 0 \in WS!NoFrame..MaxFrames /\ 0 \in 0..MaxMessage
    BY DEF WS!WebSocketAssumption, WS!NoFrame
  <2>2. up \in [{"sender", "receiver"} -> BOOLEAN] /\ client \in BOOLEAN
    BY DEF WS!Init
  <2>3. opcode \in WS!Opcodes
    BY DEF WS!Init, WS!Opcodes
  <2>4. QED BY <1>1, <2>1, <2>2, <2>3 DEF WS!Init, WS!TypeOK, WS!NoFrame
<1>3. QED BY <1>1, <1>2 DEF WS!Init, SocketOK, WS!WebSocketAssumption

\* The receiver's side stays, the sender's frames grow.
LEMMA SocketSends ==
  ASSUME WS!WebSocketAssumption, SocketOK, WS!Send
  PROVE  SocketOK'
<1>1. /\ frames \in Seq(WS!Frames) /\ Len(frames) \in Nat /\ Len(frames) <= MaxFrames
      /\ DOMAIN frames = 1..Len(frames) /\ MaxFrames \in Nat /\ MaxPings \in Nat
      /\ MaxMessage \in Nat /\ wsWire \in Seq(WS!Parts)
      /\ UNCHANGED WS!recvVars /\ client' = client /\ broken' = broken
  BY DEF SocketOK, WS!TypeOK, WS!WebSocketAssumption, WS!Send, WS!SendMessage, WS!SendHead,
         WS!SendLength, WS!SendMask, WS!SendData, WS!SendFails, WS!SendControl
<1>2. /\ frames' \in Seq(WS!Frames) /\ Len(frames') <= MaxFrames
      /\ DOMAIN frames \subseteq DOMAIN frames' /\ (spc' # "idle" => frames' # << >>)
  <2>1. CASE WS!SendMessage
    <3>1. PICK f \in WS!Frames : frames' = Append(frames, f)
      BY <2>1 DEF WS!SendMessage
    <3>2. PICK v : v = Append(frames, f)
      OBVIOUS
    <3>3. v \in Seq(WS!Frames) /\ Len(v) = Len(frames) + 1 /\ DOMAIN v = 1..Len(v)
      BY <1>1, <3>2
    <3>4. Len(frames) < MaxFrames /\ frames' = v
      BY <2>1, <3>1, <3>2 DEF WS!SendMessage
    <3>5. v # << >>
      BY <1>1, <3>3
    <3>6. QED BY <1>1, <3>3, <3>4, <3>5
  <2>2. CASE ~WS!SendMessage
    <3>1. frames' = frames /\ (spc' # "idle" => spc # "idle")
      BY <2>2 DEF WS!Send, WS!SendHead, WS!SendLength, WS!SendMask, WS!SendData,
         WS!SendFails, WS!SendControl
    <3>2. QED BY <1>1, <3>1 DEF SocketOK
  <2>3. QED BY <2>1, <2>2
<1>3. ASSUME NEW piece \in {"head", "length", "mask", "data", "control"},
             NEW n \in {WS!Medium} \cup 0..MaxMessage, WS!Write(piece, n), frames' = frames,
             piece # "control" => frames # << >>
      PROVE  /\ wsWire' \in Seq(WS!Parts)
             /\ \A i \in DOMAIN wsWire' :
                  wsWire'[i].part # "control" => wsWire'[i].frame \in DOMAIN frames
  <2>1. PICK p : p = [part |-> piece,
                      frame |-> IF piece = "control" THEN WS!NoFrame ELSE Len(frames),
                      length |-> n]
    OBVIOUS
  <2>2. p \in WS!Parts
    <3>1. (IF piece = "control" THEN WS!NoFrame ELSE Len(frames)) \in WS!NoFrame..MaxFrames
      BY <1>1 DEF WS!NoFrame
    <3>2. QED BY <2>1, <3>1 DEF WS!Parts
  <2>3. p.part # "control" => p.frame \in DOMAIN frames
    <3>1. frames # << >> => Len(frames) # 0
      BY <1>1
    <3>2. QED BY <1>1, <1>3, <2>1, <3>1
  <2>4. wsWire' = wsWire \/ wsWire' = Append(wsWire, p)
    BY <1>3, <2>1 DEF WS!Write
  <2>5. CASE wsWire' = wsWire
    BY <1>1, <2>5 DEF SocketOK
  <2>6. CASE wsWire' = Append(wsWire, p)
    <3>1. PICK v : v = Append(wsWire, p)
      OBVIOUS
    <3>2. /\ v \in Seq(WS!Parts) /\ Len(v) = Len(wsWire) + 1 /\ DOMAIN v = 1..Len(v)
          /\ Len(wsWire) \in Nat /\ DOMAIN wsWire = 1..Len(wsWire)
          /\ v[Len(wsWire) + 1] = p /\ \A i \in 1..Len(wsWire) : v[i] = wsWire[i]
      BY <1>1, <2>2, <3>1
    <3>3. ASSUME NEW i \in DOMAIN v, v[i].part # "control" PROVE v[i].frame \in DOMAIN frames
      <4>1. i \in DOMAIN wsWire \/ i = Len(wsWire) + 1
        BY <3>2
      <4>2. CASE i \in DOMAIN wsWire
        BY <3>2, <3>3, <4>2 DEF SocketOK
      <4>3. CASE i = Len(wsWire) + 1
        BY <2>3, <3>2, <3>3, <4>3
      <4>4. QED BY <4>1, <4>2, <4>3
    <3>4. QED BY <2>6, <3>1, <3>2, <3>3
  <2>7. QED BY <2>4, <2>5, <2>6
<1>4. /\ wsWire' \in Seq(WS!Parts)
      /\ \A i \in DOMAIN wsWire' :
           wsWire'[i].part # "control" => wsWire'[i].frame \in DOMAIN frames'
  <2>1. CASE wsWire' = wsWire
    BY <1>1, <1>2, <2>1 DEF SocketOK
  <2>2. CASE wsWire' # wsWire
    <3>1. frames' = frames
      BY <2>2 DEF WS!Send, WS!SendMessage, WS!SendHead, WS!SendLength, WS!SendMask,
         WS!SendData, WS!SendFails, WS!SendControl
    <3>2. \E piece \in {"head", "length", "mask", "data", "control"},
             n \in {WS!Medium} \cup 0..MaxMessage :
            WS!Write(piece, n) /\ (piece # "control" => spc # "idle")
      <4>1. 0 \in 0..MaxMessage
        BY <1>1
      <4>2. CASE WS!SendHead
        BY <4>1, <4>2 DEF WS!SendHead
      <4>3. CASE WS!SendLength
        BY <4>1, <4>3 DEF WS!SendLength
      <4>4. CASE WS!SendMask
        BY <4>1, <4>4 DEF WS!SendMask
      <4>5. CASE WS!SendData
        BY <2>2, <4>1, <4>5 DEF WS!SendData
      <4>6. CASE WS!SendControl
        BY <4>1, <4>6 DEF WS!SendControl
      <4>7. QED
        BY <2>2, <4>2, <4>3, <4>4, <4>5, <4>6 DEF WS!Send, WS!SendMessage, WS!SendFails
    <3>3. QED BY <1>3, <3>1, <3>2 DEF SocketOK
  <2>3. QED BY <2>1, <2>2
<1>5. /\ spc' \in {"idle", "head", "length", "mask", "data", "stuck"}
      /\ controls' \in 0..MaxPings
      /\ up' \in [{"sender", "receiver"} -> BOOLEAN]
  <2>1. spc' = spc \/ spc' \in {"idle", "head", "length", "mask", "data", "stuck"}
    BY DEF WS!Send, WS!SendMessage, WS!SendHead, WS!SendLength, WS!SendMask, WS!SendData,
       WS!SendFails, WS!SendControl, WS!AfterHead
  <2>2. controls' = controls \/ (controls < MaxPings /\ controls' = controls + 1)
    BY DEF WS!Send, WS!SendMessage, WS!SendHead, WS!SendLength, WS!SendMask, WS!SendData,
       WS!SendFails, WS!SendControl
  <2>3. up' = up \/ up' = [up EXCEPT !["sender"] = FALSE]
    BY DEF WS!Send, WS!SendMessage, WS!SendHead, WS!SendLength, WS!SendMask, WS!SendData,
       WS!SendFails, WS!SendControl
  <2>4. /\ spc \in {"idle", "head", "length", "mask", "data", "stuck"}
        /\ controls \in 0..MaxPings /\ up \in [{"sender", "receiver"} -> BOOLEAN]
    BY DEF SocketOK, WS!TypeOK
  <2>5. controls' \in 0..MaxPings
    BY <1>1, <2>2, <2>4
  <2>6. up' \in [{"sender", "receiver"} -> BOOLEAN]
    BY <2>3, <2>4
  <2>7. QED BY <2>1, <2>4, <2>5, <2>6
<1>6. mixed' \in BOOLEAN
  <2>1. mixed \in BOOLEAN
    BY DEF SocketOK, WS!TypeOK
  <2>2. mixed' = mixed \/ mixed' \in BOOLEAN
    BY Zenon DEF WS!Send, WS!SendMessage, WS!SendHead,
       WS!SendLength, WS!SendMask, WS!SendData, WS!SendFails, WS!SendControl
  <2>3. QED BY <2>1, <2>2
<1>7. WS!TypeOK'
  BY <1>1, <1>2, <1>4, <1>5, <1>6 DEF SocketOK, WS!TypeOK, WS!recvVars
<1>8. QED BY <1>1, <1>2, <1>4, <1>7 DEF SocketOK, WS!recvVars

\* The receiver takes the front part, if any.
LEMMA SocketReceives ==
  ASSUME WS!WebSocketAssumption, SocketOK, WS!Recv
  PROVE  SocketOK'
<1>1. /\ frames \in Seq(WS!Frames) /\ Len(frames) \in Nat /\ Len(frames) <= MaxFrames
      /\ DOMAIN frames = 1..Len(frames) /\ MaxFrames \in Nat
      /\ MaxMessage \in Nat /\ wsWire \in Seq(WS!Parts)
      /\ wsSize \in 0..MaxMessage /\ length \in 0..MaxMessage
      /\ UNCHANGED WS!sendVars /\ frames' = frames /\ client' = client /\ broken' = broken
  BY DEF SocketOK, WS!TypeOK, WS!WebSocketAssumption, WS!Recv, WS!RecvHead, WS!RecvLength,
         WS!RecvMask, WS!RecvData, WS!RecvControl, WS!RecvLost, WS!RecvFails, WS!sendVars
<1>2. wsWire # << >> =>
        /\ Tail(wsWire) \in Seq(WS!Parts) /\ Head(wsWire) \in WS!Parts
        /\ Head(wsWire).part # "control" => Head(wsWire).frame \in DOMAIN frames
        /\ \A i \in DOMAIN Tail(wsWire) :
             Tail(wsWire)[i].part # "control" => Tail(wsWire)[i].frame \in DOMAIN frames
  <2>1. SUFFICES ASSUME wsWire # << >>
                 PROVE  /\ Tail(wsWire) \in Seq(WS!Parts) /\ Head(wsWire) \in WS!Parts
                        /\ Head(wsWire).part # "control" => Head(wsWire).frame \in DOMAIN frames
                        /\ \A i \in DOMAIN Tail(wsWire) :
                             Tail(wsWire)[i].part # "control"
                               => Tail(wsWire)[i].frame \in DOMAIN frames
    OBVIOUS
  <2>2. PICK v, h : v = Tail(wsWire) /\ h = Head(wsWire)
    OBVIOUS
  <2>3. /\ v \in Seq(WS!Parts) /\ h \in WS!Parts /\ h = wsWire[1] /\ 1 \in DOMAIN wsWire
        /\ Len(v) = Len(wsWire) - 1 /\ DOMAIN v = 1..Len(v) /\ Len(wsWire) \in Nat
        /\ DOMAIN wsWire = 1..Len(wsWire)
        /\ \A i \in 1..Len(v) : v[i] = wsWire[i + 1]
    BY <1>1, <2>1, <2>2
  <2>4. ASSUME NEW i \in DOMAIN v PROVE v[i] = wsWire[i + 1] /\ i + 1 \in DOMAIN wsWire
    BY <2>3
  <2>5. QED BY <2>2, <2>3, <2>4 DEF SocketOK
<1>3. wsWire' = wsWire \/ (wsWire # << >> /\ wsWire' = Tail(wsWire))
  BY DEF WS!Recv, WS!RecvHead, WS!RecvLength, WS!RecvMask, WS!RecvData, WS!RecvControl,
         WS!RecvLost, WS!RecvFails, WS!Got
<1>4. /\ wsWire' \in Seq(WS!Parts)
      /\ \A i \in DOMAIN wsWire' :
           wsWire'[i].part # "control" => wsWire'[i].frame \in DOMAIN frames
  BY <1>1, <1>2, <1>3 DEF SocketOK
<1>5. SUFFICES /\ up' \in [{"sender", "receiver"} -> BOOLEAN]
               /\ rpc' \in {"head", "length", "mask", "data", "stuck", "closed", "lost"}
               /\ wsHead' \in 0..MaxFrames /\ length' \in 0..MaxMessage
               /\ opcode' \in WS!Opcodes /\ data' \in Seq(1..MaxFrames)
               /\ wsSize' \in 0..MaxMessage /\ got' \in Seq(WS!Messages)
               /\ rpc' \in {"length", "mask", "data"} => wsHead' \in DOMAIN frames
               /\ rpc' \in {"mask", "data"} => wsSize' + length' <= MaxMessage
  <2>1. WS!TypeOK'
    BY <1>1, <1>4, <1>5 DEF SocketOK, WS!TypeOK, WS!sendVars, WS!NoFrame
  <2>2. QED BY <1>1, <1>4, <1>5, <2>1 DEF SocketOK, WS!sendVars
<1>6. /\ up \in [{"sender", "receiver"} -> BOOLEAN]
      /\ wsHead \in 0..MaxFrames /\ opcode \in WS!Opcodes /\ data \in Seq(1..MaxFrames)
      /\ got \in Seq(WS!Messages)
      /\ rpc \in {"length", "mask", "data"} => wsHead \in DOMAIN frames
      /\ rpc \in {"mask", "data"} => wsSize + length <= MaxMessage
  BY DEF SocketOK, WS!TypeOK, WS!NoFrame
<1>7. \A f \in DOMAIN frames : frames[f].size \in 0..3 /\ frames[f].opcode \in WS!Opcodes
  <2>1. \A f \in DOMAIN frames : frames[f] \in WS!Frames
    BY <1>1
  <2>2. Sizes \subseteq 0..3
    BY DEF WS!WebSocketAssumption, WS!Empty, WS!Long
  <2>3. QED BY <2>1, <2>2 DEF WS!Frames
<1>8. WS!Closes => /\ up' \in [{"sender", "receiver"} -> BOOLEAN]
                   /\ rpc' = "closed" /\ wsHead' = wsHead /\ length' = length
                   /\ opcode' = opcode /\ data' = data /\ wsSize' = wsSize /\ got' = got
  BY <1>6 DEF WS!Closes
<1>9. ASSUME NEW f \in DOMAIN frames, NEW n \in Nat, WS!LengthIs(f, n)
      PROVE  /\ up' \in [{"sender", "receiver"} -> BOOLEAN]
             /\ rpc' \in {"mask", "data", "closed"}
             /\ wsHead' \in 0..MaxFrames /\ length' \in 0..MaxMessage
             /\ opcode' = opcode /\ data' = data /\ wsSize' = wsSize /\ got' = got
             /\ rpc' # "closed" => wsHead' \in DOMAIN frames /\ wsSize' + length' <= MaxMessage
  <2>1. CASE wsSize + n >= MaxMessage \/ (n = 0 /\ ~client)
    BY <1>1, <1>6, <1>8, <1>9, <2>1 DEF WS!LengthIs
  <2>2. CASE ~(wsSize + n >= MaxMessage \/ (n = 0 /\ ~client))
    <3>1. /\ rpc' = WS!AfterHead /\ wsHead' = f /\ length' = n /\ up' = up
          /\ opcode' = opcode /\ data' = data /\ wsSize' = wsSize /\ got' = got
      BY <1>9, <2>2 DEF WS!LengthIs
    <3>2. f \in 0..MaxFrames /\ n \in 0..MaxMessage /\ wsSize + n <= MaxMessage
      BY <1>1, <2>2
    <3>3. QED BY <1>6, <3>1, <3>2 DEF WS!AfterHead
  <2>3. QED BY <2>1, <2>2
<1>10. CASE WS!RecvHead
  <2>1. PICK f : f = Head(wsWire).frame
    OBVIOUS
  <2>2. f \in DOMAIN frames
    BY <1>2, <1>10, <2>1 DEF WS!RecvHead, WS!Got
  <2>3. CASE frames[f].size \in {WS!Medium, WS!Long}
    <3>1. /\ rpc' = "length" /\ wsHead' = f
          /\ UNCHANGED <<length, opcode, data, wsSize, got, up>>
      BY <1>10, <2>1, <2>3 DEF WS!RecvHead
    <3>2. f \in 0..MaxFrames
      BY <1>1, <2>2
    <3>3. QED BY <1>1, <1>6, <2>2, <3>1, <3>2
  <2>4. CASE frames[f].size \notin {WS!Medium, WS!Long}
    <3>1. WS!LengthIs(f, frames[f].size)
      BY <1>10, <2>1, <2>4 DEF WS!RecvHead
    <3>2. PICK n \in Nat : n = frames[f].size
      BY <1>7, <2>2
    <3>3. QED BY <1>1, <1>6, <1>9, <2>2, <3>1, <3>2
  <2>5. QED BY <2>3, <2>4
<1>11. CASE WS!RecvLength
  <2>1. PICK n \in Nat : n = Head(wsWire).length
    <3>1. Head(wsWire) \in WS!Parts
      BY <1>2, <1>11 DEF WS!RecvLength, WS!Got
    <3>2. QED BY <1>1, <3>1 DEF WS!Parts, WS!Medium
  <2>2. wsHead \in DOMAIN frames /\ WS!LengthIs(wsHead, n)
    BY <1>6, <1>11, <2>1 DEF WS!RecvLength, WS!Got
  <2>3. QED BY <1>1, <1>6, <1>9, <2>2
<1>12. CASE WS!RecvMask
  <2>1. rpc = "mask"
    BY <1>12 DEF WS!RecvMask, WS!Got
  <2>2. CASE length = 0
    <3>1. WS!Closes
      BY <1>12, <2>2 DEF WS!RecvMask
    <3>2. QED BY <1>1, <1>6, <1>8, <3>1
  <2>3. CASE length # 0
    BY <1>1, <1>6, <1>12, <2>1, <2>3 DEF WS!RecvMask
  <2>4. QED BY <2>2, <2>3
<1>13. CASE WS!RecvData
  <2>1. /\ rpc = "data" /\ wsHead \in DOMAIN frames /\ up' = up /\ wsSize + length <= MaxMessage
        /\ wsWire # << >> /\ Head(wsWire).part = "data"
    BY <1>6, <1>13 DEF WS!RecvData, WS!Got
  <2>2. CASE length # frames[wsHead].size
    BY <1>1, <1>6, <1>13, <2>1, <2>2 DEF WS!RecvData
  <2>3. CASE length = frames[wsHead].size
    <3>1. PICK all : all = Append(data, Head(wsWire).frame)
      OBVIOUS
    <3>2. all \in Seq(1..MaxFrames)
      <4>1. PICK f \in 1..MaxFrames : f = Head(wsWire).frame
        BY <1>1, <1>2, <2>1
      <4>2. data \in Seq(1..MaxFrames)
        BY <1>6
      <4>3. Append(data, f) \in Seq(1..MaxFrames)
        BY ONLY <4>2, f \in 1..MaxFrames, AppendProperties
      <4>4. QED BY <3>1, <4>1, <4>3
    <3>3. WS!MessageOpcode \in WS!Opcodes
      BY <1>6, <1>7, <2>1 DEF WS!MessageOpcode
    <3>4. /\ rpc' = "head" /\ wsHead' = 0 /\ length' = 0
          /\ \/ /\ got' = Append(got, [opcode |-> WS!MessageOpcode, data |-> all])
                /\ opcode' = "CONTINUE" /\ data' = << >> /\ wsSize' = 0
             \/ /\ opcode' = WS!MessageOpcode /\ data' = all /\ wsSize' = wsSize + length
                /\ got' = got
      BY <1>13, <2>3, <3>1 DEF WS!RecvData, WS!NoFrame
    <3>5. [opcode |-> WS!MessageOpcode, data |-> all] \in WS!Messages
      BY <3>2, <3>3 DEF WS!Messages
    <3>6. got' \in Seq(WS!Messages)
      <4>1. PICK m \in WS!Messages : m = [opcode |-> WS!MessageOpcode, data |-> all]
        BY <3>5
      <4>2. got \in Seq(WS!Messages)
        BY <1>6
      <4>3. Append(got, m) \in Seq(WS!Messages)
        BY ONLY <4>2, m \in WS!Messages, AppendProperties
      <4>4. QED BY <3>4, <4>1, <4>2, <4>3
    <3>7. opcode' \in WS!Opcodes /\ data' \in Seq(1..MaxFrames) /\ wsSize' \in 0..MaxMessage
      <4>1. << >> \in Seq(1..MaxFrames) /\ "CONTINUE" \in WS!Opcodes
        BY DEF WS!Opcodes
      <4>2. wsSize + length \in 0..MaxMessage /\ 0 \in 0..MaxMessage
        BY <1>1, <2>1
      <4>3. QED BY <3>2, <3>3, <3>4, <4>1, <4>2
    <3>8. QED BY <1>1, <1>6, <2>1, <3>4, <3>6, <3>7
  <2>4. QED BY <2>2, <2>3
<1>14. CASE WS!RecvControl
  BY <1>1, <1>6, <1>14 DEF WS!RecvControl
<1>15. CASE WS!RecvLost
  BY <1>1, <1>6, <1>15 DEF WS!RecvLost
<1>16. CASE WS!RecvFails
  BY <1>1, <1>6, <1>8, <1>16 DEF WS!RecvFails
<1>17. QED
  BY <1>10, <1>11, <1>12, <1>13, <1>14, <1>15, <1>16 DEF WS!Recv

LEMMA SocketOKStep == WS!WebSocketAssumption /\ SocketOK /\ [WS!Next]_(WS!vars) => SocketOK'
<1> SUFFICES ASSUME WS!WebSocketAssumption, SocketOK, [WS!Next]_(WS!vars) PROVE SocketOK'
  OBVIOUS
<1>1. CASE WS!Send
  BY <1>1, SocketSends
<1>2. CASE WS!Recv
  BY <1>2, SocketReceives
<1>3. CASE WS!Break
  BY <1>3 DEF WS!Break, SocketOK, WS!TypeOK, WS!sendVars, WS!recvVars
<1>4. CASE UNCHANGED WS!vars
  BY <1>4 DEF WS!vars, SocketOK, WS!TypeOK, WS!sendVars, WS!recvVars
<1>5. QED BY <1>1, <1>2, <1>3, <1>4 DEF WS!Next

-----------------------------------------------------------------------------
(***************************************************************************)
(* MCData: a behaviour of the whole is one of each of its components, so   *)
(* that what is proved of a component holds of the whole                   *)
(***************************************************************************)
LEMMA DataIsSqlite == Spec => SP!Spec
<1>1. Init => SP!Init
  BY DEF Init
<1>2. [Next]_vars => [SP!Next]_SP!vars
  BY DEF Next, vars, poolVars, sqliteVars, SP!vars
<1>3. QED BY <1>1, <1>2, PTL DEF Spec, SP!Spec

LEMMA DataIsNames == Spec => NS!Spec
<1>1. Init => NS!Init
  BY DEF Init
<1>2. [Next]_vars => [NS!Next]_(NS!vars)
  BY DEF Next, vars, tableVars, registryVars, NS!vars, NS!serverVars, NS!queryVars
<1>3. QED BY <1>1, <1>2, PTL DEF Spec, NS!Spec

LEMMA DataIsTimed == Spec => TC!Spec
<1>1. Init => TC!Init
  BY DEF Init
<1>2. [Next]_vars => [TC!Next]_(TC!vars)
  BY DEF Next, vars, tableVars, timedVars, TC!vars
<1>3. QED BY <1>1, <1>2, PTL DEF Spec, TC!Spec

LEMMA DataIsLru == Spec => LC!Spec
<1>1. Init => LC!Init
  BY DEF Init
<1>2. [Next]_vars => [LC!Next]_(LC!vars)
  BY DEF Next, vars, tableVars, lruVars, LC!vars
<1>3. QED BY <1>1, <1>2, PTL DEF Spec, LC!Spec

\* MCData's property of the LRU caches (ds/LRUCache.h 55-107, 169-185): a key is
\* evicted only if maxSize keys that were used after it stay, and all that stay
\* were used after it.
THEOREM DataEvictsOldest == LC!LruAssumption => (Spec => EvictsOldest)
<1> SUFFICES ASSUME LC!LruAssumption PROVE Spec => EvictsOldest
  OBVIOUS
<1>1. Spec => [][LC!StepEvictsOldest]_(LC!vars)
  BY DataIsLru, LruEvictsOldest, PTL DEF LC!EvictsOldest
<1>2. [LC!StepEvictsOldest]_(LC!vars) => [part = "lru" => LC!StepEvictsOldest]_vars
  <2>1. UNCHANGED LC!vars => UNCHANGED cache
    BY DEF LC!vars
  <2>2. UNCHANGED cache => LC!StepEvictsOldest
    BY DEF LC!StepEvictsOldest
  <2>3. QED BY <2>1, <2>2
<1>3. QED BY <1>1, <1>2, PTL DEF EvictsOldest

\* MCData's property of the Sqlite pool (db/Sqlite.cpp 440-507): no user is
\* given a connection in which another user's transaction is open, unless
\* ending it failed.
THEOREM DataTransactionIsOwn == SP!SqliteAssumption => (Spec => []TransactionIsOwn)
<1>1. SP!TransactionIsOwn => TransactionIsOwn
  BY DEF TransactionIsOwn
<1>2. QED BY <1>1, DataIsSqlite, SqliteTransactionIsOwn, PTL

\* MCData's property of the byte array (ByteArray.cpp 408-649): every step is
\* one of Bytes, as long as no null pointer has been followed.
THEOREM DataImplementsBytes == BA!ByteArrayAssumption => (Spec => ImplementsBytes)
<1>1. SUFFICES ASSUME BA!ByteArrayAssumption PROVE Spec => ImplementsBytes
  OBVIOUS
<1>2. Init => BytesInv
  BY <1>1, BytesInit DEF Init
<1>3. BytesInv /\ [Next]_vars => BytesInv'
  <2>1. [Next]_vars => [BA!Next]_(BA!vars)
    BY DEF Next, vars, streamVars, byteVars, BA!vars
  <2>2. QED BY <1>1, <2>1, BytesStep
<1>4. BytesInv => BA!CurExact
  BY <1>1, BytesInvIsExact
<1>5. BytesInv /\ BA!CurExact' => (part = "bytes" => BA!StepIsBytes)
  BY <1>1, BytesStepIsBytes
<1>6. QED BY <1>2, <1>3, <1>4, <1>5, PTL DEF Spec, ImplementsBytes

LEMMA DataIsVarint == Spec => VI!Spec
<1>1. Init => VI!Init
  BY DEF Init
<1>2. [Next]_vars => [VI!Next]_(VI!vars)
  BY DEF Next, vars, streamVars, varintVars, VI!vars
<1>3. QED BY <1>1, <1>2, PTL DEF Spec, VI!Spec

\* MCData's property of the integers of variable length (ByteArray.cpp 138-353):
\* what is written is read back, from the very bytes that were written, unless
\* it is an int64 that is not an int32.
THEOREM DataRoundTrips == VI!VarintAssumption => (Spec => []RoundTrips)
<1>1. (VI!RoundTrips /\ VI!TypeOK) => RoundTrips
  BY DEF RoundTrips
<1>2. QED BY <1>1, VarintRoundTrips, DataIsVarint, PTL

\* MCData's property of Timed_Cache (ds/TimedCache.h 70-80, 196-230): the map
\* never has an iterator whose item is gone.
THEOREM DataNoDangling == TC!TimedAssumption => (Spec => []NoDangling)
<1>1. TC!NoDangling => NoDangling
  BY DEF NoDangling
<1>2. QED BY <1>1, DataIsTimed, TimedNoDangling, PTL

\* MCData's property of the name server (ns/NameServerModule.cpp): the domains
\* hold exactly what the sessions have registered.
THEOREM DataRegistryExact == NS!NameServerAssumption => (Spec => []RegistryExact)
<1>1. NS!RegistryExact => RegistryExact
  BY DEF RegistryExact
<1>2. QED BY <1>1, DataIsNames, RegistryIsExact, PTL

HPP == INSTANCE HttpProofs

\* MCData's connections are those that HttpProofs is about.
LEMMA DataIsHttp == Spec => HPP!Spec
<1>1. Init => HPP!Init
  BY DEF Init, HP!Init, HPP!Init, HP!None, HPP!None
<1>2. [Next]_vars => [HPP!Next]_(HPP!vars)
  <2>1. [Next]_vars => [HP!Next]_(HP!vars)
    BY DEF Next, vars, poolVars, httpVars, HP!vars, HP!poolVars, HP!serverVars, HP!userVars
  <2>2. UNCHANGED HP!vars => UNCHANGED HPP!vars
    BY DEF HP!vars, HPP!vars, HP!poolVars, HPP!poolVars, HP!serverVars, HPP!serverVars,
           HP!userVars, HPP!userVars
  <2>3. ASSUME NEW u \in Users, HP!UserStep(u) PROVE HPP!UserStep(u)
    <3>1. HP!GetConnection(u) => HPP!GetConnection(u)
      BY DEF HP!GetConnection, HPP!GetConnection, HP!serverVars, HPP!serverVars
    <3>2. HP!Send(u) => HPP!Send(u)
      BY DEF HP!Send, HPP!Send, HP!serverVars, HPP!serverVars, HP!poolVars, HPP!poolVars,
             HP!Kinds, HPP!Kinds, HP!Response, HPP!Response
    <3>3. HP!Read(u) => HPP!Read(u)
      BY DEF HP!Read, HPP!Read, HP!Reads, HPP!Reads, HP!poolVars, HPP!poolVars, HP!serverVars,
             HPP!serverVars
    <3>4. HP!ReadHeaderFails(u) => HPP!ReadHeaderFails(u)
      BY DEF HP!ReadHeaderFails, HPP!ReadHeaderFails, HP!ReadFails, HPP!ReadFails,
             HP!serverVars, HPP!serverVars, HP!Release, HPP!Release, HP!None, HPP!None
    <3>5. HP!ParseError(u) => HPP!ParseError(u)
      BY DEF HP!ParseError, HPP!ParseError, HP!Expected, HPP!Expected, HP!serverVars,
             HPP!serverVars, HP!Release, HPP!Release, HP!None, HPP!None
    <3>6. HP!Parse(u) => HPP!Parse(u)
      BY DEF HP!Parse, HPP!Parse, HP!Expected, HPP!Expected, HP!serverVars, HPP!serverVars,
             HP!poolVars, HPP!poolVars, HP!Release, HPP!Release, HP!None, HPP!None
    <3>7. HP!DataFails(u) => HPP!DataFails(u)
      BY DEF HP!DataFails, HPP!DataFails, HP!ReadFails, HPP!ReadFails, HP!serverVars,
             HPP!serverVars, HP!Release, HPP!Release, HP!Tears, HPP!Tears, HP!None, HPP!None
    <3>8. HP!Over(u) => HPP!Over(u)
      BY DEF HP!Over, HPP!Over, HP!Reads, HPP!Reads, HP!ReadFails, HPP!ReadFails,
             HP!serverVars, HPP!serverVars, HP!poolVars, HPP!poolVars, HP!Release, HPP!Release,
             HP!Tears, HPP!Tears, HP!None, HPP!None
    <3>9. HP!BodyStuck(u) => HPP!BodyStuck(u)
      BY DEF HP!BodyStuck, HPP!BodyStuck, HP!ReadFails, HPP!ReadFails, HP!serverVars,
             HPP!serverVars, HP!poolVars, HPP!poolVars, HP!Release, HPP!Release, HP!None,
             HPP!None
    <3>10. HP!StuckEnds(u) => HPP!StuckEnds(u)
      BY DEF HP!StuckEnds, HPP!StuckEnds, HP!serverVars, HPP!serverVars, HP!Release,
             HPP!Release, HP!None, HPP!None
    <3>11. HP!ParseRest(u) => HPP!ParseRest(u)
      BY DEF HP!ParseRest, HPP!ParseRest, HP!Expected, HPP!Expected, HP!serverVars,
             HPP!serverVars, HP!poolVars, HPP!poolVars
    <3>12. HP!Astray(u) => HPP!Astray(u)
      BY DEF HP!Astray, HPP!Astray, HP!Reads, HPP!Reads, HP!ReadFails, HPP!ReadFails,
             HP!serverVars, HPP!serverVars, HP!poolVars, HPP!poolVars, HP!Release,
             HPP!Release, HP!None, HPP!None
    <3>13. QED
      BY <2>3, <3>1, <3>2, <3>3, <3>4, <3>5, <3>6, <3>7, <3>8, <3>9, <3>10, <3>11, <3>12
      DEF HP!UserStep, HPP!UserStep
  <2>4. \A c \in Conns : HP!Deliver(c) => HPP!Deliver(c)
    BY DEF HP!Deliver, HPP!Deliver, HP!poolVars, HPP!poolVars, HP!userVars, HPP!userVars
  <2>5. \A c \in Conns : HP!PeerCloses(c) => HPP!PeerCloses(c)
    BY DEF HP!PeerCloses, HPP!PeerCloses, HP!poolVars, HPP!poolVars, HP!userVars,
           HPP!userVars
  <2>6. HP!Next => HPP!Next
    BY <2>3, <2>4, <2>5 DEF HP!Next, HPP!Next
  <2>7. QED BY <2>1, <2>2, <2>6
<1>3. QED BY <1>1, <1>2, PTL DEF Spec, HPP!Spec

\* MCData's property of pooled connections (http/HttpConnection.cpp 38-171,
\* 525-537): a response that is accepted is the one to the request just sent,
\* and no connection has two users.
THEOREM DataResponseIsOwn == HP!HttpAssumption => (Spec => []ResponseIsOwn)
<1>1. HP!HttpAssumption => HPP!HttpAssumption
  BY DEF HP!HttpAssumption, HPP!HttpAssumption, HP!None, HPP!None
<1>2. HPP!ResponseIsOwn => ResponseIsOwn
  BY DEF ResponseIsOwn, HP!ResponseIsOwn, HPP!ResponseIsOwn, HP!None, HPP!None,
         HP!Contains, HPP!Contains, HP!IsInjective, HPP!IsInjective
<1>3. HPP!HttpAssumption => (HPP!Spec => []HPP!ResponseIsOwn)
  BY HPP!HttpResponseIsOwn
<1>4. QED BY <1>1, <1>2, <1>3, DataIsHttp, PTL

\* So are MCData's WebSockets.
LEMMA DataIsSocket == Spec => HPP!WS!Spec
<1> USE DEF WS!sendVars, HPP!WS!sendVars, WS!recvVars, HPP!WS!recvVars
<1>1. Init => HPP!WS!Init
  BY DEF Init, WS!Init, HPP!WS!Init, WS!NoFrame, HPP!WS!NoFrame
<1>2. UNCHANGED WS!vars => UNCHANGED HPP!WS!vars
  BY DEF WS!vars, HPP!WS!vars
<1>3. \A p, n : WS!Write(p, n) => HPP!WS!Write(p, n)
  BY DEF WS!Write, HPP!WS!Write, WS!NoFrame, HPP!WS!NoFrame
<1>4. WS!Send => HPP!WS!Send
  <2>1. WS!SendMessage => HPP!WS!SendMessage
    BY DEF WS!SendMessage, HPP!WS!SendMessage, WS!Frames, HPP!WS!Frames, WS!Opcodes,
           HPP!WS!Opcodes
  <2>2. WS!SendHead => HPP!WS!SendHead
    BY <1>3 DEF WS!SendHead, HPP!WS!SendHead, WS!frame, HPP!WS!frame, WS!AfterHead,
           HPP!WS!AfterHead, WS!Medium, HPP!WS!Medium, WS!Long, HPP!WS!Long
  <2>3. WS!SendLength => HPP!WS!SendLength
    BY <1>3 DEF WS!SendLength, HPP!WS!SendLength, WS!frame, HPP!WS!frame, WS!AfterHead,
           HPP!WS!AfterHead, WS!Medium, HPP!WS!Medium
  <2>4. WS!SendMask => HPP!WS!SendMask
    BY <1>3 DEF WS!SendMask, HPP!WS!SendMask
  <2>5. WS!SendData => HPP!WS!SendData
    BY <1>3 DEF WS!SendData, HPP!WS!SendData, WS!frame, HPP!WS!frame, WS!Empty, HPP!WS!Empty
  <2>6. WS!SendFails => HPP!WS!SendFails
    BY DEF WS!SendFails, HPP!WS!SendFails, WS!Gone, HPP!WS!Gone
  <2>7. WS!SendControl => HPP!WS!SendControl
    BY <1>3 DEF WS!SendControl, HPP!WS!SendControl
  <2>8. QED
    BY <2>1, <2>2, <2>3, <2>4, <2>5, <2>6, <2>7 DEF WS!Send, HPP!WS!Send
<1>5. \A p : WS!Got(p) => HPP!WS!Got(p)
  BY DEF WS!Got, HPP!WS!Got
<1>6. \A f, n : WS!LengthIs(f, n) => HPP!WS!LengthIs(f, n)
  BY DEF WS!LengthIs, HPP!WS!LengthIs, WS!Closes, HPP!WS!Closes, WS!AfterHead, HPP!WS!AfterHead
<1>7. WS!Recv => HPP!WS!Recv
  <2>1. WS!RecvHead => HPP!WS!RecvHead
    BY <1>5, <1>6 DEF WS!RecvHead, HPP!WS!RecvHead, WS!Medium, HPP!WS!Medium, WS!Long,
           HPP!WS!Long
  <2>2. WS!RecvLength => HPP!WS!RecvLength
    BY <1>5, <1>6 DEF WS!RecvLength, HPP!WS!RecvLength
  <2>3. WS!RecvMask => HPP!WS!RecvMask
    BY <1>5 DEF WS!RecvMask, HPP!WS!RecvMask, WS!Closes, HPP!WS!Closes
  <2>4. WS!RecvData => HPP!WS!RecvData
    BY <1>5 DEF WS!RecvData, HPP!WS!RecvData, WS!MessageOpcode, HPP!WS!MessageOpcode,
           WS!NoFrame, HPP!WS!NoFrame
  <2>5. WS!RecvControl => HPP!WS!RecvControl
    BY DEF WS!RecvControl, HPP!WS!RecvControl, WS!Gone, HPP!WS!Gone
  <2>6. WS!RecvLost => HPP!WS!RecvLost
    BY DEF WS!RecvLost, HPP!WS!RecvLost
  <2>7. WS!RecvFails => HPP!WS!RecvFails
    BY DEF WS!RecvFails, HPP!WS!RecvFails, WS!Closes, HPP!WS!Closes
  <2>8. QED
    BY <2>1, <2>2, <2>3, <2>4, <2>5, <2>6, <2>7 DEF WS!Recv, HPP!WS!Recv
<1>8. WS!Break => HPP!WS!Break
  BY DEF WS!Break, HPP!WS!Break
<1>9. [Next]_vars => [WS!Next]_(WS!vars)
  BY DEF Next, vars, poolVars, socketVars, WS!vars
<1>10. [Next]_vars => [HPP!WS!Next]_(HPP!WS!vars)
  <2>1. WS!Next => HPP!WS!Next
    BY <1>4, <1>7, <1>8 DEF WS!Next, HPP!WS!Next
  <2>2. QED BY <1>2, <1>9, <2>1
<1>11. QED BY <1>1, <1>10, PTL DEF Spec, HPP!WS!Spec

\* MCData's property of WebSocket messages (http/WSSession.cpp 119-253): what
\* the receiver gets are the fragments in order and without a gap, each message
\* whole and with the first opcode that says what it is, unless a control frame
\* got into a frame or a length took eight bytes.
THEOREM DataMessagesIntact == WS!WebSocketAssumption => (Spec => []MessagesIntact)
<1>1. WS!WebSocketAssumption => HPP!WS!WebSocketAssumption
  BY DEF WS!WebSocketAssumption, HPP!WS!WebSocketAssumption, WS!Empty, HPP!WS!Empty, WS!Long,
         HPP!WS!Long
<1>2. HPP!WS!MessagesIntact => MessagesIntact
  <2>1. \A i : WS!Begins(i) = HPP!WS!Begins(i)
    BY DEF WS!Begins, HPP!WS!Begins, WS!Last, HPP!WS!Last
  <2>2. \A o, ids : HPP!WS!Opens(o, ids) => WS!Opens(o, ids)
    BY DEF WS!Opens, HPP!WS!Opens
  <2>3. WS!Range(frames) = HPP!WS!Range(frames) /\ WS!Long = HPP!WS!Long
    BY DEF WS!Range, HPP!WS!Range, WS!Long, HPP!WS!Long
  <2>4. QED BY <2>1, <2>2, <2>3 DEF MessagesIntact, WS!MessagesIntact, HPP!WS!MessagesIntact
<1>3. HPP!WS!WebSocketAssumption => (HPP!WS!Spec => []HPP!WS!MessagesIntact)
  BY HPP!SocketMessagesIntact
<1>4. QED BY <1>1, <1>2, <1>3, DataIsSocket, PTL

TP == INSTANCE TimerProofs

\* MCData's timers are those that TimerProofs is about.
LEMMA DataIsTimer == Spec => TP!Spec
<1>1. Init => TP!Init
  BY DEF Init, T!Init, TP!Init
<1>2. [Next]_vars => [TP!Next]_(TP!vars)
  <2>1. [Next]_vars => [T!Next]_(T!vars)
    BY DEF Next, vars, streamVars, clockVars, T!vars, T!timerVars, T!threadVars
  <2>2. UNCHANGED T!vars => UNCHANGED TP!vars
    BY DEF T!vars, TP!vars, T!timerVars, TP!timerVars, T!threadVars, TP!threadVars
  <2>3. T!Client => TP!Client
    <3>1. \A t \in Timers, m \in Periods : T!Construct(t, m) => TP!Construct(t, m)
      BY DEF T!Construct, TP!Construct, T!Key, TP!Key, T!AddTimerLocked, TP!AddTimerLocked,
             T!AtFront, TP!AtFront, T!Before, TP!Before, T!OnTimerInsertedAtFront,
             TP!OnTimerInsertedAtFront, T!timerVars, TP!timerVars, T!threadVars, TP!threadVars
    <3>2. \A t \in Timers : T!AddTimer(t) => TP!AddTimer(t)
      BY DEF T!AddTimer, TP!AddTimer, T!Key, TP!Key, T!AddTimerLocked, TP!AddTimerLocked,
             T!AtFront, TP!AtFront, T!Before, TP!Before, T!OnTimerInsertedAtFront,
             TP!OnTimerInsertedAtFront, T!timerVars, TP!timerVars, T!threadVars, TP!threadVars
    <3>3. \A t \in Timers : T!Refresh(t) => TP!Refresh(t)
      BY DEF T!Refresh, TP!Refresh, T!Key, TP!Key, T!AddTimerLocked, TP!AddTimerLocked,
             T!AtFront, TP!AtFront, T!Before, TP!Before, T!OnTimerInsertedAtFront,
             TP!OnTimerInsertedAtFront, T!timerVars, TP!timerVars, T!threadVars, TP!threadVars
    <3>4. \A t \in Timers : T!Cancel(t) => TP!Cancel(t)
      BY DEF T!Cancel, TP!Cancel, T!Key, TP!Key, T!AddTimerLocked, TP!AddTimerLocked,
             T!AtFront, TP!AtFront, T!Before, TP!Before, T!OnTimerInsertedAtFront,
             TP!OnTimerInsertedAtFront, T!timerVars, TP!timerVars, T!threadVars, TP!threadVars
    <3>5. \A t \in Timers, m \in Periods, b \in BOOLEAN : T!Reset(t, m, b) => TP!Reset(t, m, b)
      BY DEF T!Reset, TP!Reset, T!Key, TP!Key, T!AddTimerLocked, TP!AddTimerLocked, T!AtFront,
             TP!AtFront, T!Before, TP!Before, T!OnTimerInsertedAtFront,
             TP!OnTimerInsertedAtFront, T!timerVars, TP!timerVars, T!threadVars, TP!threadVars
    <3>6. T!OnTimerInsertedAtFront => TP!OnTimerInsertedAtFront
      BY DEF T!Key, TP!Key, T!AddTimerLocked, TP!AddTimerLocked, T!AtFront, TP!AtFront,
             T!Before, TP!Before, T!OnTimerInsertedAtFront, TP!OnTimerInsertedAtFront,
             T!timerVars, TP!timerVars, T!threadVars, TP!threadVars
    <3>7. QED BY <3>1, <3>2, <3>3, <3>4, <3>5, <3>6 DEF T!Client, TP!Client
  <2>4. ASSUME NEW th \in Threads, T!Worker(th) PROVE TP!Worker(th)
    <3>1. T!EnterIdle(th) => TP!EnterIdle(th)
      BY DEF T!EnterIdle, TP!EnterIdle, T!timerVars, TP!timerVars, T!threadVars, TP!threadVars
    <3>2. T!GetNextTimer(th) => TP!GetNextTimer(th)
      BY DEF T!GetNextTimer, TP!GetNextTimer, T!Delay, TP!Delay, T!Capped, TP!Capped,
             T!ToInt, TP!ToInt, T!WaitUntil, TP!WaitUntil, T!Never, TP!Never, T!AtFront, TP!AtFront, T!Before, TP!Before, T!timerVars, TP!timerVars,
             T!threadVars, TP!threadVars
    <3>3. T!WakeTimeout(th) => TP!WakeTimeout(th)
      BY DEF T!WakeTimeout, TP!WakeTimeout, T!Wake, TP!Wake, T!timerVars, TP!timerVars,
             T!threadVars, TP!threadVars, T!Never, TP!Never
    <3>4. T!WakeTickle(th) => TP!WakeTickle(th)
      BY DEF T!WakeTickle, TP!WakeTickle, T!Wake, TP!Wake, T!timerVars, TP!timerVars,
             T!threadVars, TP!threadVars
    <3>5. T!WakeEvent(th) => TP!WakeEvent(th)
      BY DEF T!WakeEvent, TP!WakeEvent, T!Wake, TP!Wake, T!timerVars, TP!timerVars,
             T!threadVars, TP!threadVars
    <3>6. T!ListExpiredCb(th) => TP!ListExpiredCb(th)
      BY DEF T!ListExpiredCb, TP!ListExpiredCb, T!Expired, TP!Expired, T!Rollover, TP!Rollover,
             T!Saturate, TP!Saturate, T!timerVars, TP!timerVars, T!threadVars, TP!threadVars
    <3>7. T!Drain(th) => TP!Drain(th)
      BY DEF T!Drain, TP!Drain, T!timerVars, TP!timerVars, T!threadVars, TP!threadVars
    <3>8. QED
      BY <2>4, <3>1, <3>2, <3>3, <3>4, <3>5, <3>6, <3>7 DEF T!Worker, TP!Worker
  <2>5. T!ClockMoves => TP!ClockMoves
    BY DEF T!ClockMoves, TP!ClockMoves, T!timerVars, TP!timerVars, T!threadVars,
           TP!threadVars
  <2>6. T!Next => TP!Next
    BY <2>3, <2>4, <2>5 DEF T!Next, TP!Next
  <2>7. QED BY <2>1, <2>2, <2>6
<1>3. QED BY <1>1, <1>2, PTL DEF Spec, TP!Spec

\* MCData's property of timers while the clock is set back (Timer.cpp 165-188,
\* 205-214): what a collection leaves is due within an hour more than its period.
THEOREM DataSetBackDelayBounded == T!TimerAssumption => (Spec => SetBackDelayBounded)
<1>1. SUFFICES ASSUME T!TimerAssumption PROVE Spec => SetBackDelayBounded
  OBVIOUS
<1>2. TP!TimerAssumption
  BY <1>1 DEF T!TimerAssumption, TP!TimerAssumption
<1>3. Spec => TP!SetBackDelayBounded
  BY <1>2, DataIsTimer, TP!TimerSetBackDelayBounded, PTL
<1>4. TP!CollectsBounded => T!CollectsBounded
  BY DEF T!CollectsBounded, TP!CollectsBounded, T!ListExpiredCb, TP!ListExpiredCb,
         T!Expired, TP!Expired, T!Rollover, TP!Rollover, T!Saturate, TP!Saturate,
         T!timerVars, TP!timerVars, T!threadVars, TP!threadVars
<1>5. [TP!CollectsBounded]_(TP!vars) /\ [Next]_vars
        => [part = "clock" => T!CollectsBounded]_vars
  <2>1. SUFFICES ASSUME UNCHANGED TP!vars, Next, part = "clock" PROVE UNCHANGED vars
    BY <1>4
  <2>2. UNCHANGED <<part, byteVars, varintVars, poolVars, tableVars>>
    BY <2>1 DEF Next
  <2>3. UNCHANGED clockVars
    BY <2>1 DEF TP!vars, TP!timerVars, TP!threadVars, clockVars
  <2>4. QED BY <2>2, <2>3 DEF vars, streamVars
<1>6. QED BY <1>3, <1>5, PTL DEF Spec, SetBackDelayBounded, TP!SetBackDelayBounded

\* Together: what the types of the components rest on
DataInv ==
  BytesInv /\ SocketOK /\ SqliteInv /\ LruInv /\ TimedTypes /\ RegistryAllTypes

LEMMA DataInvariant == Spec => []DataInv
<1>1. /\ BA!ByteArrayAssumption /\ WS!WebSocketAssumption /\ SP!SqliteAssumption
      /\ LC!LruAssumption /\ TC!TimedAssumption /\ NS!NameServerAssumption
  BY DataAssumption
<1>2. Init => DataInv
  <2>1. Init => BytesInv /\ SocketOK
    BY <1>1, BytesInit, SocketTypesInit DEF Init
  <2>2. Init => SqliteInv /\ LruInv
    BY <1>1, SqliteInit, LruInit DEF Init
  <2>3. Init => TimedTypes /\ RegistryAllTypes
    BY <1>1, TimedTypesInit, RegistryTypesInit DEF Init
  <2>4. QED BY <2>1, <2>2, <2>3 DEF DataInv
<1>3. DataInv /\ [Next]_vars => DataInv'
  <2>1. BytesInv /\ [Next]_vars => BytesInv'
    <3>1. [Next]_vars => [BA!Next]_(BA!vars)
      BY DEF Next, vars, streamVars, byteVars, BA!vars
    <3>2. QED BY <1>1, <3>1, BytesStep
  <2>2. SocketOK /\ [Next]_vars => SocketOK'
    <3>1. [Next]_vars => [WS!Next]_(WS!vars)
      BY DEF Next, vars, poolVars, socketVars, WS!vars, WS!sendVars, WS!recvVars
    <3>2. QED BY <1>1, <3>1, SocketOKStep
  <2>3. SqliteInv /\ [Next]_vars => SqliteInv'
    <3>1. [Next]_vars => [SP!Next]_(SP!vars)
      BY DEF Next, vars, poolVars, sqliteVars, SP!vars
    <3>2. QED BY <1>1, <3>1, SqliteStep
  <2>4. LruInv /\ [Next]_vars => LruInv'
    <3>1. [Next]_vars => [LC!Next]_(LC!vars)
      BY DEF Next, vars, tableVars, lruVars, LC!vars
    <3>2. QED BY <1>1, <3>1, LruStep
  <2>5. TimedTypes /\ [Next]_vars => TimedTypes'
    <3>1. [Next]_vars => [TC!Next]_(TC!vars)
      BY DEF Next, vars, tableVars, timedVars, TC!vars
    <3>2. QED BY <1>1, <3>1, TimedTypesStep
  <2>6. RegistryAllTypes /\ [Next]_vars => RegistryAllTypes'
    <3>1. [Next]_vars => [NS!Next]_(NS!vars)
      BY DEF Next, vars, tableVars, registryVars, NS!vars, NS!serverVars, NS!queryVars
    <3>2. QED BY <1>1, <3>1, RegistryTypesStep
  <2>7. QED BY <2>1, <2>2, <2>3, <2>4, <2>5, <2>6 DEF DataInv
<1>4. QED BY <1>2, <1>3, PTL DEF Spec

LEMMA LruTyped == LruInv => LC!TypeOK
<1> SUFFICES ASSUME LruInv PROVE LC!TypeOK
  OBVIOUS
<1>1. LC!Entries = Entry
  BY DEF LC!Entries, Entry
<1>2. ASSUME NEW b \in LC!Buckets
      PROVE  /\ LC!IsInjective(LC!KeysOf(keys[b]))
             /\ cache[b] = LC!Range(LC!KeysOf(keys[b]))
  <2>1. Listed(keys[b], cache[b], used[b])
    BY DEF LruInv
  <2>2. PICK li, c, u : li = keys[b] /\ c = cache[b] /\ u = used[b]
    OBVIOUS
  <2>3. /\ li \in Seq(Entry) /\ u \in Seq(LruKeys) /\ Len(li) <= Len(u)
        /\ \A i \in 1..Len(li) : li[i].key = u[i]
        /\ \A i, j \in 1..Len(u) : u[i] = u[j] => i = j
        /\ \A k : k \in c <=> \E i \in 1..Len(li) : u[i] = k
    BY <2>1, <2>2 DEF Listed
  <2>4. Len(li) \in Nat /\ Len(u) \in Nat /\ DOMAIN li = 1..Len(li)
    BY <2>3
  <2>5. 1..Len(li) \subseteq 1..Len(u)
    BY <2>3, <2>4
  <2>6. PICK f : f = LC!KeysOf(li)
    OBVIOUS
  <2>7. DOMAIN f = 1..Len(li) /\ \A i \in 1..Len(li) : f[i] = u[i]
    BY <2>3, <2>4, <2>6 DEF LC!KeysOf
  <2>8. \A i, j \in DOMAIN f : f[i] = f[j] => i = j
    BY <2>3, <2>5, <2>7
  <2>9. LC!IsInjective(f)
    BY <2>8 DEF LC!IsInjective
  <2>10. c = LC!Range(f)
    <3>1. \A k : k \in c <=> \E i \in DOMAIN f : f[i] = k
      BY <2>3, <2>7
    <3>2. \A k : k \in c <=> k \in LC!Range(f)
      BY <3>1 DEF LC!Range
    <3>3. QED BY <3>2
  <2>11. QED BY <2>2, <2>6, <2>9, <2>10
<1>3. QED BY <1>1, <1>2 DEF LruInv, LC!TypeOK

\* The types of whatever part runs, and of the others (all modules).
THEOREM DataTypeOK == Spec => []TypeOK
<1>1. Spec => []T!TypeOK
  <2>1. TP!TimerAssumption
    BY DataAssumption DEF T!TimerAssumption, TP!TimerAssumption
  <2>2. TP!Spec => []TP!TypeOK
    BY <2>1, TP!TimerTypeOK
  <2>3. TP!TypeOK => T!TypeOK
    BY DEF TP!TypeOK, T!TypeOK, TP!Stages, T!Stages, TP!Pcs, T!Pcs, TP!Never, T!Never
  <2>4. QED BY <2>2, <2>3, DataIsTimer, PTL
<1>2. Spec => []HP!TypeOK
  <2>1. HPP!HttpAssumption
    BY DataAssumption DEF HP!HttpAssumption, HPP!HttpAssumption, HP!None, HPP!None
  <2>2. HPP!Spec => []HPP!HttpInv
    BY <2>1, HPP!HttpInvariant
  <2>3. HPP!HttpInv => HP!TypeOK
    <3>1. HPP!Parts = HP!Parts
      BY DEF HPP!Parts, HP!Parts, HPP!Kinds, HP!Kinds, HPP!Range, HP!Range
    <3>2. QED BY <3>1 DEF HPP!HttpInv, HPP!TypeOK, HP!TypeOK, HPP!None, HP!None
  <2>4. QED BY <2>2, <2>3, DataIsHttp, PTL
<1>3. Spec => []VI!TypeOK
  <2>1. VI!VarintAssumption
    BY DataAssumption
  <2>2. VI!Spec => [](VI!RoundTrips /\ VI!TypeOK)
    BY <2>1, VarintRoundTrips
  <2>3. QED BY <2>2, DataIsVarint, PTL
<1>4. DataInv => /\ BA!TypeOK /\ WS!TypeOK /\ SP!TypeOK
                 /\ LC!TypeOK /\ NS!TypeOK
  BY LruTyped DEF DataInv, BytesInv, SocketOK, SqliteInv, RegistryAllTypes
<1>5. DataInv => TC!TypeOK
  BY DEF DataInv, TimedTypes, TimedInv, TC!TypeOK
<1>6. Spec => [](T!TypeOK /\ HP!TypeOK /\ VI!TypeOK /\ DataInv)
  BY <1>1, <1>2, <1>3, DataInvariant, PTL
<1>7. T!TypeOK /\ HP!TypeOK /\ VI!TypeOK /\ DataInv => TypeOK
  BY <1>4, <1>5 DEF TypeOK
<1>8. QED BY <1>6, <1>7, PTL
=============================================================================
