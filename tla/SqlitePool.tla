----------------------------- MODULE SqlitePool -----------------------------
(***************************************************************************)
(* SQLite3Manager and SQLite3Transcation (db/Sqlite.cpp) for one name: a   *)
(* pool of connections, and transactions, each of which holds a connection *)
(* until it is destroyed.                                                  *)
(*                                                                         *)
(* A connection is in no transaction, or in one begun by some object; that *)
(* COMMIT and ROLLBACK may fail and leave it open is SQLite's, as is that  *)
(* BEGIN fails in a transaction.  The time of last use is set when a       *)
(* connection is made and never again, so the check may drop any of them.  *)
(***************************************************************************)
EXTENDS Integers, Sequences, SequencesExt, FiniteSets

CONSTANTS
  Users,      (* threads that use the manager                              *)
  Conns,      (* bound: connections there are at a time                    *)
  MaxConn,    (* _maxConn                                                  *)
  MaxTrans    (* bound: transactions                                       *)

None == "none"
SqliteAssumption == MaxConn \in Nat /\ MaxTrans \in Nat /\ None \notin Conns

VARIABLES
  conns,      (* _conns of the name                                        *)
  opened,     (* opened[c]: the transaction open in c, or NoTrans          *)
  trans,      (* transactions made                                         *)
  using,      (* using[u]: the connection of u, or None                    *)
  mine,       (* mine[u]: its transaction, or NoTrans in a plain execute() *)
  autoCommit, (* _autoCommit of it                                         *)
  status,     (* _status of it: 0 new, 1 begun, 2 committed, 3 rolled back *)
  failed      (* transactions whose destructor could not end them          *)

vars == <<conns, opened, trans, using, mine, autoCommit, status, failed>>

NoTrans == 0
Used == {using[u] : u \in Users} \ {None}

TypeOK ==
  /\ conns \in Seq(Conns) /\ Len(conns) <= MaxConn
  /\ opened \in [Conns -> NoTrans..MaxTrans] /\ trans \in 0..MaxTrans
  /\ using \in [Users -> Conns \cup {None}]
  /\ mine \in [Users -> NoTrans..MaxTrans]
  /\ autoCommit \in [Users -> BOOLEAN] /\ status \in [Users -> 0..3]
  /\ failed \subseteq 1..MaxTrans

Init ==
  /\ conns = << >> /\ opened = [c \in Conns |-> NoTrans] /\ trans = 0
  /\ using = [u \in Users |-> None] /\ mine = [u \in Users |-> NoTrans]
  /\ autoCommit = [u \in Users |-> FALSE] /\ status = [u \in Users |-> 0]
  /\ failed = {}

\* get(): the first of the pool, or a new connection
Get(u) ==
  /\ using[u] = None
  /\ IF conns # << >> THEN using' = [using EXCEPT ![u] = Head(conns)] /\ conns' = Tail(conns)
     ELSE /\ \E c \in Conns \ Used : using' = [using EXCEPT ![u] = c]
          /\ conns' = conns

\* Faulty variant: the number of connections is not looked at.
FreeKeepsAll(u, open) ==
  LET c == using[u] IN
  /\ conns' = Append(conns, c)
  /\ opened' = [opened EXCEPT ![c] = open]
  /\ using' = [using EXCEPT ![u] = None] /\ mine' = [mine EXCEPT ![u] = NoTrans]
  /\ status' = [status EXCEPT ![u] = 0]
  /\ autoCommit' = [autoCommit EXCEPT ![u] = FALSE]

\* freeSQLite3(), as deleter of u's pointer; sqlite3_close ends what is open
Free(u, open) ==
  LET c == using[u]
      kept == Len(conns) < MaxConn
  IN /\ conns' = IF kept THEN Append(conns, c) ELSE conns
     /\ opened' = [opened EXCEPT ![c] = IF kept THEN open ELSE NoTrans]
     /\ using' = [using EXCEPT ![u] = None] /\ mine' = [mine EXCEPT ![u] = NoTrans]
     /\ status' = [status EXCEPT ![u] = 0]
     /\ autoCommit' = [autoCommit EXCEPT ![u] = FALSE]

\* execute() and query() of the manager: get, one statement, free
Execute(u) == Get(u) /\ UNCHANGED <<opened, trans, mine, autoCommit, status, failed>>
ExecuteEnds(u) ==
  /\ using[u] # None /\ mine[u] = NoTrans
  /\ Free(u, opened[using[u]])
  /\ UNCHANGED <<trans, failed>>

\* openTransaction() of the manager, which does not begin it
OpenTransaction(u) ==
  /\ trans < MaxTrans
  /\ Get(u)
  /\ trans' = trans + 1
  /\ mine' = [mine EXCEPT ![u] = trans']
  /\ \E auto \in BOOLEAN : autoCommit' = [autoCommit EXCEPT ![u] = auto]
  /\ UNCHANGED <<opened, status, failed>>

Begin(u) ==
  /\ mine[u] # NoTrans /\ status[u] = 0
  /\ opened[using[u]] = NoTrans
  /\ opened' = [opened EXCEPT ![using[u]] = mine[u]]
  /\ status' = [status EXCEPT ![u] = 1]
  /\ UNCHANGED <<conns, trans, using, mine, autoCommit, failed>>

\* commit() and rollback(); one that fails changes nothing
Ends(u, s) ==
  /\ status[u] = 1
  /\ opened' = [opened EXCEPT ![using[u]] = NoTrans]
  /\ status' = [status EXCEPT ![u] = s]
  /\ UNCHANGED <<conns, trans, using, mine, autoCommit, failed>>

Commit(u) == Ends(u, 2)
Rollback(u) == Ends(u, 3)

\* Faulty variant: the destructor ends a transaction only if it is to commit.
DestroyForgets(u) ==
  /\ mine[u] # NoTrans
  /\ \/ status[u] = 1 /\ autoCommit[u] /\ Free(u, NoTrans) /\ failed' = failed
     \/ status[u] = 1 /\ autoCommit[u] /\ Free(u, mine[u]) /\ failed' = failed \cup {mine[u]}
     \/ ~(status[u] = 1 /\ autoCommit[u]) /\ Free(u, opened[using[u]]) /\ failed' = failed
  /\ UNCHANGED trans

\* ~SQLite3Transcation: COMMIT or ROLLBACK, which may fail, then the connection
\* goes back
Destroy(u) ==
  /\ mine[u] # NoTrans
  /\ \/ status[u] = 1 /\ Free(u, NoTrans) /\ failed' = failed
     \/ status[u] = 1 /\ Free(u, mine[u]) /\ failed' = failed \cup {mine[u]}
     \/ status[u] # 1 /\ Free(u, opened[using[u]]) /\ failed' = failed
  /\ UNCHANGED trans

\* checkConnection(sec): n of the connections stay, in their order
CheckConnection ==
  \E n \in 0..(Len(conns) - 1) : \E kept \in [1..n -> DOMAIN conns] :
    /\ \A i, j \in 1..n : i < j => kept[i] < kept[j]
    /\ conns' = [i \in 1..n |-> conns[kept[i]]]
    /\ LET old == Range(conns) \ Range(conns')
       IN opened' = [c \in Conns |-> IF c \in old THEN NoTrans ELSE opened[c]]
    /\ UNCHANGED <<trans, using, mine, autoCommit, status, failed>>

Next ==
  \/ \E u \in Users : \/ Execute(u) \/ ExecuteEnds(u) \/ OpenTransaction(u) \/ Begin(u)
                      \/ Commit(u) \/ Rollback(u) \/ Destroy(u)
  \/ CheckConnection

Spec == Init /\ [][Next]_vars

(***************************************************************************)
(* Properties                                                              *)
(***************************************************************************)
\* Transactions and plain statements share the connections of the pool
\* (db/Sqlite.cpp 440-507, 521-567, 662-671): no connection has two users or
\* is idle and in use, a transaction that has begun is the one open in its
\* connection, and anyone else meets an open transaction only if the
\* destructor that should have ended it failed to.
TransactionIsOwn ==
  /\ IsInjective(conns) /\ Range(conns) \cap Used = {}
  /\ \A u, v \in Users : u # v /\ using[u] # None => using[u] # using[v]
  /\ \A u \in Users : status[u] = 1 => opened[using[u]] = mine[u]
  /\ \A c \in Conns : opened[c] \in {NoTrans} \cup failed
                        \/ \E u \in Users : using[u] = c /\ mine[u] = opened[c] /\ status[u] = 1
=============================================================================
