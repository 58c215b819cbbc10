------------------------------- MODULE MCData -------------------------------
(* Small instances of components that have no state in common: what the    *)
(* streams are built on, pools and caches, the registry of the name server,*)
(* and timers while the wall clock is set back.  The variable part says    *)
(* which of them a behaviour is about; the others stay as they are.        *)
EXTENDS Integers, Sequences

CONSTANTS
  \* Timer
  Timers, Recurring, Threads, Periods, StartTime, MaxTime, Hour, MaxTimeout, IntLimit,
  MaxTickles, StepBack,
  \* ByteArray
  BaseSize, MaxNodes, Byte, Junk,
  \* Varint
  Group, Half,
  \* HttpPool and SqlitePool
  Users, Conns, MaxRequest, MaxCalls, MaxConn, MaxTrans,
  \* WebSocket
  Sizes, MaxFrames, MaxPings, MaxMessage,
  \* LruCache
  LruKeys, LruVals, Bucket, MaxSizes, Elasticities,
  \* TimedCache
  Keys, Vals, Lives, MaxNow, MaxSize, Elasticity,
  \* NameServer
  Streams, Nodes, Domains, NsKeys, Weights, Queries, MaxRegs, MaxEdits, Notifies

VARIABLES
  part,
  \* Timer
  now, stage, live, ms, next, timers, tickled, previousTime, tickling, pipe, pc, wakeAt,
  nowMs, gotTickle, fired, cancelled,
  \* ByteArray
  mem, nodes, cur, position, size, crashed,
  \* Varint
  kind, value, bytes, back, taken,
  \* HttpPool
  pool, made, open, count, torn, peer, owed, wire, calls, upc, conn, call, head, buf,
  \* WebSocket
  client, frames, spc, controls, mixed, wsWire, up, broken, rpc, wsHead, length, opcode,
  data, wsSize, got,
  \* LruCache
  hashed, keys, cache, maxSize, elasticity, used,
  \* TimedCache
  tcNow, timed, tcCache, iter, limit,
  \* SqlitePool
  conns, opened, trans, using, mine, autoCommit, status, failed,
  \* NameServer
  linked, refused, sessions, domains, nregs, owners, queryDomains, nedits, view, qpc, asked,
  nsGot, notes

T == INSTANCE Timer

BA == INSTANCE ByteArray

VI == INSTANCE Varint

HP == INSTANCE HttpPool

WS == INSTANCE WebSocket
        WITH MaxSize <- MaxMessage, wire <- wsWire, head <- wsHead, size <- wsSize

LC == INSTANCE LruCache WITH Keys <- LruKeys, Vals <- LruVals

TC == INSTANCE TimedCache WITH now <- tcNow, cache <- tcCache

SP == INSTANCE SqlitePool

NS == INSTANCE NameServer WITH Keys <- NsKeys, got <- nsGot

\* A value for the configuration: both domains have command 1.
OneCmd == {<<1, 1>>, <<2, 1>>}

ASSUME DataAssumption ==
  /\ T!TimerAssumption /\ BA!ByteArrayAssumption /\ VI!VarintAssumption
  /\ WS!WebSocketAssumption /\ LC!LruAssumption /\ TC!TimedAssumption
  /\ HP!HttpAssumption /\ SP!SqliteAssumption /\ NS!NameServerAssumption

clockVars == <<now, stage, live, ms, next, timers, tickled, previousTime, tickling, pipe,
               pc, wakeAt, nowMs, gotTickle, fired, cancelled>>
byteVars == <<mem, nodes, cur, position, size, crashed>>
varintVars == <<kind, value, bytes, back, taken>>
httpVars == <<pool, made, open, count, torn, peer, owed, wire, calls, upc, conn, call, head,
              buf>>
socketVars == <<client, frames, spc, controls, mixed, wsWire, up, broken, rpc, wsHead,
                length, opcode, data, wsSize, got>>
lruVars == <<hashed, keys, cache, maxSize, elasticity, used>>
timedVars == <<tcNow, timed, tcCache, iter, limit>>
sqliteVars == <<conns, opened, trans, using, mine, autoCommit, status, failed>>
registryVars == <<linked, refused, sessions, domains, nregs, owners, queryDomains, nedits,
                  view, qpc, asked, nsGot, notes>>
streamVars == <<clockVars, byteVars, varintVars>>
poolVars == <<httpVars, socketVars, sqliteVars>>
tableVars == <<lruVars, timedVars, registryVars>>
vars == <<part, streamVars, poolVars, tableVars>>

Init ==
  /\ part \in {"clock", "bytes", "varint", "http", "socket", "sqlite", "lru", "timed", "registry"}
  /\ T!Init /\ BA!Init /\ VI!Init /\ HP!Init /\ WS!Init /\ SP!Init /\ LC!Init /\ TC!Init
  /\ NS!Init
  /\ part # "varint" => kind = "int32" /\ value = 0
  /\ part # "socket" => client
  /\ part # "lru" => ~hashed /\ maxSize = 0 /\ elasticity = 0

Next ==
  \/ /\ UNCHANGED <<part, poolVars, tableVars>>
     /\ \/ part = "clock" /\ T!Next /\ UNCHANGED <<byteVars, varintVars>>
        \/ part = "bytes" /\ BA!Next /\ UNCHANGED <<clockVars, varintVars>>
        \/ part = "varint" /\ VI!Next /\ UNCHANGED <<clockVars, byteVars>>
  \/ /\ UNCHANGED <<part, streamVars, tableVars>>
     /\ \/ part = "http" /\ HP!Next /\ UNCHANGED <<socketVars, sqliteVars>>
        \/ part = "socket" /\ WS!Next /\ UNCHANGED <<httpVars, sqliteVars>>
        \/ part = "sqlite" /\ SP!Next /\ UNCHANGED <<httpVars, socketVars>>
  \/ /\ UNCHANGED <<part, streamVars, poolVars>>
     /\ \/ part = "lru" /\ LC!Next /\ UNCHANGED <<timedVars, registryVars>>
        \/ part = "timed" /\ TC!Next /\ UNCHANGED <<lruVars, registryVars>>
        \/ part = "registry" /\ NS!Next /\ UNCHANGED <<lruVars, timedVars>>

Spec == Init /\ [][Next]_vars

\* The types of the part that runs (all modules); the others keep their
\* initial values.
TypeOK ==
  /\ part = "clock" => T!TypeOK
  /\ part = "bytes" => BA!TypeOK
  /\ part = "varint" => VI!TypeOK
  /\ part = "http" => HP!TypeOK
  /\ part = "socket" => WS!TypeOK
  /\ part = "sqlite" => SP!TypeOK
  /\ part = "lru" => LC!TypeOK
  /\ part = "timed" => TC!TypeOK
  /\ part = "registry" => NS!TypeOK

\* The properties of each part, as its module states them (Timer.cpp,
\* ByteArray.cpp, http/HttpConnection.cpp, http/WSSession.cpp, db/Sqlite.cpp,
\* ds/LRUCache.h, ds/TimedCache.h, ns/NameServerModule.cpp).
SetBackDelayBounded == [][part = "clock" => T!CollectsBounded]_vars
ImplementsBytes == [][part = "bytes" => BA!StepIsBytes]_vars
RoundTrips == part = "varint" => VI!RoundTrips
ResponseIsOwn == part = "http" => HP!ResponseIsOwn
MessagesIntact == part = "socket" => WS!MessagesIntact
TransactionIsOwn == part = "sqlite" => SP!TransactionIsOwn
EvictsOldest == [][part = "lru" => LC!StepEvictsOldest]_vars
NoDangling == part = "timed" => TC!NoDangling
RegistryExact == part = "registry" => NS!RegistryExact
=============================================================================
