-------------------------------- MODULE Dns --------------------------------
(***************************************************************************)
(* One Dns of type ADDRESS and its items (Dns.cpp).  set() and the timer   *)
(* of DnsManager refresh it, each from a fiber of its own, and may overlap:*)
(* a refresh takes a copy of the addresses and one of the items, checks    *)
(* every address, which takes a while, and puts its items in place of      *)
(* those there.  getSock takes sockets from the pool of an item and gives  *)
(* them back.                                                              *)
(*                                                                         *)
(* A pool of an item has one size for the whole Dns; _poolsize is only     *)
(* compared with 0.  The health check of check_path counts as part of what *)
(* makes a server up.                                                      *)
(***************************************************************************)
EXTENDS Naturals, Sequences, SequencesExt

CONSTANTS
  Addrs,
  Refreshers, (* fibers that refresh                                       *)
  Timer,      (* the one of them that the timer starts                     *)
  Items,      (* bound: items of an address there are at a time            *)
  MaxSets,    (* bound: calls of set()                                     *)
  MaxTurns    (* bound: servers going up or down                           *)

VARIABLES
  pool,       (* _poolsize > 0                                             *)
  up,         (* up[a]: a connection to a succeeds                         *)
  turns, sets,
  addrs,      (* _addrs                                                    *)
  address,    (* _address: address[a] is the item of a, or None            *)
  valid,      (* valid[a][i]: valid of item i of a                         *)
  socks,      (* socks[a][i]: its pool; a socket is TRUE while its peer is *)
              (*              there                                        *)
  hand,       (* sockets of users: the address and the item they are of    *)
  pc,         (* pc[r]: where refresh r is                                 *)
  result,     (* result[r]: addresses still to check                       *)
  answer,     (* answer[r]: what the connect() of r has come to            *)
  old,        (* old[r]: the items there were                              *)
  new         (* new[r]: the items there will be                           *)

itemVars == <<valid, socks>>
refreshVars == <<pc, result, answer, old, new>>
vars == <<pool, up, turns, sets, addrs, address, itemVars, hand, refreshVars>>

None == 0
Table == [Addrs -> Items \cup {None}]
NoItems == [a \in Addrs |-> None]

DnsAssumption == Timer \in Refreshers /\ None \notin Items

TypeOK ==
  /\ pool \in BOOLEAN
  /\ up \in [Addrs -> BOOLEAN] /\ turns \in 0..MaxTurns /\ sets \in 0..MaxSets
  /\ addrs \subseteq Addrs /\ address \in Table
  /\ valid \in [Addrs -> [Items -> BOOLEAN]]
  /\ socks \in [Addrs -> [Items -> Seq(BOOLEAN)]]
  /\ hand \in {<< >>} \cup {<<a, i, b>> : a \in Addrs, i \in Items, b \in BOOLEAN}
  /\ pc \in [Refreshers -> {"idle", "copied", "check", "connect"}]
  /\ result \in [Refreshers -> SUBSET Addrs]
  /\ answer \in [Refreshers -> {"none", "refused", "made", "lost"}]
  /\ old \in [Refreshers -> Table] /\ new \in [Refreshers -> Table]

Init ==
  /\ pool \in BOOLEAN
  /\ up \in [Addrs -> BOOLEAN] /\ turns = 0 /\ sets = 0
  /\ addrs = {} /\ address = NoItems
  /\ valid = [a \in Addrs |-> [i \in Items |-> FALSE]]
  /\ socks = [a \in Addrs |-> [i \in Items |-> << >>]]
  /\ hand = << >>
  /\ pc = [r \in Refreshers |-> "idle"] /\ result = [r \in Refreshers |-> {}]
  /\ answer = [r \in Refreshers |-> "none"]
  /\ old = [r \in Refreshers |-> NoItems] /\ new = [r \in Refreshers |-> NoItems]

(***************************************************************************)
(* Refreshing                                                              *)
(***************************************************************************)
\* set(), and init() up to its copy of the addresses
Set(r) ==
  /\ r # Timer /\ pc[r] = "idle" /\ sets < MaxSets
  /\ sets' = sets + 1
  /\ addrs' \in SUBSET Addrs
  /\ pc' = [pc EXCEPT ![r] = "copied"] /\ result' = [result EXCEPT ![r] = addrs']
  /\ UNCHANGED <<pool, up, turns, address, itemVars, hand, answer, old, new>>

\* DnsManager::init(), one at a time, and refresh()
Refresh ==
  /\ pc[Timer] = "idle"
  /\ pc' = [pc EXCEPT ![Timer] = "copied"] /\ result' = [result EXCEPT ![Timer] = addrs]
  /\ UNCHANGED <<pool, up, turns, sets, addrs, address, itemVars, hand, answer, old, new>>

\* the copy of the items
InitAddress(r) ==
  /\ pc[r] = "copied"
  /\ pc' = [pc EXCEPT ![r] = "check"]
  /\ old' = [old EXCEPT ![r] = address]
  /\ UNCHANGED <<pool, up, turns, sets, addrs, address, itemVars, hand, result, answer,
                 new>>

\* items that something refers to; the others are deleted with their sockets
Held(a) == {address[a]} \cup {old[r][a] : r \in Refreshers} \cup {new[r][a] : r \in Refreshers}
             \cup (IF hand # << >> /\ hand[1] = a THEN {hand[2]} ELSE {})

\* Faulty variant: an item that is there already is not checked again.
CheckAddressNewOnly(r) ==
  /\ pc[r] = "check"
  /\ \E a \in result[r] :
       LET i == old[r][a] IN
       IF i # None
       THEN /\ new' = [new EXCEPT ![r][a] = i]
            /\ result' = [result EXCEPT ![r] = @ \ {a}]
            /\ UNCHANGED <<itemVars, pc>>
       ELSE /\ \E j \in Items \ Held(a) : new' = [new EXCEPT ![r][a] = j]
            /\ pc' = [pc EXCEPT ![r] = "connect"]
            /\ UNCHANGED <<itemVars, result>>
  /\ UNCHANGED <<pool, up, turns, sets, addrs, address, hand, answer, old>>

\* The item of the next address, old or new, and the first half of checkValid():
\* a pool with a socket counts as valid, as long as nobody closed the socket
\* on this side.
CheckAddress(r) ==
  /\ pc[r] = "check"
  /\ \E a \in result[r] :
       /\ IF old[r][a] # None THEN new' = [new EXCEPT ![r][a] = old[r][a]]
          ELSE \E j \in Items \ Held(a) : new' = [new EXCEPT ![r][a] = j]
       /\ IF socks[a][new'[r][a]] # << >>
          THEN pc' = pc /\ result' = [result EXCEPT ![r] = @ \ {a}]
          ELSE pc' = [pc EXCEPT ![r] = "connect"] /\ result' = result
  /\ UNCHANGED <<pool, up, turns, sets, addrs, address, itemVars, hand, answer, old>>

\* the address whose check is under way
Checked(r) == CHOOSE a \in result[r] : new[r][a] # None

\* connect() of checkValid() is decided while the fiber is on hold ...
Answered(r) ==
  /\ pc[r] = "connect" /\ answer[r] = "none"
  /\ answer' = [answer EXCEPT ![r] = IF up[Checked(r)] THEN "made" ELSE "refused"]
  /\ UNCHANGED <<pool, up, turns, sets, addrs, address, itemVars, hand, pc, result, old, new>>

\* ... and is written, with the socket into the pool, when the fiber runs again,
\* whatever another check of the item has written in between.
Connected(r) ==
  /\ pc[r] = "connect" /\ answer[r] # "none"
  /\ LET a  == Checked(r)
         i  == new[r][a]
         ok == answer[r] # "refused"
     IN /\ valid' = [valid EXCEPT ![a][i] = ok]
        /\ socks' = IF ok /\ pool THEN [socks EXCEPT ![a][i] = Append(@, answer[r] = "made")]
                    ELSE socks
        /\ result' = [result EXCEPT ![r] = @ \ {a}]
  /\ pc' = [pc EXCEPT ![r] = "check"] /\ answer' = [answer EXCEPT ![r] = "none"]
  /\ UNCHANGED <<pool, up, turns, sets, addrs, address, hand, old, new>>

Swap(r) ==
  /\ pc[r] = "check" /\ result[r] = {}
  /\ address' = new[r]
  /\ pc' = [pc EXCEPT ![r] = "idle"]
  /\ old' = [old EXCEPT ![r] = NoItems] /\ new' = [new EXCEPT ![r] = NoItems]
  /\ UNCHANGED <<pool, up, turns, sets, addrs, hand, result, answer>>
  /\ valid' = [a \in Addrs |-> [i \in Items |-> i \in Held(a)' /\ valid[a][i]]]
  /\ socks' = [a \in Addrs |-> [i \in Items |-> IF i \in Held(a)' THEN socks[a][i] ELSE << >>]]

(***************************************************************************)
(* Users and servers                                                       *)
(***************************************************************************)
\* getSock() of the item of a: sockets that have lost their peer are dropped
GetSock(a) ==
  /\ hand = << >> /\ address[a] # None /\ pool
  /\ LET i    == address[a]
         live == SelectSeq(socks[a][i], LAMBDA b : b)
     IN /\ socks[a][i] # << >>
        /\ hand' = IF live = << >> THEN << >> ELSE <<a, i, TRUE>>
        /\ socks' = [socks EXCEPT ![a][i] =
             IF live = << >> THEN << >>
             ELSE SubSeq(@, 1 + CHOOSE n \in DOMAIN @ : @[n] /\ \A m \in 1..n - 1 : ~@[m], Len(@))]
  /\ UNCHANGED <<pool, up, turns, sets, addrs, address, valid, refreshVars>>

\* push(), when the user lets go of the socket
ReleaseSock ==
  /\ hand # << >>
  /\ hand' = << >>
  /\ UNCHANGED <<pool, up, turns, sets, addrs, address, refreshVars>>
  /\ \E a \in {hand[1]}, i \in {hand[2]} :
       LET back == IF hand[3] THEN Append(socks[a][i], TRUE) ELSE socks[a][i]
       IN IF i \in Held(a)' THEN socks' = [socks EXCEPT ![a][i] = back] /\ valid' = valid
          ELSE socks' = [socks EXCEPT ![a][i] = << >>] /\ valid' = [valid EXCEPT ![a][i] = FALSE]

\* A server goes up or down; connections to it are lost, new ones too.
Turn(a) ==
  /\ turns < MaxTurns
  /\ turns' = turns + 1
  /\ up' = [up EXCEPT ![a] = ~@]
  /\ socks' = [socks EXCEPT ![a] = [i \in Items |-> [n \in DOMAIN @[i] |-> FALSE]]]
  /\ hand' = IF hand # << >> /\ hand[1] = a THEN [hand EXCEPT ![3] = FALSE] ELSE hand
  /\ answer' = [r \in Refreshers |->
       IF answer[r] = "made" /\ Checked(r) = a THEN "lost" ELSE answer[r]]
  /\ UNCHANGED <<pool, sets, addrs, address, valid, pc, result, old, new>>

Step(r) == InitAddress(r) \/ CheckAddress(r) \/ Answered(r) \/ Connected(r) \/ Swap(r)
Next ==
  \/ \E r \in Refreshers : Set(r) \/ Step(r)
  \/ Refresh
  \/ \E a \in Addrs : GetSock(a) \/ Turn(a)
  \/ ReleaseSock

Spec == Init /\ [][Next]_vars

\* The timer keeps coming, and a connection is made or refused in 50 ms.
FairSpec == Spec /\ WF_vars(Refresh) /\ \A r \in Refreshers : WF_vars(Step(r))

(***************************************************************************)
(* Properties                                                              *)
(***************************************************************************)
\* the item of a has a socket, in its pool or with a user
HasSocket(a) ==
  \/ socks[a][address[a]] # << >>
  \/ hand # << >> /\ hand[1] = a /\ hand[2] = address[a]

\* Overlapping refreshes put back addresses that set() has replaced and share
\* items they check at the same time, so that an old answer may be written over
\* a new one (Dns.cpp 142-167, 234-280, 343-375).  When all has come to rest
\* get() knows the addresses that were set last, and an item without a pool is
\* valid exactly when its server is up.  With a pool an item of a server that
\* is up is valid or has a socket: one that has is not checked again, so that a
\* late refusal may leave it invalid for ever.
ChecksConverge ==
  <>[] \A a \in Addrs :
         /\ address[a] # None <=> a \in addrs
         /\ a \in addrs /\ up[a] => valid[a][address[a]] \/ (pool /\ HasSocket(a))
         /\ a \in addrs /\ valid[a][address[a]] /\ ~pool => up[a]
=============================================================================
