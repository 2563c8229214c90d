------------------------------ MODULE PeerTable ------------------------------
(***************************************************************************)
(* The peer table of one node: internal/node/node.go from a discovered or  *)
(* accepted connection to the cleanup after it, over the SyncMap of        *)
(* pkg/storage/syncmap.go.                                                 *)
(*                                                                         *)
(* Every connection is handled by a goroutine of its own, and every        *)
(* Broadcast runs in one; none of them holds a lock.  A SyncMap operation  *)
(* is atomic on the map, but the counter that Len returns is updated in a  *)
(* second step, and addPeer, cleanup and ConnectTo read the map in one     *)
(* step and act on what they read in a later one.                          *)
(***************************************************************************)
EXTENDS Integers, FiniteSets

CONSTANTS Peers,      \* remote nodes (the keys of the table)
          Conns,      \* connections, each with its goroutine
          PeerOf,     \* who is at the other end
          Accepted,   \* connections that come in through Listener.Accept
          Manual,     \* connections dialled by ConnectTo from main
          Casts,      \* Broadcast goroutines
          NoConn,
          MaxPeers

ASSUME PeerOfAssumption   == PeerOf \in [Conns -> Peers]
ASSUME KindAssumption     == Accepted \subseteq Conns /\ Manual \subseteq Conns \ Accepted
ASSUME FiniteAssumption   ==
    /\ IsFiniteSet(Peers) /\ IsFiniteSet(Conns) /\ IsFiniteSet(Casts)
    /\ Peers # {}
ASSUME DisjointAssumption == Conns \cap Casts = {} /\ NoConn \notin Conns

VARIABLES table,   \* SyncMap.m: the connection registered for each peer
          count,   \* SyncMap.count
          pc,      \* where each goroutine is
          key,     \* the key each goroutine's SyncMap.Delete was called with
          old,     \* the peer addPeer found in the table
          open     \* the connections that are established

vars == <<table, count, pc, key, old, open>>

Threads    == Conns \cup Casts
Registered == {p \in Peers : table[p] # NoConn}

ConnPCs == {"start", "limit", "dial", "handshake", "get", "closeOld", "store", "count",
            "receive", "cleanup", "delete", "uncount", "close", "done"}
CastPCs == {"write", "delete", "uncount"}

Init ==
    /\ table = [p \in Peers |-> NoConn]
    /\ count = 0
    /\ pc    = [t \in Threads |-> IF t \in Conns THEN "start" ELSE "write"]
    /\ key   = [t \in Threads |-> IF t \in Conns THEN PeerOf[t] ELSE CHOOSE p \in Peers : TRUE]
    /\ old   = [c \in Conns |-> NoConn]
    /\ open  = {}

Goto(t, label) == pc' = [pc EXCEPT ![t] = label]

-----------------------------------------------------------------------------
\* PeerDiscovered: a peer that is in the table is left alone.
PeerDiscovered(c) ==
    /\ pc[c] = "start" /\ c \notin Accepted \cup Manual
    /\ Goto(c, IF PeerOf[c] \in Registered THEN "done" ELSE "limit")
    /\ UNCHANGED <<table, count, key, old, open>>

\* main calls ConnectTo for the address on the command line.
ConnectManually(c) ==
    /\ pc[c] = "start" /\ c \in Manual
    /\ Goto(c, "limit")
    /\ UNCHANGED <<table, count, key, old, open>>

\* ConnectTo, up to Dial: the limit is compared with SyncMap.Len.
ConnectTo(c) ==
    /\ pc[c] = "limit"
    /\ Goto(c, IF count >= MaxPeers THEN "done" ELSE "dial")
    /\ UNCHANGED <<table, count, key, old, open>>

\* Transport.Dial succeeds or fails.
Dial(c) ==
    /\ pc[c] = "dial"
    /\ \/ Goto(c, "handshake") /\ open' = open \cup {c}
       \/ Goto(c, "done") /\ UNCHANGED open
    /\ UNCHANGED <<table, count, key, old>>

\* Start accepts a connection; the limit is not consulted.
Accept(c) ==
    /\ pc[c] = "start" /\ c \in Accepted
    /\ Goto(c, "handshake")
    /\ open' = open \cup {c}
    /\ UNCHANGED <<table, count, key, old>>

\* handshake.exchange: greetings are exchanged, or it fails (a stream error or
\* a major version difference) and the goroutine returns without closing.
Exchange(c) ==
    /\ pc[c] = "handshake"
    /\ \/ c \in open /\ Goto(c, "get")
       \/ Goto(c, "done")
    /\ UNCHANGED <<table, count, key, old, open>>

\* Mutant: the result of Get is used whether or not it found a peer.
AddPeerGetUnchecked(c) ==
    /\ pc[c] = "get"
    /\ old' = [old EXCEPT ![c] = table[PeerOf[c]]]
    /\ Goto(c, "closeOld")
    /\ UNCHANGED <<table, count, key, open>>

\* addPeer looks for an older connection of the same peer ...
AddPeerGet(c) ==
    /\ pc[c] = "get"
    /\ old' = [old EXCEPT ![c] = table[PeerOf[c]]]
    /\ Goto(c, IF PeerOf[c] \in Registered THEN "closeOld" ELSE "store")
    /\ UNCHANGED <<table, count, key, open>>

\* ... and closes it.
CloseOld(c) ==
    /\ pc[c] = "closeOld"
    /\ open' = open \ {old[c]}
    /\ Goto(c, "store")
    /\ UNCHANGED <<table, count, key, old>>

\* Mutant: Store for LoadOrStore, counted as an addition every time.
AddStore(c) ==
    /\ pc[c] = "store"
    /\ table' = [table EXCEPT ![PeerOf[c]] = c]
    /\ Goto(c, "count")
    /\ UNCHANGED <<count, key, old, open>>

\* SyncMap.Add: LoadOrStore leaves an existing entry as it is ...
Add(c) ==
    /\ pc[c] = "store"
    /\ IF PeerOf[c] \in Registered
       THEN Goto(c, "receive") /\ UNCHANGED table
       ELSE Goto(c, "count") /\ table' = [table EXCEPT ![PeerOf[c]] = c]
    /\ UNCHANGED <<count, key, old, open>>

\* ... and a new one is counted.
CountAdded(c) ==
    /\ pc[c] = "count"
    /\ count' = count + 1
    /\ Goto(c, "receive")
    /\ UNCHANGED <<table, key, old, open>>

\* The connection breaks, or the other side closes it.
Disconnect(c) ==
    /\ c \in open
    /\ open' = open \ {c}
    /\ UNCHANGED <<table, count, pc, key, old>>

\* Mutant: Receive keeps accepting streams on a connection that is gone.
ReceiveOn(c) == FALSE /\ UNCHANGED vars

\* Peer.Receive returns once the connection is gone.
ReceiveReturns(c) ==
    /\ pc[c] = "receive" /\ c \notin open
    /\ Goto(c, "cleanup")
    /\ UNCHANGED <<table, count, key, old, open>>

\* Mutant: a goroutine whose entry is still there leaves it behind.
CleanupNothing(c) ==
    /\ pc[c] = "cleanup"
    /\ Goto(c, "close")
    /\ UNCHANGED <<table, count, key, old, open>>

\* cleanup: the goroutine deletes the entry if the entry is its own.
Cleanup(c) ==
    /\ pc[c] = "cleanup"
    /\ Goto(c, IF table[PeerOf[c]] = c THEN "delete" ELSE "close")
    /\ UNCHANGED <<table, count, key, old, open>>

\* cleanup ends by closing the connection.
CloseConn(c) ==
    /\ pc[c] = "close"
    /\ open' = open \ {c}
    /\ Goto(c, "done")
    /\ UNCHANGED <<table, count, key, old>>

\* Broadcast cannot write to a registered peer and calls Delete.
BroadcastFails(b, p) ==
    /\ pc[b] = "write" /\ p \in Registered
    /\ key' = [key EXCEPT ![b] = p]
    /\ Goto(b, "delete")
    /\ UNCHANGED <<table, count, old, open>>

\* Where a goroutine continues after SyncMap.Delete.
AfterDelete(t) == IF t \in Conns THEN "close" ELSE "write"

\* Mutant: the counter is decremented whether or not an entry was removed.
DeleteUnchecked(t) ==
    /\ pc[t] = "delete"
    /\ table' = [table EXCEPT ![key[t]] = NoConn]
    /\ Goto(t, "uncount")
    /\ UNCHANGED <<count, key, old, open>>

\* SyncMap.Delete: LoadAndDelete removes the entry of the key, whoever's it
\* is by now ...
Delete(t) ==
    /\ pc[t] = "delete"
    /\ table' = [table EXCEPT ![key[t]] = NoConn]
    /\ Goto(t, IF key[t] \in Registered THEN "uncount" ELSE AfterDelete(t))
    /\ UNCHANGED <<count, key, old, open>>

\* ... and an entry that was removed is discounted.
CountDeleted(t) ==
    /\ pc[t] = "uncount"
    /\ count' = count - 1
    /\ Goto(t, AfterDelete(t))
    /\ UNCHANGED <<table, key, old, open>>

\* Node.Close: every registered connection is closed.
Close ==
    /\ open' = open \ {table[p] : p \in Registered}
    /\ UNCHANGED <<table, count, pc, key, old>>

-----------------------------------------------------------------------------
\* The steps of connection c's goroutine that wait for nothing but the
\* scheduler.
Step(c) ==
    \/ AddPeerGet(c) \/ CloseOld(c) \/ Add(c) \/ CountAdded(c)
    \/ ReceiveReturns(c) \/ Cleanup(c) \/ CloseConn(c) \/ Delete(c) \/ CountDeleted(c)

Next ==
    \/ \E c \in Conns :
          \/ PeerDiscovered(c) \/ ConnectManually(c) \/ ConnectTo(c) \/ Dial(c)
          \/ Accept(c) \/ Exchange(c) \/ Disconnect(c) \/ Step(c)
    \/ \E b \in Casts :
          (\E p \in Peers : BroadcastFails(b, p)) \/ Delete(b) \/ CountDeleted(b)
    \/ Close

Spec == Init /\ [][Next]_vars /\ \A c \in Conns : WF_vars(Step(c))

-----------------------------------------------------------------------------
\* Types; in particular, addPeer never closes a peer that Get did not return.
TypeOK ==
    /\ table \in [Peers -> Conns \cup {NoConn}]
    /\ count \in Int
    /\ pc \in [Threads -> ConnPCs \cup CastPCs]
    /\ \A b \in Casts : pc[b] \in CastPCs
    /\ key \in [Threads -> Peers]
    /\ old \in [Conns -> Conns \cup {NoConn}]
    /\ open \subseteq Conns
    /\ \A c \in Conns : pc[c] = "closeOld" => old[c] # NoConn

Adding   == {t \in Threads : pc[t] = "count"}
Removing == {t \in Threads : pc[t] = "uncount"}

\* SyncMap.Len is the number of registered peers but for the additions and
\* removals that goroutines have not counted yet: no interleaving of Adds and
\* Deletes makes it drift.
CountMatches == count + Cardinality(Adding) = Cardinality(Registered) + Cardinality(Removing)

\* An entry always belongs to a connection to that peer whose goroutine has
\* yet to run its cleanup: no entry outlives the goroutine that would delete it.
EntryHasOwner ==
    \A p \in Registered : /\ PeerOf[table[p]] = p
                          /\ pc[table[p]] \in {"count", "receive", "cleanup", "delete"}

\* The entry of a connection that is gone leaves the table, even if nothing is
\* ever broadcast.
GoneLeaves ==
    \A c \in Conns : (table[PeerOf[c]] = c /\ c \notin open) ~> table[PeerOf[c]] # c

\* "try to reconnecting, closing stale connection": once every goroutine is
\* waiting or done, a peer with a live connection is in the table.
LivePeerRegistered ==
    (\A t \in Threads : \/ pc[t] \in {"start", "write", "done"}
                        \/ pc[t] = "receive" /\ t \in open) =>
        \A c \in Conns : pc[c] = "receive" => PeerOf[c] \in Registered
=============================================================================
