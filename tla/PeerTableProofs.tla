--------------------------- MODULE PeerTableProofs ---------------------------
(***************************************************************************)
(* Proofs about PeerTable, for every finite number of peers, connections   *)
(* and concurrent broadcasts and every MaxPeers.                           *)
(***************************************************************************)
EXTENDS PeerTable, FiniteSetTheorems, TLAPS

\* A connection's goroutine calls Delete with its own peer's ID only.
KeyOK == \A c \in Conns : key[c] = PeerOf[c]

\* TypeOK and EntryHasOwner, made inductive: without KeyOK a cleanup could
\* remove the entry of another peer and leave its own behind.
IInv == TypeOK /\ KeyOK /\ EntryHasOwner

-----------------------------------------------------------------------------
\* The initial state satisfies the inductive invariant.
LEMMA InitInv == Init => IInv
<1> SUFFICES ASSUME Init PROVE IInv
  OBVIOUS
<1> USE PeerOfAssumption, FiniteAssumption, DisjointAssumption
<1>1. (CHOOSE p \in Peers : TRUE) \in Peers
  BY FiniteAssumption
<1>2. TypeOK
  BY <1>1 DEF Init, TypeOK, Threads, ConnPCs, CastPCs
<1>3. KeyOK
  BY DEF Init, KeyOK, Threads
<1>4. EntryHasOwner
  BY DEF Init, EntryHasOwner, Registered
<1>5. QED
  BY <1>2, <1>3, <1>4 DEF IInv

\* Every step of every goroutine keeps the types.
LEMMA NextTypeOK == TypeOK /\ KeyOK /\ [Next]_vars => TypeOK' /\ KeyOK'
<1> SUFFICES ASSUME TypeOK, KeyOK, [Next]_vars PROVE TypeOK' /\ KeyOK'
  OBVIOUS
<1> USE PeerOfAssumption, DisjointAssumption DEF TypeOK, KeyOK, Threads, ConnPCs, CastPCs, Goto
<1>1. ASSUME NEW c \in Conns,
             \/ PeerDiscovered(c) \/ ConnectManually(c) \/ ConnectTo(c) \/ Dial(c)
             \/ Accept(c) \/ Exchange(c) \/ Disconnect(c)
      PROVE TypeOK' /\ KeyOK'
  <2>1. CASE PeerDiscovered(c)
    BY <2>1 DEF PeerDiscovered
  <2>2. CASE ConnectManually(c)
    BY <2>2 DEF ConnectManually
  <2>3. CASE ConnectTo(c)
    BY <2>3 DEF ConnectTo
  <2>4. CASE Dial(c)
    BY <2>4 DEF Dial
  <2>5. CASE Accept(c)
    BY <2>5 DEF Accept
  <2>6. CASE Exchange(c)
    BY <2>6 DEF Exchange
  <2>7. CASE Disconnect(c)
    BY <2>7 DEF Disconnect
  <2>8. QED
    BY <1>1, <2>1, <2>2, <2>3, <2>4, <2>5, <2>6, <2>7
<1>2. ASSUME NEW c \in Conns, Step(c), ~Delete(c), ~CountDeleted(c)
      PROVE TypeOK' /\ KeyOK'
  <2>1. CASE AddPeerGet(c)
    BY <2>1 DEF AddPeerGet, Registered
  <2>2. CASE CloseOld(c)
    BY <2>2 DEF CloseOld
  <2>3. CASE Add(c)
    BY <2>3 DEF Add
  <2>4. CASE CountAdded(c)
    BY <2>4 DEF CountAdded
  <2>5. CASE ReceiveReturns(c)
    BY <2>5 DEF ReceiveReturns
  <2>6. CASE Cleanup(c)
    BY <2>6 DEF Cleanup
  <2>7. CASE CloseConn(c)
    BY <2>7 DEF CloseConn
  <2>8. QED
    BY <1>2, <2>1, <2>2, <2>3, <2>4, <2>5, <2>6, <2>7 DEF Step
<1>3. ASSUME NEW b \in Casts, NEW p \in Peers, BroadcastFails(b, p)
      PROVE TypeOK' /\ KeyOK'
  BY <1>3 DEF BroadcastFails
<1>4. ASSUME NEW t \in Threads, Delete(t) PROVE TypeOK' /\ KeyOK'
  BY <1>4 DEF Delete, AfterDelete
<1>5. ASSUME NEW t \in Threads, CountDeleted(t) PROVE TypeOK' /\ KeyOK'
  BY <1>5 DEF CountDeleted, AfterDelete
<1>6. CASE Close
  BY <1>6 DEF Close
<1>7. CASE UNCHANGED vars
  BY <1>7 DEF vars
<1>8. QED
  BY <1>1, <1>2, <1>3, <1>4, <1>5, <1>6, <1>7 DEF Next, Step

\* Every step keeps each entry in the hands of a goroutine that will clean up.
LEMMA NextOwner == IInv /\ [Next]_vars => EntryHasOwner'
<1> SUFFICES ASSUME IInv, [Next]_vars, NEW p \in Peers, table'[p] # NoConn
             PROVE  /\ PeerOf[table'[p]] = p
                    /\ pc'[table'[p]] \in {"count", "receive", "cleanup", "delete"}
  BY DEF EntryHasOwner, Registered
<1> USE PeerOfAssumption, DisjointAssumption
    DEF IInv, TypeOK, KeyOK, Threads, EntryHasOwner, Registered, Goto
<1>1. ASSUME NEW c \in Conns,
             \/ PeerDiscovered(c) \/ ConnectManually(c) \/ ConnectTo(c) \/ Dial(c)
             \/ Accept(c) \/ Exchange(c) \/ Disconnect(c)
      PROVE  /\ PeerOf[table'[p]] = p
             /\ pc'[table'[p]] \in {"count", "receive", "cleanup", "delete"}
  BY <1>1 DEF PeerDiscovered, ConnectManually, ConnectTo, Dial, Accept, Exchange, Disconnect
<1>2. ASSUME NEW c \in Conns, Step(c), ~Delete(c), ~CountDeleted(c)
      PROVE  /\ PeerOf[table'[p]] = p
             /\ pc'[table'[p]] \in {"count", "receive", "cleanup", "delete"}
  <2>1. CASE AddPeerGet(c) \/ CloseOld(c) \/ CountAdded(c) \/ ReceiveReturns(c)
    BY <2>1 DEF AddPeerGet, CloseOld, CountAdded, ReceiveReturns
  <2>2. CASE Add(c)
    BY <2>2 DEF Add
  <2>3. CASE Cleanup(c)
    BY <2>3 DEF Cleanup
  <2>4. CASE CloseConn(c)
    BY <2>4 DEF CloseConn
  <2>5. QED
    BY <1>2, <2>1, <2>2, <2>3, <2>4 DEF Step
<1>3. ASSUME NEW b \in Casts, NEW q \in Peers, BroadcastFails(b, q)
      PROVE  /\ PeerOf[table'[p]] = p
             /\ pc'[table'[p]] \in {"count", "receive", "cleanup", "delete"}
  BY <1>3 DEF BroadcastFails
<1>4. ASSUME NEW t \in Threads, Delete(t)
      PROVE  /\ PeerOf[table'[p]] = p
             /\ pc'[table'[p]] \in {"count", "receive", "cleanup", "delete"}
  BY <1>4 DEF Delete, AfterDelete
<1>5. ASSUME NEW t \in Threads, CountDeleted(t)
      PROVE  /\ PeerOf[table'[p]] = p
             /\ pc'[table'[p]] \in {"count", "receive", "cleanup", "delete"}
  BY <1>5 DEF CountDeleted, AfterDelete
<1>6. CASE Close
  BY <1>6 DEF Close
<1>7. CASE UNCHANGED vars
  BY <1>7 DEF vars
<1>8. QED
  BY <1>1, <1>2, <1>3, <1>4, <1>5, <1>6, <1>7 DEF Next, Step

-----------------------------------------------------------------------------
(* The counter. *)

\* The three sets the counter is compared with are finite.
LEMMA CountedSetsFinite ==
    /\ IsFiniteSet(Adding) /\ IsFiniteSet(Removing) /\ IsFiniteSet(Registered)
    /\ Cardinality(Adding) \in Nat
    /\ Cardinality(Removing) \in Nat
    /\ Cardinality(Registered) \in Nat
<1>1. IsFiniteSet(Threads)
  BY FiniteAssumption, FS_Union DEF Threads
<1>2. IsFiniteSet(Adding) /\ IsFiniteSet(Removing)
  <2>1. Adding \in SUBSET Threads /\ Removing \in SUBSET Threads
    BY DEF Adding, Removing
  <2>2. QED
    BY <1>1, <2>1, FS_Subset
<1>3. IsFiniteSet(Registered)
  <2>1. Registered \in SUBSET Peers
    BY DEF Registered
  <2>2. QED
    BY FiniteAssumption, <2>1, FS_Subset
<1>4. QED
  BY <1>2, <1>3, FS_CardinalityType

\* A goroutine that moves to another label changes Adding and Removing by
\* itself alone.
LEMMA GotoCounted ==
    ASSUME TypeOK, NEW t \in Threads, NEW label, Goto(t, label)
    PROVE  /\ label = "count" => Adding' = Adding \cup {t}
           /\ label # "count" => Adding' = Adding \ {t}
           /\ label = "uncount" => Removing' = Removing \cup {t}
           /\ label # "uncount" => Removing' = Removing \ {t}
<1>1. \A u \in Threads : pc'[u] = IF u = t THEN label ELSE pc[u]
  BY DEF TypeOK, Goto
<1>2. Adding' = {u \in Threads : pc'[u] = "count"}
  BY DEF Adding, Threads
<1>3. Removing' = {u \in Threads : pc'[u] = "uncount"}
  BY DEF Removing, Threads
<1>4. QED
  BY <1>1, <1>2, <1>3 DEF Adding, Removing

\* A step that changes neither the map nor the counter and moves its goroutine
\* from and to labels outside the counter's two windows.
LEMMA UncountedStep ==
    ASSUME TypeOK, CountMatches, NEW t \in Threads, NEW label, Goto(t, label),
           pc[t] \notin {"count", "uncount"}, label \notin {"count", "uncount"},
           UNCHANGED <<table, count>>
    PROVE  CountMatches'
<1>1. Adding' = Adding \ {t} /\ Removing' = Removing \ {t}
  BY GotoCounted
<1>2. t \notin Adding /\ t \notin Removing
  BY DEF Adding, Removing
<1>3. Adding' = Adding /\ Removing' = Removing
  BY <1>1, <1>2
<1>4. Registered' = Registered
  BY DEF Registered
<1>5. QED
  BY <1>3, <1>4 DEF CountMatches

\* Every step keeps the counter in step with the map.
LEMMA NextCount == TypeOK /\ CountMatches /\ [Next]_vars => CountMatches'
<1> SUFFICES ASSUME TypeOK, CountMatches, [Next]_vars PROVE CountMatches'
  OBVIOUS
<1>1. ASSUME NEW c \in Conns,
             \/ PeerDiscovered(c) \/ ConnectManually(c) \/ ConnectTo(c) \/ Dial(c)
             \/ Accept(c) \/ Exchange(c) \/ AddPeerGet(c) \/ CloseOld(c)
             \/ ReceiveReturns(c) \/ Cleanup(c) \/ CloseConn(c)
      PROVE CountMatches'
  <2>1. c \in Threads
    BY DEF Threads
  <2>2. PICK label : Goto(c, label) /\ label \notin {"count", "uncount"}
    BY <1>1 DEF PeerDiscovered, ConnectManually, ConnectTo, Dial, Accept, Exchange,
                AddPeerGet, CloseOld, ReceiveReturns, Cleanup, CloseConn
  <2>3. pc[c] \notin {"count", "uncount"} /\ UNCHANGED <<table, count>>
    BY <1>1 DEF PeerDiscovered, ConnectManually, ConnectTo, Dial, Accept, Exchange,
                AddPeerGet, CloseOld, ReceiveReturns, Cleanup, CloseConn
  <2>4. QED
    BY <2>1, <2>2, <2>3, UncountedStep
<1>2. ASSUME NEW c \in Conns, Add(c) PROVE CountMatches'
  <2>1. c \in Threads /\ pc[c] = "store"
    BY <1>2 DEF Threads, Add
  <2>2. CASE PeerOf[c] \in Registered
    BY <1>2, <2>1, <2>2, UncountedStep DEF Add
  <2>3. CASE PeerOf[c] \notin Registered
    <3>1. Adding' = Adding \cup {c} /\ c \notin Adding
      BY <1>2, <2>1, <2>3, GotoCounted DEF Add, Adding
    <3>2. Removing' = Removing
      BY <1>2, <2>1, <2>3, GotoCounted DEF Add, Removing
    <3>3. Registered' = Registered \cup {PeerOf[c]}
      BY <1>2, <2>3, PeerOfAssumption, DisjointAssumption DEF Add, Registered, TypeOK
    <3>4. Cardinality(Adding') = Cardinality(Adding) + 1
      BY <3>1, CountedSetsFinite, FS_AddElement
    <3>5. Cardinality(Registered') = Cardinality(Registered) + 1
      BY <2>3, <3>3, CountedSetsFinite, FS_AddElement
    <3>6. count' = count
      BY <1>2 DEF Add
    <3>7. QED
      BY <3>2, <3>4, <3>5, <3>6, CountedSetsFinite DEF CountMatches, TypeOK
  <2>4. QED
    BY <2>2, <2>3
<1>3. ASSUME NEW c \in Conns, CountAdded(c) PROVE CountMatches'
  <2>1. c \in Threads /\ c \in Adding /\ c \notin Removing
    BY <1>3 DEF Threads, CountAdded, Adding, Removing
  <2>2. Adding' = Adding \ {c} /\ Removing' = Removing
    BY <1>3, <2>1, GotoCounted DEF CountAdded
  <2>3. Cardinality(Adding') = Cardinality(Adding) - 1
    BY <2>1, <2>2, CountedSetsFinite, FS_RemoveElement
  <2>4. Registered' = Registered /\ count' = count + 1
    BY <1>3 DEF CountAdded, Registered
  <2>5. QED
    BY <2>2, <2>3, <2>4, CountedSetsFinite DEF CountMatches, TypeOK
<1>4. ASSUME NEW b \in Casts, NEW p \in Peers, BroadcastFails(b, p) PROVE CountMatches'
  <2>1. b \in Threads
    BY DEF Threads
  <2>2. QED
    BY <1>4, <2>1, UncountedStep DEF BroadcastFails
<1>5. ASSUME NEW t \in Threads, Delete(t) PROVE CountMatches'
  <2>1. pc[t] = "delete" /\ count' = count
    BY <1>5 DEF Delete
  <2>2. Registered' = Registered \ {key[t]}
    BY <1>5, DisjointAssumption DEF Delete, Registered, TypeOK
  <2>3. CASE key[t] \in Registered
    <3>1. Removing' = Removing \cup {t} /\ t \notin Removing
      BY <1>5, <2>1, <2>3, GotoCounted DEF Delete, Removing
    <3>2. Adding' = Adding
      BY <1>5, <2>1, <2>3, GotoCounted DEF Delete, Adding
    <3>3. Cardinality(Removing') = Cardinality(Removing) + 1
      BY <3>1, CountedSetsFinite, FS_AddElement
    <3>4. Cardinality(Registered') = Cardinality(Registered) - 1
      BY <2>2, <2>3, CountedSetsFinite, FS_RemoveElement
    <3>5. QED
      BY <2>1, <3>2, <3>3, <3>4, CountedSetsFinite DEF CountMatches, TypeOK
  <2>4. CASE key[t] \notin Registered
    <3>1. PICK label : Goto(t, label) /\ label \notin {"count", "uncount"}
      BY <1>5, <2>4 DEF Delete, AfterDelete
    <3>2. Adding' = Adding /\ Removing' = Removing
      BY <2>1, <3>1, GotoCounted DEF Adding, Removing
    <3>3. Registered' = Registered
      BY <2>2, <2>4
    <3>4. QED
      BY <2>1, <3>2, <3>3 DEF CountMatches
  <2>5. QED
    BY <2>3, <2>4
<1>6. ASSUME NEW t \in Threads, CountDeleted(t) PROVE CountMatches'
  <2>1. t \in Removing /\ t \notin Adding
    BY <1>6 DEF CountDeleted, Adding, Removing
  <2>2. PICK label : Goto(t, label) /\ label \notin {"count", "uncount"}
    BY <1>6 DEF CountDeleted, AfterDelete
  <2>3. Removing' = Removing \ {t} /\ Adding' = Adding
    BY <2>1, <2>2, GotoCounted
  <2>4. Cardinality(Removing') = Cardinality(Removing) - 1
    BY <2>1, <2>3, CountedSetsFinite, FS_RemoveElement
  <2>5. Registered' = Registered /\ count' = count - 1
    BY <1>6 DEF CountDeleted, Registered
  <2>6. QED
    BY <2>3, <2>4, <2>5, CountedSetsFinite DEF CountMatches, TypeOK
<1>7. ASSUME UNCHANGED <<table, count, pc>> PROVE CountMatches'
  BY <1>7 DEF CountMatches, Adding, Removing, Registered
<1>8. ASSUME NEW c \in Conns, Disconnect(c) PROVE CountMatches'
  BY <1>7, <1>8 DEF Disconnect
<1>9. ASSUME Close PROVE CountMatches'
  BY <1>7, <1>9 DEF Close
<1>10. ASSUME UNCHANGED vars PROVE CountMatches'
  BY <1>7, <1>10 DEF vars
<1>11. Conns \subseteq Threads /\ Casts \subseteq Threads
  BY DEF Threads
<1>12. QED
  BY <1>1, <1>2, <1>3, <1>4, <1>5, <1>6, <1>8, <1>9, <1>10, <1>11 DEF Next, Step

\* Initially nothing is registered and nothing is counted.
LEMMA InitCount == Init => CountMatches
<1> SUFFICES ASSUME Init PROVE CountMatches
  OBVIOUS
<1>1. Adding = {} /\ Removing = {} /\ Registered = {}
  BY DEF Init, Adding, Removing, Registered
<1>2. QED
  BY <1>1, FS_EmptySet DEF Init, CountMatches

-----------------------------------------------------------------------------
\* The inductive invariant holds in every reachable state.
LEMMA SpecInv == Spec => []IInv
<1>1. IInv /\ [Next]_vars => IInv'
  BY NextTypeOK, NextOwner DEF IInv
<1>2. QED
  BY <1>1, InitInv, PTL DEF Spec

\* Types of the table, the counter and the goroutines, for any number of
\* connections; addPeer never closes a peer that Get did not return.
THEOREM PeerTableTypeOK == Spec => []TypeOK
<1>1. IInv => TypeOK
  BY DEF IInv
<1>2. QED
  BY <1>1, SpecInv, PTL

\* addPeer and cleanup: an entry never outlives the goroutine that would
\* delete it, although both read the map in one step and write it in another.
THEOREM PeerTableEntryHasOwner == Spec => []EntryHasOwner
<1>1. IInv => EntryHasOwner
  BY DEF IInv
<1>2. QED
  BY <1>1, SpecInv, PTL

\* SyncMap.Add and SyncMap.Delete: Len never drifts from the number of
\* registered peers by more than the updates still to be counted.
THEOREM PeerTableCountMatches == Spec => []CountMatches
<1>1. TypeOK /\ CountMatches /\ [Next]_vars => CountMatches'
  BY NextCount
<1>2. QED
  BY <1>1, InitCount, PeerTableTypeOK, PTL DEF Spec
=============================================================================
