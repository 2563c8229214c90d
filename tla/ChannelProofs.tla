---------------------------- MODULE ChannelProofs ----------------------------
(***************************************************************************)
(* Proofs about Channel, for every set of messages and callers, every      *)
(* HistorySize and every capacity of c.ann.                                *)
(***************************************************************************)
EXTENDS Channel, FifoProofs, FiniteSetTheorems

-----------------------------------------------------------------------------
(* Types and well-formed histories. *)

Ids == {m.id : m \in Messages}

\* The state the two proofs below carry along: a type and well-formed fifos
\* need each other, since what an eviction removes is read from order.
TypeInv == TypeOK /\ HistoriesOK

\* A new channel is well formed.
LEMMA InitTypeInv == Init => TypeInv
<1> SUFFICES ASSUME Init PROVE TypeInv
  OBVIOUS
<1>1. FifoNew.order = <<>> /\ FifoNew.data = <<>>
  BY DEF FifoNew
<1>2. FifoOK(FifoNew, HistorySize)
  BY <1>1, LimitAssumption DEF FifoOK, IsInjective, Range
<1>3. HistoriesOK
  BY <1>2 DEF Init, HistoriesOK
<1>4. TypeOK
  BY <1>1, CapAssumption DEF Init, TypeOK
<1>5. QED
  BY <1>3, <1>4 DEF TypeInv

\* Send's first half: the fields it assigns stay typed and servedFiles stays
\* well formed.
LEMMA UpdateLastMsgTypeInv ==
    ASSUME TypeInv, NEW t \in Senders, NEW m \in Messages, UpdateLastMsg(t, m)
    PROVE  TypeInv'
<1> USE DEF TypeInv, TypeOK, HistoriesOK
<1> DEFINE g == FifoAdd(served, m.id, m, HistorySize)
<1>1. AddedTo(g, served, Ids, m.id, m, HistorySize)
  <2>1. served.order \in Seq(Ids) /\ FifoOK(served, HistorySize) /\ m.id \in Ids
    BY DEF Ids
  <2>2. HistorySize \in Nat \ {0}
    BY LimitAssumption
  <2> HIDE DEF TypeInv, TypeOK, HistoriesOK
  <2>3. QED
    BY <2>1, <2>2, FifoAddOK
<1>2. \A k \in DOMAIN g.data : g.data[k] \in Messages /\ g.data[k].id = k
  <2> HIDE DEF g
  <2> QED BY <1>1 DEF FifoHas, AddedTo
<1>3. served' = g \/ served' = served
  BY DEF UpdateLastMsg, Serve
<1>4. /\ FifoOK(served', HistorySize)
      /\ served'.order \in Seq(Ids)
      /\ \A k \in DOMAIN served'.data : served'.data[k] \in Messages /\ served'.data[k].id = k
  <2> HIDE DEF g
  <2> QED BY <1>1, <1>2, <1>3 DEF Ids, AddedTo
<1>5. QED
  BY <1>4 DEF UpdateLastMsg, Ids

\* Announce's first half, for the history of announced hashes.
LEMMA ShouldUpdateAnnTypeInv ==
    ASSUME TypeInv, NEW t \in Announcers, NEW m \in Messages, ShouldUpdateAnn(t, m)
    PROVE  TypeInv'
<1> USE DEF TypeInv, TypeOK, HistoriesOK
<1> DEFINE g == FifoAdd(seen, m.hash, m, HistorySize)
<1>1. AddedTo(g, seen, Hashes, m.hash, m, HistorySize)
  <2>1. seen.order \in Seq(Hashes) /\ FifoOK(seen, HistorySize) /\ m.hash \in Hashes
    BY DEF Hashes
  <2>2. HistorySize \in Nat \ {0}
    BY LimitAssumption
  <2> HIDE DEF TypeInv, TypeOK, HistoriesOK
  <2>3. QED
    BY <2>1, <2>2, FifoAddOK
<1>2. \A k \in DOMAIN g.data : g.data[k] \in Messages /\ g.data[k].hash = k
  <2> HIDE DEF g
  <2> QED BY <1>1 DEF FifoHas, AddedTo
<1>3. seen' = g
  BY DEF ShouldUpdateAnn
<1>4. /\ FifoOK(seen', HistorySize)
      /\ seen'.order \in Seq(Hashes)
      /\ \A k \in DOMAIN seen'.data : seen'.data[k] \in Messages /\ seen'.data[k].hash = k
  <2> HIDE DEF g
  <2> QED BY <1>1, <1>2, <1>3 DEF AddedTo
<1>5. m.hash \in Hashes
  BY DEF Hashes
<1>6. QED
  BY <1>4, <1>5 DEF ShouldUpdateAnn

\* Every step of every caller keeps the channel well formed.
LEMMA NextTypeInv == TypeInv /\ [Next]_vars => TypeInv'
<1> SUFFICES ASSUME TypeInv, [Next]_vars PROVE TypeInv'
  OBVIOUS
<1>1. ASSUME NEW t \in Senders, NEW m \in Messages, UpdateLastMsg(t, m) PROVE TypeInv'
  BY <1>1, UpdateLastMsgTypeInv
<1>2. ASSUME NEW t \in Senders, Deliver(t) PROVE TypeInv'
  <2>1. pending[t] \in Messages
    BY <1>2 DEF Deliver, TypeInv, TypeOK
  <2>2. QED
    BY <1>2, <2>1 DEF Deliver, TypeInv, TypeOK, HistoriesOK
<1>3. ASSUME NEW t \in Announcers, NEW m \in Messages, ShouldUpdateAnn(t, m) PROVE TypeInv'
  BY <1>3, ShouldUpdateAnnTypeInv
<1>4. ASSUME NEW t \in Announcers, Enqueue(t) PROVE TypeInv'
  <2>1. blocked[t] \in Messages
    BY <1>4 DEF Enqueue, TypeInv, TypeOK
  <2>2. ann' \in Seq(Messages) /\ Len(ann') <= PeerMaxCount
    BY <1>4, <2>1, CapAssumption DEF Enqueue, TypeInv, TypeOK
  <2>3. QED
    BY <1>4, <2>2 DEF Enqueue, TypeInv, TypeOK, HistoriesOK
<1>5. ASSUME ReceiveAnn PROVE TypeInv'
  <2>1. ann' \in Seq(Messages) /\ Len(ann') <= PeerMaxCount
    BY <1>5, CapAssumption DEF ReceiveAnn, TypeInv, TypeOK
  <2>2. QED
    BY <1>5, <2>1 DEF ReceiveAnn, TypeInv, TypeOK, HistoriesOK
<1>6. CASE UNCHANGED vars
  BY <1>6 DEF vars, TypeInv, TypeOK, HistoriesOK
<1>7. QED
  BY <1>1, <1>2, <1>3, <1>4, <1>5, <1>6 DEF Next

\* The fields of a channel always have their types.
THEOREM ChannelTypeOK == Spec => []TypeOK
<1>1. TypeInv => TypeOK
  BY DEF TypeInv
<1>2. QED
  BY InitTypeInv, NextTypeInv, <1>1, PTL DEF Spec

\* Both histories of a channel are well formed in every reachable state,
\* whatever the interleaving of senders and announcers.
THEOREM ChannelHistoriesOK == Spec => []HistoriesOK
<1>1. TypeInv => HistoriesOK
  BY DEF TypeInv
<1>2. QED
  BY InitTypeInv, NextTypeInv, <1>1, PTL DEF Spec
-----------------------------------------------------------------------------
(* The announce history is a window on the log of accepted announces. *)

WindowInv == TypeInv /\ SeenIsWindow

\* Recording a hash that is not in the window slides the window by one.
LEMMA SlideWindow ==
    ASSUME WindowInv, NEW t \in Announcers, NEW m \in Messages, ShouldUpdateAnn(t, m)
    PROVE  SeenIsWindow'
<1> DEFINE n == Len(annLog)
           k == Len(seen.order)
           r == MakeRoom(seen, HistorySize)
<1>1. /\ n \in Nat /\ k \in Nat /\ HistorySize \in Nat /\ HistorySize > 0
      /\ annLog \in Seq(Hashes) /\ seen.order \in Seq(Hashes) /\ m.hash \in Hashes
  BY LimitAssumption DEF WindowInv, TypeInv, TypeOK, Hashes
<1>2. annLog' = Append(annLog, m.hash) /\ seen'.order = Append(r.order, m.hash)
  BY DEF ShouldUpdateAnn, FifoAdd, Insert
<1>3. /\ k = IF n < HistorySize THEN n ELSE HistorySize
      /\ \A i \in 1..k : seen.order[i] = annLog[n - k + i]
  BY DEF WindowInv, SeenIsWindow
<1>4. CASE n < HistorySize
  <2>1. r.order = seen.order
    BY <1>1, <1>3, <1>4 DEF MakeRoom
  <2>2. Len(seen'.order) = n + 1 /\ Len(annLog') = n + 1
    BY <1>1, <1>2, <1>3, <1>4, <2>1
  <2>3. ASSUME NEW i \in 1..(n + 1) PROVE seen'.order[i] = annLog'[i]
    BY <1>1, <1>2, <1>3, <1>4, <2>1
  <2>4. n + 1 = IF n + 1 < HistorySize THEN n + 1 ELSE HistorySize
    BY <1>1, <1>4
  <2>5. \A i \in 1..(n + 1) : n + 1 - (n + 1) + i = i
    BY <1>1
  <2> HIDE DEF n
  <2>6. QED
    BY <2>2, <2>3, <2>4, <2>5 DEF SeenIsWindow
<1>5. CASE ~(n < HistorySize)
  <2>1. r.order = Tail(seen.order) /\ k = HistorySize /\ seen.order # <<>>
    BY <1>1, <1>3, <1>5 DEF MakeRoom
  <2>2. /\ r.order \in Seq(Hashes) /\ Len(r.order) = k - 1
        /\ \A i \in 1..(k - 1) : r.order[i] = seen.order[i + 1]
    BY <1>1, <2>1
  <2> HIDE DEF r
  <2>3. Len(seen'.order) = HistorySize /\ Len(annLog') = n + 1
    BY <1>1, <1>2, <2>1, <2>2
  <2>4. ASSUME NEW i \in 1..HistorySize
        PROVE  seen'.order[i] = annLog'[n + 1 - HistorySize + i]
    <3>1. CASE i = HistorySize
      BY <3>1, <1>1, <1>2, <2>1, <2>2
    <3>2. CASE i # HistorySize
      <4>1. i \in 1..(k - 1) /\ i + 1 \in 1..k /\ n + 1 - HistorySize + i \in 1..n
        BY <3>2, <1>1, <1>5, <2>1
      <4>2. seen'.order[i] = seen.order[i + 1]
        BY <4>1, <1>1, <1>2, <2>1, <2>2
      <4>3. seen.order[i + 1] = annLog[n - k + (i + 1)]
        BY <4>1, <1>3
      <4>4. n - k + (i + 1) = n + 1 - HistorySize + i
        BY <1>1, <2>1
      <4>5. annLog'[n + 1 - HistorySize + i] = annLog[n + 1 - HistorySize + i]
        BY <4>1, <1>1, <1>2
      <4>6. QED
        BY <4>2, <4>3, <4>4, <4>5
    <3>3. QED
      BY <3>1, <3>2
  <2>5. HistorySize = IF n + 1 < HistorySize THEN n + 1 ELSE HistorySize
    BY <1>1, <1>5
  <2> HIDE DEF n
  <2>6. QED
    BY <1>1, <2>3, <2>4, <2>5 DEF SeenIsWindow
<1>6. QED
  BY <1>4, <1>5

\* Only Announce's first half touches the history, and it slides the window.
LEMMA NextWindow == WindowInv /\ [Next]_vars => SeenIsWindow'
<1> SUFFICES ASSUME WindowInv, [Next]_vars PROVE SeenIsWindow'
  OBVIOUS
<1>1. ASSUME NEW t \in Announcers, NEW m \in Messages, ShouldUpdateAnn(t, m)
      PROVE  SeenIsWindow'
  BY <1>1, SlideWindow
<1>2. CASE UNCHANGED <<seen, annLog>>
  BY <1>2 DEF WindowInv, SeenIsWindow
<1>3. QED
  BY <1>1, <1>2 DEF Next, UpdateLastMsg, Deliver, Enqueue, ReceiveAnn, vars

\* The empty history is a window on the empty log.
LEMMA InitWindow == Init => SeenIsWindow
BY LimitAssumption DEF Init, SeenIsWindow, FifoNew

\* The announce history is exactly the last HistorySize accepted announces.
THEOREM AnnounceHistoryIsWindow == Spec => []SeenIsWindow
<1>1. Init => WindowInv
  BY InitTypeInv, InitWindow DEF WindowInv
<1>2. WindowInv /\ [Next]_vars => WindowInv'
  BY NextTypeInv, NextWindow DEF WindowInv
<1>3. WindowInv => SeenIsWindow
  BY DEF WindowInv
<1>4. QED
  BY <1>1, <1>2, <1>3, PTL DEF Spec

\* A hash that Announce accepts now is in none of the last HistorySize log
\* entries: it would still be in the history.
LEMMA NextNoRepeat == WindowInv /\ NoRepeatInWindow /\ [Next]_vars => NoRepeatInWindow'
<1> SUFFICES ASSUME WindowInv, NoRepeatInWindow, [Next]_vars PROVE NoRepeatInWindow'
  OBVIOUS
<1>1. ASSUME NEW t \in Announcers, NEW m \in Messages, ShouldUpdateAnn(t, m)
      PROVE  NoRepeatInWindow'
  <2> DEFINE n == Len(annLog)
             k == Len(seen.order)
  <2>1. /\ n \in Nat /\ k \in Nat /\ HistorySize \in Nat
        /\ annLog \in Seq(Hashes) /\ seen.order \in Seq(Hashes)
    BY LimitAssumption DEF WindowInv, TypeInv, TypeOK
  <2>2. /\ annLog' = Append(annLog, m.hash) /\ Len(annLog') = n + 1
        /\ annLog'[n + 1] = m.hash /\ \A i \in 1..n : annLog'[i] = annLog[i]
    BY <1>1, <2>1 DEF ShouldUpdateAnn
  <2>3. m.hash \notin Range(seen.order)
    BY <1>1 DEF ShouldUpdateAnn, FifoHas, WindowInv, TypeInv, HistoriesOK, FifoOK
  <2>4. /\ k = IF n < HistorySize THEN n ELSE HistorySize
        /\ \A i \in 1..k : seen.order[i] = annLog[n - k + i]
    BY DEF WindowInv, SeenIsWindow
  <2>5. ASSUME NEW i \in 1..n, annLog[i] = m.hash PROVE n + 1 - i > HistorySize
    <3>1. SUFFICES ASSUME ~(n + 1 - i > HistorySize) PROVE FALSE
      OBVIOUS
    <3>2. i - (n - k) \in 1..k /\ n - k + (i - (n - k)) = i
      <4> HIDE DEF n, k
      <4> QED BY <2>1, <2>4, <3>1
    <3>3. seen.order[i - (n - k)] = m.hash
      BY <2>4, <2>5, <3>2
    <3>4. QED
      BY <2>1, <2>3, <3>2, <3>3 DEF Range
  <2>6. ASSUME NEW i \in 1..(n + 1), NEW j \in 1..(n + 1), i < j, annLog'[i] = annLog'[j]
        PROVE  j - i > HistorySize
    <3>1. i \in 1..n
      BY <2>1, <2>6
    <3>2. CASE j = n + 1
      BY <2>1, <2>2, <2>5, <2>6, <3>1, <3>2
    <3>3. CASE j # n + 1
      <4>1. j \in 1..n
        BY <2>1, <3>3
      <4>2. annLog[i] = annLog[j]
        BY <2>2, <2>6, <3>1, <4>1
      <4>3. QED
        BY <2>6, <3>1, <4>1, <4>2 DEF NoRepeatInWindow
    <3>4. QED
      BY <3>2, <3>3
  <2> HIDE DEF n, k
  <2>7. QED
    BY <2>2, <2>6 DEF NoRepeatInWindow
<1>2. CASE UNCHANGED annLog
  BY <1>2 DEF NoRepeatInWindow
<1>3. QED
  BY <1>1, <1>2 DEF Next, UpdateLastMsg, Deliver, Enqueue, ReceiveAnn, vars

\* Whatever the interleaving of stream handlers, the same content passes
\* Announce again only after HistorySize other announces.
THEOREM AnnouncedOncePerWindow == Spec => []NoRepeatInWindow
<1> DEFINE Inv == WindowInv /\ NoRepeatInWindow
<1>1. Init => Inv
  <2>1. Init => NoRepeatInWindow
    BY DEF Init, NoRepeatInWindow
  <2>2. QED
    BY <2>1, InitTypeInv, InitWindow DEF WindowInv
<1>2. Inv /\ [Next]_vars => Inv'
  BY NextTypeInv, NextWindow, NextNoRepeat DEF WindowInv
<1>3. Inv => NoRepeatInWindow
  OBVIOUS
<1>4. QED
  BY <1>1, <1>2, <1>3, PTL DEF Spec

-----------------------------------------------------------------------------
(* The hand-over of messages. *)

\* A log holds a message once more when it is appended, and no other one.
LEMMA AppendOccurs ==
    ASSUME NEW S, NEW log \in Seq(S), NEW x \in S, NEW m \in S
    PROVE  /\ Occurrences(log, m) \in Nat
           /\ Occurrences(Append(log, x), m) =
                 IF x = m THEN Occurrences(log, m) + 1 ELSE Occurrences(log, m)
<1> DEFINE n == Len(log)
           new == Append(log, x)
           P == {i \in 1..n : log[i] = m}
           Q == {i \in 1..(n + 1) : new[i] = m}
<1>1. n \in Nat /\ Len(new) = n + 1 /\ new[n + 1] = x /\ \A i \in 1..n : new[i] = log[i]
  OBVIOUS
<1>2. IsFiniteSet(P) /\ Cardinality(P) \in Nat
  <2>1. IsFiniteSet(1..n)
    BY <1>1, FS_Interval
  <2>2. P \in SUBSET (1..n)
    OBVIOUS
  <2> QED
    BY <2>1, <2>2, FS_Subset, FS_CardinalityType
<1>3. Occurrences(log, m) = Cardinality(P) /\ Occurrences(new, m) = Cardinality(Q)
  BY <1>1 DEF Occurrences
<1>4. CASE x = m
  <2>1. Q = P \cup {n + 1} /\ n + 1 \notin P
    BY <1>1, <1>4
  <2>2. Cardinality(P \cup {n + 1}) = Cardinality(P) + 1
    BY <1>2, <2>1, FS_AddElement
  <2> QED
    BY <1>2, <1>3, <1>4, <2>1, <2>2
<1>5. CASE x # m
  <2>1. Q = P
    BY <1>1, <1>5
  <2> QED
    BY <1>2, <1>3, <1>5, <2>1
<1> QED
  BY <1>4, <1>5

\* The senders that hold a message, after one of them takes or gives up one.
Holders(m) == {t \in Senders : pending[t] = m}

\* They can be counted.
LEMMA HoldersFinite ==
    ASSUME NEW m
    PROVE  IsFiniteSet(Holders(m)) /\ Cardinality(Holders(m)) \in Nat
<1>1. Holders(m) \in SUBSET Senders
  BY DEF Holders
<1> QED
  BY <1>1, SendersAssumption, FS_Subset, FS_CardinalityType

\* Every step keeps the count of hand-overs right.
LEMMA NextHandedOver == TypeInv /\ HandedOverOnce /\ [Next]_vars => HandedOverOnce'
<1> SUFFICES ASSUME TypeInv, HandedOverOnce, [Next]_vars, NEW m \in Messages
             PROVE  Occurrences(accepted', m) =
                      Occurrences(delivered', m) + Cardinality(Holders(m)')
  BY DEF HandedOverOnce, Holders
<1>0. /\ accepted \in Seq(Messages) /\ delivered \in Seq(Messages)
      /\ pending \in [Senders -> Messages \cup {NoMsg}] /\ NoMsg \notin Messages
  BY MessageAssumption DEF TypeInv, TypeOK
<1>1. Occurrences(accepted, m) = Occurrences(delivered, m) + Cardinality(Holders(m))
  BY DEF HandedOverOnce, Holders
<1>2. /\ Occurrences(accepted, m) \in Nat /\ Occurrences(delivered, m) \in Nat
      /\ IsFiniteSet(Holders(m)) /\ Cardinality(Holders(m)) \in Nat
  BY <1>0, AppendOccurs, HoldersFinite
<1>3. ASSUME NEW t \in Senders, NEW x \in Messages, UpdateLastMsg(t, x)
      PROVE  Occurrences(accepted', m) = Occurrences(delivered', m) + Cardinality(Holders(m)')
  <2>1. /\ accepted' = Append(accepted, x) /\ delivered' = delivered
        /\ pending[t] = NoMsg /\ pending' = [pending EXCEPT ![t] = x]
    BY <1>3 DEF UpdateLastMsg
  <2>2. Occurrences(accepted', m) =
           IF x = m THEN Occurrences(accepted, m) + 1 ELSE Occurrences(accepted, m)
    BY <1>0, <2>1, AppendOccurs
  <2>3. CASE x = m
    <3>1. Holders(m)' = Holders(m) \cup {t} /\ t \notin Holders(m)
      BY <1>0, <2>1, <2>3 DEF Holders
    <3>2. Cardinality(Holders(m)') = Cardinality(Holders(m)) + 1
      BY <1>2, <3>1, FS_AddElement
    <3> QED
      BY <1>1, <1>2, <2>1, <2>2, <2>3, <3>2
  <2>4. CASE x # m
    <3>1. Holders(m)' = Holders(m)
      BY <1>0, <2>1, <2>4 DEF Holders
    <3> QED
      BY <1>1, <2>1, <2>2, <2>4, <3>1
  <2> QED
    BY <2>3, <2>4
<1>4. ASSUME NEW t \in Senders, Deliver(t)
      PROVE  Occurrences(accepted', m) = Occurrences(delivered', m) + Cardinality(Holders(m)')
  <2>1. /\ delivered' = Append(delivered, pending[t]) /\ accepted' = accepted
        /\ pending[t] \in Messages /\ pending' = [pending EXCEPT ![t] = NoMsg]
    BY <1>0, <1>4 DEF Deliver
  <2>2. Occurrences(delivered', m) =
           IF pending[t] = m THEN Occurrences(delivered, m) + 1 ELSE Occurrences(delivered, m)
    BY <1>0, <2>1, AppendOccurs
  <2>3. CASE pending[t] = m
    <3>1. Holders(m)' = Holders(m) \ {t} /\ t \in Holders(m)
      BY <1>0, <2>1, <2>3 DEF Holders
    <3>2. Cardinality(Holders(m)') = Cardinality(Holders(m)) - 1
      BY <1>2, <3>1, FS_RemoveElement
    <3> QED
      BY <1>1, <1>2, <2>1, <2>2, <2>3, <3>2
  <2>4. CASE pending[t] # m
    <3>1. Holders(m)' = Holders(m)
      BY <1>0, <2>1, <2>4 DEF Holders
    <3> QED
      BY <1>1, <2>1, <2>2, <2>4, <3>1
  <2> QED
    BY <2>3, <2>4
<1>5. CASE UNCHANGED <<accepted, delivered, pending>>
  BY <1>1, <1>5 DEF Holders
<1> QED
  BY <1>3, <1>4, <1>5 DEF Next, ShouldUpdateAnn, Enqueue, ReceiveAnn, vars

\* HandedOverOnce: however senders race for the lock and for the monitor, what
\* Send accepted was received once or is still in the hands of one sender.
THEOREM ChannelHandedOverOnce == Spec => []HandedOverOnce
<1> DEFINE Inv == TypeInv /\ HandedOverOnce
<1>1. Init => HandedOverOnce
  <2> SUFFICES ASSUME Init, NEW m \in Messages
               PROVE  Occurrences(accepted, m) = Occurrences(delivered, m) + Cardinality(Holders(m))
    BY DEF HandedOverOnce, Holders
  <2>1. accepted = <<>> /\ delivered = <<>> /\ Holders(m) = {}
    BY MessageAssumption DEF Init, Holders
  <2>2. {i \in 1..Len(<<>>) : <<>>[i] = m} = {}
    OBVIOUS
  <2>3. Occurrences(<<>>, m) = 0 /\ Cardinality({}) = 0
    BY <2>2, FS_EmptySet DEF Occurrences
  <2> QED
    BY <2>1, <2>3
<1>2. Init => Inv
  BY <1>1, InitTypeInv
<1>3. Inv /\ [Next]_vars => Inv'
  BY NextTypeInv, NextHandedOver
<1> QED
  BY <1>2, <1>3, PTL DEF Spec

-----------------------------------------------------------------------------
(* What a requester gets. *)

\* The IDs of the file messages accepted after the i-th message.
Newer(log, i) == {log[j].id : j \in {k \in i+1..Len(log) : log[k].mime = "path"}}

\* The i-th message is a file, accepted for the first time.
FirstFile(log, i) == log[i].mime = "path" /\ \A j \in 1..(i-1) : log[j].id # log[i].id

\* servedFiles has the key, and behind it only keys of later files.
Queued(h, log, i) ==
    \E p \in 1..Len(h.order) :
        /\ h.order[p] = log[i].id
        /\ \A q \in p+1..Len(h.order) : h.order[q] \in Newer(log, i)

\* ServedUntilOvertaken made inductive: an eviction takes a key only when the
\* keys behind it, all later files, fill the history.
ServedInv ==
    /\ TypeInv
    /\ \A k \in DOMAIN served.data : \E j \in 1..Len(accepted) : accepted[j].id = k
    /\ \A i \in 1..Len(accepted) : FirstFile(accepted, i) =>
          \/ Queued(served, accepted, i)
          \/ Cardinality(Newer(accepted, i) \ {accepted[i].id}) >= HistorySize

\* The files accepted after the i-th message can be counted.
LEMMA NewerFinite ==
    ASSUME NEW log \in Seq(Messages), NEW i \in Nat
    PROVE  \A x : /\ IsFiniteSet(Newer(log, i) \ {x})
                  /\ Cardinality(Newer(log, i) \ {x}) \in Nat
<1> DEFINE J == {k \in i+1..Len(log) : log[k].mime = "path"}
           f == [j \in J |-> log[j].id]
<1>1. IsFiniteSet(i+1..Len(log))
  BY FS_Interval
<1>2. J \in SUBSET (i+1..Len(log))
  OBVIOUS
<1>3. IsFiniteSet(J)
  BY <1>1, <1>2, FS_Subset
<1>4. f \in Surjection(J, Newer(log, i))
  BY DEF Surjection, Newer
<1>5. IsFiniteSet(Newer(log, i))
  BY <1>3, <1>4, FS_Surjection
<1> QED
  BY <1>5, FS_RemoveElement, FS_CardinalityType

\* What is newer grows with the log, by the ID of a file message.
LEMMA NewerGrows ==
    ASSUME NEW log \in Seq(Messages), NEW x \in Messages, NEW i \in 1..Len(log)
    PROVE  /\ Newer(log, i) \subseteq Newer(Append(log, x), i)
           /\ x.mime = "path" => x.id \in Newer(Append(log, x), i)
           /\ Append(log, x)[i] = log[i]
           /\ FirstFile(Append(log, x), i) <=> FirstFile(log, i)
<1>1. /\ Len(Append(log, x)) = Len(log) + 1 /\ Len(log) \in Nat
      /\ Append(log, x)[Len(log) + 1] = x
      /\ \A j \in 1..Len(log) : Append(log, x)[j] = log[j]
  OBVIOUS
<1>2. \A k \in i+1..Len(log) : k \in i+1..(Len(log) + 1) /\ Append(log, x)[k] = log[k]
  BY <1>1
<1>3. Len(log) + 1 \in i+1..(Len(log) + 1)
  BY <1>1
<1>4. Newer(log, i) \subseteq Newer(Append(log, x), i)
  BY <1>1, <1>2 DEF Newer
<1>5. x.mime = "path" => x.id \in Newer(Append(log, x), i)
  BY <1>1, <1>3 DEF Newer
<1>6. \A j \in 1..(i-1) : Append(log, x)[j] = log[j]
  BY <1>1
<1> QED
  BY <1>1, <1>4, <1>5, <1>6 DEF FirstFile

\* Once overtaken, always overtaken.
LEMMA StaysOvertaken ==
    ASSUME NEW log \in Seq(Messages), NEW x \in Messages, NEW i \in 1..Len(log),
           Cardinality(Newer(log, i) \ {log[i].id}) >= HistorySize
    PROVE  Cardinality(Newer(Append(log, x), i) \ {Append(log, x)[i].id}) >= HistorySize
<1> DEFINE S == Newer(Append(log, x), i) \ {log[i].id}
           T == Newer(log, i) \ {log[i].id}
<1>1. Append(log, x) \in Seq(Messages) /\ i \in Nat
  OBVIOUS
<1>2. IsFiniteSet(S) /\ Cardinality(S) \in Nat /\ Cardinality(T) \in Nat
  BY <1>1, NewerFinite
<1>3. T \in SUBSET S /\ Append(log, x)[i] = log[i]
  BY NewerGrows
<1>4. Cardinality(T) <= Cardinality(S)
  BY <1>2, <1>3, FS_Subset
<1> QED
  BY <1>2, <1>3, <1>4, LimitAssumption

\* What an Add does to the keys, for a key that is new: the oldest leaves when
\* the history is full, and the new one comes last.
LEMMA FifoAddOrder ==
    ASSUME NEW K, NEW h, NEW key \in K, NEW value,
           h.order \in Seq(K), FifoOK(h, HistorySize), ~FifoHas(h, key)
    PROVE  LET g == FifoAdd(h, key, value, HistorySize)
               n == Len(h.order)
           IN  \/ /\ n < HistorySize /\ Len(g.order) = n + 1
                  /\ \A i \in 1..n : g.order[i] = h.order[i]
                  /\ g.order[n + 1] = key
               \/ /\ n = HistorySize /\ Len(g.order) = n
                  /\ \A i \in 1..(n - 1) : g.order[i] = h.order[i + 1]
                  /\ g.order[n] = key
<1> DEFINE g == FifoAdd(h, key, value, HistorySize)
           n == Len(h.order)
           r == MakeRoom(h, HistorySize)
<1>1. n \in Nat /\ n <= HistorySize /\ HistorySize \in Nat \ {0}
  BY LimitAssumption DEF FifoOK
<1>2. g.order = Append(r.order, key)
  BY DEF FifoAdd, Insert
<1>3. CASE n < HistorySize
  <2>1. r = h
    BY <1>1, <1>3 DEF MakeRoom
  <2> QED
    BY <1>2, <1>3, <2>1
<1>4. CASE n = HistorySize
  <2>1. r.order = Tail(h.order) /\ h.order # <<>>
    BY <1>1, <1>4 DEF MakeRoom
  <2> HIDE DEF r
  <2>2. /\ r.order \in Seq(K) /\ Len(r.order) = n - 1
        /\ \A i \in 1..(n - 1) : r.order[i] = h.order[i + 1]
    BY <1>1, <2>1
  <2>3. /\ Len(g.order) = n /\ g.order[n] = key
        /\ \A i \in 1..(n - 1) : g.order[i] = r.order[i]
    BY <1>1, <1>2, <2>2
  <2> QED
    BY <1>4, <2>2, <2>3
<1> QED
  BY <1>1, <1>3, <1>4

\* The case the invariant is for: the file is the oldest key, the history is
\* full, and a new file comes.  The keys that are left and the new one are
\* HistorySize later files.
LEMMA EvictedIsOvertaken ==
    ASSUME NEW g, NEW S, IsFiniteSet(S), IsInjective(g.order), g.order \in Seq(S),
           Len(g.order) = HistorySize
    PROVE  Cardinality(S) >= HistorySize
<1>1. g.order \in Injection(1..HistorySize, S)
  BY DEF Injection
<1>2. Cardinality(1..HistorySize) = HistorySize
  BY LimitAssumption, FS_Interval
<1>3. Cardinality(1..HistorySize) <= Cardinality(S)
  BY <1>1, FS_Injection
<1>4. Cardinality(S) \in Nat
  BY FS_CardinalityType
<1> QED
  BY <1>2, <1>3, <1>4, LimitAssumption

\* A function on 1..n is a sequence.
LEMMA FunctionIsSeq ==
    ASSUME NEW T, NEW n \in Nat, NEW f \in [1..n -> T]
    PROVE  f \in Seq(T)
<1>1. f = [i \in 1..n |-> f[i]] /\ \A i \in 1..n : f[i] \in T
  OBVIOUS
<1> QED
  BY <1>1

\* Accepting a message keeps every earlier file served until it is overtaken.
LEMMA UpdateLastMsgServed ==
    ASSUME ServedInv, NEW t \in Senders, NEW x \in Messages, UpdateLastMsg(t, x)
    PROVE  ServedInv'
<1> DEFINE log == accepted
           n == Len(log)
           h == served
           g == FifoAdd(h, x.id, x, HistorySize)
<1>0. TypeInv'
  BY UpdateLastMsgTypeInv DEF ServedInv
<1>1. /\ log \in Seq(Messages) /\ n \in Nat /\ HistorySize \in Nat \ {0}
      /\ h.order \in Seq(Ids) /\ FifoOK(h, HistorySize) /\ x.id \in Ids
  BY LimitAssumption DEF ServedInv, TypeInv, TypeOK, HistoriesOK, Ids
<1>2. /\ accepted' = Append(log, x)
      /\ served' = IF x.mime = "path" THEN g ELSE h
  BY DEF UpdateLastMsg, Serve
<1>3. /\ Len(accepted') = n + 1 /\ accepted'[n + 1] = x
      /\ \A i \in 1..n : accepted'[i] = log[i]
  BY <1>1, <1>2
<1>4. AddedTo(g, h, Ids, x.id, x, HistorySize)
  BY <1>1, FifoAddOK
<1>o. ASSUME ~FifoHas(h, x.id)
      PROVE  \/ /\ Len(h.order) < HistorySize /\ Len(g.order) = Len(h.order) + 1
                /\ \A q \in 1..Len(h.order) : g.order[q] = h.order[q]
                /\ g.order[Len(h.order) + 1] = x.id
             \/ /\ Len(h.order) = HistorySize /\ Len(g.order) = HistorySize
                /\ \A q \in 1..(HistorySize - 1) : g.order[q] = h.order[q + 1]
                /\ g.order[HistorySize] = x.id
  <2> HIDE DEF h, n, log
  <2> QED
    BY <1>1, <1>o, FifoAddOrder
<1>l. Len(h.order) \in Nat
  BY <1>1
<1> HIDE DEF g
<1>5. ASSUME NEW k \in DOMAIN served'.data
      PROVE  \E j \in 1..Len(accepted') : accepted'[j].id = k
  <2>1. k \in DOMAIN h.data \/ k = x.id
    BY <1>2, <1>4 DEF AddedTo
  <2>2. CASE k \in DOMAIN h.data
    <3>1. PICK j \in 1..n : log[j].id = k
      BY <2>2 DEF ServedInv
    <3>2. j \in 1..(n + 1) /\ accepted'[j] = log[j]
      BY <1>1, <1>3, <3>1
    <3> QED
      BY <1>3, <3>1, <3>2
  <2>3. CASE k = x.id
    BY <1>1, <1>3, <2>3
  <2> QED
    BY <2>1, <2>2, <2>3
<1>6. ASSUME NEW i \in 1..(n + 1), FirstFile(accepted', i)
      PROVE  \/ Queued(served', accepted', i)
             \/ Cardinality(Newer(accepted', i) \ {accepted'[i].id}) >= HistorySize
  <2>1. CASE i = n + 1
    <3>1. x.mime = "path" /\ \A j \in 1..n : log[j].id # x.id
      BY <1>1, <1>3, <1>6, <2>1 DEF FirstFile
    <3>2. ~FifoHas(h, x.id) /\ served' = g
      BY <1>2, <3>1 DEF FifoHas, ServedInv
    <3>3. Len(g.order) \in Nat \ {0} /\ g.order[Len(g.order)] = x.id
      BY <1>1, <1>l, <1>o, <3>2
    <3> QED
      BY <1>1, <1>3, <2>1, <3>2, <3>3 DEF Queued
  <2>2. CASE i \in 1..n
    <3>1. /\ FirstFile(log, i) /\ accepted'[i] = log[i]
          /\ Newer(log, i) \subseteq Newer(accepted', i)
          /\ x.mime = "path" => x.id \in Newer(accepted', i)
      BY <1>1, <1>2, <1>6, <2>2, NewerGrows
    <3>2. CASE Cardinality(Newer(log, i) \ {log[i].id}) >= HistorySize
      BY <1>1, <1>2, <2>2, <3>2, StaysOvertaken
    <3>3. CASE Queued(h, log, i) /\ served' = h
      BY <3>1, <3>3 DEF Queued
    <3>4. CASE Queued(h, log, i) /\ ~FifoHas(h, x.id) /\ x.mime = "path"
      <4>1. PICK p \in 1..Len(h.order) :
               /\ h.order[p] = log[i].id
               /\ \A q \in p+1..Len(h.order) : h.order[q] \in Newer(log, i)
        BY <3>4 DEF Queued
      <4>2. served' = g /\ Len(h.order) \in Nat
        BY <1>1, <1>2, <3>4
      <4>3. CASE Len(h.order) < HistorySize
        <5>1. /\ Len(g.order) = Len(h.order) + 1
              /\ \A q \in 1..Len(h.order) : g.order[q] = h.order[q]
              /\ g.order[Len(h.order) + 1] = x.id
          BY <1>1, <1>l, <1>o, <3>4, <4>3
        <5>2. p \in 1..Len(g.order) /\ g.order[p] = accepted'[i].id
          BY <3>1, <4>1, <4>2, <5>1
        <5>3. \A q \in p+1..Len(g.order) : g.order[q] \in Newer(accepted', i)
          <6> SUFFICES ASSUME NEW q \in p+1..Len(g.order) PROVE g.order[q] \in Newer(accepted', i)
            OBVIOUS
          <6>1. CASE q = Len(h.order) + 1
            BY <3>1, <3>4, <5>1, <6>1
          <6>2. CASE q # Len(h.order) + 1
            <7>1. q \in p+1..Len(h.order) /\ q \in 1..Len(h.order)
              BY <4>1, <4>2, <5>1, <6>2
            <7> QED
              BY <3>1, <4>1, <5>1, <7>1
          <6> QED
            BY <6>1, <6>2
        <5> QED
          BY <4>2, <5>2, <5>3 DEF Queued
      <4>4. CASE Len(h.order) = HistorySize
        <5>1. /\ Len(g.order) = HistorySize
              /\ \A q \in 1..(HistorySize - 1) : g.order[q] = h.order[q + 1]
              /\ g.order[HistorySize] = x.id
          BY <1>1, <1>l, <1>o, <3>4, <4>4
        <5>2. \A q \in p..HistorySize : g.order[q] \in Newer(accepted', i)
          <6> SUFFICES ASSUME NEW q \in p..HistorySize PROVE g.order[q] \in Newer(accepted', i)
            OBVIOUS
          <6>1. CASE q = HistorySize
            BY <3>1, <3>4, <5>1, <6>1
          <6>2. CASE q # HistorySize
            <7>1. q \in 1..(HistorySize - 1) /\ q + 1 \in p+1..Len(h.order)
              BY <1>1, <4>1, <4>4, <6>2
            <7> QED
              BY <3>1, <4>1, <5>1, <7>1
          <6> QED
            BY <6>1, <6>2
        <5>3. CASE p > 1
          <6>1. p - 1 \in 1..Len(g.order) /\ g.order[p - 1] = accepted'[i].id
            BY <1>1, <3>1, <4>1, <4>4, <5>1, <5>3
          <6>2. \A q \in (p - 1) + 1..Len(g.order) : g.order[q] \in Newer(accepted', i)
            BY <4>1, <5>1, <5>2
          <6> QED
            BY <4>2, <6>1, <6>2 DEF Queued
        <5>4. CASE p = 1
          <6> DEFINE S == Newer(accepted', i) \ {accepted'[i].id}
          <6>1. IsFiniteSet(S)
            <7>1. accepted' \in Seq(Messages) /\ i \in Nat
              BY <1>1, <1>2, <2>2
            <7> HIDE DEF n, log
            <7> QED
              BY <7>1, NewerFinite
          <6>2. g.order \in Seq(Ids) /\ IsInjective(g.order)
            BY <1>4 DEF AddedTo, FifoOK
          <6>3. \A q \in 1..HistorySize : g.order[q] # log[i].id
            <7> SUFFICES ASSUME NEW q \in 1..HistorySize PROVE g.order[q] # log[i].id
              OBVIOUS
            <7>1. CASE q = HistorySize
              <8>1. log[i].id \in Range(h.order)
                BY <1>1, <4>1 DEF Range
              <8>2. x.id # log[i].id
                BY <1>1, <3>4, <8>1 DEF FifoOK, FifoHas
              <8> QED
                BY <5>1, <7>1, <8>2
            <7>2. CASE q # HistorySize
              <8>1. q \in 1..(HistorySize - 1) /\ q + 1 \in 1..Len(h.order) /\ q + 1 # 1
                BY <1>1, <4>4, <7>2
              <8>2. h.order[q + 1] # h.order[1]
                BY <1>1, <4>1, <5>4, <8>1 DEF FifoOK, IsInjective
              <8> QED
                BY <4>1, <5>1, <5>4, <8>1, <8>2
            <7> QED
              BY <7>1, <7>2
          <6>4. \A q \in 1..HistorySize : g.order[q] \in S
            BY <3>1, <5>2, <5>4, <6>3
          <6>5. g.order \in Seq(S)
            <7>1. g.order = [q \in 1..HistorySize |-> g.order[q]]
              BY <5>1, <6>2
            <7>2. g.order \in [1..HistorySize -> S]
              BY <6>4, <7>1
            <7>3. HistorySize \in Nat
              BY <1>1
            <7> HIDE DEF S, h, n, log
            <7> QED
              BY <7>2, <7>3, FunctionIsSeq
          <6> HIDE DEF S
          <6>6. Cardinality(S) >= HistorySize
            BY <5>1, <6>1, <6>2, <6>5, EvictedIsOvertaken
          <6> QED
            BY <6>6 DEF S
        <5> QED
          BY <4>1, <5>3, <5>4
      <4> QED
        BY <1>1, <4>2, <4>3, <4>4 DEF FifoOK
    <3>5. served' = h \/ (~FifoHas(h, x.id) /\ x.mime = "path")
      BY <1>2 DEF FifoAdd, g
    <3> QED
      BY <2>2, <3>1, <3>2, <3>3, <3>4, <3>5 DEF ServedInv
  <2> QED
    BY <1>1, <2>1, <2>2
<1> QED
  BY <1>0, <1>3, <1>5, <1>6 DEF ServedInv

\* ServedUntilOvertaken: Get answers with the message that was asked for, for as
\* long as fewer than HistorySize other files have come after it, however the
\* senders interleave.
THEOREM ChannelServedUntilOvertaken == Spec => []ServedUntilOvertaken
<1>1. Init => ServedInv
  <2>1. Init => DOMAIN served.data = {} /\ Len(accepted) = 0
    BY DEF Init, FifoNew
  <2> QED
    BY <2>1, InitTypeInv DEF ServedInv
<1>2. ServedInv /\ [Next]_vars => ServedInv'
  <2> SUFFICES ASSUME ServedInv, [Next]_vars PROVE ServedInv'
    OBVIOUS
  <2>1. CASE UNCHANGED <<served, accepted>>
    BY <2>1, NextTypeInv DEF ServedInv
  <2> QED
    BY <2>1, UpdateLastMsgServed DEF Next, Deliver, ShouldUpdateAnn, Enqueue, ReceiveAnn, vars
<1>3. ServedInv => ServedUntilOvertaken
  <2> SUFFICES ASSUME ServedInv PROVE ServedUntilOvertaken
    OBVIOUS
  <2>1. TypeOK /\ FifoOK(served, HistorySize)
    BY DEF ServedInv, TypeInv, HistoriesOK
  <2>2. ASSUME NEW m \in Messages PROVE Get(m.id) \in {m, NoMsg}
    BY <2>1, MessageAssumption DEF Get, TypeOK, FifoHas
  <2>3. ASSUME NEW i \in 1..Len(accepted), FirstFile(accepted, i),
               Cardinality(Newer(accepted, i) \ {accepted[i].id}) < HistorySize
        PROVE  Get(accepted[i].id) = accepted[i]
    <3>1. accepted[i] \in Messages
      BY <2>1 DEF TypeOK
    <3>2. Cardinality(Newer(accepted, i) \ {accepted[i].id}) \in Nat
      <4>1. accepted \in Seq(Messages) /\ i \in Nat
        BY <2>1 DEF TypeOK
      <4> QED
        BY <4>1, NewerFinite
    <3>3. Queued(served, accepted, i)
      BY <2>3, <3>2, LimitAssumption DEF ServedInv
    <3>4. accepted[i].id \in Range(served.order)
      BY <2>1, <3>3 DEF Queued, Range, TypeOK
    <3>5. FifoHas(served, accepted[i].id)
      BY <2>1, <3>4 DEF FifoOK, FifoHas
    <3>6. Get(accepted[i].id) \in Messages
      BY <2>1, <3>5, MessageAssumption DEF Get, TypeOK, FifoHas
    <3> QED
      BY <2>2, <3>1, <3>6, MessageAssumption
  <2> QED
    BY <2>2, <2>3 DEF ServedUntilOvertaken, FirstFile, Newer
<1> QED
  BY <1>1, <1>2, <1>3, PTL DEF Spec
=============================================================================
