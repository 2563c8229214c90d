--------------------------- MODULE ClipSyncProofs ---------------------------
(***************************************************************************)
(* Proofs about ClipSync, for any nodes, mesh, contents, copies, limits    *)
(* and faults, paced or not: types, and that no clipboard ever holds a     *)
(* mixture of two copies; and, while users have not copied more contents   *)
(* than the announce history holds, that no monitor handles a message      *)
(* twice and that no clipboard is torn.  RestProofs builds on them.        *)
(***************************************************************************)
EXTENDS ClipSync, FifoProofs, FiniteSetTheorems

-----------------------------------------------------------------------------
(* The inductive invariant: everything that is queued, served, collected or *)
(* in flight can be traced back to a copy a user made.                      *)

\* A content and its BatchID are those of one copy; what has no BatchID was
\* copied alone.
FromCopy(x) ==
    \E i \in 1..Len(copied) :
        /\ x.hash \in Range(copied[i].what) /\ x.batch \in {<<>>, copied[i].what}
        /\ x.batch = <<>> => Range(copied[i].what) = {x.hash}

Traced == {msg \in AnyMessage : FromCopy(msg)}

TracedUpdates == {u \in [hash : Contents, batch : Copies \cup {<<>>}] : FromCopy(u)}

\* Streams that carry messages of M, and requests, which go to the author.
Requests == {e \in [kind : {"request"}, from : Nodes, to : Nodes, id : Nodes \X Nat] :
                e.to = Author(e.id)}
Traffic(M) == [kind : {"announce", "message"}, to : Nodes, msg : M] \cup Requests

ClipOK ==
    /\ clip \in [Nodes -> SUBSET Contents]
    /\ dedup \in [Nodes -> Copies \cup {<<>>} \cup {<<c>> : c \in Texts}]
    /\ NeverMixed

MonitorOK ==
    /\ updates \in [Nodes -> Seq(TracedUpdates)]
    /\ current \in [Nodes -> Traced \cup {NoMsg}]
    /\ sending \in [Nodes -> Traced \cup {NoMsg}]
    /\ nextId \in [Nodes -> Nat]

\* A fifo of traced messages.
ServedFifo(h) ==
    /\ h.order \in Seq(Nodes \X Nat) /\ FifoOK(h, HistorySize)
    /\ \A id \in DOMAIN h.data : h.data[id] \in Traced

ChannelOK ==
    /\ lastMsg \in [Nodes -> Traced \cup {NoMsg}]
    /\ DOMAIN served = Nodes /\ \A n \in Nodes : ServedFifo(served[n])

SeenOK ==
    /\ DOMAIN seen = Nodes
    /\ \A n \in Nodes : seen[n].order \in Seq(Contents) /\ FifoOK(seen[n], HistorySize)

HandingOK == DOMAIN handing = Nodes /\ \A n \in Nodes : IsBagOf(handing[n], Traced)

AnnsOK == DOMAIN anns = Nodes /\ \A n \in Nodes : IsBagOf(anns[n], Traced)

\* A batch collects nothing but contents of its own copy.
BatchOK(b, items) ==
    /\ \E i \in 1..Len(copied) : b = copied[i].what
    /\ Range(items) \subseteq Range(b) \cup {NoData}

BatchesOK ==
    /\ DOMAIN batches = Nodes
    /\ \A n \in Nodes : \A b \in DOMAIN batches[n] : BatchOK(b, batches[n][b])

NetOK == IsBagOf(net, Traffic(Traced))

TableOK ==
    /\ peers \in [Nodes -> SUBSET Nodes]
    /\ faults \in 0..MaxFaults

CopiedOK == copied \in Seq([by : Nodes, what : Copies])

Traceable ==
    /\ CopiedOK /\ ClipOK /\ MonitorOK /\ ChannelOK /\ SeenOK /\ HandingOK /\ AnnsOK
    /\ BatchesOK /\ NetOK /\ TableOK

-----------------------------------------------------------------------------

(* Copies, bags, and what every step keeps. *)

\* Copies are made of contents.
LEMMA CopyOK ==
    ASSUME NEW s \in Copies
    PROVE  s \in Seq(Contents) /\ s # <<>> /\ Range(s) \subseteq Contents
<1>1. s # <<>> /\ (s \in Seq(Files) \/ s \in [1..1 -> Texts])
  BY ContentAssumption
<1>2. ASSUME s \in [1..1 -> Texts] PROVE s \in Seq(Contents)
  <2>1. s = [i \in 1..1 |-> s[i]] /\ s[1] \in Contents
    BY <1>2 DEF Contents
  <2> QED
    BY <2>1
<1>3. ASSUME s \in Seq(Files) PROVE s \in Seq(Contents)
  BY <1>3 DEF Contents
<1>4. s \in Seq(Contents)
  BY <1>1, <1>2, <1>3
<1> QED
  BY <1>1, <1>4 DEF Range

\* A bag of members of S stays one when a member is added or removed.
LEMMA BagAddOK ==
    ASSUME NEW S, NEW B, IsBagOf(B, S), NEW x \in S
    PROVE  IsBagOf(BagAdd(B, x), S)
BY DEF BagAdd, IsBagOf

LEMMA BagRemoveOK ==
    ASSUME NEW S, NEW B, IsBagOf(B, S), NEW x
    PROVE  IsBagOf(BagRemove(B, x), S)
BY DEF BagRemove, IsBagOf

LEMMA BagUnionOK ==
    ASSUME NEW S, NEW B, IsBagOf(B, S), NEW T \in SUBSET S
    PROVE  IsBagOf(B (+) SetToBag(T), S)
BY DEF IsBagOf, SetToBag, (+)

LEMMA EmptyBagOK ==
    ASSUME NEW S
    PROVE  IsBagOf(EmptyBag, S)
BY DEF IsBagOf, EmptyBag, SetToBag

\* The copies made so far, after a step.
Grown == copied' = copied \/ \E y \in [by : Nodes, what : Copies] : copied' = Append(copied, y)

\* No copy is forgotten.
LEMMA CopiedGrows ==
    ASSUME CopiedOK, Grown
    PROVE  /\ CopiedOK'
           /\ \A i \in 1..Len(copied) : i \in 1..Len(copied') /\ copied'[i] = copied[i]
<1>1. CASE copied' = copied
  BY <1>1 DEF CopiedOK
<1>2. CASE \E y \in [by : Nodes, what : Copies] : copied' = Append(copied, y)
  BY <1>2 DEF CopiedOK
<1> QED
  BY <1>1, <1>2 DEF Grown

\* What was traced stays traced.
LEMMA TracedGrows ==
    ASSUME CopiedOK, Grown
    PROVE  Traced \subseteq Traced' /\ TracedUpdates \subseteq TracedUpdates'
<1>1. ASSUME NEW x, FromCopy(x) PROVE FromCopy(x)'
  BY <1>1, CopiedGrows DEF FromCopy
<1>2. AnyMessage' = AnyMessage
  OBVIOUS
<1> QED
  BY <1>1, <1>2 DEF Traced, TracedUpdates

\* A larger set of messages allows more streams.
LEMMA BagGrows ==
    ASSUME NEW S, NEW T, S \subseteq T, NEW B, IsBagOf(B, S)
    PROVE  IsBagOf(B, T)
BY DEF IsBagOf

\* The parts of the state that a step does not touch stay traceable.
LEMMA Stays ==
    ASSUME Traceable, Grown
    PROVE  /\ CopiedOK'
           /\ UNCHANGED <<clip, dedup>> => ClipOK'
           /\ UNCHANGED <<updates, current, sending, nextId>> => MonitorOK'
           /\ UNCHANGED <<lastMsg, served>> => ChannelOK'
           /\ UNCHANGED seen => SeenOK'
           /\ UNCHANGED handing => HandingOK'
           /\ UNCHANGED anns => AnnsOK'
           /\ UNCHANGED batches => BatchesOK'
           /\ UNCHANGED net => NetOK'
           /\ UNCHANGED <<peers, faults>> => TableOK'
<1>0. /\ CopiedOK /\ ClipOK /\ MonitorOK /\ ChannelOK /\ SeenOK /\ HandingOK /\ AnnsOK
      /\ BatchesOK /\ NetOK /\ TableOK
  BY DEF Traceable
<1>1. /\ CopiedOK' /\ Traced \subseteq Traced' /\ TracedUpdates \subseteq TracedUpdates'
      /\ \A i \in 1..Len(copied) : i \in 1..Len(copied') /\ copied'[i] = copied[i]
  BY <1>0, CopiedGrows, TracedGrows
<1>2. ASSUME UNCHANGED <<clip, dedup>> PROVE ClipOK'
  <2>1. NeverMixed'
    BY <1>0, <1>1, <1>2 DEF ClipOK, NeverMixed
  <2> QED
    BY <1>0, <1>2, <2>1 DEF ClipOK
<1>3. ASSUME UNCHANGED <<updates, current, sending, nextId>> PROVE MonitorOK'
  BY <1>0, <1>1, <1>3 DEF MonitorOK
<1>4. ASSUME UNCHANGED <<lastMsg, served>> PROVE ChannelOK'
  BY <1>0, <1>1, <1>4 DEF ChannelOK, ServedFifo
<1>5. ASSUME UNCHANGED seen PROVE SeenOK'
  BY <1>0, <1>5 DEF SeenOK
<1>6. ASSUME UNCHANGED handing PROVE HandingOK'
  BY <1>0, <1>1, <1>6, BagGrows DEF HandingOK
<1>7. ASSUME UNCHANGED anns PROVE AnnsOK'
  BY <1>0, <1>1, <1>7, BagGrows DEF AnnsOK
<1>8. ASSUME UNCHANGED batches PROVE BatchesOK'
  BY <1>0, <1>1, <1>8 DEF BatchesOK, BatchOK
<1>9. ASSUME UNCHANGED net PROVE NetOK'
  <2>1. Traffic(Traced) \subseteq Traffic(Traced')
    BY <1>1 DEF Traffic
  <2>2. IsBagOf(net', Traffic(Traced'))
    BY <1>0, <1>9, <2>1, BagGrows DEF NetOK
  <2> QED
    BY <2>2 DEF NetOK, IsBagOf, Traffic, Requests
<1>10. ASSUME UNCHANGED <<peers, faults>> PROVE TableOK'
  BY <1>0, <1>10 DEF TableOK
<1> QED
  BY <1>1, <1>2, <1>3, <1>4, <1>5, <1>6, <1>7, <1>8, <1>9, <1>10

-----------------------------------------------------------------------------
(* The operations the actions are made of. *)

\* What was copied is a copy.
LEMMA CopiedWhat ==
    ASSUME CopiedOK, NEW i \in 1..Len(copied)
    PROVE  copied[i].what \in Copies
<1>1. ASSUME NEW S, copied \in Seq(S) PROVE copied[i] \in S
  BY <1>1
<1>2. copied[i] \in [by : Nodes, what : Copies]
  BY <1>1 DEF CopiedOK
<1> QED
  BY <1>2

\* What is known of a traced message.
LEMMA TracedMessage ==
    ASSUME CopiedOK, NEW msg \in Traced
    PROVE  /\ msg \in AnyMessage /\ msg.id \in Nodes \X Nat /\ msg.hash \in Contents
           /\ Author(msg.id) \in Nodes
           /\ \E i \in 1..Len(copied) :
                 /\ copied[i].what \in Copies /\ msg.hash \in Range(copied[i].what)
                 /\ msg.batch \in {<<>>, copied[i].what}
                 /\ msg.batch = <<>> => Range(copied[i].what) = {msg.hash}
<1>1. msg \in AnyMessage /\ FromCopy(msg)
  BY DEF Traced
<1>2. msg.id \in Nodes \X Nat /\ msg.hash \in Contents
  BY <1>1 DEF AnyMessage
<1>3. Author(msg.id) \in Nodes
  BY <1>2 DEF Author
<1>4. \A i \in 1..Len(copied) : copied[i].what \in Copies
  BY CopiedWhat
<1> QED
  BY <1>1, <1>2, <1>3, <1>4 DEF FromCopy

\* A step that copies nothing leaves the traced messages as they are.
LEMMA TracedSame ==
    ASSUME UNCHANGED copied
    PROVE  /\ Traced' = Traced /\ TracedUpdates' = TracedUpdates
           /\ \A h : ServedFifo(h)' = ServedFifo(h)
           /\ \A b, items : BatchOK(b, items)' = BatchOK(b, items)
           /\ Grown
<1>1. \A x : FromCopy(x)' = FromCopy(x)
  BY DEF FromCopy
<1>2. AnyMessage' = AnyMessage
  OBVIOUS
<1>3. Traced' = Traced /\ TracedUpdates' = TracedUpdates
  BY <1>1, <1>2 DEF Traced, TracedUpdates
<1> QED
  BY <1>3 DEF ServedFifo, BatchOK, Grown

\* Send's first half files a traced message.
LEMMA UpdateLastMsgOK ==
    ASSUME Traceable, UNCHANGED copied, NEW n \in Nodes, NEW msg \in Traced, UpdateLastMsg(n, msg)
    PROVE  ChannelOK'
<1>0. CopiedOK /\ ChannelOK
  BY DEF Traceable
<1>1. msg.id \in Nodes \X Nat
  BY <1>0, TracedMessage
<1>2. lastMsg' \in [Nodes -> Traced \cup {NoMsg}]
  BY <1>0 DEF ChannelOK, UpdateLastMsg
<1>3. /\ DOMAIN served' = Nodes
      /\ \A m \in Nodes \ {n} : served'[m] = served[m]
      /\ served'[n] = IF msg.mime = "path" THEN FifoAdd(served[n], msg.id, msg, HistorySize) ELSE served[n]
  BY <1>0 DEF ChannelOK, UpdateLastMsg
<1>4. ServedFifo(served[n])
  BY <1>0 DEF ChannelOK
<1>5. ServedFifo(FifoAdd(served[n], msg.id, msg, HistorySize))
  <2>1. AddedTo(FifoAdd(served[n], msg.id, msg, HistorySize), served[n], Nodes \X Nat, msg.id, msg, HistorySize)
    BY <1>1, <1>4, FifoAddOK, LimitsAssumption DEF ServedFifo
  <2> QED
    BY <1>4, <2>1 DEF ServedFifo, AddedTo, FifoHas
<1>6. \A m \in Nodes : ServedFifo(served'[m])
  BY <1>0, <1>3, <1>4, <1>5 DEF ChannelOK
<1> QED
  BY <1>2, <1>3, <1>6, TracedSame DEF ChannelOK, ServedFifo

\* What a node serves is traced.
LEMMA GetOK ==
    ASSUME Traceable, NEW n \in Nodes, NEW id
    PROVE  Get(n, id) \in Traced \cup {NoMsg}
BY DEF Traceable, ChannelOK, ServedFifo, Get, FifoHas

\* An item of a batch joins items of the same copy.
LEMMA WithItemOK ==
    ASSUME Traceable, NEW n \in Nodes, NEW msg \in Traced, msg.batch # <<>>,
           NEW data \in {msg.hash, NoData}
    PROVE  BatchOK(msg.batch, WithItem(n, msg, data))
<1>0. CopiedOK /\ BatchesOK
  BY DEF Traceable
<1>1. PICK i \in 1..Len(copied) : msg.hash \in Range(copied[i].what) /\ msg.batch = copied[i].what
  BY <1>0, TracedMessage
<1>2. Range(Items(n, msg.batch)) \subseteq Range(msg.batch) \cup {NoData}
  BY <1>0 DEF BatchesOK, BatchOK, Items, Range
<1>3. Range(WithItem(n, msg, data)) \subseteq Range(Items(n, msg.batch)) \cup {data}
  BY DEF WithItem, Range
<1> QED
  BY <1>1, <1>2, <1>3 DEF BatchOK

\* Add keeps the batches apart.
LEMMA AddToBatchOK ==
    ASSUME Traceable, UNCHANGED copied, NEW n \in Nodes, NEW msg \in Traced, msg.batch # <<>>,
           NEW data \in {msg.hash, NoData}, AddToBatch(n, msg, data)
    PROVE  BatchesOK'
<1>0. BatchesOK
  BY DEF Traceable
<1>1. BatchOK(msg.batch, WithItem(n, msg, data))
  BY WithItemOK
<1>2. /\ DOMAIN batches' = Nodes
      /\ \A m \in Nodes \ {n} : batches'[m] = batches[m]
      /\ batches'[n] = IF Completes(n, msg)
                       THEN Restrict(batches[n], DOMAIN batches[n] \ {msg.batch})
                       ELSE [b \in DOMAIN batches[n] \cup {msg.batch} |->
                               IF b = msg.batch THEN WithItem(n, msg, data) ELSE batches[n][b]]
  BY <1>0 DEF BatchesOK, AddToBatch
<1>3. ASSUME NEW b \in DOMAIN batches'[n] PROVE BatchOK(b, batches'[n][b])
  BY <1>0, <1>1, <1>2, <1>3 DEF BatchesOK, Restrict
<1>4. \A m \in Nodes : \A b \in DOMAIN batches'[m] : BatchOK(b, batches'[m][b])
  BY <1>0, <1>2, <1>3 DEF BatchesOK
<1> QED
  BY <1>2, <1>4, TracedSame DEF BatchesOK, BatchOK

\* A nack leaves no data behind.
LEMMA NackOK ==
    ASSUME Traceable, UNCHANGED copied, NEW n \in Nodes, NEW msg \in Traced, Nack(n, msg)
    PROVE  BatchesOK'
<1>1. ASSUME UNCHANGED batches PROVE BatchesOK'
  BY <1>1, Stays, TracedSame
<1> QED
  BY <1>1, AddToBatchOK DEF Nack

\* Whatever part of one copy is written, the clipboard is not mixed.
LEMMA WriteOK ==
    ASSUME Traceable, UNCHANGED copied, NEW n \in Nodes, NEW data, Write(n, data),
           NEW i \in 1..Len(copied), data \subseteq Range(copied[i].what)
    PROVE  ClipOK'
<1>0. CopiedOK /\ ClipOK
  BY DEF Traceable
<1>1. data \subseteq Contents
  <2>1. copied[i].what \in Copies
    BY <1>0, CopiedWhat
  <2> QED
    BY <2>1, CopyOK
<1>2. MarkOf(data) \in {<<>>} \cup {<<c>> : c \in Texts}
  <2>1. ASSUME \E c \in Texts : data = {c}
        PROVE  (CHOOSE c \in Texts : data = {c}) \in Texts
    BY <2>1
  <2> QED
    BY <2>1 DEF MarkOf
<1>3. clip' \in [Nodes -> SUBSET Contents] /\ clip' = [clip EXCEPT ![n] = data]
  BY <1>0, <1>1 DEF ClipOK, Write
<1>4. dedup' \in [Nodes -> Copies \cup {<<>>} \cup {<<c>> : c \in Texts}]
  BY <1>0, <1>2 DEF ClipOK, Write
<1>5. NeverMixed'
  BY <1>0, <1>3 DEF ClipOK, NeverMixed
<1> QED
  BY <1>3, <1>4, <1>5 DEF ClipOK

\* Broadcast announces the message to peers, and counts the ones that failed.
LEMMA BroadcastOK ==
    ASSUME Traceable, UNCHANGED copied, NEW n \in Nodes, NEW msg \in Traced, Broadcast(n, msg)
    PROVE  NetOK' /\ TableOK'
<1>0. NetOK /\ TableOK
  BY DEF Traceable
<1>1. PICK failed \in SUBSET (peers[n] \ {Author(msg.id)}) :
        /\ faults + Cardinality(failed) <= MaxFaults
        /\ faults' = faults + Cardinality(failed)
        /\ peers' = [peers EXCEPT ![n] = @ \ failed]
        /\ net' = net (+) SetToBag({Announcement(p, msg) :
                             p \in peers[n] \ (failed \cup {Author(msg.id)})})
  BY DEF Broadcast
<1>2. peers[n] \subseteq Nodes
  BY <1>0 DEF TableOK
<1>3. Cardinality(failed) \in Nat
  <2>1. failed \subseteq Nodes /\ IsFiniteSet(Nodes)
    BY <1>2, NodesAssumption
  <2> QED
    BY <2>1, FS_Subset, FS_CardinalityType
<1>4. TableOK'
  BY <1>0, <1>1, <1>3, LimitsAssumption DEF TableOK
<1>5. {Announcement(p, msg) : p \in peers[n] \ (failed \cup {Author(msg.id)})} \in SUBSET Traffic(Traced)
  BY <1>2 DEF Announcement, Traffic
<1>6. IsBagOf(net', Traffic(Traced))
  BY <1>0, <1>1, <1>5, BagUnionOK DEF NetOK
<1>7. Traffic(Traced)' = Traffic(Traced)
  BY TracedSame DEF Traffic, Requests
<1> QED
  BY <1>4, <1>6, <1>7 DEF NetOK, IsBagOf

\* What the monitor does with a message leaves everything traceable.
LEMMA HandleMessageOK ==
    ASSUME Traceable, NEW n \in Nodes, NEW msg \in Traced, HandleMessage(n, msg)
    PROVE  ClipOK' /\ BatchesOK' /\ NetOK' /\ TableOK'
<1>0. CopiedOK /\ UNCHANGED copied /\ Grown
  BY TracedSame DEF Traceable, HandleMessage
<1>1. NetOK' /\ TableOK'
  BY <1>0, BroadcastOK DEF HandleMessage
<1>2. PICK i \in 1..Len(copied) :
         msg.hash \in Range(copied[i].what) /\ msg.batch \in {<<>>, copied[i].what}
  BY <1>0, TracedMessage
<1>3. ASSUME UNCHANGED <<clip, dedup>> PROVE ClipOK'
  BY <1>0, <1>3, Stays
<1>4. ASSUME UNCHANGED batches PROVE BatchesOK'
  BY <1>0, <1>4, Stays
<1>5. CASE Author(msg.id) = n
  BY <1>1, <1>3, <1>4, <1>5 DEF HandleMessage
<1>6. CASE Author(msg.id) # n /\ Len(msg.batch) > 1
  <2>1. msg.batch # <<>> /\ msg.batch = copied[i].what
    BY <1>2, <1>6
  <2>2. BatchesOK'
    BY <1>0, <1>6, <2>1, AddToBatchOK DEF HandleMessage
  <2>3. Join(WithItem(n, msg, msg.hash)) \subseteq Range(copied[i].what)
    BY <2>1, WithItemOK DEF BatchOK, Join
  <2>4. Write(n, Join(WithItem(n, msg, msg.hash))) \/ UNCHANGED <<clip, dedup>>
    BY <1>6 DEF HandleMessage
  <2>5. ClipOK'
    BY <1>0, <1>3, <2>3, <2>4, WriteOK
  <2> QED
    BY <1>1, <2>2, <2>5
<1>7. CASE Author(msg.id) # n /\ ~(Len(msg.batch) > 1)
  <2>1. Write(n, {msg.hash}) /\ UNCHANGED batches
    BY <1>7 DEF HandleMessage
  <2>2. ClipOK'
    BY <1>0, <1>2, <2>1, WriteOK
  <2> QED
    BY <1>1, <1>4, <2>1, <2>2
<1> QED
  BY <1>5, <1>6, <1>7

-----------------------------------------------------------------------------
(* Every action. *)

\* Nothing has been copied, and there is nothing to trace.
LEMMA InitTraceable == Init => Traceable
<1> SUFFICES ASSUME Init PROVE Traceable
  OBVIOUS
<1> USE DEF Init
<1>1. CopiedOK /\ TableOK
  BY MeshAssumption, LimitsAssumption DEF CopiedOK, TableOK
<1>2. ClipOK
  BY DEF ClipOK, NeverMixed
<1>3. MonitorOK
  BY DEF MonitorOK
<1>4. \A K : FifoNew.order \in Seq(K) /\ FifoOK(FifoNew, HistorySize) /\ DOMAIN FifoNew.data = {}
  BY LimitsAssumption DEF FifoNew, FifoOK, IsInjective, Range
<1>5. ChannelOK /\ SeenOK
  BY <1>4 DEF ChannelOK, ServedFifo, SeenOK
<1>6. HandingOK /\ AnnsOK /\ NetOK
  BY EmptyBagOK DEF HandingOK, AnnsOK, NetOK
<1>7. BatchesOK
  BY DEF BatchesOK
<1> QED
  BY <1>1, <1>2, <1>3, <1>5, <1>6, <1>7 DEF Traceable

\* A copy is the source of its own updates.
LEMMA CopyTraceable ==
    ASSUME Traceable, NEW n \in Nodes, NEW s \in Copies, Copy(n, s)
    PROVE  Traceable'
<1> USE DEF chanVars, updateVars
<1>0. CopiedOK /\ ClipOK /\ MonitorOK
  BY DEF Traceable
<1>1. s \in Seq(Contents) /\ Range(s) \subseteq Contents
  BY CopyOK
<1> DEFINE y == [by |-> n, what |-> s]
<1>2. copied' = Append(copied, y) /\ y \in [by : Nodes, what : Copies]
  BY DEF Copy
<1>3. Grown
  BY <1>2 DEF Grown
<1>4. Len(copied) + 1 \in 1..Len(copied') /\ copied'[Len(copied) + 1].what = s
  BY <1>0, <1>2 DEF CopiedOK
<1>5. clip' = [clip EXCEPT ![n] = Range(s)]
  BY DEF Copy
<1>6. ClipOK'
  <2>1. clip' \in [Nodes -> SUBSET Contents]
    BY <1>0, <1>1, <1>5 DEF ClipOK
  <2>2. dedup' \in [Nodes -> Copies \cup {<<>>} \cup {<<c>> : c \in Texts}]
    BY <1>0 DEF ClipOK, Copy
  <2>3. ASSUME NEW m \in Nodes
        PROVE  clip'[m] = {} \/ \E i \in 1..Len(copied') : clip'[m] \subseteq Range(copied'[i].what)
    <3>1. CASE m = n
      BY <1>0, <1>4, <1>5, <3>1 DEF ClipOK
    <3>2. CASE m # n
      <4>1. clip'[m] = clip[m]
        BY <1>0, <1>5, <3>2 DEF ClipOK
      <4> QED
        BY <1>0, <1>3, <4>1, CopiedGrows DEF ClipOK, NeverMixed
    <3> QED
      BY <3>1, <3>2
  <2>4. NeverMixed'
    BY <2>3 DEF NeverMixed
  <2> QED
    BY <2>1, <2>2, <2>4 DEF ClipOK
<1>7. MonitorOK'
  <2>1. TracedUpdates \subseteq TracedUpdates' /\ Traced \subseteq Traced'
    BY <1>0, <1>3, TracedGrows
  <2>2. ASSUME NEW i \in 1..Len(s) PROVE Updates(s)[i] \in TracedUpdates'
    <3>1. /\ Updates(s)[i] = [hash |-> s[i], batch |-> IF s[i] \in Files THEN s ELSE <<>>]
          /\ s[i] \in Contents /\ s[i] \in Range(s)
      BY <1>1 DEF Updates, Range
    <3>2. s[i] \notin Files => Range(s) = {s[i]}
      <4>1. s \in Seq(Files) \/ s \in [{1} -> Texts]
        BY ContentAssumption
      <4>2. ASSUME s \in [{1} -> Texts] PROVE Range(s) = {s[1]} /\ i = 1
        BY <1>1, <4>2 DEF Range
      <4> QED
        BY <1>1, <4>1, <4>2
    <3>3. FromCopy(Updates(s)[i])'
      BY <1>4, <3>1, <3>2, CopyOK DEF FromCopy
    <3> QED
      BY <3>1, <3>3 DEF TracedUpdates
  <2>3. Updates(s) \in Seq(TracedUpdates')
    BY <1>1, <2>2 DEF Updates
  <2>4. updates \in [Nodes -> Seq(TracedUpdates')]
    <3>1. Seq(TracedUpdates) \subseteq Seq(TracedUpdates')
      BY <2>1
    <3> QED
      BY <1>0, <3>1 DEF MonitorOK
  <2>5. updates[n] \o Updates(s) \in Seq(TracedUpdates')
    BY <2>3, <2>4
  <2>6. updates' \in [Nodes -> Seq(TracedUpdates')]
    <3>1. updates' = updates \/ updates' = [updates EXCEPT ![n] = @ \o Updates(s)]
      BY DEF Copy
    <3> QED
      BY <2>4, <2>5, <3>1
  <2> QED
    BY <1>0, <2>1, <2>6 DEF MonitorOK, Copy
<1> QED
  BY <1>3, <1>6, <1>7, Stays DEF Traceable, Copy

\* What a monitor takes from its updates is traced, and so is the message made of it.
LEMMA NextMessageOK ==
    ASSUME Traceable, NEW n \in Nodes, updates[n] # <<>>
    PROVE  NextMessage(n) \in Traced /\ Tail(updates[n]) \in Seq(TracedUpdates)
<1>1. updates[n] \in Seq(TracedUpdates) /\ nextId[n] \in Nat
  BY DEF Traceable, MonitorOK
<1>2. Head(updates[n]) \in TracedUpdates /\ Tail(updates[n]) \in Seq(TracedUpdates)
  BY <1>1
<1> DEFINE u == Head(updates[n])
<1>3. u.hash \in Contents /\ u.batch \in Copies \cup {<<>>} /\ FromCopy(u)
  BY <1>2 DEF TracedUpdates
<1>4. NextMessage(n) = [id |-> <<n, nextId[n]>>, mime |-> Mime(u.hash), hash |-> u.hash, batch |-> u.batch]
  BY DEF NextMessage
<1>5. NextMessage(n) \in AnyMessage
  BY <1>1, <1>3, <1>4 DEF AnyMessage, Mime
<1>6. FromCopy(NextMessage(n))
  BY <1>3, <1>4 DEF FromCopy
<1> QED
  BY <1>2, <1>5, <1>6 DEF Traced

\* The update goroutine.
LEMMA UpdateTraceable ==
    ASSUME Traceable, NEW n \in Nodes, SkipUpdate(n) \/ SendUpdate(n)
    PROVE  Traceable'
<1> USE DEF chanVars, updateVars, historyVars
<1>0. CopiedOK /\ MonitorOK /\ UNCHANGED copied /\ Grown
  BY TracedSame DEF Traceable, SkipUpdate, SendUpdate
<1>1. Traced' = Traced /\ TracedUpdates' = TracedUpdates
  BY <1>0, TracedSame
<1>2. NextMessage(n) \in Traced /\ Tail(updates[n]) \in Seq(TracedUpdates)
  BY NextMessageOK DEF SkipUpdate, SendUpdate
<1>3. updates' \in [Nodes -> Seq(TracedUpdates)]
  BY <1>0, <1>2 DEF MonitorOK, SkipUpdate, SendUpdate
<1>4. CASE SkipUpdate(n)
  <2>1. MonitorOK'
    BY <1>0, <1>1, <1>3, <1>4 DEF MonitorOK, SkipUpdate
  <2> QED
    BY <1>0, <1>4, <2>1, Stays DEF Traceable, SkipUpdate
<1>5. CASE SendUpdate(n)
  <2>1. /\ current' = [current EXCEPT ![n] = NextMessage(n)]
        /\ \/ UpdateLastMsg(n, NextMessage(n)) /\ sending' = [sending EXCEPT ![n] = NextMessage(n)]
           \/ UNCHANGED <<lastMsg, served, sending>>
        /\ nextId' = [nextId EXCEPT ![n] = @ + 1]
    BY <1>5 DEF SendUpdate
  <2>2. MonitorOK'
    <3>1. current' \in [Nodes -> Traced \cup {NoMsg}]
      BY <1>0, <1>2, <2>1 DEF MonitorOK
    <3>2. sending' \in [Nodes -> Traced \cup {NoMsg}]
      BY <1>0, <1>2, <2>1 DEF MonitorOK
    <3>3. nextId' \in [Nodes -> Nat]
      BY <1>0, <2>1 DEF MonitorOK
    <3> QED
      BY <1>1, <1>3, <3>1, <3>2, <3>3 DEF MonitorOK
  <2>3. ChannelOK'
    BY <1>0, <1>2, <2>1, UpdateLastMsgOK, Stays
  <2> QED
    BY <1>0, <1>5, <2>2, <2>3, Stays DEF Traceable, SendUpdate
<1> QED
  BY <1>4, <1>5

\* The monitor's select loop.
LEMMA TakeTraceable ==
    ASSUME Traceable, NEW n \in Nodes, TakeUpdate(n) \/ TakeReceived(n)
    PROVE  Traceable'
<1>0. MonitorOK /\ HandingOK
  BY DEF Traceable
<1>1. PICK msg \in Traced :
        /\ HandleMessage(n, msg)
        /\ \/ sending' = [sending EXCEPT ![n] = NoMsg] /\ UNCHANGED handing
           \/ handing' = [handing EXCEPT ![n] = BagRemove(@, msg)] /\ UNCHANGED sending
  <2>1. CASE TakeUpdate(n)
    <3>1. sending[n] \in Traced
      BY <1>0, <2>1 DEF MonitorOK, TakeUpdate
    <3> QED
      BY <2>1, <3>1 DEF TakeUpdate
  <2>2. CASE TakeReceived(n)
    <3>1. DOMAIN handing[n] \subseteq Traced
      BY <1>0 DEF HandingOK, IsBagOf
    <3> QED
      BY <2>2, <3>1 DEF TakeReceived
  <2> QED
    BY <2>1, <2>2
<1>2. UNCHANGED <<updates, lastMsg, served, current, nextId, seen, anns, copied>>
  BY <1>1 DEF HandleMessage, chanVars
<1>3. ClipOK' /\ BatchesOK' /\ NetOK' /\ TableOK'
  BY <1>1, HandleMessageOK
<1>4. Traced' = Traced /\ TracedUpdates' = TracedUpdates /\ Grown
  BY <1>2, TracedSame
<1>5. MonitorOK'
  BY <1>0, <1>1, <1>2, <1>4 DEF MonitorOK
<1>6. HandingOK'
  BY <1>0, <1>1, <1>4, BagRemoveOK DEF HandingOK
<1> QED
  BY <1>2, <1>3, <1>4, <1>5, <1>6, Stays DEF Traceable

\* What a stream carries is traced, and a request names a message of its
\* receiver.
LEMMA StreamOK ==
    ASSUME NetOK, NEW e \in DOMAIN net
    PROVE  /\ e.kind \in {"announce", "message"} => e.to \in Nodes /\ e.msg \in Traced
           /\ e.kind = "request" => e \in Requests /\ e.from \in Nodes /\ e.to \in Nodes
           /\ e \in Traffic(Traced)
<1>1. e \in Traffic(Traced)
  BY DEF NetOK, IsBagOf
<1>2. CASE e \in [kind : {"announce", "message"}, to : Nodes, msg : Traced]
  BY <1>1, <1>2
<1>3. CASE e \in Requests
  BY <1>1, <1>3 DEF Requests
<1> QED
  BY <1>1, <1>2, <1>3 DEF Traffic

\* A stream that ends, and one that replaces it, leave traced streams.
LEMMA NetStep ==
    ASSUME NetOK, UNCHANGED copied, NEW e,
           \/ net' = BagRemove(net, e)
           \/ \E x \in Traffic(Traced) : net' = BagAdd(BagRemove(net, e), x)
           \/ \E x \in Traffic(Traced) : net' = BagAdd(net, x)
    PROVE  NetOK'
<1>1. IsBagOf(net, Traffic(Traced))
  BY DEF NetOK
<1>2. IsBagOf(BagRemove(net, e), Traffic(Traced))
  BY <1>1, BagRemoveOK
<1>3. IsBagOf(net', Traffic(Traced))
  BY <1>1, <1>2, BagAddOK
<1>4. Traffic(Traced)' = Traffic(Traced)
  BY TracedSame DEF Traffic, Requests
<1> QED
  BY <1>3, <1>4 DEF NetOK, IsBagOf

\* An announce arrives.
LEMMA ReceiveAnnounceTraceable ==
    ASSUME Traceable, NEW e \in Streams("announce"), ReceiveAnnounce(e)
    PROVE  Traceable'
<1> USE DEF clipVars, chanVars, updateVars, historyVars
<1>0. CopiedOK /\ SeenOK /\ AnnsOK /\ NetOK /\ UNCHANGED copied
  BY DEF Traceable, ReceiveAnnounce
<1>1. e.to \in Nodes /\ e.msg \in Traced /\ e.msg.hash \in Contents
  BY <1>0, StreamOK, TracedMessage DEF Streams
<1>2. Traced' = Traced /\ Grown
  BY <1>0, TracedSame
<1>3. NetOK'
  BY <1>0, NetStep DEF ReceiveAnnounce
<1> DEFINE h == FifoAdd(seen[e.to], e.msg.hash, e.msg.hash, HistorySize)
<1>4. h.order \in Seq(Contents) /\ FifoOK(h, HistorySize)
  <2>1. AddedTo(h, seen[e.to], Contents, e.msg.hash, e.msg.hash, HistorySize)
    BY <1>0, <1>1, FifoAddOK, LimitsAssumption DEF SeenOK
  <2> HIDE DEF h
  <2> QED
    BY <2>1 DEF AddedTo
<1>5. \/ UNCHANGED <<seen, anns>>
      \/ /\ seen' = [seen EXCEPT ![e.to] = h]
         /\ anns' = [anns EXCEPT ![e.to] = BagAdd(@, e.msg)]
  BY DEF ReceiveAnnounce
<1> HIDE DEF h
<1>6. SeenOK'
  BY <1>0, <1>1, <1>4, <1>5 DEF SeenOK
<1>7. AnnsOK'
  BY <1>0, <1>1, <1>2, <1>5, BagAddOK DEF AnnsOK
<1> QED
  BY <1>2, <1>3, <1>6, <1>7, Stays DEF Traceable, ReceiveAnnounce

\* An announce is handled: refused, requested, or lost with its stream.
LEMMA HandleAnnounceTraceable ==
    ASSUME Traceable, NEW n \in Nodes, NEW an \in DOMAIN anns[n],
           IgnoreAnnounce(n, an) \/ RequestMessage(n, an) \/ RequestFails(n, an)
    PROVE  Traceable'
<1> USE DEF clipVars, chanVars, updateVars, historyVars
<1>0. CopiedOK /\ AnnsOK /\ NetOK /\ TableOK /\ UNCHANGED copied
  BY DEF Traceable, IgnoreAnnounce, RequestMessage, RequestFails
<1>1. an \in Traced /\ an.id \in Nodes \X Nat /\ Author(an.id) \in Nodes
  BY <1>0, TracedMessage DEF AnnsOK, IsBagOf
<1>2. Traced' = Traced /\ Grown
  BY <1>0, TracedSame
<1>3. anns' = [anns EXCEPT ![n] = BagRemove(@, an)]
  BY DEF IgnoreAnnounce, RequestMessage, RequestFails
<1>4. AnnsOK'
  BY <1>0, <1>2, <1>3, BagRemoveOK DEF AnnsOK
<1>5. CASE IgnoreAnnounce(n, an)
  <2>1. BatchesOK'
    BY <1>0, <1>1, <1>2, <1>5, NackOK, Stays DEF IgnoreAnnounce
  <2> QED
    BY <1>2, <1>4, <1>5, <2>1, Stays DEF Traceable, IgnoreAnnounce
<1>6. CASE RequestMessage(n, an)
  <2>1. Request(n, Author(an.id), an.id) \in Traffic(Traced)
    BY <1>1 DEF Request, Traffic, Requests
  <2>2. NetOK'
    BY <1>0, <1>6, <2>1, NetStep DEF RequestMessage
  <2> QED
    BY <1>2, <1>4, <1>6, <2>2, Stays DEF Traceable, RequestMessage
<1>7. CASE RequestFails(n, an)
  <2>1. TableOK'
    BY <1>0, <1>7, LimitsAssumption DEF TableOK, RequestFails
  <2> QED
    BY <1>2, <1>4, <1>7, <2>1, Stays DEF Traceable, RequestFails
<1> QED
  BY <1>5, <1>6, <1>7

\* A request is answered, ignored, or fails.
LEMMA ServeTraceable ==
    ASSUME Traceable, NEW e \in Streams("request"), ReceiveRequest(e) \/ ServeFails(e)
    PROVE  Traceable'
<1> USE DEF clipVars, chanVars, updateVars, historyVars
<1>0. CopiedOK /\ NetOK /\ TableOK /\ UNCHANGED copied
  BY DEF Traceable, ReceiveRequest, ServeFails
<1>1. e.to \in Nodes /\ e.from \in Nodes
  BY <1>0, StreamOK DEF Streams
<1>2. Grown
  BY <1>0, TracedSame
<1>3. CASE ReceiveRequest(e)
  <2>1. ASSUME Get(e.to, e.id) # NoMsg PROVE Content(e.from, Get(e.to, e.id)) \in Traffic(Traced)
    <3>1. Get(e.to, e.id) \in Traced
      BY <1>1, <2>1, GetOK
    <3> QED
      BY <1>1, <3>1 DEF Content, Traffic
  <2>2. NetOK'
    BY <1>0, <1>3, <2>1, NetStep DEF ReceiveRequest
  <2> QED
    BY <1>2, <1>3, <2>2, Stays DEF Traceable, ReceiveRequest
<1>4. CASE ServeFails(e)
  <2>1. TableOK' /\ NetOK'
    BY <1>0, <1>4, LimitsAssumption, NetStep DEF TableOK, ServeFails
  <2> QED
    BY <1>2, <1>4, <2>1, Stays DEF Traceable, ServeFails
<1> QED
  BY <1>3, <1>4

\* A message arrives, or its payload cannot be read or stored.
LEMMA ReceiveMessageTraceable ==
    ASSUME Traceable, NEW e \in Streams("message"), ReceiveMessage(e) \/ ReceiveFails(e)
    PROVE  Traceable'
<1> USE DEF clipVars, chanVars, updateVars, historyVars
<1>0. CopiedOK /\ HandingOK /\ NetOK /\ TableOK /\ UNCHANGED copied
  BY DEF Traceable, ReceiveMessage, ReceiveFails
<1>1. e.to \in Nodes /\ e.msg \in Traced
  BY <1>0, StreamOK DEF Streams
<1>2. Traced' = Traced /\ Grown
  BY <1>0, TracedSame
<1>3. NetOK'
  BY <1>0, NetStep DEF ReceiveMessage, ReceiveFails
<1>4. CASE ReceiveMessage(e)
  <2>1. \/ /\ UpdateLastMsg(e.to, e.msg)
           /\ handing' = [handing EXCEPT ![e.to] = BagAdd(@, e.msg)]
        \/ UNCHANGED <<lastMsg, served, handing>>
    BY <1>4 DEF ReceiveMessage
  <2>2. ChannelOK'
    BY <1>0, <1>1, <1>2, <2>1, UpdateLastMsgOK, Stays
  <2>3. HandingOK'
    BY <1>0, <1>1, <1>2, <2>1, BagAddOK DEF HandingOK
  <2> QED
    BY <1>2, <1>3, <1>4, <2>2, <2>3, Stays DEF Traceable, ReceiveMessage
<1>5. CASE ReceiveFails(e)
  <2>1. TableOK'
    BY <1>0, <1>5, LimitsAssumption DEF TableOK, ReceiveFails
  <2>2. BatchesOK'
    BY <1>0, <1>1, <1>5, NackOK DEF ReceiveFails
  <2> QED
    BY <1>2, <1>3, <1>5, <2>1, <2>2, Stays DEF Traceable, ReceiveFails
<1> QED
  BY <1>4, <1>5

\* A batch expires.
LEMMA ExpireTraceable ==
    ASSUME Traceable, NEW n \in Nodes, NEW b \in DOMAIN batches[n], ExpireBatch(n, b)
    PROVE  Traceable'
<1> USE DEF clipVars, chanVars, updateVars, historyVars
<1>0. BatchesOK /\ TableOK /\ UNCHANGED copied
  BY DEF Traceable, ExpireBatch
<1>1. TableOK'
  BY <1>0, LimitsAssumption DEF TableOK, ExpireBatch
<1>2. /\ DOMAIN batches' = Nodes
      /\ \A m \in Nodes : \A a \in DOMAIN batches'[m] : BatchOK(a, batches'[m][a])
  BY <1>0 DEF BatchesOK, ExpireBatch, Restrict
<1>3. BatchesOK'
  BY <1>0, <1>2, TracedSame DEF BatchesOK, BatchOK
<1> QED
  BY <1>0, <1>1, <1>3, TracedSame, Stays DEF Traceable, ExpireBatch

\* Every step leaves everything traceable.
LEMMA NextTraceable == Traceable /\ [Next]_vars => Traceable'
<1> SUFFICES ASSUME Traceable, [Next]_vars PROVE Traceable'
  OBVIOUS
<1>1. ASSUME NEW n \in Nodes, NEW s \in Copies, Copy(n, s) PROVE Traceable'
  BY <1>1, CopyTraceable
<1>2. ASSUME NEW n \in Nodes, SkipUpdate(n) \/ SendUpdate(n) PROVE Traceable'
  BY <1>2, UpdateTraceable
<1>3. ASSUME NEW n \in Nodes, TakeUpdate(n) \/ TakeReceived(n) PROVE Traceable'
  BY <1>3, TakeTraceable
<1>4. ASSUME NEW n \in Nodes, NEW an \in DOMAIN anns[n],
             IgnoreAnnounce(n, an) \/ RequestMessage(n, an) \/ RequestFails(n, an)
      PROVE  Traceable'
  BY <1>4, HandleAnnounceTraceable
<1>5. ASSUME NEW e \in Streams("announce"), ReceiveAnnounce(e) PROVE Traceable'
  BY <1>5, ReceiveAnnounceTraceable
<1>6. ASSUME NEW e \in Streams("request"), ReceiveRequest(e) \/ ServeFails(e) PROVE Traceable'
  BY <1>6, ServeTraceable
<1>7. ASSUME NEW e \in Streams("message"), ReceiveMessage(e) \/ ReceiveFails(e) PROVE Traceable'
  BY <1>7, ReceiveMessageTraceable
<1>8. ASSUME NEW n \in Nodes, NEW b \in DOMAIN batches[n], ExpireBatch(n, b) PROVE Traceable'
  BY <1>8, ExpireTraceable
<1>9. CASE UNCHANGED vars
  BY <1>9, TracedSame, Stays
     DEF vars, clipVars, chanVars, updateVars, historyVars, Traceable
<1> QED
  BY <1>1, <1>2, <1>3, <1>4, <1>5, <1>6, <1>7, <1>8, <1>9 DEF Next, Progress, Fault

\* Traceability is strong enough for the types.
LEMMA TraceableTypes == Traceable => TypeOK
<1> SUFFICES ASSUME Traceable PROVE TypeOK
  OBVIOUS
<1>0. /\ CopiedOK /\ ClipOK /\ MonitorOK /\ ChannelOK /\ SeenOK /\ HandingOK /\ AnnsOK
      /\ BatchesOK /\ NetOK /\ TableOK
  BY DEF Traceable
<1>1. Traced \subseteq AnyMessage
  BY DEF Traced
<1>2. ASSUME NEW n \in Nodes
      PROVE  /\ \A i \in DOMAIN updates[n] : updates[n][i].hash \in Contents
             /\ current[n] \in AnyMessage \cup {NoMsg}
             /\ sending[n] \in AnyMessage \cup {NoMsg}
             /\ nextId[n] \in Nat
  <2>1. updates[n] \in Seq(TracedUpdates)
    BY <1>0 DEF MonitorOK
  <2>2. \A i \in DOMAIN updates[n] : updates[n][i] \in TracedUpdates
    BY <2>1
  <2>3. \A u \in TracedUpdates : u.hash \in Contents
    BY DEF TracedUpdates
  <2> QED
    BY <1>0, <1>1, <2>2, <2>3 DEF MonitorOK
<1>3. ASSUME NEW n \in Nodes
      PROVE  /\ lastMsg[n] \in AnyMessage \cup {NoMsg}
             /\ Range(served[n].data) \subseteq AnyMessage
             /\ Range(seen[n].order) \subseteq Contents
  BY <1>0, <1>1 DEF ChannelOK, ServedFifo, SeenOK, Range
<1>4. ASSUME NEW n \in Nodes
      PROVE  IsBagOf(handing[n], AnyMessage) /\ IsBagOf(anns[n], AnyMessage)
  BY <1>0, <1>1, BagGrows DEF HandingOK, AnnsOK
<1>5. ASSUME NEW n \in Nodes, NEW b \in DOMAIN batches[n]
      PROVE  b \in Copies /\ Range(batches[n][b]) \subseteq Contents \cup {NoData}
  <2>1. PICK i \in 1..Len(copied) : b = copied[i].what
    BY <1>0 DEF BatchesOK, BatchOK
  <2>2. b \in Copies
    BY <1>0, <2>1, CopiedWhat
  <2> QED
    BY <1>0, <2>2, CopyOK DEF BatchesOK, BatchOK
<1>6. /\ \A e \in Streams("announce") \cup Streams("message") : e.to \in Nodes /\ e.msg \in AnyMessage
      /\ \A e \in Streams("request") : e.from \in Nodes /\ e.to = Author(e.id)
  BY <1>0, <1>1, StreamOK DEF Streams, Requests
<1> QED
  BY <1>0, <1>2, <1>3, <1>4, <1>5, <1>6 DEF TypeOK, ClipOK, TableOK

\* Every node's state and every stream in flight keep their types, for any
\* network, any copies and any faults.
THEOREM ClipSyncTypeOK == Spec => []TypeOK
BY InitTraceable, NextTraceable, TraceableTypes, PTL DEF Spec

\* The monitors, stream handlers and collectors of any number of nodes never
\* put together a clipboard from two copies, however streams overtake each
\* other, whatever is refused, fails or expires, and whenever users copy.
THEOREM ClipSyncNeverMixed == Spec => []NeverMixed
<1>1. Traceable => NeverMixed
  BY DEF Traceable, ClipOK
<1> QED
  BY <1>1, InitTraceable, NextTraceable, PTL DEF Spec

-----------------------------------------------------------------------------
(* What the announce history of channel.go is worth to the network.  The   *)
(* proofs follow each message through each node.  Two values that neither  *)
(* the program nor the model has do that: H maps an ID to the message made *)
(* with it, and S[n][id] is the stage message id has reached on node n.    *)

\* The contents users have copied so far.
CopiedContents == UNION {Range(copied[i].what) : i \in 1..Len(copied)}

\* The announce history has room for all of them.
WithinHistory == Cardinality(CopiedContents) <= HistorySize

-----------------------------------------------------------------------------
(* The inductive invariant: an account of every message. *)

IDs == Nodes \X Nat

Made == {id \in IDs : id[2] < nextId[Author(id)]}

Stages == {"none", "announced", "asked", "coming", "handing", "sending", "done", "dropped"}

\* The message was made, and it is the one that got its ID.
KnownIn(M, H, m) == m.id \in M /\ m = H[m.id] /\ m.hash \notin Empty
Known(H, m) == KnownIn(Made, H, m)

\* The messages of other nodes that have reached node n.
Taken(S, n) == {id \in IDs : S[n][id] # "none" /\ Author(id) # n}

\* Only messages that were made reach a node, and their author is not asked
\* for them.
StageOK(S) ==
    /\ S \in [Nodes -> [IDs -> Stages]]
    /\ \A n \in Nodes : \A id \in IDs :
          /\ S[n][id] # "none" => id \in Made
          /\ S[n][id] \in {"announced", "asked", "coming", "handing"} => Author(id) # n

AnnsLife(H, S) ==
    \A n \in Nodes : \A m \in DOMAIN anns[n] :
        Known(H, m) /\ S[n][m.id] = "announced" /\ anns[n][m] = 1

HandingLife(H, S) ==
    \A n \in Nodes : \A m \in DOMAIN handing[n] :
        Known(H, m) /\ S[n][m.id] = "handing" /\ handing[n][m] = 1 /\ m.hash \notin TooBig

SendingLife(H, S) ==
    \A n \in Nodes :
        sending[n] # NoMsg =>
            /\ Known(H, sending[n]) /\ S[n][sending[n].id] = "sending"
            /\ Author(sending[n].id) = n

HandledLife(S) ==
    /\ DOMAIN handled = Nodes
    /\ \A n \in Nodes : \A id \in DOMAIN handled[n] :
          id \in IDs /\ S[n][id] = "done" /\ handled[n][id] = 1

\* Announces go to nodes other than the author; a node has one request or one
\* answer in flight for a message at a time.
StreamLife(H, S, e, count) ==
    /\ e.kind = "announce" => Known(H, e.msg) /\ Author(e.msg.id) # e.to
    /\ e.kind = "request" => S[e.from][e.id] = "asked" /\ count = 1
    /\ e.kind = "message" => Known(H, e.msg) /\ S[e.to][e.msg.id] = "coming" /\ count = 1

NetLife(H, S) == \A e \in DOMAIN net : StreamLife(H, S, e, net[e])

ChannelLife(H) ==
    \A n \in Nodes :
        /\ lastMsg[n] # NoMsg => Known(H, lastMsg[n])
        /\ \A id \in DOMAIN served[n].data : Known(H, served[n].data[id]) /\ served[n].data[id].id = id

\* The history of node n has the content of every message that reached n, and
\* no two of these messages have the same content.
SeenLife(H, S) ==
    \A n \in Nodes :
        /\ DOMAIN seen[n].data \subseteq CopiedContents
        /\ \A id \in Taken(S, n) : H[id].hash \in DOMAIN seen[n].data
        /\ \A id, jd \in Taken(S, n) : H[id].hash = H[jd].hash => id = jd

\* An item of batch b is a message of that batch; without faults it has no
\* data only when it was refused.
ItemOK(H, S, n, b, id, data) ==
    /\ id \in Taken(S, n)
    /\ H[id].batch = b /\ H[id].hash \in Range(b) \ Empty
    /\ \/ data = H[id].hash /\ H[id].hash \notin TooBig
       \/ data = NoData /\ (faults = 0 => H[id].hash \in TooBig)

BatchLife(H, S) ==
    \A n \in Nodes : \A b \in DOMAIN batches[n] :
        /\ IsFiniteSet(DOMAIN batches[n][b])
        /\ \A id \in DOMAIN batches[n][b] : ItemOK(H, S, n, b, id, batches[n][b][id])

Life(H, S) ==
    /\ DOMAIN H = IDs /\ StageOK(S) /\ AnnsLife(H, S) /\ HandingLife(H, S) /\ SendingLife(H, S)
    /\ HandledLife(S) /\ NetLife(H, S) /\ ChannelLife(H) /\ SeenLife(H, S) /\ BatchLife(H, S)

-----------------------------------------------------------------------------
(* Contents and the history. *)

\* A sequence has finitely many elements, no more than its length.
LEMMA RangeFinite ==
    ASSUME NEW T, NEW s \in Seq(T)
    PROVE  IsFiniteSet(Range(s)) /\ Cardinality(Range(s)) <= Len(s) /\ Cardinality(Range(s)) \in Nat
<1>0. Len(s) \in Nat
  OBVIOUS
<1>1. IsFiniteSet(1..Len(s)) /\ Cardinality(1..Len(s)) = Len(s)
  BY <1>0, FS_Interval
<1>2. s \in Surjection(1..Len(s), Range(s))
  BY DEF Surjection, Range
<1>3. IsFiniteSet(Range(s)) /\ Cardinality(Range(s)) <= Cardinality(1..Len(s))
  BY <1>1, <1>2, FS_Surjection
<1> QED
  BY <1>1, <1>3, FS_CardinalityType

\* Finitely many contents have been copied.
LEMMA CopiedFinite ==
    ASSUME NEW c \in Seq([by : Nodes, what : Copies])
    PROVE  LET C == UNION {Range(c[i].what) : i \in 1..Len(c)}
           IN  IsFiniteSet(C) /\ Cardinality(C) \in Nat
<1> DEFINE R == {Range(c[i].what) : i \in 1..Len(c)}
           f == [i \in 1..Len(c) |-> Range(c[i].what)]
<1>1. Len(c) \in Nat
  OBVIOUS
<1>2. f \in Surjection(1..Len(c), R)
  BY DEF Surjection
<1>3. IsFiniteSet(1..Len(c))
  BY <1>1, FS_Interval
<1>4. IsFiniteSet(R)
  <2> HIDE DEF f, R
  <2> QED
    BY <1>2, <1>3, FS_Surjection
<1>5. ASSUME NEW T \in R PROVE IsFiniteSet(T)
  <2>1. PICK i \in 1..Len(c) : T = Range(c[i].what)
    OBVIOUS
  <2>2. c[i] \in [by : Nodes, what : Copies]
    <3>1. ASSUME NEW V, c \in Seq(V) PROVE c[i] \in V
      BY <3>1
    <3> QED
      BY <3>1
  <2>3. c[i].what \in Seq(Contents)
    BY <2>2, CopyOK
  <2> QED
    BY <2>1, <2>3, RangeFinite
<1>6. IsFiniteSet(UNION R)
  <2> HIDE DEF R
  <2> QED
    BY <1>4, <1>5, FS_UNION
<1> QED
  BY <1>6, FS_CardinalityType

\* Copying only adds contents: what is within the history was within it before.
LEMMA ContentsGrow ==
    ASSUME CopiedOK, Grown
    PROVE  CopiedContents \subseteq CopiedContents' /\ (WithinHistory' => WithinHistory)
<1>1. CopiedOK' /\ \A i \in 1..Len(copied) : i \in 1..Len(copied') /\ copied'[i] = copied[i]
  BY CopiedGrows
<1>2. CopiedContents \subseteq CopiedContents'
  BY <1>1 DEF CopiedContents
<1>3. IsFiniteSet(CopiedContents') /\ Cardinality(CopiedContents') \in Nat
  BY <1>1, CopiedFinite DEF CopiedOK, CopiedContents
<1>4. Cardinality(CopiedContents) <= Cardinality(CopiedContents')
  BY <1>2, <1>3, FS_Subset
<1>5. Cardinality(CopiedContents) \in Nat
  BY CopiedFinite DEF CopiedOK, CopiedContents
<1> QED
  BY <1>2, <1>3, <1>4, <1>5, LimitsAssumption DEF WithinHistory

\* A history whose contents were all copied forgets nothing when it takes
\* another one of them.
LEMMA NothingForgotten ==
    ASSUME CopiedOK, WithinHistory, NEW h, h.order \in Seq(Contents), FifoOK(h, HistorySize),
           DOMAIN h.data \subseteq CopiedContents, NEW k \in CopiedContents, k \notin DOMAIN h.data
    PROVE  DOMAIN FifoAdd(h, k, k, HistorySize).data = DOMAIN h.data \cup {k}
<1>1. IsFiniteSet(CopiedContents) /\ Cardinality(CopiedContents) \in Nat
  BY CopiedFinite DEF CopiedOK, CopiedContents
<1>2. CopiedContents \ {k} \in SUBSET CopiedContents
  OBVIOUS
<1>3. /\ IsFiniteSet(CopiedContents \ {k})
      /\ Cardinality(CopiedContents \ {k}) = Cardinality(CopiedContents) - 1
  BY <1>1, FS_RemoveElement
<1>4. Len(h.order) \in Nat /\ DOMAIN h.order = 1..Len(h.order) /\ Range(h.order) = DOMAIN h.data
  BY DEF FifoOK
<1>5. h.order \in Injection(1..Len(h.order), CopiedContents \ {k})
  BY <1>4 DEF Injection, FifoOK, IsInjective, Range
<1>6. Cardinality(1..Len(h.order)) = Len(h.order)
  BY <1>4, FS_Interval
<1>7. Len(h.order) <= Cardinality(CopiedContents) - 1
  BY <1>3, <1>5, <1>6, FS_Injection
<1>8. ~(Len(h.order) >= HistorySize)
  BY <1>1, <1>4, <1>7, LimitsAssumption DEF WithinHistory
<1>9. FifoAdd(h, k, k, HistorySize) = Insert(h, k, k)
  BY <1>8 DEF FifoAdd, FifoHas, MakeRoom
<1> QED
  BY <1>9 DEF Insert

-----------------------------------------------------------------------------
(* What a step leaves alone. *)

Keeps(S, T, p) == \A n \in Nodes : \A id \in IDs : S[n][id] = p => T[n][id] = p

\* The only copy of x in a bag leaves it.
LEMMA BagRemoveOne ==
    ASSUME NEW B, NEW x \in DOMAIN B, B[x] = 1
    PROVE  /\ DOMAIN BagRemove(B, x) = DOMAIN B \ {x}
           /\ \A y \in DOMAIN B \ {x} : BagRemove(B, x)[y] = B[y]
BY DEF BagRemove

\* Whatever leaves a bag, nothing else changes.
LEMMA BagRemoveOthers ==
    ASSUME NEW B, NEW x
    PROVE  /\ DOMAIN BagRemove(B, x) \subseteq DOMAIN B
           /\ \A y \in DOMAIN BagRemove(B, x) \ {x} : BagRemove(B, x)[y] = B[y]
BY DEF BagRemove

\* What was not in a bag is added to it once.
LEMMA BagAddOne ==
    ASSUME NEW B, NEW x, x \notin DOMAIN B
    PROVE  /\ DOMAIN BagAdd(B, x) = DOMAIN B \cup {x} /\ BagAdd(B, x)[x] = 1
           /\ \A y \in DOMAIN B : BagAdd(B, x)[y] = B[y]
BY DEF BagAdd

\* A message is known for good.
LEMMA StaysKnown ==
    ASSUME NEW H, NEW G, Made \subseteq Made', \A id \in Made : G[id] = H[id], NEW m, Known(H, m)
    PROVE  KnownIn(Made', G, m) /\ m.id \in IDs
BY DEF Known, KnownIn, Made

\* The parts of the state that a step does not touch, when no message leaves
\* the stage they stand for.
LEMMA LifeStays ==
    ASSUME Traceable, Grown, NEW H, NEW S, Life(H, S), NEW G, NEW T,
           Made \subseteq Made', \A id \in Made : G[id] = H[id]
    PROVE  /\ UNCHANGED anns /\ Keeps(S, T, "announced") => AnnsLife(G, T)'
           /\ UNCHANGED handing /\ Keeps(S, T, "handing") => HandingLife(G, T)'
           /\ UNCHANGED sending /\ Keeps(S, T, "sending") => SendingLife(G, T)'
           /\ UNCHANGED handled /\ Keeps(S, T, "done") => HandledLife(T)'
           /\ UNCHANGED net /\ Keeps(S, T, "asked") /\ Keeps(S, T, "coming") => NetLife(G, T)'
           /\ UNCHANGED <<lastMsg, served>> => ChannelLife(G)'
           /\ UNCHANGED seen /\ (\A n \in Nodes : Taken(T, n) = Taken(S, n)) => SeenLife(G, T)'
           /\ /\ UNCHANGED batches /\ (faults' = 0 => faults = 0)
              /\ \A n \in Nodes : Taken(S, n) \subseteq Taken(T, n)
              => BatchLife(G, T)'
<1>0. /\ StageOK(S) /\ AnnsLife(H, S) /\ HandingLife(H, S) /\ SendingLife(H, S) /\ HandledLife(S)
      /\ NetLife(H, S) /\ ChannelLife(H) /\ SeenLife(H, S) /\ BatchLife(H, S) /\ NetOK /\ CopiedOK
  BY DEF Life, Traceable
<1>k. \A m : Known(H, m) => KnownIn(Made', G, m) /\ m.id \in IDs
  BY StaysKnown
<1>1. ASSUME UNCHANGED anns, Keeps(S, T, "announced") PROVE AnnsLife(G, T)'
  BY <1>0, <1>k, <1>1 DEF AnnsLife, Keeps, Known
<1>2. ASSUME UNCHANGED handing, Keeps(S, T, "handing") PROVE HandingLife(G, T)'
  BY <1>0, <1>k, <1>2 DEF HandingLife, Keeps, Known
<1>3. ASSUME UNCHANGED sending, Keeps(S, T, "sending") PROVE SendingLife(G, T)'
  BY <1>0, <1>k, <1>3 DEF SendingLife, Keeps, Known
<1>4. ASSUME UNCHANGED handled, Keeps(S, T, "done") PROVE HandledLife(T)'
  BY <1>0, <1>4 DEF HandledLife, Keeps
<1>5. ASSUME UNCHANGED net, Keeps(S, T, "asked"), Keeps(S, T, "coming") PROVE NetLife(G, T)'
  <2> SUFFICES ASSUME NEW e \in DOMAIN net
               PROVE  /\ e.kind = "announce" => KnownIn(Made', G, e.msg) /\ Author(e.msg.id) # e.to
                      /\ e.kind = "request" => T[e.from][e.id] = "asked" /\ net[e] = 1
                      /\ e.kind = "message" =>
                           KnownIn(Made', G, e.msg) /\ T[e.to][e.msg.id] = "coming" /\ net[e] = 1
    BY <1>5 DEF NetLife, StreamLife, Known
  <2>1. e.kind \in {"announce", "message"} => e.to \in Nodes
    BY <1>0, StreamOK
  <2>2. e.kind = "request" => e.from \in Nodes /\ e.id \in IDs
    BY <1>0, StreamOK DEF Requests, IDs
  <2> QED
    BY <1>0, <1>k, <1>5, <2>1, <2>2 DEF NetLife, StreamLife, Keeps, Known
<1>6. ASSUME UNCHANGED <<lastMsg, served>> PROVE ChannelLife(G)'
  BY <1>0, <1>k, <1>6 DEF ChannelLife, Known
<1>7. \A n \in Nodes : \A id \in Taken(S, n) : id \in Made /\ G[id] = H[id]
  BY <1>0 DEF StageOK, Taken
<1>8. ASSUME UNCHANGED seen, \A n \in Nodes : Taken(T, n) = Taken(S, n) PROVE SeenLife(G, T)'
  <2>1. CopiedContents \subseteq CopiedContents'
    BY <1>0, ContentsGrow
  <2>2. \A n \in Nodes : (Taken(T, n))' = Taken(T, n)
    BY DEF Taken
  <2> QED
    BY <1>0, <1>7, <1>8, <2>1, <2>2 DEF SeenLife
<1>9. ASSUME UNCHANGED batches, faults' = 0 => faults = 0,
             \A n \in Nodes : Taken(S, n) \subseteq Taken(T, n)
      PROVE  BatchLife(G, T)'
  <2>1. ASSUME NEW n \in Nodes, NEW b, NEW id, NEW data, ItemOK(H, S, n, b, id, data)
        PROVE  ItemOK(G, T, n, b, id, data)'
    BY <1>7, <1>9, <2>1 DEF ItemOK, Taken
  <2> QED
    BY <1>0, <1>9, <2>1 DEF BatchLife
<1> QED
  BY <1>1, <1>2, <1>3, <1>4, <1>5, <1>6, <1>8, <1>9

\* One message moves on to stage p, on one node.
Moved(S, T, n, id, p) == T = [S EXCEPT ![n][id] = p]

\* What every move leaves as it is.
MoveOK(S, T, n, id, p) ==
    /\ T[n][id] = p
    /\ \A k \in Nodes : \A j \in IDs : k # n \/ j # id => T[k][j] = S[k][j]
    /\ \A q : q # S[n][id] => Keeps(S, T, q)
    /\ \A k \in Nodes : Taken(S, k) \subseteq Taken(T, k)
    /\ S[n][id] # "none" \/ Author(id) = n => \A k \in Nodes : Taken(T, k) = Taken(S, k)

\* A message that was made may move on, but not be asked for by its author.
LEMMA Move ==
    ASSUME NEW S, StageOK(S), NEW n \in Nodes, NEW id \in IDs, NEW p \in Stages \ {"none"},
           id \in Made', Made \subseteq Made',
           p \in {"announced", "asked", "coming", "handing"} => Author(id) # n,
           NEW T, Moved(S, T, n, id, p)
    PROVE  StageOK(T)' /\ MoveOK(S, T, n, id, p)
<1>1. T[n][id] = p /\ T \in [Nodes -> [IDs -> Stages]]
  BY DEF StageOK, Moved
<1>2. \A k \in Nodes : \A j \in IDs : k # n \/ j # id => T[k][j] = S[k][j]
  BY DEF StageOK, Moved
<1>3. StageOK(T)'
  <2>1. ASSUME NEW k \in Nodes, NEW j \in IDs
        PROVE  /\ T[k][j] # "none" => j \in Made'
               /\ T[k][j] \in {"announced", "asked", "coming", "handing"} => Author(j) # k
    BY <1>1, <1>2 DEF StageOK
  <2> QED
    BY <1>1, <2>1 DEF StageOK, IDs
<1>4. \A q : q # S[n][id] => Keeps(S, T, q)
  BY <1>2 DEF Keeps
<1>5. \A k \in Nodes : Taken(S, k) \subseteq Taken(T, k)
  BY <1>1, <1>2 DEF Taken
<1>6. S[n][id] # "none" \/ Author(id) = n => \A k \in Nodes : Taken(T, k) = Taken(S, k)
  BY <1>1, <1>2 DEF Taken
<1> QED
  BY <1>1, <1>2, <1>3, <1>4, <1>5, <1>6 DEF MoveOK

-----------------------------------------------------------------------------
(* Every action. *)

\* No message has been made.
LEMMA InitLife == Init => \E H, S : Life(H, S)
<1> SUFFICES ASSUME Init PROVE \E H, S : Life(H, S)
  OBVIOUS
<1> DEFINE H == [id \in IDs |-> NoMsg]
           S == [n \in Nodes |-> [id \in IDs |-> "none"]]
<1>1. DOMAIN H = IDs /\ StageOK(S)
  BY DEF StageOK, Stages
<1>2. \A n \in Nodes : Taken(S, n) = {}
  BY DEF Taken
<1>3. DOMAIN EmptyBag = {} /\ DOMAIN FifoNew.data = {} /\ DOMAIN << >> = {}
  BY DEF EmptyBag, SetToBag, FifoNew
<1> HIDE DEF H, S
<1>4. AnnsLife(H, S) /\ HandingLife(H, S)
  BY <1>3 DEF Init, AnnsLife, HandingLife
<1>5. SendingLife(H, S) /\ ChannelLife(H)
  BY <1>3 DEF Init, SendingLife, ChannelLife
<1>6. HandledLife(S) /\ NetLife(H, S)
  BY <1>3 DEF Init, HandledLife, NetLife
<1>7. SeenLife(H, S)
  BY <1>2, <1>3 DEF Init, SeenLife
<1>8. BatchLife(H, S)
  BY <1>3 DEF Init, BatchLife
<1>9. Life(H, S)
  BY <1>1, <1>4, <1>5, <1>6, <1>7, <1>8 DEF Life
<1> QED
  BY <1>9

\* Without a new message, the stages stand.
LEMMA StageStays ==
    ASSUME NEW S, StageOK(S), UNCHANGED nextId
    PROVE  StageOK(S)' /\ Made' = Made /\ \A q : Keeps(S, S, q)
BY DEF StageOK, Made, Keeps

\* A step of the clipboard or of the update goroutine's queue moves no message.
LEMMA QuietLife ==
    ASSUME Traceable, Grown, NEW H, NEW S, Life(H, S), faults' = 0 => faults = 0,
           UNCHANGED <<anns, handing, sending, handled, net, lastMsg, served, seen, batches, nextId>>
    PROVE  Life(H, S)'
<1>1. StageOK(S)' /\ Made' = Made /\ \A q : Keeps(S, S, q)
  BY StageStays DEF Life
<1> QED
  BY <1>1, LifeStays DEF Life

\* A batch expires: the others keep their items.
LEMMA ExpireLife ==
    ASSUME Traceable, NEW H, NEW S, Life(H, S), NEW n \in Nodes, NEW b \in DOMAIN batches[n],
           ExpireBatch(n, b)
    PROVE  Life(H, S)'
<1> USE DEF clipVars, chanVars, updateVars, historyVars
<1>0. BatchesOK /\ BatchLife(H, S) /\ DOMAIN H = IDs /\ Grown
  BY TracedSame DEF Traceable, Life, ExpireBatch
<1>1. StageOK(S)' /\ Made' = Made /\ \A q : Keeps(S, S, q)
  BY StageStays DEF Life, ExpireBatch
<1>2. faults' # 0
  BY DEF Traceable, TableOK, ExpireBatch
<1>3. ASSUME NEW k \in Nodes, NEW c \in DOMAIN batches'[k]
      PROVE  c \in DOMAIN batches[k] /\ batches'[k][c] = batches[k][c]
  BY <1>0, <1>3 DEF BatchesOK, ExpireBatch, Restrict
<1>4. ASSUME NEW k \in Nodes, NEW c, NEW id, NEW data, ItemOK(H, S, k, c, id, data)
      PROVE  ItemOK(H, S, k, c, id, data)'
  BY <1>2, <1>4 DEF ItemOK, Taken
<1>5. BatchLife(H, S)'
  BY <1>0, <1>3, <1>4 DEF BatchLife
<1> QED
  BY <1>0, <1>1, <1>2, <1>5, LifeStays DEF Life, ExpireBatch

\* Send's first half keeps known messages.
LEMMA UpdateLastMsgLife ==
    ASSUME Traceable, NEW H, NEW G, ChannelLife(H), NEW n \in Nodes, NEW msg \in Traced,
           UpdateLastMsg(n, msg), KnownIn(Made', G, msg), \A m : Known(H, m) => KnownIn(Made', G, m)
    PROVE  ChannelLife(G)'
<1>0. CopiedOK /\ ChannelOK
  BY DEF Traceable
<1>1. /\ DOMAIN served' = Nodes
      /\ \A m \in Nodes \ {n} : served'[m] = served[m] /\ lastMsg'[m] = lastMsg[m]
      /\ served'[n] = IF msg.mime = "path" THEN FifoAdd(served[n], msg.id, msg, HistorySize) ELSE served[n]
      /\ lastMsg'[n] = msg
  BY <1>0 DEF ChannelOK, UpdateLastMsg
<1> DEFINE g == FifoAdd(served[n], msg.id, msg, HistorySize)
<1>2. AddedTo(g, served[n], Nodes \X Nat, msg.id, msg, HistorySize)
  BY <1>0, TracedMessage, FifoAddOK, LimitsAssumption DEF ChannelOK, ServedFifo
<1> HIDE DEF g
<1>3. ASSUME NEW k \in Nodes, NEW i \in DOMAIN served'[k].data
      PROVE  KnownIn(Made', G, served'[k].data[i]) /\ served'[k].data[i].id = i
  <2>1. ASSUME i \in DOMAIN served[k].data, served'[k].data[i] = served[k].data[i]
        PROVE  KnownIn(Made', G, served'[k].data[i]) /\ served'[k].data[i].id = i
    <3>1. Known(H, served[k].data[i]) /\ served[k].data[i].id = i
      BY <2>1 DEF ChannelLife
    <3>2. PICK m : m = served[k].data[i]
      OBVIOUS
    <3>3. PICK mm : mm = served'[k].data[i]
      OBVIOUS
    <3> QED
      BY <2>1, <3>1, <3>2, <3>3
  <2>2. CASE k # n \/ msg.mime # "path"
    BY <1>1, <1>3, <2>1, <2>2
  <2>3. CASE k = n /\ msg.mime = "path"
    <3>1. served'[k] = g
      BY <1>1, <2>3 DEF g
    <3>2. \/ i \in DOMAIN served[k].data /\ g.data[i] = served[k].data[i]
          \/ i = msg.id /\ g.data[i] = msg
      BY <1>2, <1>3, <2>3, <3>1 DEF AddedTo, FifoHas
    <3> QED
      BY <2>1, <3>1, <3>2
  <2> QED
    BY <2>2, <2>3
<1>4. ASSUME NEW k \in Nodes, lastMsg'[k] # NoMsg PROVE KnownIn(Made', G, lastMsg'[k])
  <2>1. lastMsg'[k] = msg \/ (Known(H, lastMsg[k]) /\ lastMsg'[k] = lastMsg[k])
    <3>1. CASE k = n
      BY <1>1, <3>1
    <3>2. CASE k # n
      BY <1>1, <1>4, <3>2 DEF ChannelLife
    <3> QED
      BY <3>1, <3>2
  <2> QED
    BY <2>1
<1> QED
  BY <1>3, <1>4 DEF ChannelLife, Known

\* The message that gets an ID.
Entered(H, G, msg) == G = [H EXCEPT ![msg.id] = msg]

\* The update goroutine makes a message: its ID is new to every node.
LEMMA SendUpdateLife ==
    ASSUME Traceable, NEW H, NEW S, Life(H, S), NEW n \in Nodes, SendUpdate(n),
           NEW msg, msg = NextMessage(n), NEW G, Entered(H, G, msg),
           NEW T, IF Accepts(n, msg) THEN Moved(S, T, n, msg.id, "sending") ELSE T = S
    PROVE  Life(G, T)'
<1> USE DEF chanVars, updateVars, historyVars
<1>0. /\ DOMAIN H = IDs /\ StageOK(S) /\ SendingLife(H, S) /\ ChannelLife(H)
      /\ CopiedOK /\ MonitorOK /\ ChannelOK /\ Grown
  BY TracedSame DEF Traceable, Life, SendUpdate
<1> DEFINE id == <<n, nextId[n]>>
<1>2. PICK j : j = id
  OBVIOUS
<1>3. msg \in Traced /\ msg.id = j /\ msg.hash \notin Empty
  BY <1>2, NextMessageOK DEF SendUpdate, NextMessage, Skips
<1>4. /\ j \in IDs /\ j \notin Made /\ j \in Made' /\ Made \subseteq Made' /\ Author(j) = n
      /\ nextId' = [nextId EXCEPT ![n] = @ + 1]
  <2>1. nextId \in [Nodes -> Nat] /\ nextId' = [nextId EXCEPT ![n] = @ + 1]
    BY <1>0 DEF MonitorOK, SendUpdate
  <2> QED
    BY <1>2, <2>1 DEF IDs, Made, Author
<1>5. S[n][j] = "none"
  BY <1>0, <1>4 DEF StageOK
<1>7. DOMAIN G = IDs /\ G[j] = msg /\ \A i \in Made : G[i] = H[i]
  BY <1>0, <1>3, <1>4 DEF Entered
<1>8. KnownIn(Made', G, msg)
  BY <1>3, <1>4, <1>7 DEF KnownIn
<1>k. \A m : Known(H, m) => KnownIn(Made', G, m) /\ m.id \in IDs
  BY <1>4, <1>7, StaysKnown
<1>u. UNCHANGED <<anns, handing, handled, net, seen, batches, faults>>
  BY DEF SendUpdate
<1>9. CASE Accepts(n, msg)
  <2>1. UpdateLastMsg(n, msg) /\ sending' = [sending EXCEPT ![n] = msg]
    BY <1>9 DEF SendUpdate
  <2>2. Moved(S, T, n, j, "sending")
    BY <1>3, <1>9
  <2>3. StageOK(T)' /\ MoveOK(S, T, n, j, "sending")
    <3>1. "sending" \in Stages \ {"none"} /\ "sending" \notin {"announced", "asked", "coming", "handing"}
      BY DEF Stages
    <3> HIDE DEF id
    <3> QED
      BY <1>0, <1>4, <2>2, <3>1, Move
  <2>m. /\ T[n][j] = "sending"
        /\ \A k \in Nodes : \A i \in IDs : k # n \/ i # j => T[k][i] = S[k][i]
        /\ \A q : q # "none" => Keeps(S, T, q)
        /\ \A k \in Nodes : Taken(T, k) = Taken(S, k)
    BY <1>4, <1>5, <2>3 DEF MoveOK
  <2>4. SendingLife(G, T)'
    <3>1. ASSUME NEW k \in Nodes, sending'[k] # NoMsg
          PROVE  /\ KnownIn(Made', G, sending'[k]) /\ T[k][sending'[k].id] = "sending"
                 /\ Author(sending'[k].id) = k
      <4>1. CASE k = n
        BY <1>0, <1>3, <1>4, <1>8, <2>1, <2>m, <4>1 DEF MonitorOK
      <4>2. CASE k # n
        BY <1>0, <1>k, <2>1, <2>m, <3>1, <4>2 DEF MonitorOK, SendingLife
      <4> QED
        BY <4>1, <4>2
    <3> QED
      BY <3>1 DEF SendingLife, Known
  <2>5. ChannelLife(G)'
    BY <1>0, <1>3, <1>8, <1>k, <2>1, UpdateLastMsgLife
  <2>6. AnnsLife(G, T)' /\ HandingLife(G, T)' /\ HandledLife(T)' /\ NetLife(G, T)'
    BY <1>0, <1>4, <1>7, <1>u, <2>m, LifeStays
  <2>7. SeenLife(G, T)' /\ BatchLife(G, T)'
    BY <1>0, <1>4, <1>7, <1>u, <2>m, LifeStays
  <2> QED
    BY <1>7, <2>3, <2>4, <2>5, <2>6, <2>7 DEF Life
<1>10. CASE ~Accepts(n, msg)
  <2>1. UNCHANGED <<lastMsg, served, sending>> /\ T = S
    BY <1>10 DEF SendUpdate
  <2>2. StageOK(S)' /\ \A q : Keeps(S, S, q)
    BY <1>0, <1>4 DEF StageOK, Keeps
  <2>3. /\ AnnsLife(G, S)' /\ HandingLife(G, S)' /\ SendingLife(G, S)' /\ HandledLife(S)'
        /\ NetLife(G, S)' /\ ChannelLife(G)'
    BY <1>0, <1>4, <1>7, <1>u, <2>1, <2>2, LifeStays
  <2>4. SeenLife(G, S)' /\ BatchLife(G, S)'
    BY <1>0, <1>4, <1>7, <1>u, <2>1, <2>2, LifeStays
  <2>5. Life(G, S)'
    BY <1>7, <2>2, <2>3, <2>4 DEF Life
  <2> QED
    BY <2>1, <2>5
<1> QED
  BY <1>9, <1>10

\* What a batch has collected so far.
LEMMA CollectedLife ==
    ASSUME NEW H, NEW S, BatchLife(H, S), NEW n \in Nodes, NEW b
    PROVE  /\ IsFiniteSet(DOMAIN Items(n, b))
           /\ \A id \in DOMAIN Items(n, b) : ItemOK(H, S, n, b, id, Items(n, b)[id])
<1>1. DOMAIN << >> = {} /\ IsFiniteSet({})
  BY FS_EmptySet
<1> QED
  BY <1>1 DEF BatchLife, Items

\* The items of a batch, with one more.
LEMMA ItemsLife ==
    ASSUME NEW H, NEW S, BatchLife(H, S), NEW n \in Nodes, NEW msg, NEW data,
           ItemOK(H, S, n, msg.batch, msg.id, data)
    PROVE  /\ IsFiniteSet(DOMAIN WithItem(n, msg, data))
           /\ DOMAIN WithItem(n, msg, data) = DOMAIN Items(n, msg.batch) \cup {msg.id}
           /\ \A id \in DOMAIN WithItem(n, msg, data) :
                 ItemOK(H, S, n, msg.batch, id, WithItem(n, msg, data)[id])
<1>1. /\ IsFiniteSet(DOMAIN Items(n, msg.batch))
      /\ \A id \in DOMAIN Items(n, msg.batch) : ItemOK(H, S, n, msg.batch, id, Items(n, msg.batch)[id])
  BY CollectedLife
<1>2. DOMAIN WithItem(n, msg, data) = DOMAIN Items(n, msg.batch) \cup {msg.id}
  BY DEF WithItem
<1>3. IsFiniteSet(DOMAIN Items(n, msg.batch) \cup {msg.id})
  BY <1>1, FS_AddElement
<1> QED
  BY <1>1, <1>2, <1>3 DEF WithItem

\* An item keeps its standing while messages move on.
LEMMA ItemStays ==
    ASSUME NEW H, NEW S, NEW T, \A k \in Nodes : Taken(S, k) \subseteq Taken(T, k),
           faults' = 0 => faults = 0,
           NEW n \in Nodes, NEW b, NEW id, NEW data, ItemOK(H, S, n, b, id, data)
    PROVE  ItemOK(H, T, n, b, id, data)'
BY DEF ItemOK, Taken

\* Add files one good item.
LEMMA AddLife ==
    ASSUME Traceable, NEW H, NEW S, Life(H, S), NEW T, \A k \in Nodes : Taken(S, k) \subseteq Taken(T, k),
           faults' = 0 => faults = 0, NEW n \in Nodes, NEW msg, NEW data,
           ItemOK(H, T, n, msg.batch, msg.id, data)', AddToBatch(n, msg, data)
    PROVE  BatchLife(H, T)'
<1>0. BatchLife(H, S) /\ DOMAIN batches = Nodes
  BY DEF Life, Traceable, BatchesOK
<1>1. \A k \in Nodes : \A b, id, d : ItemOK(H, S, k, b, id, d) => ItemOK(H, T, k, b, id, d)'
  BY ItemStays
<1>2. /\ IsFiniteSet(DOMAIN WithItem(n, msg, data))
      /\ \A id \in DOMAIN WithItem(n, msg, data) :
            \/ id = msg.id /\ WithItem(n, msg, data)[id] = data
            \/ ItemOK(H, S, n, msg.batch, id, WithItem(n, msg, data)[id])
  <2>1. /\ IsFiniteSet(DOMAIN Items(n, msg.batch))
        /\ \A id \in DOMAIN Items(n, msg.batch) : ItemOK(H, S, n, msg.batch, id, Items(n, msg.batch)[id])
    BY <1>0, CollectedLife
  <2>2. IsFiniteSet(DOMAIN Items(n, msg.batch) \cup {msg.id})
    BY <2>1, FS_AddElement
  <2> QED
    BY <2>1, <2>2 DEF WithItem
<1> DEFINE w == WithItem(n, msg, data)
<1>3. PICK v : v = w
  OBVIOUS
<1>4. /\ IsFiniteSet(DOMAIN v)
      /\ \A id \in DOMAIN v : ItemOK(H, T, n, msg.batch, id, v[id])'
  <2>1. ASSUME NEW id \in DOMAIN v PROVE ItemOK(H, T, n, msg.batch, id, v[id])'
    <3>1. PICK d : d = v[id]
      OBVIOUS
    <3>2. (id = msg.id /\ d = data) \/ ItemOK(H, S, n, msg.batch, id, d)
      BY <1>2, <1>3, <2>1, <3>1
    <3>3. ItemOK(H, T, n, msg.batch, id, d)'
      BY <1>1, <3>2
    <3> QED
      BY <3>1, <3>3
  <2> QED
    BY <1>2, <1>3, <2>1
<1> HIDE DEF w
<1>5. /\ \A k \in Nodes \ {n} : batches'[k] = batches[k]
      /\ \/ batches'[n] = Restrict(batches[n], DOMAIN batches[n] \ {msg.batch})
         \/ batches'[n] = [b \in DOMAIN batches[n] \cup {msg.batch} |->
                             IF b = msg.batch THEN v ELSE batches[n][b]]
  BY <1>0, <1>3 DEF AddToBatch, w
<1>6. ASSUME NEW k \in Nodes, NEW b \in DOMAIN batches'[k]
      PROVE  \/ k = n /\ b = msg.batch /\ batches'[k][b] = v
             \/ b \in DOMAIN batches[k] /\ batches'[k][b] = batches[k][b]
  <2>1. CASE k # n
    BY <1>5, <1>6, <2>1
  <2>2. CASE k = n /\ batches'[n] = Restrict(batches[n], DOMAIN batches[n] \ {msg.batch})
    BY <1>6, <2>2 DEF Restrict
  <2>3. CASE k = n /\ batches'[n] = [b_1 \in DOMAIN batches[n] \cup {msg.batch} |->
                                       IF b_1 = msg.batch THEN v ELSE batches[n][b_1]]
    BY <1>6, <2>3
  <2> QED
    BY <1>5, <2>1, <2>2, <2>3
<1>7. ASSUME NEW k \in Nodes, NEW b \in DOMAIN batches'[k]
      PROVE  /\ IsFiniteSet(DOMAIN batches'[k][b])
             /\ \A id \in DOMAIN batches'[k][b] : \A d : d = batches'[k][b][id] => ItemOK(H, T, k, b, id, d)'
  <2>1. CASE k = n /\ b = msg.batch /\ batches'[k][b] = v
    <3>1. \A id \in DOMAIN v : \A d : d = v[id] => ItemOK(H, T, n, msg.batch, id, d)'
      BY <1>4
    <3> QED
      BY <1>4, <2>1, <3>1
  <2>2. CASE b \in DOMAIN batches[k] /\ batches'[k][b] = batches[k][b]
    <3>1. /\ IsFiniteSet(DOMAIN batches[k][b])
          /\ \A id \in DOMAIN batches[k][b] : ItemOK(H, S, k, b, id, batches[k][b][id])
      BY <1>0, <2>2 DEF BatchLife
    <3> QED
      BY <1>1, <2>2, <3>1
  <2> QED
    BY <1>6, <1>7, <2>1, <2>2
<1> QED
  BY <1>7 DEF BatchLife, ItemOK

\* While nothing leaves "asked" or "coming", the streams keep their standing.
LEMMA StreamsStay ==
    ASSUME NetOK, NEW H, NEW S, NetLife(H, S), NEW T, Keeps(S, T, "asked"), Keeps(S, T, "coming"),
           NEW e \in DOMAIN net
    PROVE  StreamLife(H, T, e, net[e])
<1>1. e.kind \in {"announce", "message"} => e.to \in Nodes
  BY StreamOK
<1>2. e.kind = "request" => e.from \in Nodes /\ e.id \in IDs
  BY StreamOK DEF Requests, IDs
<1>3. \A m : Known(H, m) => m.id \in IDs
  BY DEF Known, KnownIn, Made
<1> QED
  BY <1>1, <1>2, <1>3 DEF NetLife, StreamLife, Keeps

\* The streams after a step, given one by one.
LEMMA NetLifeNext ==
    ASSUME NEW H, NEW T, Made' = Made, \A e \in DOMAIN net' : StreamLife(H, T, e, net'[e])
    PROVE  NetLife(H, T)'
BY DEF NetLife, StreamLife, Known

\* Broadcast puts nothing but announces into the network.
LEMMA BroadcastLife ==
    ASSUME Traceable, NEW H, NEW S, NetLife(H, S), NEW T, Keeps(S, T, "asked"), Keeps(S, T, "coming"),
           UNCHANGED nextId, NEW n \in Nodes, NEW msg \in Traced, Known(H, msg), Broadcast(n, msg)
    PROVE  NetLife(H, T)' /\ (faults' = 0 => faults = 0)
<1>0. NetOK /\ TableOK /\ Made' = Made
  BY DEF Traceable, Made
<1>1. PICK failed \in SUBSET (peers[n] \ {Author(msg.id)}) :
        /\ faults' = faults + Cardinality(failed)
        /\ net' = net (+) SetToBag({Announcement(p, msg) :
                             p \in peers[n] \ (failed \cup {Author(msg.id)})})
  BY DEF Broadcast
<1>2. Cardinality(failed) \in Nat
  <2>1. failed \subseteq Nodes /\ IsFiniteSet(Nodes)
    BY <1>0, NodesAssumption DEF TableOK
  <2> QED
    BY <2>1, FS_Subset, FS_CardinalityType
<1>3. faults' = 0 => faults = 0
  BY <1>0, <1>1, <1>2 DEF TableOK
<1> DEFINE A == {Announcement(p, msg) : p \in peers[n] \ (failed \cup {Author(msg.id)})}
<1>4. \A e \in A : e.kind = "announce" /\ e.msg = msg /\ e.to # Author(msg.id)
  BY DEF Announcement
<1> HIDE DEF A
<1>5. /\ DOMAIN net' = DOMAIN net \cup A
      /\ \A e \in DOMAIN net : net[e] \in Nat /\ (e \notin A => net'[e] = net[e])
  <2>1. \A e \in DOMAIN net : net[e] \in Nat
    BY <1>0 DEF NetOK, IsBagOf
  <2> QED
    BY <1>1, <2>1 DEF A, SetToBag, (+)
<1>6. ASSUME NEW e \in DOMAIN net' PROVE StreamLife(H, T, e, net'[e])
  <2>1. CASE e \in A
    BY <1>4, <2>1 DEF StreamLife
  <2>2. CASE e \in DOMAIN net /\ e \notin A
    BY <1>0, <1>5, <2>2, StreamsStay
  <2> QED
    BY <1>5, <1>6, <2>1, <2>2
<1> QED
  BY <1>0, <1>3, <1>6, NetLifeNext

\* A message that has reached n from elsewhere is a good item of its batch.
LEMMA NewItem ==
    ASSUME Traceable, NEW H, NEW T, NEW n \in Nodes, NEW msg \in Traced, Known(H, msg),
           msg.id \in Taken(T, n), msg.batch # <<>>, NEW data,
           \/ data = msg.hash /\ msg.hash \notin TooBig
           \/ data = NoData /\ (faults' = 0 => msg.hash \in TooBig)
    PROVE  ItemOK(H, T, n, msg.batch, msg.id, data)'
<1>1. H[msg.id] = msg /\ msg.hash \notin Empty
  BY DEF Known, KnownIn
<1>2. msg.hash \in Range(msg.batch)
  BY TracedMessage DEF Traceable
<1> QED
  BY <1>1, <1>2 DEF ItemOK, Taken

\* A message leaves handing with the step that moves it on.
LEMMA HandedOn ==
    ASSUME Traceable, NEW H, NEW S, HandingLife(H, S), NEW n \in Nodes, NEW msg \in DOMAIN handing[n],
           handing' = [handing EXCEPT ![n] = BagRemove(@, msg)], Made' = Made,
           NEW T, NEW p, MoveOK(S, T, n, msg.id, p)
    PROVE  HandingLife(H, T)'
<1>0. DOMAIN handing = Nodes /\ Known(H, msg) /\ handing[n][msg] = 1
  BY DEF Traceable, HandingOK, HandingLife
<1>1. \A k \in Nodes : \A j \in IDs : k # n \/ j # msg.id => T[k][j] = S[k][j]
  BY DEF MoveOK
<1>2. /\ DOMAIN BagRemove(handing[n], msg) = DOMAIN handing[n] \ {msg}
      /\ \A y \in DOMAIN handing[n] \ {msg} : BagRemove(handing[n], msg)[y] = handing[n][y]
  BY <1>0, BagRemoveOne
<1>3. ASSUME NEW k \in Nodes, NEW m \in DOMAIN handing'[k]
      PROVE  Known(H, m) /\ T[k][m.id] = "handing" /\ handing'[k][m] = 1 /\ m.hash \notin TooBig
  <2>1. m \in DOMAIN handing[k] /\ handing'[k][m] = handing[k][m] /\ (k = n => m # msg)
    BY <1>0, <1>2, <1>3
  <2>2. Known(H, m) /\ S[k][m.id] = "handing" /\ handing[k][m] = 1 /\ m.hash \notin TooBig
    BY <2>1 DEF HandingLife
  <2>3. m.id \in IDs /\ (k = n => m.id # msg.id)
    BY <1>0, <2>1, <2>2 DEF Known, KnownIn, Made
  <2> QED
    BY <1>1, <2>1, <2>2, <2>3
<1> QED
  BY <1>3 DEF HandingLife, Known

\* An announce leaves anns with the step that moves it on.
LEMMA AnnHandled ==
    ASSUME Traceable, NEW H, NEW S, AnnsLife(H, S), NEW n \in Nodes, NEW an \in DOMAIN anns[n],
           anns' = [anns EXCEPT ![n] = BagRemove(@, an)], Made' = Made,
           NEW T, NEW p, MoveOK(S, T, n, an.id, p)
    PROVE  AnnsLife(H, T)'
<1>0. DOMAIN anns = Nodes /\ Known(H, an) /\ anns[n][an] = 1
  BY DEF Traceable, AnnsOK, AnnsLife
<1>1. \A k \in Nodes : \A j \in IDs : k # n \/ j # an.id => T[k][j] = S[k][j]
  BY DEF MoveOK
<1>2. /\ DOMAIN BagRemove(anns[n], an) = DOMAIN anns[n] \ {an}
      /\ \A y \in DOMAIN anns[n] \ {an} : BagRemove(anns[n], an)[y] = anns[n][y]
  BY <1>0, BagRemoveOne
<1>3. ASSUME NEW k \in Nodes, NEW m \in DOMAIN anns'[k]
      PROVE  Known(H, m) /\ T[k][m.id] = "announced" /\ anns'[k][m] = 1
  <2>1. m \in DOMAIN anns[k] /\ anns'[k][m] = anns[k][m] /\ (k = n => m # an)
    BY <1>0, <1>2, <1>3
  <2>2. Known(H, m) /\ S[k][m.id] = "announced" /\ anns[k][m] = 1
    BY <2>1 DEF AnnsLife
  <2>3. m.id \in IDs /\ (k = n => m.id # an.id)
    BY <1>0, <2>1, <2>2 DEF Known, KnownIn, Made
  <2> QED
    BY <1>1, <2>1, <2>2, <2>3
<1> QED
  BY <1>3 DEF AnnsLife, Known

\* The monitor handles a message, for the first time.
LEMMA HandleLife ==
    ASSUME Traceable, NEW H, NEW S, Life(H, S), NEW n \in Nodes, NEW msg \in Traced, Known(H, msg),
           S[n][msg.id] \in {"sending", "handing"},
           Author(msg.id) = n \/ msg.hash \notin TooBig, HandleMessage(n, msg),
           NEW T, Moved(S, T, n, msg.id, "done")
    PROVE  /\ StageOK(T)' /\ MoveOK(S, T, n, msg.id, "done")
           /\ AnnsLife(H, T)' /\ HandledLife(T)' /\ NetLife(H, T)' /\ ChannelLife(H)'
           /\ SeenLife(H, T)' /\ BatchLife(H, T)' /\ Made' = Made
           /\ (faults' = 0 => faults = 0)
<1>0. /\ StageOK(S) /\ AnnsLife(H, S) /\ HandledLife(S) /\ NetLife(H, S) /\ ChannelLife(H)
      /\ SeenLife(H, S) /\ BatchLife(H, S)
  BY DEF Life
<1>u. UNCHANGED <<lastMsg, served, nextId, seen, anns, copied>>
  BY DEF HandleMessage, chanVars
<1>g. Grown /\ Made' = Made
  BY <1>u, TracedSame DEF Made
<1>i. msg.id \in IDs /\ msg.id \in Made
  BY DEF Known, KnownIn, Made
<1>1. StageOK(T)' /\ MoveOK(S, T, n, msg.id, "done")
  <2>1. "done" \in Stages \ {"none"} /\ "done" \notin {"announced", "asked", "coming", "handing"}
    BY DEF Stages
  <2>2. msg.id \in Made' /\ Made \subseteq Made'
    BY <1>g, <1>i
  <2> QED
    BY <1>0, <1>i, <2>1, <2>2, Move
<1>2. /\ T[n][msg.id] = "done"
      /\ \A k \in Nodes : \A j \in IDs : k # n \/ j # msg.id => T[k][j] = S[k][j]
      /\ Keeps(S, T, "announced") /\ Keeps(S, T, "asked") /\ Keeps(S, T, "coming")
      /\ \A k \in Nodes : Taken(S, k) \subseteq Taken(T, k) /\ Taken(T, k) = Taken(S, k)
  BY <1>1 DEF MoveOK
<1>3. NetLife(H, T)' /\ (faults' = 0 => faults = 0)
  BY <1>0, <1>2, <1>u, BroadcastLife DEF HandleMessage
<1>4. AnnsLife(H, T)' /\ ChannelLife(H)' /\ SeenLife(H, T)'
  BY <1>2, <1>g, <1>u, LifeStays
<1>5. HandledLife(T)'
  <2>2. msg.id \notin DOMAIN handled[n] /\ DOMAIN handled = Nodes
    BY <1>0 DEF HandledLife
  <2>1. handled' = [handled EXCEPT ![n] = BagAdd(@, msg.id)]
    <3>1. Record(handled[n], msg.id) = BagAdd(handled[n], msg.id)
      BY <2>2 DEF Record
    <3> QED
      BY <1>0, <2>2, <3>1 DEF HandleMessage
  <2>3. /\ DOMAIN BagAdd(handled[n], msg.id) = DOMAIN handled[n] \cup {msg.id}
        /\ BagAdd(handled[n], msg.id)[msg.id] = 1
        /\ \A y \in DOMAIN handled[n] : BagAdd(handled[n], msg.id)[y] = handled[n][y]
    BY <2>2 DEF BagAdd
  <2>4. ASSUME NEW k \in Nodes, NEW j \in DOMAIN handled'[k]
        PROVE  j \in IDs /\ T[k][j] = "done" /\ handled'[k][j] = 1
    <3>1. CASE k = n
      BY <1>0, <1>2, <1>i, <2>1, <2>3, <2>4, <3>1 DEF HandledLife
    <3>2. CASE k # n
      BY <1>0, <1>2, <2>1, <2>4, <3>2 DEF HandledLife
    <3> QED
      BY <3>1, <3>2
  <2> QED
    BY <2>1, <2>2, <2>4 DEF HandledLife
<1>6. BatchLife(H, T)'
  <2>1. CASE UNCHANGED batches
    BY <1>2, <1>3, <1>g, <2>1, LifeStays
  <2>2. CASE Author(msg.id) # n /\ Len(msg.batch) > 1 /\ AddToBatch(n, msg, msg.hash)
    <3>1. msg.batch # <<>>
      BY <2>2
    <3>2. msg.id \in Taken(T, n)
      BY <1>2, <1>i, <2>2 DEF Taken
    <3>3. PICK d : d = msg.hash
      OBVIOUS
    <3>4. ItemOK(H, T, n, msg.batch, msg.id, d)'
      BY <2>2, <3>1, <3>2, <3>3, NewItem
    <3> QED
      BY <1>2, <1>3, <2>2, <3>3, <3>4, AddLife
  <2> QED
    BY <2>1, <2>2 DEF HandleMessage
<1> QED
  BY <1>1, <1>3, <1>4, <1>5, <1>6, <1>g

\* The monitor takes a message of its own update goroutine.
LEMMA TakeUpdateLife ==
    ASSUME Traceable, NEW H, NEW S, Life(H, S), NEW n \in Nodes, TakeUpdate(n),
           NEW T, Moved(S, T, n, sending[n].id, "done")
    PROVE  Life(H, T)'
<1>0. /\ DOMAIN H = IDs /\ MonitorOK /\ HandingOK /\ HandingLife(H, S) /\ SendingLife(H, S) /\ StageOK(S)
  BY DEF Life, Traceable
<1>1. PICK msg : msg = sending[n]
  OBVIOUS
<1>2. /\ msg \in Traced /\ Known(H, msg) /\ S[n][msg.id] = "sending" /\ Author(msg.id) = n
      /\ HandleMessage(n, msg)
  BY <1>0, <1>1 DEF MonitorOK, SendingLife, TakeUpdate
<1>3. Moved(S, T, n, msg.id, "done")
  BY <1>1
<1>4. /\ StageOK(T)' /\ MoveOK(S, T, n, msg.id, "done")
      /\ AnnsLife(H, T)' /\ HandledLife(T)' /\ NetLife(H, T)' /\ ChannelLife(H)'
      /\ SeenLife(H, T)' /\ BatchLife(H, T)' /\ Made' = Made
  BY <1>2, <1>3, HandleLife
<1>5. HandingLife(H, T)'
  <2>1. Keeps(S, T, "handing") /\ UNCHANGED <<handing, copied>>
    BY <1>2, <1>4 DEF MoveOK, TakeUpdate, HandleMessage
  <2> QED
    BY <1>4, <2>1, TracedSame, LifeStays
<1>6. SendingLife(H, T)'
  <2>1. sending' = [sending EXCEPT ![n] = NoMsg] /\ DOMAIN sending = Nodes
    BY <1>0 DEF TakeUpdate, MonitorOK
  <2>2. \A k \in Nodes : \A j \in IDs : k # n => T[k][j] = S[k][j]
    BY <1>4 DEF MoveOK
  <2>3. ASSUME NEW k \in Nodes, sending'[k] # NoMsg
        PROVE  /\ k # n /\ sending'[k] = sending[k]
               /\ Known(H, sending[k]) /\ T[k][sending[k].id] = "sending" /\ Author(sending[k].id) = k
    <3>1. k # n /\ sending'[k] = sending[k]
      BY <2>1, <2>3
    <3>2. Known(H, sending[k]) /\ S[k][sending[k].id] = "sending" /\ Author(sending[k].id) = k
      BY <1>0, <2>3, <3>1 DEF SendingLife
    <3>3. sending[k].id \in IDs
      BY <3>2 DEF Known, KnownIn, Made
    <3> QED
      BY <2>2, <3>1, <3>2, <3>3
  <2> QED
    BY <1>4, <2>3 DEF SendingLife, Known
<1> QED
  BY <1>0, <1>4, <1>5, <1>6 DEF Life

\* The monitor takes a message from a stream handler.
LEMMA TakeReceivedLife ==
    ASSUME Traceable, NEW H, NEW S, Life(H, S), NEW n \in Nodes, NEW msg \in DOMAIN handing[n],
           HandleMessage(n, msg), handing' = [handing EXCEPT ![n] = BagRemove(@, msg)],
           UNCHANGED sending, NEW T, Moved(S, T, n, msg.id, "done")
    PROVE  Life(H, T)'
<1>0. /\ DOMAIN H = IDs /\ MonitorOK /\ HandingOK /\ HandingLife(H, S) /\ SendingLife(H, S) /\ StageOK(S)
  BY DEF Life, Traceable
<1>2. /\ msg \in Traced /\ Known(H, msg) /\ S[n][msg.id] = "handing" /\ msg.hash \notin TooBig
      /\ handing[n][msg] = 1
  BY <1>0 DEF HandingOK, IsBagOf, HandingLife
<1>4. /\ StageOK(T)' /\ MoveOK(S, T, n, msg.id, "done")
      /\ AnnsLife(H, T)' /\ HandledLife(T)' /\ NetLife(H, T)' /\ ChannelLife(H)'
      /\ SeenLife(H, T)' /\ BatchLife(H, T)' /\ Made' = Made
  BY <1>2, HandleLife
<1>5. SendingLife(H, T)'
  <2>1. Keeps(S, T, "sending") /\ UNCHANGED copied
    BY <1>2, <1>4 DEF MoveOK, HandleMessage
  <2> QED
    BY <1>4, <2>1, TracedSame, LifeStays
<1>6. HandingLife(H, T)'
  BY <1>0, <1>2, <1>4, HandedOn
<1> QED
  BY <1>0, <1>4, <1>5, <1>6 DEF Life

\* A request or an answer is the only one of its node and message.
LEMMA OthersStay ==
    ASSUME NetOK, NEW H, NEW S, NetLife(H, S), NEW e \in DOMAIN net, NEW n, NEW id,
           \/ e.kind = "request" /\ n = e.from /\ id = e.id
           \/ e.kind = "message" /\ n = e.to /\ id = e.msg.id,
           NEW T, NEW p, MoveOK(S, T, n, id, p), NEW y \in DOMAIN net \ {e}
    PROVE  StreamLife(H, T, y, net[y])
<1>0. \A k \in Nodes : \A j \in IDs : k # n \/ j # id => T[k][j] = S[k][j]
  BY DEF MoveOK
<1>1. StreamLife(H, S, e, net[e]) /\ StreamLife(H, S, y, net[y])
  BY DEF NetLife
<1>2. \A x \in DOMAIN net :
         /\ x.kind = "request" => /\ x \in [kind : {"request"}, from : Nodes, to : Nodes, id : IDs]
                                  /\ x.to = Author(x.id)
         /\ x.kind = "message" => x \in [kind : {"announce", "message"}, to : Nodes, msg : Traced]
  <2>1. ASSUME NEW x \in DOMAIN net PROVE x \in Traffic(Traced)
    BY <2>1, StreamOK
  <2>2. ASSUME NEW x \in Requests PROVE x.kind = "request"
    BY <2>2 DEF Requests
  <2>3. ASSUME NEW x \in [kind : {"announce", "message"}, to : Nodes, msg : Traced]
        PROVE  x.kind # "request"
    BY <2>3
  <2> QED
    BY <2>1, <2>2, <2>3 DEF Traffic, Requests, IDs
<1>3. CASE y.kind = "request"
  <2>1. y.from \in Nodes /\ y.id \in IDs
    BY <1>2, <1>3
  <2>2. ~(y.from = n /\ y.id = id)
    <3>1. CASE e.kind = "request"
      <4>1. ASSUME y.from = e.from, y.id = e.id PROVE y = e
        BY <1>2, <1>3, <3>1, <4>1
      <4> QED
        BY <3>1, <4>1
    <3>2. CASE e.kind = "message"
      BY <1>1, <1>3, <3>2 DEF StreamLife
    <3> QED
      BY <3>1, <3>2
  <2> QED
    BY <1>0, <1>1, <1>3, <2>1, <2>2 DEF StreamLife
<1>4. CASE y.kind = "message"
  <2>1. y.to \in Nodes /\ Known(H, y.msg)
    BY <1>1, <1>2, <1>4 DEF StreamLife
  <2>i. y.msg.id \in IDs
    BY <2>1 DEF Known, KnownIn, Made
  <2>2. ~(y.to = n /\ y.msg.id = id)
    <3>1. CASE e.kind = "message"
      <4>1. Known(H, e.msg)
        BY <1>1, <3>1 DEF StreamLife
      <4>2. ASSUME y.to = e.to, y.msg.id = e.msg.id PROVE y = e
        <5>1. y.msg = e.msg
          BY <2>1, <4>1, <4>2 DEF Known, KnownIn
        <5> QED
          BY <1>2, <1>4, <3>1, <4>2, <5>1
      <4> QED
        BY <3>1, <4>2
    <3>2. CASE e.kind = "request"
      BY <1>1, <1>4, <3>2 DEF StreamLife
    <3> QED
      BY <3>1, <3>2
  <2> QED
    BY <1>0, <1>1, <1>4, <2>1, <2>i, <2>2 DEF StreamLife
<1>5. CASE y.kind # "request" /\ y.kind # "message"
  BY <1>1, <1>5 DEF StreamLife
<1> QED
  BY <1>3, <1>4, <1>5

\* An announce arrives: it is dropped, or recorded and queued as the first
\* message with its content to reach the node.
LEMMA ReceiveAnnounceLife ==
    ASSUME Traceable, WithinHistory, NEW H, NEW S, Life(H, S), NEW e \in Streams("announce"),
           ReceiveAnnounce(e), NEW T,
           IF FifoHas(seen[e.to], e.msg.hash) THEN T = S ELSE Moved(S, T, e.to, e.msg.id, "announced")
    PROVE  Life(H, T)'
<1> USE DEF clipVars, chanVars, updateVars, historyVars
<1>0. /\ DOMAIN H = IDs /\ StageOK(S) /\ AnnsLife(H, S) /\ NetLife(H, S) /\ SeenLife(H, S)
      /\ CopiedOK /\ SeenOK /\ AnnsOK /\ NetOK
  BY DEF Life, Traceable
<1>u. UNCHANGED <<handing, sending, handled, lastMsg, served, batches, nextId, faults, copied>>
  BY DEF ReceiveAnnounce
<1>g. Grown /\ Made' = Made /\ CopiedContents' = CopiedContents
  BY <1>u, TracedSame DEF Made, CopiedContents
<1>1. e \in DOMAIN net /\ e.kind = "announce" /\ e.to \in Nodes /\ e.msg \in Traced
  BY <1>0, StreamOK DEF Streams
<1>2. PICK n : n = e.to
  OBVIOUS
<1>3. PICK msg : msg = e.msg
  OBVIOUS
<1>4. Known(H, msg) /\ Author(msg.id) # n /\ n \in Nodes /\ msg \in Traced
  BY <1>0, <1>1, <1>2, <1>3 DEF NetLife, StreamLife
<1>i. msg.id \in IDs /\ msg.id \in Made /\ H[msg.id] = msg
  BY <1>4 DEF Known, KnownIn, Made
<1>5. ASSUME Keeps(S, T, "asked"), Keeps(S, T, "coming") PROVE NetLife(H, T)'
  <2>1. ASSUME NEW y \in DOMAIN net' PROVE StreamLife(H, T, y, net'[y])
    <3>1. y \in DOMAIN net /\ (y # e => net'[y] = net[y])
      BY <2>1, BagRemoveOthers DEF ReceiveAnnounce
    <3>2. StreamLife(H, T, y, net[y])
      BY <1>0, <1>5, <3>1, StreamsStay
    <3> QED
      BY <1>1, <3>1, <3>2 DEF StreamLife
  <2> QED
    BY <1>g, <2>1, NetLifeNext
<1>6. CASE FifoHas(seen[n], msg.hash)
  <2>1. UNCHANGED <<seen, anns>> /\ T = S
    BY <1>2, <1>3, <1>6 DEF ReceiveAnnounce
  <2>2. StageOK(S)' /\ \A q : Keeps(S, S, q)
    BY <1>0, <1>u, StageStays
  <2>3. NetLife(H, T)'
    BY <1>5, <2>1, <2>2
  <2>4. Life(H, S)'
    BY <1>0, <1>g, <1>u, <2>1, <2>2, <2>3, LifeStays DEF Life
  <2> QED
    BY <2>1, <2>4
<1>7. CASE ~FifoHas(seen[n], msg.hash)
  <2>1. /\ seen' = [seen EXCEPT ![n] = FifoAdd(@, msg.hash, msg.hash, HistorySize)]
        /\ anns' = [anns EXCEPT ![n] = BagAdd(@, msg)]
    BY <1>2, <1>3, <1>7 DEF ReceiveAnnounce
  <2>2. S[n][msg.id] = "none"
    BY <1>0, <1>4, <1>7, <1>i DEF SeenLife, Taken, FifoHas
  <2>3. Moved(S, T, n, msg.id, "announced")
    BY <1>2, <1>3, <1>7
  <2>4. StageOK(T)' /\ MoveOK(S, T, n, msg.id, "announced")
    <3>1. "announced" \in Stages \ {"none"} /\ msg.id \in Made' /\ Made \subseteq Made'
      BY <1>g, <1>i DEF Stages
    <3> QED
      BY <1>0, <1>4, <1>i, <2>3, <3>1, Move
  <2>5. /\ T[n][msg.id] = "announced"
        /\ \A k \in Nodes : \A j \in IDs : k # n \/ j # msg.id => T[k][j] = S[k][j]
        /\ \A q : q # "none" => Keeps(S, T, q)
        /\ \A k \in Nodes : Taken(S, k) \subseteq Taken(T, k)
    BY <2>2, <2>4 DEF MoveOK
  <2>6. AnnsLife(H, T)'
    <3>1. msg \notin DOMAIN anns[n]
      BY <1>0, <1>4, <2>2 DEF AnnsLife
    <3>2. /\ DOMAIN anns'[n] = DOMAIN anns[n] \cup {msg} /\ anns'[n][msg] = 1
          /\ \A y \in DOMAIN anns[n] : anns'[n][y] = anns[n][y]
          /\ \A k \in Nodes : k # n => anns'[k] = anns[k]
      <4>1. DOMAIN anns = Nodes
        BY <1>0 DEF AnnsOK
      <4> QED
        BY <1>4, <2>1, <3>1, <4>1 DEF BagAdd
    <3>3. ASSUME NEW k \in Nodes, NEW m \in DOMAIN anns'[k]
          PROVE  Known(H, m) /\ T[k][m.id] = "announced" /\ anns'[k][m] = 1
      <4>1. CASE k = n /\ m = msg
        BY <1>4, <2>5, <3>2, <4>1
      <4>2. CASE m \in DOMAIN anns[k]
        <5>1. Known(H, m) /\ S[k][m.id] = "announced" /\ anns[k][m] = 1
          BY <1>0, <4>2 DEF AnnsLife
        <5>2. m.id \in IDs /\ anns'[k][m] = anns[k][m]
          BY <3>2, <4>2, <5>1 DEF Known, KnownIn, Made
        <5> QED
          BY <2>5, <5>1, <5>2 DEF Keeps
      <4> QED
        BY <3>2, <3>3, <4>1, <4>2
    <3> QED
      BY <1>g, <3>3 DEF AnnsLife, Known
  <2>7. SeenLife(H, T)'
    <3>1. msg.hash \in CopiedContents
      BY <1>0, <1>4, TracedMessage DEF CopiedContents
    <3>2. DOMAIN FifoAdd(seen[n], msg.hash, msg.hash, HistorySize).data = DOMAIN seen[n].data \cup {msg.hash}
      BY <1>0, <1>4, <1>7, <3>1, NothingForgotten DEF SeenLife, SeenOK, FifoHas
    <3>3. /\ DOMAIN seen'[n].data = DOMAIN seen[n].data \cup {msg.hash}
          /\ \A k \in Nodes : k # n => seen'[k] = seen[k]
      <4>1. DOMAIN seen = Nodes
        BY <1>0 DEF SeenOK
      <4> QED
        BY <1>4, <2>1, <3>2, <4>1
    <3>4. \A k \in Nodes : Taken(T, k) \subseteq Taken(S, k) \cup (IF k = n THEN {msg.id} ELSE {})
      BY <2>5 DEF Taken
    <3>5. ASSUME NEW k \in Nodes
          PROVE  /\ DOMAIN seen'[k].data \subseteq CopiedContents
                 /\ \A id \in Taken(T, k) : H[id].hash \in DOMAIN seen'[k].data
                 /\ \A id, jd \in Taken(T, k) : H[id].hash = H[jd].hash => id = jd
      <4>1. CASE k # n
        BY <1>0, <3>3, <3>4, <4>1 DEF SeenLife
      <4>2. CASE k = n
        <5>1. \A id \in Taken(S, n) : H[id].hash \in DOMAIN seen[n].data /\ H[id].hash # msg.hash
          BY <1>0, <1>4, <1>7 DEF SeenLife, FifoHas
        <5>2. \A id, jd \in Taken(S, n) : H[id].hash = H[jd].hash => id = jd
          BY <1>0, <1>4 DEF SeenLife
        <5>3. DOMAIN seen[n].data \subseteq CopiedContents
          BY <1>0, <1>4 DEF SeenLife
        <5>4. Taken(T, n) \subseteq Taken(S, n) \cup {msg.id}
          BY <1>4, <3>4
        <5> QED
          BY <1>i, <3>1, <3>3, <4>2, <5>1, <5>2, <5>3, <5>4
      <4> QED
        BY <4>1, <4>2
    <3>6. \A k \in Nodes : (Taken(T, k))' = Taken(T, k)
      BY DEF Taken
    <3> QED
      BY <1>g, <3>5, <3>6 DEF SeenLife
  <2>8. NetLife(H, T)'
    BY <1>5, <2>5
  <2> QED
    BY <1>0, <1>g, <1>u, <2>4, <2>5, <2>6, <2>7, <2>8, LifeStays DEF Life
<1> QED
  BY <1>6, <1>7

\* A nack is a good item, or none.
LEMMA NackLife ==
    ASSUME Traceable, NEW H, NEW S, Life(H, S), NEW T, \A k \in Nodes : Taken(S, k) \subseteq Taken(T, k),
           Made' = Made, Grown,
           NEW n \in Nodes, NEW msg \in Traced, Known(H, msg), msg.id \in Taken(T, n), Nack(n, msg),
           faults' = 0 => faults = 0 /\ msg.hash \in TooBig
    PROVE  BatchLife(H, T)'
<1>1. CASE msg.batch # <<>>
  <2>1. PICK d : d = NoData
    OBVIOUS
  <2>2. ItemOK(H, T, n, msg.batch, msg.id, d)'
    BY <1>1, <2>1, NewItem
  <2>3. AddToBatch(n, msg, d)
    BY <1>1, <2>1 DEF Nack
  <2> QED
    BY <2>2, <2>3, AddLife
<1>2. CASE UNCHANGED batches
  BY <1>2, LifeStays
<1> QED
  BY <1>1, <1>2 DEF Nack

\* An announce is handled: refused, requested, or lost with its stream.
LEMMA HandleAnnounceLife ==
    ASSUME Traceable, NEW H, NEW S, Life(H, S), NEW n \in Nodes, NEW an \in DOMAIN anns[n],
           IgnoreAnnounce(n, an) \/ RequestMessage(n, an) \/ RequestFails(n, an),
           NEW p, p = (IF RequestMessage(n, an) THEN "asked" ELSE "dropped"),
           NEW T, Moved(S, T, n, an.id, p)
    PROVE  Life(H, T)'
<1> USE DEF clipVars, chanVars, updateVars, historyVars
<1>0. /\ DOMAIN H = IDs /\ StageOK(S) /\ AnnsLife(H, S) /\ NetLife(H, S) /\ AnnsOK /\ NetOK /\ TableOK
  BY DEF Life, Traceable
<1>u. /\ UNCHANGED <<handing, sending, handled, lastMsg, served, seen, nextId, copied>>
      /\ anns' = [anns EXCEPT ![n] = BagRemove(@, an)]
  BY DEF IgnoreAnnounce, RequestMessage, RequestFails
<1>g. Grown /\ Made' = Made
  BY <1>u, TracedSame DEF Made
<1>1. an \in Traced /\ Known(H, an) /\ S[n][an.id] = "announced"
  BY <1>0 DEF AnnsOK, IsBagOf, AnnsLife
<1>i. an.id \in IDs /\ an.id \in Made /\ Author(an.id) # n
  BY <1>0, <1>1 DEF Known, KnownIn, Made, StageOK
<1>4. StageOK(T)' /\ MoveOK(S, T, n, an.id, p)
  <2>1. p \in Stages \ {"none"} /\ an.id \in Made' /\ Made \subseteq Made'
    BY <1>g, <1>i DEF Stages
  <2> QED
    BY <1>0, <1>i, <2>1, Move
<1>5. /\ T[n][an.id] = p
      /\ \A q : q # "announced" => Keeps(S, T, q)
      /\ \A k \in Nodes : Taken(S, k) \subseteq Taken(T, k) /\ Taken(T, k) = Taken(S, k)
  BY <1>1, <1>4 DEF MoveOK
<1>6. AnnsLife(H, T)'
  BY <1>0, <1>4, <1>g, <1>u, AnnHandled
<1>7. /\ HandingLife(H, T)' /\ SendingLife(H, T)' /\ HandledLife(T)' /\ ChannelLife(H)' /\ SeenLife(H, T)'
  BY <1>5, <1>g, <1>u, LifeStays
<1>8. NetLife(H, T)'
  <2>1. CASE UNCHANGED net
    BY <1>5, <1>g, <2>1, LifeStays
  <2>2. CASE RequestMessage(n, an)
    <3>1. PICK x : x = Request(n, Author(an.id), an.id)
      OBVIOUS
    <3>2. x.kind = "request" /\ x.from = n /\ x.id = an.id /\ net' = BagAdd(net, x)
      BY <2>2, <3>1 DEF Request, RequestMessage
    <3>3. x \notin DOMAIN net
      BY <1>0, <1>1, <3>2 DEF NetLife, StreamLife
    <3>4. /\ DOMAIN net' = DOMAIN net \cup {x} /\ net'[x] = 1
          /\ \A y \in DOMAIN net : net'[y] = net[y]
      BY <3>2, <3>3 DEF BagAdd
    <3>5. ASSUME NEW y \in DOMAIN net' PROVE StreamLife(H, T, y, net'[y])
      <4>1. CASE y = x
        BY <1>5, <2>2, <3>2, <3>4, <4>1 DEF StreamLife
      <4>2. CASE y \in DOMAIN net
        BY <1>0, <1>5, <3>4, <4>2, StreamsStay
      <4> QED
        BY <3>4, <3>5, <4>1, <4>2
    <3> QED
      BY <1>g, <3>5, NetLifeNext
  <2> QED
    BY <2>1, <2>2 DEF IgnoreAnnounce, RequestFails
<1>9. BatchLife(H, T)'
  <2>1. faults' = 0 => faults = 0
    BY <1>0 DEF TableOK, IgnoreAnnounce, RequestMessage, RequestFails
  <2>2. CASE UNCHANGED batches
    BY <1>5, <1>g, <2>1, <2>2, LifeStays
  <2>3. CASE an.hash \in TooBig /\ Nack(n, an)
    <3>1. an.id \in Taken(T, n)
      BY <1>1, <1>5, <1>i DEF Taken
    <3> QED
      BY <1>1, <1>5, <1>g, <2>1, <2>3, <3>1, NackLife
  <2> QED
    BY <2>2, <2>3 DEF IgnoreAnnounce, RequestMessage, RequestFails
<1> QED
  BY <1>0, <1>4, <1>6, <1>7, <1>8, <1>9 DEF Life

\* What a node serves for an ID is the message made with it.
LEMMA GetLife ==
    ASSUME NEW H, ChannelLife(H), NEW n \in Nodes, NEW id, Get(n, id) # NoMsg
    PROVE  Known(H, Get(n, id)) /\ Get(n, id).id = id
BY DEF ChannelLife, Get, FifoHas

\* A request is answered with the message asked for, ignored, or fails.
LEMMA ServeLife ==
    ASSUME Traceable, NEW H, NEW S, Life(H, S), NEW e \in Streams("request"),
           ReceiveRequest(e) \/ ServeFails(e),
           NEW msg, msg = (IF ReceiveRequest(e) THEN Get(e.to, e.id) ELSE NoMsg),
           NEW p, p = (IF msg = NoMsg THEN "dropped" ELSE "coming"),
           NEW T, Moved(S, T, e.from, e.id, p)
    PROVE  Life(H, T)'
<1> USE DEF clipVars, chanVars, updateVars, historyVars
<1>0. /\ DOMAIN H = IDs /\ StageOK(S) /\ NetLife(H, S) /\ ChannelLife(H) /\ NetOK /\ TableOK
  BY DEF Life, Traceable
<1>u. /\ UNCHANGED <<anns, handing, sending, handled, lastMsg, served, seen, batches, nextId, copied>>
      /\ (faults' = 0 => faults = 0)
  BY <1>0 DEF TableOK, ReceiveRequest, ServeFails
<1>g. Grown /\ Made' = Made
  BY <1>u, TracedSame DEF Made
<1>1. e \in DOMAIN net /\ e.kind = "request" /\ e.from \in Nodes /\ e.to \in Nodes /\ e.id \in IDs
  BY <1>0, StreamOK DEF Streams, Requests, IDs
<1>2. S[e.from][e.id] = "asked" /\ net[e] = 1
  BY <1>0, <1>1 DEF NetLife, StreamLife
<1>i. e.id \in Made /\ Author(e.id) # e.from
  BY <1>0, <1>1, <1>2 DEF StageOK
<1>4. net' = IF msg = NoMsg THEN BagRemove(net, e)
             ELSE BagAdd(BagRemove(net, e), Content(e.from, msg))
  BY DEF ReceiveRequest, ServeFails
<1>5. msg # NoMsg => Known(H, msg) /\ msg.id = e.id
  BY <1>0, <1>1, GetLife
<1>8. StageOK(T)' /\ MoveOK(S, T, e.from, e.id, p)
  <2>1. p \in Stages \ {"none"} /\ e.id \in Made' /\ Made \subseteq Made'
    BY <1>g, <1>i DEF Stages
  <2> QED
    BY <1>0, <1>1, <1>i, <2>1, Move
<1>9. /\ T[e.from][e.id] = p
      /\ \A q : q # "asked" => Keeps(S, T, q)
      /\ \A k \in Nodes : Taken(S, k) \subseteq Taken(T, k) /\ Taken(T, k) = Taken(S, k)
  BY <1>2, <1>8 DEF MoveOK
<1>10. /\ AnnsLife(H, T)' /\ HandingLife(H, T)' /\ SendingLife(H, T)' /\ HandledLife(T)'
       /\ ChannelLife(H)' /\ SeenLife(H, T)' /\ BatchLife(H, T)'
  BY <1>9, <1>g, <1>u, LifeStays
<1>11. NetLife(H, T)'
  <2>1. \A y \in DOMAIN net \ {e} : StreamLife(H, T, y, net[y])
    BY <1>0, <1>1, <1>8, OthersStay
  <2>2. PICK B : B = BagRemove(net, e)
    OBVIOUS
  <2>3. DOMAIN B = DOMAIN net \ {e} /\ \A y \in DOMAIN net \ {e} : B[y] = net[y]
    BY <1>1, <1>2, <2>2, BagRemoveOne
  <2>4. CASE msg = NoMsg
    <3>1. \A y \in DOMAIN net' : StreamLife(H, T, y, net'[y])
      BY <1>4, <2>1, <2>2, <2>3, <2>4
    <3> QED
      BY <1>g, <3>1, NetLifeNext
  <2>5. CASE msg # NoMsg
    <3>1. PICK x : x = Content(e.from, msg)
      OBVIOUS
    <3>2. x.kind = "message" /\ x.to = e.from /\ x.msg = msg /\ net' = BagAdd(B, x)
      BY <1>4, <2>2, <2>5, <3>1 DEF Content
    <3>3. x \notin DOMAIN B
      BY <1>0, <1>2, <1>5, <2>3, <2>5, <3>2 DEF NetLife, StreamLife
    <3>4. DOMAIN net' = DOMAIN B \cup {x} /\ net'[x] = 1 /\ \A y \in DOMAIN B : net'[y] = B[y]
      BY <3>2, <3>3 DEF BagAdd
    <3>5. StreamLife(H, T, x, net'[x])
      BY <1>5, <1>9, <2>5, <3>2, <3>4 DEF StreamLife
    <3>6. \A y \in DOMAIN net' : StreamLife(H, T, y, net'[y])
      BY <2>1, <2>3, <3>4, <3>5
    <3> QED
      BY <1>g, <3>6, NetLifeNext
  <2> QED
    BY <2>4, <2>5
<1> QED
  BY <1>0, <1>8, <1>10, <1>11 DEF Life

\* A message arrives and is handed to the monitor, is dropped as a repetition,
\* or cannot be read or stored.
LEMMA ReceiveMessageLife ==
    ASSUME Traceable, NEW H, NEW S, Life(H, S), NEW e \in Streams("message"),
           ReceiveMessage(e) \/ ReceiveFails(e),
           NEW p, p = (IF ReceiveMessage(e) /\ Accepts(e.to, e.msg) THEN "handing" ELSE "dropped"),
           NEW T, Moved(S, T, e.to, e.msg.id, p)
    PROVE  Life(H, T)'
<1> USE DEF clipVars, chanVars, updateVars, historyVars
<1>0. /\ DOMAIN H = IDs /\ StageOK(S) /\ NetLife(H, S) /\ ChannelLife(H) /\ HandingLife(H, S)
      /\ NetOK /\ TableOK /\ HandingOK
  BY DEF Life, Traceable
<1>u. /\ UNCHANGED <<anns, sending, handled, seen, nextId, copied>> /\ net' = BagRemove(net, e)
      /\ (faults' = 0 => faults = 0)
  BY <1>0 DEF TableOK, ReceiveMessage, ReceiveFails
<1>g. Grown /\ Made' = Made
  BY <1>u, TracedSame DEF Made
<1>1. e \in DOMAIN net /\ e.kind = "message" /\ e.to \in Nodes /\ e.msg \in Traced
  BY <1>0, StreamOK DEF Streams
<1>2. PICK n : n = e.to
  OBVIOUS
<1>3. PICK msg : msg = e.msg
  OBVIOUS
<1>4. Known(H, msg) /\ S[n][msg.id] = "coming" /\ net[e] = 1 /\ n \in Nodes /\ msg \in Traced
  BY <1>0, <1>1, <1>2, <1>3 DEF NetLife, StreamLife
<1>i. msg.id \in IDs /\ msg.id \in Made /\ Author(msg.id) # n
  BY <1>0, <1>4 DEF Known, KnownIn, Made, StageOK
<1>5. p = IF ReceiveMessage(e) /\ Accepts(n, msg) THEN "handing" ELSE "dropped"
  BY <1>2, <1>3
<1>6. Moved(S, T, n, msg.id, p)
  BY <1>2, <1>3
<1>7. StageOK(T)' /\ MoveOK(S, T, n, msg.id, p)
  <2>1. p \in Stages \ {"none"} /\ msg.id \in Made' /\ Made \subseteq Made'
    BY <1>5, <1>g, <1>i DEF Stages
  <2> QED
    BY <1>0, <1>4, <1>i, <1>6, <2>1, Move
<1>8. /\ T[n][msg.id] = p
      /\ \A q : q # "coming" => Keeps(S, T, q)
      /\ \A k \in Nodes : Taken(S, k) \subseteq Taken(T, k) /\ Taken(T, k) = Taken(S, k)
  BY <1>4, <1>7 DEF MoveOK
<1>9. AnnsLife(H, T)' /\ SendingLife(H, T)' /\ HandledLife(T)' /\ SeenLife(H, T)'
  BY <1>8, <1>g, <1>u, LifeStays
<1>10. NetLife(H, T)'
  <2>1. \A y \in DOMAIN net \ {e} : StreamLife(H, T, y, net[y])
    BY <1>0, <1>1, <1>2, <1>3, <1>7, OthersStay
  <2>2. DOMAIN net' = DOMAIN net \ {e} /\ \A y \in DOMAIN net \ {e} : net'[y] = net[y]
    BY <1>1, <1>4, <1>u, BagRemoveOne
  <2>3. \A y \in DOMAIN net' : StreamLife(H, T, y, net'[y])
    BY <2>1, <2>2
  <2> QED
    BY <1>g, <2>3, NetLifeNext
<1>11. CASE ReceiveMessage(e) /\ Accepts(n, msg)
  <2>1. /\ UpdateLastMsg(n, msg) /\ handing' = [handing EXCEPT ![n] = BagAdd(@, msg)]
        /\ UNCHANGED batches /\ msg.hash \notin TooBig
    BY <1>2, <1>3, <1>11 DEF ReceiveMessage
  <2>2. \A m : Known(H, m) => KnownIn(Made', H, m)
    BY <1>g DEF Known
  <2>3. ChannelLife(H)'
    BY <1>0, <1>4, <2>1, <2>2, UpdateLastMsgLife
  <2>4. HandingLife(H, T)'
    <3>1. msg \notin DOMAIN handing[n]
      BY <1>0, <1>4 DEF HandingLife
    <3>2. /\ DOMAIN handing'[n] = DOMAIN handing[n] \cup {msg} /\ handing'[n][msg] = 1
          /\ \A y \in DOMAIN handing[n] : handing'[n][y] = handing[n][y]
          /\ \A k \in Nodes : k # n => handing'[k] = handing[k]
      <4>1. DOMAIN handing = Nodes
        BY <1>0 DEF HandingOK
      <4> QED
        BY <1>4, <2>1, <3>1, <4>1 DEF BagAdd
    <3>3. ASSUME NEW k \in Nodes, NEW m \in DOMAIN handing'[k]
          PROVE  Known(H, m) /\ T[k][m.id] = "handing" /\ handing'[k][m] = 1 /\ m.hash \notin TooBig
      <4>1. CASE k = n /\ m = msg
        BY <1>4, <1>5, <1>8, <1>11, <2>1, <3>2, <4>1
      <4>2. CASE m \in DOMAIN handing[k]
        <5>1. Known(H, m) /\ S[k][m.id] = "handing" /\ handing[k][m] = 1 /\ m.hash \notin TooBig
          BY <1>0, <4>2 DEF HandingLife
        <5>2. m.id \in IDs /\ handing'[k][m] = handing[k][m]
          BY <3>2, <4>2, <5>1 DEF Known, KnownIn, Made
        <5> QED
          BY <1>8, <5>1, <5>2 DEF Keeps
      <4> QED
        BY <3>2, <3>3, <4>1, <4>2
    <3> QED
      BY <1>g, <3>3 DEF HandingLife, Known
  <2>5. BatchLife(H, T)'
    BY <1>8, <1>g, <1>u, <2>1, LifeStays
  <2> QED
    BY <1>0, <1>7, <1>9, <1>10, <2>3, <2>4, <2>5 DEF Life
<1>12. CASE ~(ReceiveMessage(e) /\ Accepts(n, msg))
  <2>1. UNCHANGED <<lastMsg, served, handing>>
    BY <1>2, <1>3, <1>12 DEF ReceiveMessage, ReceiveFails
  <2>2. ChannelLife(H)' /\ HandingLife(H, T)'
    BY <1>8, <1>g, <2>1, LifeStays
  <2>3. BatchLife(H, T)'
    <3>1. CASE UNCHANGED batches
      BY <1>8, <1>g, <1>u, <3>1, LifeStays
    <3>2. CASE ReceiveFails(e)
      <4>1. faults' # 0 /\ Nack(n, msg)
        BY <1>0, <1>2, <1>3, <3>2 DEF ReceiveFails, TableOK
      <4>2. msg.id \in Taken(T, n)
        BY <1>4, <1>8, <1>i DEF Taken
      <4> QED
        BY <1>4, <1>8, <1>g, <4>1, <4>2, NackLife
    <3> QED
      BY <3>1, <3>2 DEF ReceiveMessage
  <2> QED
    BY <1>0, <1>7, <1>9, <1>10, <2>2, <2>3 DEF Life
<1> QED
  BY <1>11, <1>12

\* Every copy that is made, and nothing else, adds to the copies.
LEMMA NextGrown ==
    ASSUME [Next]_vars
    PROVE  Grown
<1> USE DEF clipVars, chanVars, updateVars, historyVars
<1>1. ASSUME NEW n \in Nodes, NEW s \in Copies, Copy(n, s) PROVE Grown
  BY <1>1 DEF Copy, Grown
<1>2. ASSUME Progress PROVE UNCHANGED copied
  BY <1>2 DEF Progress, SkipUpdate, SendUpdate, TakeUpdate, TakeReceived, HandleMessage, IgnoreAnnounce,
     RequestMessage, ReceiveAnnounce, ReceiveRequest, ReceiveMessage
<1>3. ASSUME Fault PROVE UNCHANGED copied
  BY <1>3 DEF Fault, RequestFails, ExpireBatch, ServeFails, ReceiveFails
<1>4. ASSUME UNCHANGED vars PROVE UNCHANGED copied
  BY <1>4 DEF vars
<1> QED
  BY <1>1, <1>2, <1>3, <1>4 DEF Next, Grown

\* Every step leaves every message at one stage of its life on every node.
LEMMA NextLife ==
    ASSUME Traceable, WithinHistory, NEW H, NEW S, Life(H, S), [Next]_vars
    PROVE  \E G, T : Life(G, T)'
<1> USE DEF clipVars, chanVars, updateVars, historyVars
<1>0. Grown
  BY NextGrown
<1>1. ASSUME NEW n \in Nodes, NEW s \in Copies, Copy(n, s) PROVE Life(H, S)'
  BY <1>0, <1>1, QuietLife DEF Copy
<1>2. ASSUME NEW n \in Nodes, SkipUpdate(n) PROVE Life(H, S)'
  BY <1>0, <1>2, QuietLife DEF SkipUpdate
<1>3. ASSUME NEW n \in Nodes, SendUpdate(n) PROVE \E G, T : Life(G, T)'
  <2>1. PICK msg : msg = NextMessage(n)
    OBVIOUS
  <2>2. PICK G : Entered(H, G, msg)
    BY DEF Entered
  <2>3. PICK T : IF Accepts(n, msg) THEN Moved(S, T, n, msg.id, "sending") ELSE T = S
    BY DEF Moved
  <2> QED
    BY <1>3, <2>1, <2>2, <2>3, SendUpdateLife
<1>4. ASSUME NEW n \in Nodes, TakeUpdate(n) \/ TakeReceived(n) PROVE \E T : Life(H, T)'
  <2>1. CASE TakeUpdate(n)
    <3>1. PICK T : Moved(S, T, n, sending[n].id, "done")
      BY DEF Moved
    <3> QED
      BY <2>1, <3>1, TakeUpdateLife
  <2>2. CASE TakeReceived(n)
    <3>1. PICK msg \in DOMAIN handing[n] :
             /\ HandleMessage(n, msg) /\ handing' = [handing EXCEPT ![n] = BagRemove(@, msg)]
             /\ UNCHANGED sending
      BY <2>2 DEF TakeReceived
    <3>2. PICK T : Moved(S, T, n, msg.id, "done")
      BY DEF Moved
    <3> QED
      BY <3>1, <3>2, TakeReceivedLife
  <2> QED
    BY <1>4, <2>1, <2>2
<1>5. ASSUME NEW n \in Nodes, NEW an \in DOMAIN anns[n],
             IgnoreAnnounce(n, an) \/ RequestMessage(n, an) \/ RequestFails(n, an)
      PROVE  \E T : Life(H, T)'
  <2>1. PICK p : p = IF RequestMessage(n, an) THEN "asked" ELSE "dropped"
    OBVIOUS
  <2>2. PICK T : Moved(S, T, n, an.id, p)
    BY DEF Moved
  <2> QED
    BY <1>5, <2>1, <2>2, HandleAnnounceLife
<1>6. ASSUME NEW e \in Streams("announce"), ReceiveAnnounce(e) PROVE \E T : Life(H, T)'
  <2>1. PICK T : IF FifoHas(seen[e.to], e.msg.hash) THEN T = S
                 ELSE Moved(S, T, e.to, e.msg.id, "announced")
    BY DEF Moved
  <2> QED
    BY <1>6, <2>1, ReceiveAnnounceLife
<1>7. ASSUME NEW e \in Streams("request"), ReceiveRequest(e) \/ ServeFails(e) PROVE \E T : Life(H, T)'
  <2>1. PICK msg : msg = IF ReceiveRequest(e) THEN Get(e.to, e.id) ELSE NoMsg
    OBVIOUS
  <2>2. PICK p : p = IF msg = NoMsg THEN "dropped" ELSE "coming"
    OBVIOUS
  <2>3. PICK T : Moved(S, T, e.from, e.id, p)
    BY DEF Moved
  <2> QED
    BY <1>7, <2>1, <2>2, <2>3, ServeLife
<1>8. ASSUME NEW e \in Streams("message"), ReceiveMessage(e) \/ ReceiveFails(e)
      PROVE  \E T : Life(H, T)'
  <2>1. PICK p : p = IF ReceiveMessage(e) /\ Accepts(e.to, e.msg) THEN "handing" ELSE "dropped"
    OBVIOUS
  <2>2. PICK T : Moved(S, T, e.to, e.msg.id, p)
    BY DEF Moved
  <2> QED
    BY <1>8, <2>1, <2>2, ReceiveMessageLife
<1>9. ASSUME NEW n \in Nodes, NEW b \in DOMAIN batches[n], ExpireBatch(n, b) PROVE Life(H, S)'
  BY <1>9, ExpireLife
<1>10. ASSUME UNCHANGED vars PROVE Life(H, S)'
  BY <1>0, <1>10, QuietLife DEF vars
<1> QED
  BY <1>1, <1>2, <1>3, <1>4, <1>5, <1>6, <1>7, <1>8, <1>9, <1>10 DEF Next, Progress, Fault

\* The inductive invariant: while the history holds what was copied, there is
\* an account of the messages and of how far each has come on each node.
Accounted == Traceable /\ (WithinHistory => \E H, S : Life(H, S))

\* The account is kept by every step.
LEMMA NextAccounted == Accounted /\ [Next]_vars => Accounted'
<1> SUFFICES ASSUME Accounted, [Next]_vars PROVE Accounted'
  OBVIOUS
<1>1. Traceable' /\ CopiedOK
  BY NextTraceable DEF Accounted, Traceable
<1>2. ASSUME WithinHistory' PROVE (\E H, S : Life(H, S))'
  <2>1. WithinHistory
    BY <1>1, <1>2, NextGrown, ContentsGrow
  <2>2. PICK H, S : Life(H, S)
    BY <2>1 DEF Accounted
  <2> QED
    BY <2>1, <2>2, NextLife DEF Accounted
<1> QED
  BY <1>1, <1>2 DEF Accounted

\* The announce history stops the gossip: as long as users have copied no more
\* contents than it holds, no monitor handles a message twice, whatever the
\* mesh, however announces overtake each other and whatever fails or expires.
THEOREM GossipHandledOnce == Spec => [](WithinHistory => HandledOnce)
<1>1. Init => Accounted
  BY InitTraceable, InitLife DEF Accounted
<1>2. Accounted => (WithinHistory => HandledOnce)
  BY DEF Accounted, Life, HandledLife, HandledOnce
<1> QED
  BY <1>1, <1>2, NextAccounted, PTL DEF Spec

-----------------------------------------------------------------------------
(* A complete batch is a whole selection. *)

\* The last item of a batch completes it with everything that is not refused:
\* as many messages as the selection has files, no two with the same content.
LEMMA CompleteBatch ==
    ASSUME Traceable, NEW H, NEW S, Life(H, S), NEW n \in Nodes, NEW msg \in Traced, Known(H, msg),
           msg.id \in Taken(S, n), msg.hash \notin TooBig, msg.batch # <<>>, faults = 0,
           Completes(n, msg)
    PROVE  Join(WithItem(n, msg, msg.hash)) = Offered(msg.batch)
<1>0. CopiedOK /\ SeenLife(H, S) /\ BatchLife(H, S)
  BY DEF Traceable, Life
<1>1. PICK b : b = msg.batch
  OBVIOUS
<1>2. PICK w : w = WithItem(n, msg, msg.hash)
  OBVIOUS
<1>3. ItemOK(H, S, n, b, msg.id, msg.hash)
  <2>1. H[msg.id] = msg /\ msg.hash \notin Empty
    BY DEF Known, KnownIn
  <2>2. msg.hash \in Range(b)
    BY <1>0, <1>1, TracedMessage
  <2> QED
    BY <1>1, <2>1, <2>2 DEF ItemOK
<1>4. /\ IsFiniteSet(DOMAIN w) /\ Cardinality(DOMAIN w) = Len(b)
      /\ \A id \in DOMAIN w : ItemOK(H, S, n, b, id, w[id])
  <2>1. PICK d : d = msg.hash
    OBVIOUS
  <2>2. /\ IsFiniteSet(DOMAIN WithItem(n, msg, d))
        /\ DOMAIN WithItem(n, msg, d) = DOMAIN Items(n, msg.batch) \cup {msg.id}
        /\ \A id \in DOMAIN WithItem(n, msg, d) :
              ItemOK(H, S, n, msg.batch, id, WithItem(n, msg, d)[id])
    <3>1. ItemOK(H, S, n, msg.batch, msg.id, d)
      BY <1>1, <1>3, <2>1
    <3> QED
      BY <1>0, <3>1, ItemsLife
  <2> QED
    BY <1>1, <1>2, <2>1, <2>2 DEF Completes
<1>5. b \in Seq(Contents)
  BY <1>0, <1>1, TracedMessage, CopyOK
<1>6. IsFiniteSet(Range(b)) /\ Cardinality(Range(b)) <= Len(b) /\ Cardinality(Range(b)) \in Nat
      /\ Len(b) \in Nat
  BY <1>5, RangeFinite
<1>7. PICK f : f = [id \in DOMAIN w |-> H[id].hash]
  OBVIOUS
<1>8. f \in Injection(DOMAIN w, Range(b))
  <2>1. \A id \in DOMAIN w : id \in Taken(S, n) /\ H[id].hash \in Range(b)
    BY <1>4 DEF ItemOK
  <2>2. \A id, jd \in Taken(S, n) : H[id].hash = H[jd].hash => id = jd
    BY <1>0 DEF SeenLife
  <2>3. f \in [DOMAIN w -> Range(b)]
    BY <1>7, <2>1
  <2>4. \A id, jd \in DOMAIN w : f[id] = f[jd] => id = jd
    BY <1>7, <2>1, <2>2
  <2> QED
    BY <2>3, <2>4 DEF Injection, IsInjective
<1>9. f \in Surjection(DOMAIN w, Range(b))
  <2>1. /\ Cardinality(DOMAIN w) <= Cardinality(Range(b))
        /\ (Cardinality(DOMAIN w) = Cardinality(Range(b)) <=> f \in Surjection(DOMAIN w, Range(b)))
    BY <1>6, <1>8, FS_Injection
  <2> QED
    BY <1>4, <1>6, <2>1
<1>10. \A c \in Range(b) : \E id \in DOMAIN w : H[id].hash = c
  BY <1>7, <1>9 DEF Surjection
<1>11. ASSUME NEW x \in Join(w) PROVE x \in Offered(b)
  <2>1. PICK id \in DOMAIN w : x = w[id] /\ x # NoData
    BY <1>11 DEF Join, Range
  <2> QED
    BY <1>4, <2>1 DEF ItemOK, Offered
<1>12. ASSUME NEW x \in Offered(b) PROVE x \in Join(w)
  <2>1. x \in Range(b) /\ x \notin TooBig /\ x \in Contents
    BY <1>5, <1>12 DEF Offered, Range
  <2>2. PICK id \in DOMAIN w : H[id].hash = x
    BY <1>10, <2>1
  <2>3. w[id] = x
    BY <1>4, <2>1, <2>2 DEF ItemOK
  <2> QED
    BY <2>1, <2>3, NoDataAssumption DEF Join, Range
<1> QED
  BY <1>1, <1>2, <1>11, <1>12

\* A clipboard holds a copy whole, but for what receivers refuse.
Whole(c) == c = {} \/ \E i \in 1..Len(copied) : c \in {Range(copied[i].what), Offered(copied[i].what)}

\* The monitor writes nothing but whole copies while nothing has failed.
LEMMA HandleWhole ==
    ASSUME Traceable, NEW H, NEW S, Life(H, S), faults = 0, NEW n \in Nodes, NEW msg \in Traced,
           Known(H, msg), Author(msg.id) # n => msg.id \in Taken(S, n) /\ msg.hash \notin TooBig,
           HandleMessage(n, msg), NEW k \in Nodes
    PROVE  clip'[k] = clip[k] \/ Whole(clip'[k])
<1>0. CopiedOK /\ DOMAIN clip = Nodes
  BY DEF Traceable, ClipOK
<1>1. PICK i \in 1..Len(copied) :
        /\ copied[i].what \in Copies /\ msg.hash \in Range(copied[i].what)
        /\ msg.batch \in {<<>>, copied[i].what}
        /\ msg.batch = <<>> => Range(copied[i].what) = {msg.hash}
  BY <1>0, TracedMessage
<1>2. CASE UNCHANGED clip
  BY <1>2
<1>3. CASE Author(msg.id) # n /\ Len(msg.batch) > 1 /\ Completes(n, msg)
           /\ Write(n, Join(WithItem(n, msg, msg.hash)))
  <2>1. msg.batch # <<>> /\ msg.batch = copied[i].what
    BY <1>1, <1>3
  <2>2. Join(WithItem(n, msg, msg.hash)) = Offered(copied[i].what)
    BY <1>3, <2>1, CompleteBatch
  <2>3. clip' = [clip EXCEPT ![n] = Offered(copied[i].what)]
    BY <1>3, <2>2 DEF Write
  <2> QED
    BY <1>0, <2>3 DEF Whole
<1>4. CASE Author(msg.id) # n /\ ~(Len(msg.batch) > 1) /\ Write(n, {msg.hash})
  <2>1. Range(copied[i].what) = {msg.hash}
    <3>1. CASE msg.batch = <<>>
      BY <1>1, <3>1
    <3>2. CASE msg.batch = copied[i].what
      <4>1. copied[i].what \in Seq(Contents) /\ copied[i].what # <<>>
        BY <1>1, CopyOK
      <4>2. DOMAIN copied[i].what = {1}
        BY <1>4, <3>2, <4>1
      <4> QED
        BY <1>1, <4>2 DEF Range
    <3> QED
      BY <1>1, <3>1, <3>2
  <2>2. clip' = [clip EXCEPT ![n] = Range(copied[i].what)]
    BY <1>4, <2>1 DEF Write
  <2> QED
    BY <1>0, <2>2 DEF Whole
<1> QED
  BY <1>2, <1>3, <1>4 DEF HandleMessage

\* A fault is never undone.
LEMMA FaultsGrow ==
    ASSUME TableOK, [Next]_vars, faults' = 0
    PROVE  faults = 0
<1> USE DEF TableOK, clipVars, chanVars, updateVars, historyVars
<1>1. ASSUME NEW n \in Nodes, NEW msg, Broadcast(n, msg) PROVE faults = 0
  <2>1. PICK failed \in SUBSET (peers[n] \ {Author(msg.id)}) : faults' = faults + Cardinality(failed)
    BY <1>1 DEF Broadcast
  <2>2. failed \subseteq Nodes /\ IsFiniteSet(Nodes)
    BY NodesAssumption
  <2>3. Cardinality(failed) \in Nat
    BY <2>2, FS_Subset, FS_CardinalityType
  <2> QED
    BY <2>1, <2>3
<1>2. ASSUME NEW n \in Nodes, NEW s \in Copies, Copy(n, s) PROVE faults = 0
  BY <1>2 DEF Copy
<1>3. ASSUME Progress PROVE faults = 0
  <2>1. ASSUME NEW n \in Nodes, TakeUpdate(n) \/ TakeReceived(n) PROVE faults = 0
    BY <1>1, <2>1 DEF TakeUpdate, TakeReceived, HandleMessage
  <2>2. ASSUME ~(\E n \in Nodes : TakeUpdate(n) \/ TakeReceived(n)) PROVE UNCHANGED faults
    BY <1>3, <2>2 DEF Progress, SkipUpdate, SendUpdate, IgnoreAnnounce, RequestMessage,
       ReceiveAnnounce, ReceiveRequest, ReceiveMessage
  <2> QED
    BY <2>1, <2>2
<1>4. ASSUME Fault PROVE faults' = faults + 1
  BY <1>4 DEF Fault, RequestFails, ExpireBatch, ServeFails, ReceiveFails
<1>5. ASSUME UNCHANGED vars PROVE faults = 0
  BY <1>5 DEF vars
<1>6. faults' # faults + 1
  OBVIOUS
<1> QED
  BY <1>2, <1>3, <1>4, <1>5, <1>6 DEF Next

\* No step tears a clipboard.
LEMMA NextWhole ==
    ASSUME Traceable, NEW H, NEW S, Life(H, S), NeverTorn, [Next]_vars
    PROVE  NeverTorn'
<1> USE DEF clipVars, chanVars, updateVars, historyVars
<1>0. CopiedOK /\ ClipOK /\ TableOK /\ MonitorOK /\ HandingOK /\ SendingLife(H, S) /\ HandingLife(H, S)
      /\ StageOK(S)
  BY DEF Traceable, Life
<1>g. /\ Grown
      /\ \A i \in 1..Len(copied) : i \in 1..Len(copied') /\ copied'[i] = copied[i]
  BY <1>0, NextGrown, CopiedGrows
<1> SUFFICES ASSUME faults' = 0, NEW k \in Nodes
             PROVE  \/ clip'[k] = {}
                    \/ \E i \in 1..Len(copied') :
                          clip'[k] \in {Range(copied'[i].what), Offered(copied'[i].what)}
  BY DEF NeverTorn, Offered
<1>f. faults = 0 /\ Whole(clip[k])
  BY <1>0, FaultsGrow DEF NeverTorn, Whole
<1>1. ASSUME clip'[k] = clip[k] \/ Whole(clip'[k])
      PROVE  \/ clip'[k] = {}
             \/ \E i \in 1..Len(copied') :
                   clip'[k] \in {Range(copied'[i].what), Offered(copied'[i].what)}
  <2>1. Whole(clip'[k])
    BY <1>1, <1>f
  <2> QED
    BY <1>g, <2>1 DEF Whole
<1>2. ASSUME NEW n \in Nodes, NEW s \in Copies, Copy(n, s)
      PROVE  \/ clip'[k] = clip[k]
             \/ \E i \in 1..Len(copied') : clip'[k] = Range(copied'[i].what)
  <2>1. clip' = [clip EXCEPT ![n] = Range(s)] /\ copied' = Append(copied, [by |-> n, what |-> s])
    BY <1>2 DEF Copy
  <2>2. Len(copied) + 1 \in 1..Len(copied') /\ copied'[Len(copied) + 1].what = s
    BY <1>0, <2>1 DEF CopiedOK
  <2>3. clip'[k] = clip[k] \/ clip'[k] = Range(s)
    BY <1>0, <2>1 DEF ClipOK
  <2> QED
    BY <2>2, <2>3
<1>3. ASSUME NEW n \in Nodes, TakeUpdate(n) PROVE clip'[k] = clip[k] \/ Whole(clip'[k])
  <2>1. PICK msg : msg = sending[n]
    OBVIOUS
  <2>2. msg \in Traced /\ Known(H, msg) /\ Author(msg.id) = n /\ HandleMessage(n, msg)
    BY <1>0, <1>3, <2>1 DEF MonitorOK, SendingLife, TakeUpdate
  <2> QED
    BY <1>f, <2>2, HandleWhole
<1>4. ASSUME NEW n \in Nodes, TakeReceived(n) PROVE clip'[k] = clip[k] \/ Whole(clip'[k])
  <2>1. PICK msg \in DOMAIN handing[n] : HandleMessage(n, msg)
    BY <1>4 DEF TakeReceived
  <2>2. msg \in Traced /\ Known(H, msg) /\ S[n][msg.id] = "handing" /\ msg.hash \notin TooBig
    BY <1>0 DEF HandingOK, IsBagOf, HandingLife
  <2>3. msg.id \in IDs
    BY <2>2 DEF Known, KnownIn, Made
  <2>4. Author(msg.id) # n => msg.id \in Taken(S, n)
    BY <2>2, <2>3 DEF Taken
  <2> QED
    BY <1>f, <2>1, <2>2, <2>4, HandleWhole
<1>5. ASSUME Progress, ~(\E n \in Nodes : TakeUpdate(n) \/ TakeReceived(n)) PROVE UNCHANGED clip
  BY <1>5 DEF Progress, SkipUpdate, SendUpdate, IgnoreAnnounce, RequestMessage,
     ReceiveAnnounce, ReceiveRequest, ReceiveMessage
<1>6. ASSUME Fault PROVE UNCHANGED clip
  BY <1>6 DEF Fault, RequestFails, ExpireBatch, ServeFails, ReceiveFails
<1>7. ASSUME UNCHANGED vars PROVE UNCHANGED clip
  BY <1>7 DEF vars
<1> QED
  BY <1>1, <1>2, <1>3, <1>4, <1>5, <1>6, <1>7 DEF Next

\* As long as users have copied no more contents than the history holds, and
\* nothing has failed or expired, every clipboard holds a copy whole: a batch
\* is written once all of its messages have come or been refused.
THEOREM GossipNeverTorn == Spec => [](WithinHistory => NeverTorn)
<1> DEFINE Inv == Accounted /\ (WithinHistory => NeverTorn)
<1>1. Init => Inv
  <2>1. Init => Accounted
    BY InitTraceable, InitLife DEF Accounted
  <2>2. Init => NeverTorn
    BY DEF Init, NeverTorn
  <2> QED
    BY <2>1, <2>2
<1>2. Inv /\ [Next]_vars => Inv'
  <2> SUFFICES ASSUME Inv, [Next]_vars, WithinHistory' PROVE NeverTorn'
    BY NextAccounted
  <2>1. WithinHistory
    BY NextGrown, ContentsGrow DEF Accounted, Traceable
  <2>2. PICK H, S : Life(H, S)
    BY <2>1 DEF Accounted
  <2> QED
    BY <2>1, <2>2, NextWhole DEF Accounted
<1> QED
  BY <1>1, <1>2, PTL DEF Spec
=============================================================================
