-------------------------- MODULE ReceptionProofs ---------------------------
(***************************************************************************)
(* The receiving side of a node, for any streams, files and batches: the   *)
(* types, and the promise of the batch collector.                          *)
(***************************************************************************)
EXTENDS Reception, TLAPS

\* What a stream carries is a sequence of buffers.
LEMMA BufferCount == \A s \in Streams : Len(MsgOf[s].buffers) \in Nat
<1> SUFFICES ASSUME NEW s \in Streams PROVE Len(MsgOf[s].buffers) \in Nat
  OBVIOUS
<1> DEFINE B == {MsgOf[s].buffers[i] : i \in DOMAIN MsgOf[s].buffers}
<1>1. MsgOf[s].buffers \in Seq(B)
  BY StreamsAssumption
<1> QED
  BY <1>1

\* Add leaves the collector well typed.
LEMMA AddTyped ==
    ASSUME CollectorTypeOK,
           NEW b \in BatchIDs, NEW id \in IDs, NEW d \in Data, Add(b, id, d)
    PROVE  CollectorTypeOK'
<1> DEFINE s == [StateOf(b) EXCEPT !.items[id] = d]
<1>1. StateOf(b) \in State
  BY MissingIsNoData DEF CollectorTypeOK, StateOf, State, Items
<1>2. s \in State
  BY <1>1 DEF State, Items
<1>3. Running(b) \subseteq BatchIDs \X Nat
  BY DEF Running, CollectorTypeOK
<1> HIDE DEF s
<1>4. timers' \in Nat /\ firing' \subseteq BatchIDs \X Nat
  BY DEF Add, CollectorTypeOK
<1>5. CASE Cardinality(Present(s.items)) = Total[b]
  <2>1. Finish(b, s)
    BY <1>5 DEF Add, s
  <2>2. ret' = [ok |-> TRUE, batch |-> b, items |-> s.items] /\ s.items \in Items
    BY <2>1, <1>2 DEF Finish, State
  <2>3. ret' \in [ok : {TRUE}, batch : BatchIDs, items : Items]
    BY <2>2
  <2> QED
    BY <2>1, <2>3, <1>3, <1>4 DEF Finish, CollectorTypeOK
<1>6. CASE ~(Cardinality(Present(s.items)) = Total[b])
  <2>1. batches' = [batches EXCEPT ![b] = s] /\ armed' = Running(b) /\ ret' = [ok |-> FALSE]
    BY <1>6 DEF Add, s
  <2>2. batches' \in [BatchIDs -> State \cup {NoState}]
    BY <2>1, <1>2 DEF CollectorTypeOK
  <2>3. ret' \in [ok : {FALSE}]
    BY <2>1
  <2> QED
    BY <2>1, <2>2, <2>3, <1>3, <1>4 DEF CollectorTypeOK
<1> QED
  BY <1>5, <1>6

\* What Add does to the items, the timers and the result is what the promise
\* says of an item collected.
LEMMA AddCollects ==
    ASSUME CollectorTypeOK,
           NEW b \in BatchIDs, NEW id \in IDs, NEW d \in Data, Add(b, id, d)
    PROVE  Promise!Collect(b, id, d)
<1> DEFINE s == [StateOf(b) EXCEPT !.items[id] = d]
           items == [OpenItems[b] EXCEPT ![id] = d]
<1>1. StateOf(b) \in State /\ StateOf(b).items = OpenItems[b]
  BY MissingIsNoData DEF CollectorTypeOK, StateOf, State, Items, OpenItems
<1>2. s \in State /\ s.items = items
  BY <1>1 DEF State, Items
<1>3. s # NoState
  BY <1>2, NoStateIsNoState
<1>4. Promise!Cardinality(Promise!Present(items)) = Cardinality(Present(s.items))
  <2>1. Promise!Present(items) = Present(s.items)
    BY <1>2 DEF Promise!Present, Present
  <2>2. \A S : Promise!Cardinality(S) = Cardinality(S)
    BY Zenon DEF Promise!Cardinality, Cardinality
  <2> QED
    BY <2>1, <2>2, Zenon
<1>5. Overdue' = Overdue
  BY DEF Add, Overdue
<1>6. Promise!Nothing = [i \in IDs |-> Missing]
  BY DEF Promise!Nothing
<1> HIDE DEF s, items
<1>7. CASE Cardinality(Present(s.items)) = Total[b]
  <2>1. Finish(b, s)
    BY <1>7 DEF Add, s
  <2>2. OpenItems' = [OpenItems EXCEPT ![b] = Promise!Nothing]
    BY <2>1, <1>6 DEF Finish, OpenItems, CollectorTypeOK
  <2>3. ret' = [ok |-> TRUE, batch |-> b, items |-> items]
    BY <2>1, <1>2 DEF Finish
  <2> QED
    BY <1>4, <1>5, <1>7, <2>2, <2>3 DEF Promise!Collect, items
<1>8. CASE ~(Cardinality(Present(s.items)) = Total[b])
  <2>1. batches' = [batches EXCEPT ![b] = s] /\ ret' = [ok |-> FALSE]
    BY <1>8 DEF Add, s
  <2>2. OpenItems' = [OpenItems EXCEPT ![b] = items]
    BY <2>1, <1>2, <1>3 DEF OpenItems, CollectorTypeOK
  <2> QED
    BY <1>4, <1>5, <1>8, <2>1, <2>2 DEF Promise!Collect, items
<1> QED
  BY <1>7, <1>8

\* The steps of the streams that call Add, and those that do not.
LEMMA StreamAdds ==
    ASSUME NEW s \in Streams, Deliver(s) \/ Nack(s)
    PROVE  \/ UNCHANGED collector
           \/ \E b \in BatchIDs, id \in IDs, d \in Data : Add(b, id, d)
<1>1. MsgOf[s].id \in IDs /\ Path(MsgOf[s]) \in Data /\ NoData \in Data
  BY StreamsAssumption, NoDataIsData
<1>2. MsgOf[s].batch \in BatchIDs \cup {NoBatch}
  BY StreamsAssumption
<1>3. CASE Deliver(s)
  BY <1>1, <1>2, <1>3 DEF Deliver
<1>4. CASE Nack(s)
  BY <1>1, <1>2, <1>4 DEF Nack
<1> QED
  BY <1>3, <1>4

\* The collector's variables keep their types, whatever the streams and the
\* timers do.
LEMMA CollectorTyped ==
    ASSUME CollectorTypeOK, [Next]_vars
    PROVE  CollectorTypeOK'
<1>1. CASE UNCHANGED collector
  BY <1>1 DEF collector, CollectorTypeOK
<1>2. ASSUME NEW s \in Streams, Deliver(s) \/ Nack(s)
      PROVE  CollectorTypeOK'
  BY <1>1, <1>2, StreamAdds, AddTyped
<1>3. ASSUME NEW t \in armed \cup firing, TimerFires(t)
      PROVE  CollectorTypeOK'
  BY <1>3 DEF TimerFires, CollectorTypeOK
<1>4. ASSUME NEW t \in armed \cup firing, TimerDeletes(t)
      PROVE  CollectorTypeOK'
  BY <1>4 DEF TimerDeletes, CollectorTypeOK
<1>5. CASE Timer
  BY <1>3, <1>4, <1>5 DEF Timer, TimerStep
<1>6. CASE UNCHANGED vars
  BY <1>1, <1>6 DEF vars
<1> QED
  BY <1>1, <1>2, <1>5, <1>6 DEF Next, Receive, SendRepeated

\* The initial state is well typed.
LEMMA InitTyped == Init => TypeOK
<1> SUFFICES ASSUME Init PROVE TypeOK
  OBVIOUS
<1>1. CollectorTypeOK
  BY DEF Init, CollectorInit, CollectorTypeOK
<1>2. \A s \in Streams : 0 <= Len(MsgOf[s].buffers)
  <2>1. \A n \in Nat : 0 <= n
    OBVIOUS
  <2> QED
    BY <2>1, BufferCount, Zenon
<1> QED
  BY <1>1, <1>2 DEF Init, StoreInit, TypeOK

\* The file store's variables keep their types: a stream never writes past the
\* length that was announced, and an entry names a file some stream created.
LEMMA StoreTyped ==
    ASSUME TypeOK, NEW s \in Streams, StoreStep(s) \/ StoreFault(s), UNCHANGED collector
    PROVE  TypeOK'
<1>0. CollectorTypeOK'
  BY DEF TypeOK, CollectorTypeOK, collector
<1>1. Path(MsgOf[s]) \in Paths
  BY DEF Paths
<1>2. CASE Stat(s)
  BY <1>0, <1>2 DEF Stat, Goto, TypeOK
<1>3. CASE Create(s)
  BY <1>0, <1>1, <1>3 DEF Create, Goto, TypeOK
<1>4. CASE Copy(s)
  BY <1>0, <1>4, BufferCount DEF Copy, TypeOK
<1>5. CASE CopyDone(s)
  BY <1>0, <1>5 DEF CopyDone, Goto, TypeOK
<1>6. CASE CreateFails(s)
  BY <1>0, <1>6 DEF CreateFails, Goto, TypeOK
<1>7. CASE CopyFails(s)
  BY <1>0, <1>1, <1>7 DEF CopyFails, Goto, TypeOK
<1> QED
  BY <1>2, <1>3, <1>4, <1>5, <1>6, <1>7 DEF StoreStep, StoreFault

\* Every step keeps the types.
LEMMA NextTyped == TypeOK /\ [Next]_vars => TypeOK'
<1> SUFFICES ASSUME TypeOK, [Next]_vars PROVE TypeOK'
  OBVIOUS
<1>1. CollectorTypeOK'
  BY CollectorTyped DEF TypeOK
<1>2. ASSUME NEW s \in Streams, Receive(s) PROVE TypeOK'
  BY <1>2, StoreTyped DEF Receive
<1>3. ASSUME NEW s \in Streams, Deliver(s) \/ SendRepeated(s) \/ Nack(s) PROVE TypeOK'
  <2>1. at' = [at EXCEPT ![s] = "done"] /\ UNCHANGED <<dir, off>>
    BY <1>3, Zenon DEF Deliver, SendRepeated, Nack, Goto
  <2> QED
    BY <1>1, <2>1 DEF TypeOK
<1>4. CASE Timer
  BY <1>1, <1>4 DEF Timer, store, TypeOK
<1>5. CASE UNCHANGED vars
  BY <1>1, <1>5 DEF vars, store, TypeOK
<1> QED
  BY <1>2, <1>3, <1>4, <1>5 DEF Next

\* TypeOK: in every order of buffers, failures and timers the store, the streams
\* and the collector keep their types.
THEOREM ReceptionTypeOK == Spec => []TypeOK
BY InitTyped, NextTyped, PTL DEF Spec

-----------------------------------------------------------------------------
\* The empty map maps to no items.
LEMMA InitPromised == Init => Promise!Init
BY DEF Init, CollectorInit, Promise!Init, Promise!Nothing, OpenItems, Overdue

\* A step that leaves the collector alone leaves the promise alone.
LEMMA StutterPromised ==
    ASSUME UNCHANGED collector
    PROVE  UNCHANGED <<OpenItems, Overdue, ret>>
BY DEF collector, OpenItems, Overdue

\* A timer that fires makes its batch overdue.
LEMMA FiringPromised ==
    ASSUME CollectorTypeOK, NEW t \in armed \cup firing, TimerFires(t)
    PROVE  t[1] \in BatchIDs /\ Promise!Wait(t[1])
<1>1. t \in BatchIDs \X Nat
  BY DEF CollectorTypeOK
<1>2. Overdue' = Overdue \cup {t[1]}
  BY DEF TimerFires, Overdue
<1>3. UNCHANGED <<OpenItems, ret>>
  BY DEF TimerFires, OpenItems
<1> QED
  BY <1>1, <1>2, <1>3 DEF Promise!Wait

\* Its callback drops the batch of that ID, the one it was started for or a
\* later one; the ID stays overdue when another timer of it has fired.
LEMMA DeletingPromised ==
    ASSUME CollectorTypeOK, NEW t \in armed \cup firing, TimerDeletes(t)
    PROVE  t[1] \in BatchIDs /\ Promise!Drop(t[1])
<1>1. t \in BatchIDs \X Nat /\ t \in firing
  BY DEF CollectorTypeOK, TimerDeletes
<1>2. t[1] \in BatchIDs /\ t[1] \in Overdue
  BY <1>1 DEF Overdue
<1>3. OpenItems' = [OpenItems EXCEPT ![t[1]] = Promise!Nothing]
  BY <1>2 DEF TimerDeletes, OpenItems, CollectorTypeOK, Promise!Nothing
<1>4. Overdue' \in {Overdue, Overdue \ {t[1]}}
  <2>1. firing' = firing \ {t}
    BY DEF TimerDeletes
  <2>2. CASE \E u \in firing : u # t /\ u[1] = t[1]
    BY <2>1, <2>2 DEF Overdue
  <2>3. CASE ~\E u \in firing : u # t /\ u[1] = t[1]
    BY <2>1, <2>3 DEF Overdue
  <2> QED
    BY <2>2, <2>3
<1>5. ret' = ret
  BY DEF TimerDeletes
<1> QED
  BY <1>2, <1>3, <1>4, <1>5 DEF Promise!Drop

\* Every step is a step of the promise or leaves it alone.
LEMMA NextPromised ==
    TypeOK /\ [Next]_vars => [Promise!Next]_<<OpenItems, Overdue, ret>>
<1> SUFFICES ASSUME TypeOK, [Next]_vars
             PROVE  Promise!Next \/ UNCHANGED <<OpenItems, Overdue, ret>>
  OBVIOUS
<1>0. CollectorTypeOK
  BY DEF TypeOK
<1>1. CASE UNCHANGED collector
  BY <1>1, StutterPromised
<1>2. ASSUME NEW s \in Streams, Deliver(s) \/ Nack(s)
      PROVE  Promise!Next \/ UNCHANGED <<OpenItems, Overdue, ret>>
  <2>1. ASSUME NEW b \in BatchIDs, NEW id \in IDs, NEW d \in Data, Add(b, id, d)
        PROVE  Promise!Next
    BY <1>0, <2>1, AddCollects DEF Promise!Next
  <2> QED
    BY <1>1, <1>2, <2>1, StreamAdds
<1>3. ASSUME NEW t \in armed \cup firing, TimerFires(t) \/ TimerDeletes(t)
      PROVE  Promise!Next
  BY <1>0, <1>3, FiringPromised, DeletingPromised DEF Promise!Next
<1>4. CASE Timer
  BY <1>3, <1>4 DEF Timer, TimerStep
<1>5. CASE UNCHANGED vars
  BY <1>1, <1>5 DEF vars
<1> QED
  BY <1>1, <1>2, <1>4, <1>5 DEF Next, Receive, SendRepeated

\* BatchCollector implements its promise for any batches and streams: an item
\* is never lost or taken for another batch's, a batch is handed over exactly
\* when it is complete and is gone then, and only a timer of its own ID drops
\* one (PromiseKept).
THEOREM CollectorKeepsPromise == Spec => PromiseKept
<1>1. TypeOK /\ [Next]_vars => [Promise!Next]_<<OpenItems, Overdue, ret>>
  BY NextPromised
<1> QED
  BY <1>1, InitPromised, ReceptionTypeOK, PTL DEF Spec, PromiseKept, Promise!Spec
-----------------------------------------------------------------------------
(* The file store: what streams that share a path do to one another. *)

\* What a file may hold: buffers of the streams, and holes.
Buffers ==
    {Hole} \cup UNION {{MsgOf[s].buffers[i] : i \in DOMAIN MsgOf[s].buffers} : s \in Streams}

\* An entry, and the file a stream has open, belong to the path they are for:
\* no stream writes into the file of another path.
StoreOK ==
    /\ data \in [Streams -> Seq(Buffers)]
    /\ fd \in [Streams -> Streams \cup {NoFile}]
    /\ \A p \in Paths : dir[p] # NoFile => Path(MsgOf[dir[p]]) = p
    /\ \A s \in Streams :
          /\ fd[s] # NoFile => Path(MsgOf[fd[s]]) = Path(MsgOf[s])
          /\ at[s] = "copy" => fd[s] # NoFile
          /\ at[s] \in {"stat", "create"} => off[s] = 0
          /\ s \in failed => at[s] = "done"

\* Every stream of the path brings the same message, and none has failed.
Clean(s) ==
    \A t \in SamePath(s) : MsgOf[t] = MsgOf[s] /\ at[t] # "failed" /\ t \notin failed

\* Some stream of the path is still going to write the i-th buffer.
ToBeWritten(s, i) == \E t \in SamePath(s) : at[t] = "copy" /\ off[t] < i

\* While nobody has failed there is one file, which all of them write to, and
\* each of its buffers is right or will be written again: a stream that created
\* the file anew under another, and one that took the size for the content,
\* leave only holes that a stream at work still fills.
Refilled(s) ==
    LET f == dir[Path(MsgOf[s])]
        B == MsgOf[s].buffers
    IN  /\ at[s] = "copy" => fd[s] = f
        /\ at[s] \in {"copy", "stored", "done"} => f # NoFile
        /\ f # NoFile =>
              /\ Len(data[f]) <= Len(B)
              /\ \A i \in 1..Len(B) :
                    ToBeWritten(s, i) \/ (i <= Len(data[f]) /\ data[f][i] = B[i])

\* TwiceIntact made inductive.
StoreInv == TypeOK /\ StoreOK /\ \A s \in Streams : Clean(s) => Refilled(s)

\* A buffer written leaves the others as they are, but for the hole it makes
\* when the file is shorter by now.
LEMMA PutOK ==
    ASSUME NEW q \in Seq(Buffers), NEW o \in Nat, NEW x \in Buffers
    PROVE  /\ Put(q, o, x) \in Seq(Buffers)
           /\ Len(Put(q, o, x)) = IF Len(q) > o THEN Len(q) ELSE o + 1
           /\ Put(q, o, x)[o + 1] = x
           /\ \A i \in 1..Len(q) : i # o + 1 => Put(q, o, x)[i] = q[i]
<1> DEFINE n == IF Len(q) > o THEN Len(q) ELSE o + 1
           r == Put(q, o, x)
<1>1. n \in Nat /\ n >= Len(q) /\ n >= o + 1 /\ Len(q) \in Nat
  OBVIOUS
<1>2. r = [i \in 1..n |-> IF i = o + 1 THEN x ELSE IF i <= Len(q) THEN q[i] ELSE Hole]
  BY DEF Put
<1>3. \A i \in 1..n : r[i] \in Buffers
  <2>1. Hole \in Buffers
    BY DEF Buffers
  <2> QED
    BY <1>1, <1>2, <2>1
<1>4. r \in [1..n -> Buffers]
  BY <1>2, <1>3
<1>5. r \in Seq(Buffers) /\ Len(r) = n
  BY <1>1, <1>4
<1>6. r[o + 1] = x
  BY <1>1, <1>2
<1>7. \A i \in 1..Len(q) : i # o + 1 => r[i] = q[i]
  BY <1>1, <1>2
<1> HIDE DEF r
<1> QED
  BY <1>5, <1>6, <1>7 DEF r

\* The buffers of a stream, and the hole a truncation leaves, are buffers.
LEMMA BuffersTyped ==
    ASSUME NEW s \in Streams
    PROVE  /\ MsgOf[s].buffers \in Seq(Buffers)
           /\ \A i \in 1..Len(MsgOf[s].buffers) : MsgOf[s].buffers[i] \in Buffers
           /\ Hole \in Buffers
<1> DEFINE B == {MsgOf[s].buffers[i] : i \in DOMAIN MsgOf[s].buffers}
<1>1. MsgOf[s].buffers \in Seq(B)
  BY StreamsAssumption
<1>2. B \subseteq Buffers /\ Hole \in Buffers
  BY DEF Buffers
<1> HIDE DEF B
<1>3. MsgOf[s].buffers \in Seq(Buffers)
  BY <1>1, <1>2
<1> QED
  BY <1>2, <1>3

\* Streams of one path are clean together.
LEMMA CleanTogether ==
    ASSUME NEW s \in Streams, NEW t \in SamePath(s), Clean(s)
    PROVE  t \in Streams /\ SamePath(t) = SamePath(s) /\ Clean(t) /\ MsgOf[t] = MsgOf[s]
BY DEF SamePath, Clean

\* The store starts empty.
LEMMA InitStore == Init => StoreInv
<1> SUFFICES ASSUME Init PROVE StoreInv
  OBVIOUS
<1>1. TypeOK
  BY InitTyped
<1>2. StoreOK
  BY DEF Init, StoreInit, StoreOK
<1>3. ASSUME NEW s \in Streams PROVE Refilled(s)
  <2>1. Path(MsgOf[s]) \in Paths
    BY DEF Paths
  <2>2. at[s] = "stat" /\ dir[Path(MsgOf[s])] = NoFile
    BY <2>1 DEF Init, StoreInit
  <2> QED
    BY <2>2 DEF Refilled
<1> QED
  BY <1>1, <1>2, <1>3 DEF StoreInv

\* No step of the store opens the file of another path.
LEMMA StoreStepOK ==
    ASSUME TypeOK, StoreOK, NEW s \in Streams, StoreStep(s) \/ StoreFault(s), UNCHANGED failed
    PROVE  StoreOK'
<1> DEFINE p == Path(MsgOf[s])
<1>0. p \in Paths /\ \A q \in Paths : dir[q] \in Streams \cup {NoFile}
  BY DEF Paths, TypeOK
<1>1. CASE Stat(s)
  BY <1>1 DEF Stat, Goto, StoreOK, TypeOK
<1>2. CASE Create(s)
  <2> DEFINE f == IF dir[p] = NoFile THEN s ELSE dir[p]
  <2>1. f \in Streams /\ Path(MsgOf[f]) = p /\ f # NoFile
    BY <1>0, NoFileIsNoStream DEF StoreOK
  <2>2. /\ dir' = [dir EXCEPT ![p] = f]
        /\ data' = [data EXCEPT ![f] = <<>>]
        /\ fd' = [fd EXCEPT ![s] = f]
        /\ at' = [at EXCEPT ![s] = "copy"]
        /\ off' = off
    BY <1>2 DEF Create, Goto
  <2> HIDE DEF f
  <2>3. data' \in [Streams -> Seq(Buffers)]
    BY <2>1, <2>2 DEF StoreOK
  <2>4. fd' \in [Streams -> Streams \cup {NoFile}]
    BY <2>1, <2>2 DEF StoreOK
  <2>5. \A q \in Paths : dir'[q] # NoFile => Path(MsgOf[dir'[q]]) = q
    BY <1>0, <2>1, <2>2 DEF StoreOK, TypeOK
  <2>6. ASSUME NEW t \in Streams
        PROVE  /\ fd'[t] # NoFile => Path(MsgOf[fd'[t]]) = Path(MsgOf[t])
               /\ at'[t] = "copy" => fd'[t] # NoFile
               /\ at'[t] \in {"stat", "create"} => off'[t] = 0
               /\ t \in failed' => at'[t] = "done"
    <3>1. CASE t = s
      <4>1. fd'[t] = f /\ at'[t] = "copy" /\ t \notin failed
        BY <1>2, <2>2, <3>1 DEF Create, StoreOK, TypeOK
      <4> QED
        BY <2>1, <3>1, <4>1
    <3>2. CASE t # s
      <4>1. fd'[t] = fd[t] /\ at'[t] = at[t] /\ off'[t] = off[t]
        BY <2>2, <3>2 DEF StoreOK, TypeOK
      <4> QED
        BY <4>1 DEF StoreOK
    <3> QED
      BY <3>1, <3>2
  <2> QED
    BY <2>3, <2>4, <2>5, <2>6 DEF StoreOK
<1>3. CASE Copy(s)
  <2>1. fd[s] \in Streams /\ off[s] \in Nat /\ off[s] + 1 \in 1..Len(MsgOf[s].buffers)
    BY <1>3, BufferCount DEF Copy, StoreOK, TypeOK
  <2>2. Put(data[fd[s]], off[s], MsgOf[s].buffers[off[s] + 1]) \in Seq(Buffers)
    BY <2>1, BuffersTyped, PutOK DEF StoreOK
  <2>3. data' \in [Streams -> Seq(Buffers)]
    BY <1>3, <2>1, <2>2 DEF Copy, StoreOK
  <2> QED
    BY <1>3, <2>3 DEF Copy, StoreOK, TypeOK
<1>4. CASE CopyDone(s)
  BY <1>4 DEF CopyDone, Goto, StoreOK, TypeOK
<1>5. CASE CreateFails(s)
  BY <1>5 DEF CreateFails, Goto, StoreOK, TypeOK
<1>6. CASE CopyFails(s)
  BY <1>0, <1>6 DEF CopyFails, Goto, StoreOK, TypeOK
<1> QED
  BY <1>1, <1>2, <1>3, <1>4, <1>5, <1>6 DEF StoreStep, StoreFault

\* A stream of another path neither changes the file of s nor who will write
\* to it.
LEMMA OtherPath ==
    ASSUME StoreInv, NEW s \in Streams, NEW t \in Streams \ SamePath(s),
           StoreStep(t) \/ StoreFault(t), Clean(s), UNCHANGED failed
    PROVE  Refilled(s)'
<1> DEFINE p == Path(MsgOf[s])
           q == Path(MsgOf[t])
           f == dir[p]
<1>1. p \in Paths /\ q \in Paths /\ p # q /\ SamePath(s) \subseteq Streams \ {t}
  BY DEF Paths, SamePath
<1>2. f \in Streams \cup {NoFile} /\ dir[q] \in Streams \cup {NoFile}
  BY <1>1 DEF StoreInv, TypeOK
<1>3. f # NoFile => Path(MsgOf[f]) = p
  BY <1>1 DEF StoreInv, StoreOK
<1>4. dir'[p] = f
  BY <1>1 DEF StoreStep, StoreFault, Stat, Create, Copy, CopyDone, CreateFails, CopyFails, StoreInv, TypeOK
<1>5. \A u \in SamePath(s) : at'[u] = at[u] /\ off'[u] = off[u] /\ fd'[u] = fd[u]
  BY <1>1 DEF StoreStep, StoreFault, Stat, Create, Copy, CopyDone, CreateFails, CopyFails,
     Goto, StoreInv, StoreOK, TypeOK
<1>6. f # NoFile => data'[f] = data[f]
  <2> SUFFICES ASSUME f # NoFile PROVE data'[f] = data[f]
    OBVIOUS
  <2>1. CASE Create(t)
    <3> DEFINE g == IF dir[q] = NoFile THEN t ELSE dir[q]
    <3>1. Path(MsgOf[g]) = q
      BY <1>1, <1>2 DEF StoreInv, StoreOK
    <3>2. g # f
      BY <1>1, <1>3, <3>1
    <3>3. data' = [data EXCEPT ![g] = <<>>]
      BY <2>1 DEF Create
    <3> HIDE DEF g
    <3> QED
      BY <1>2, <3>2, <3>3 DEF StoreInv, StoreOK
  <2>2. CASE Copy(t)
    <3>1. Path(MsgOf[fd[t]]) = q
      BY <2>2 DEF Copy, StoreInv, StoreOK
    <3> QED
      BY <1>1, <1>2, <1>3, <2>2, <3>1 DEF Copy, StoreInv, StoreOK
  <2>3. CASE ~Create(t) /\ ~Copy(t)
    BY <2>3 DEF StoreStep, StoreFault, Stat, CopyDone, CreateFails, CopyFails
  <2> QED
    BY <2>1, <2>2, <2>3
<1>7. Refilled(s)
  BY DEF StoreInv
<1>8. s \in SamePath(s)
  BY DEF SamePath
<1>9. \A i : ToBeWritten(s, i)' <=> ToBeWritten(s, i)
  BY <1>5 DEF ToBeWritten, SamePath
<1> QED
  BY <1>4, <1>5, <1>6, <1>7, <1>8, <1>9 DEF Refilled

\* A stream of the same path: one that has the file anew will write all of it,
\* and one that writes a buffer writes the right one.
LEMMA OwnPath ==
    ASSUME StoreInv, NEW s \in Streams, NEW t \in SamePath(s), StoreStep(t),
           Clean(s), UNCHANGED failed
    PROVE  Refilled(s)'
<1> DEFINE p == Path(MsgOf[s])
           f == dir[p]
           B == MsgOf[s].buffers
           n == Len(B)
<1>1. /\ t \in Streams /\ p \in Paths /\ Path(MsgOf[t]) = p
      /\ MsgOf[t] = MsgOf[s] /\ SamePath(t) = SamePath(s) /\ Clean(t)
      /\ s \in SamePath(s)
  BY CleanTogether DEF SamePath, Paths
<1>2. Refilled(s) /\ Refilled(t)
  BY <1>1 DEF StoreInv
<1>3. /\ n \in Nat /\ f \in Streams \cup {NoFile} /\ off \in [Streams -> Nat]
      /\ at \in [Streams -> {"stat", "create", "copy", "stored", "failed", "done"}]
  BY <1>1, BufferCount DEF StoreInv, TypeOK
<1>4. \A i : ToBeWritten(s, i)' <=> \E u \in SamePath(s) : at'[u] = "copy" /\ off'[u] < i
  BY DEF ToBeWritten, SamePath
<1>5. CASE Stat(t) \/ CopyDone(t)
  <2>1. UNCHANGED <<dir, data, fd, off>> /\ \A u \in Streams \ {t} : at'[u] = at[u]
    BY <1>5, <1>3 DEF Stat, CopyDone, Goto
  <2>2. at[t] # "copy" \/ off[t] = n
    BY <1>1, <1>5 DEF Stat, CopyDone
  <2>3. at'[t] = "create" \/ (at'[t] = "stored" /\ f # NoFile)
    BY <1>1, <1>2, <1>3, <1>5 DEF Stat, CopyDone, Goto, Exists, Refilled
  <2>4. \A i \in 1..n : ToBeWritten(s, i) => ToBeWritten(s, i)'
    BY <1>1, <1>3, <1>4, <2>1, <2>2 DEF ToBeWritten, SamePath
  <2> QED
    BY <1>2, <2>1, <2>3, <2>4 DEF Refilled
<1>6. CASE Create(t)
  <2> DEFINE g == IF f = NoFile THEN t ELSE f
  <2>1. /\ dir' = [dir EXCEPT ![p] = g]
        /\ data' = [data EXCEPT ![g] = <<>>]
        /\ fd' = [fd EXCEPT ![t] = g]
        /\ at' = [at EXCEPT ![t] = "copy"]
        /\ off' = off
    BY <1>1, <1>6 DEF Create, Goto
  <2>2. g \in Streams /\ g # NoFile /\ dir'[p] = g /\ data'[g] = <<>>
    BY <1>1, <1>3, <2>1, NoFileIsNoStream DEF StoreInv, StoreOK, TypeOK
  <2>3. at'[t] = "copy" /\ off'[t] = 0
    BY <1>1, <1>3, <1>6, <2>1 DEF Create, StoreInv, StoreOK
  <2>4. \A i \in 1..n : ToBeWritten(s, i)'
    BY <1>1, <1>3, <1>4, <2>3
  <2>5. at'[s] = "copy" => fd'[s] = g
    <3>1. CASE s = t
      BY <1>1, <2>1, <3>1 DEF StoreInv, StoreOK
    <3>2. CASE s # t
      BY <1>1, <1>2, <1>3, <2>1, <3>2 DEF Refilled
    <3> QED
      BY <3>1, <3>2
  <2>6. Len(data'[g]) <= n
    BY <1>3, <2>2
  <2> HIDE DEF g
  <2> QED
    BY <2>2, <2>4, <2>5, <2>6 DEF Refilled
<1>7. CASE Copy(t)
  <2> DEFINE o == off[t]
             old == data[f]
             new == Put(old, o, B[o + 1])
  <2>1. /\ f \in Streams /\ f # NoFile /\ fd[t] = f
        /\ o \in Nat /\ o < n /\ at[t] = "copy"
    BY <1>1, <1>2, <1>3, <1>7 DEF Copy, Refilled
  <2>2. /\ data' = [data EXCEPT ![f] = new]
        /\ off' = [off EXCEPT ![t] = o + 1]
        /\ UNCHANGED <<dir, fd, at>>
    BY <1>1, <1>7, <2>1 DEF Copy
  <2>3. old \in Seq(Buffers) /\ B[o + 1] \in Buffers /\ Hole \in Buffers /\ Len(old) \in Nat
    <3>1. old \in Seq(Buffers)
      BY <2>1 DEF StoreInv, StoreOK
    <3>2. o + 1 \in 1..n
      BY <1>3, <2>1
    <3> QED
      BY <3>1, <3>2, BuffersTyped
  <2>4. /\ Len(new) = IF Len(old) > o THEN Len(old) ELSE o + 1
        /\ new[o + 1] = B[o + 1]
        /\ \A i \in 1..Len(old) : i # o + 1 => new[i] = old[i]
    <3>1. o \in Nat
      BY <2>1
    <3> HIDE DEF old, o, B
    <3> QED
      BY <2>3, <3>1, PutOK, Zenon
  <2>5. data'[f] = new /\ dir'[p] = f
    BY <2>1, <2>2 DEF StoreInv, StoreOK
  <2> HIDE DEF new
  <2>6. Len(new) <= n
    BY <1>2, <1>3, <2>1, <2>3, <2>4 DEF Refilled
  <2>7. ASSUME NEW i \in 1..n
        PROVE  ToBeWritten(s, i)' \/ (i <= Len(new) /\ new[i] = B[i])
    <3>1. CASE i = o + 1
      BY <1>3, <2>1, <2>3, <2>4, <3>1
    <3>2. CASE o + 1 < i
      BY <1>1, <1>3, <1>4, <2>1, <2>2, <3>2
    <3>3. CASE i < o + 1 /\ ToBeWritten(s, i)
      <4>1. PICK u \in SamePath(s) : at[u] = "copy" /\ off[u] < i
        BY <3>3 DEF ToBeWritten
      <4>2. u # t /\ u \in Streams
        BY <1>3, <2>1, <3>3, <4>1 DEF SamePath
      <4> QED
        BY <1>3, <1>4, <2>2, <4>1, <4>2
    <3>4. CASE i < o + 1 /\ ~ToBeWritten(s, i)
      <4>1. i <= Len(old) /\ old[i] = B[i]
        BY <1>2, <2>1, <3>4 DEF Refilled
      <4>2. i \in 1..Len(old) /\ i # o + 1 /\ Len(old) <= Len(new)
        BY <1>3, <2>1, <2>3, <2>4, <3>4, <4>1
      <4>3. Len(new) \in Nat /\ i \in Nat
        BY <1>3, <2>1, <2>3, <2>4
      <4> QED
        BY <2>3, <2>4, <4>1, <4>2, <4>3
    <3> QED
      BY <1>3, <2>1, <3>1, <3>2, <3>3, <3>4
  <2> QED
    BY <1>2, <2>1, <2>2, <2>5, <2>6, <2>7 DEF Refilled
<1> QED
  BY <1>5, <1>6, <1>7 DEF StoreStep

\* The message of the stream is passed on, or its failure is.
Leaves(s) ==
    /\ at'[s] = "done"
    /\ \/ at[s] = "stored" /\ s \notin failed'
       \/ at[s] = "failed" /\ s \in failed'

\* A step that moves a stream out of the store, or does not concern the store.
LEMMA Untouched ==
    ASSUME StoreInv, UNCHANGED <<dir, data, fd, off>>, failed \subseteq failed',
           NEW W \in SUBSET Streams,
           \A s \in Streams \ W : at'[s] = at[s] /\ (s \in failed' => s \in failed),
           \A s \in W : Leaves(s)
    PROVE  StoreOK' /\ \A s \in Streams : Clean(s)' => Refilled(s)'
<1>1. StoreOK'
  BY DEF StoreInv, StoreOK, Leaves
<1>2. ASSUME NEW s \in Streams, Clean(s)' PROVE Refilled(s)'
  <2>1. SamePath(s)' = SamePath(s) /\ SamePath(s) \subseteq Streams /\ s \in SamePath(s)
    BY DEF SamePath
  <2>2. ASSUME NEW t \in SamePath(s)
        PROVE  /\ at[t] # "failed" /\ t \notin failed /\ MsgOf[t] = MsgOf[s]
               /\ at'[t] = at[t] \/ (at[t] = "stored" /\ at'[t] = "done")
    <3>1. at'[t] # "failed" /\ t \notin failed' /\ MsgOf[t] = MsgOf[s]
      BY <1>2, <2>1 DEF Clean
    <3>2. CASE t \in W
      BY <3>1, <3>2 DEF Leaves
    <3>3. CASE t \notin W
      BY <2>1, <3>1, <3>3
    <3> QED
      BY <3>2, <3>3
  <2>3. Clean(s)
    BY <2>2 DEF Clean
  <2>4. Refilled(s)
    BY <2>3 DEF StoreInv
  <2>5. \A i : ToBeWritten(s, i)' <=> ToBeWritten(s, i)
    BY <2>1, <2>2 DEF ToBeWritten
  <2> QED
    BY <2>1, <2>2, <2>4, <2>5 DEF Refilled
<1> QED
  BY <1>1, <1>2

\* Every step keeps the store consistent with the streams.
LEMMA NextStore == StoreInv /\ [Next]_vars => StoreInv'
<1> SUFFICES ASSUME StoreInv, [Next]_vars PROVE StoreInv'
  OBVIOUS
<1>0. TypeOK /\ TypeOK'
  BY NextTyped DEF StoreInv
<1> SUFFICES StoreOK' /\ \A s \in Streams : Clean(s)' => Refilled(s)'
  BY <1>0 DEF StoreInv
<1>1. ASSUME NEW t \in Streams, Receive(t)
      PROVE  StoreOK' /\ \A s \in Streams : Clean(s)' => Refilled(s)'
  <2>1. (StoreStep(t) \/ StoreFault(t)) /\ UNCHANGED failed
    BY <1>1 DEF Receive
  <2>2. StoreOK'
    BY <2>1, StoreStepOK DEF StoreInv
  <2>3. ASSUME NEW s \in Streams, Clean(s)' PROVE Refilled(s)'
    <3>1. SamePath(s)' = SamePath(s)
      BY DEF SamePath
    <3>2. \A u \in Streams : at[u] = "failed" => at'[u] = "failed"
      BY <1>0, <2>1 DEF StoreStep, StoreFault, Stat, Create, Copy, CopyDone, CreateFails,
         CopyFails, Goto, TypeOK
    <3>3. Clean(s)
      BY <2>1, <2>3, <3>1, <3>2 DEF Clean, SamePath
    <3>4. CASE t \notin SamePath(s)
      BY <2>1, <3>3, <3>4, OtherPath
    <3>5. CASE t \in SamePath(s)
      <4>1. at'[t] # "failed"
        BY <2>3, <3>1, <3>5 DEF Clean
      <4>2. StoreStep(t)
        BY <1>0, <2>1, <4>1 DEF StoreFault, CreateFails, CopyFails, Goto, TypeOK
      <4> QED
        BY <2>1, <3>3, <3>5, <4>2, OwnPath
    <3> QED
      BY <3>4, <3>5
  <2> QED
    BY <2>2, <2>3
<1>2. ASSUME NEW t \in Streams, Deliver(t) \/ SendRepeated(t) \/ Nack(t)
      PROVE  StoreOK' /\ \A s \in Streams : Clean(s)' => Refilled(s)'
  <2>1. /\ at' = [at EXCEPT ![t] = "done"] /\ UNCHANGED <<dir, data, fd, off>>
        /\ \/ at[t] = "stored" /\ failed' = failed
           \/ at[t] = "failed" /\ failed' = failed \cup {t}
    BY <1>2, Zenon DEF Deliver, SendRepeated, Nack, Goto
  <2>2. failed \subseteq failed' /\ {t} \in SUBSET Streams
    BY <2>1
  <2>3. \A s \in Streams \ {t} : at'[s] = at[s] /\ (s \in failed' => s \in failed)
    BY <1>0, <2>1 DEF TypeOK
  <2>4. \A s \in {t} : Leaves(s)
    <3>1. at'[t] = "done" /\ (at[t] = "stored" => t \notin failed)
      BY <1>0, <2>1 DEF TypeOK, StoreInv, StoreOK
    <3> QED
      BY <2>1, <3>1 DEF Leaves
  <2>5. UNCHANGED <<dir, data, fd, off>>
    BY <2>1
  <2> QED
    BY <2>2, <2>3, <2>4, <2>5, Untouched
<1>3. CASE Timer \/ UNCHANGED vars
  <2>1. UNCHANGED <<dir, data, fd, off, at, failed>>
    BY <1>3 DEF Timer, vars, store
  <2>2. {} \in SUBSET Streams /\ failed \subseteq failed'
    BY <2>1
  <2>3. \A s \in Streams \ {} : at'[s] = at[s] /\ (s \in failed' => s \in failed)
    BY <2>1
  <2>4. \A s \in {} : Leaves(s)
    OBVIOUS
  <2>5. UNCHANGED <<dir, data, fd, off>>
    BY <2>1
  <2> QED
    BY <2>2, <2>3, <2>4, <2>5, Untouched
<1> QED
  BY <1>1, <1>2, <1>3 DEF Next

\* When none of the streams of a path is at work any more, no buffer is left
\* to be written, so each is right.
LEMMA RefilledIntact ==
    ASSUME StoreInv, NEW s \in Streams, Clean(s),
           \A t \in SamePath(s) : at[t] \in {"stored", "done"}
    PROVE  Intact(s)
<1> DEFINE f == dir[Path(MsgOf[s])]
           B == MsgOf[s].buffers
<1>1. Refilled(s) /\ s \in SamePath(s)
  BY DEF StoreInv, SamePath
<1>2. f # NoFile /\ Len(data[f]) <= Len(B)
  BY <1>1 DEF Refilled
<1>3. \A i \in 1..Len(B) : i <= Len(data[f]) /\ data[f][i] = B[i]
  BY <1>1, <1>2 DEF Refilled, ToBeWritten
<1>4. Path(MsgOf[s]) \in Paths
  BY DEF Paths
<1>5. f \in Streams
  BY <1>2, <1>4 DEF StoreInv, TypeOK
<1>6. data[f] \in Seq(Buffers) /\ B \in Seq(Buffers)
  BY <1>5, BuffersTyped DEF StoreInv, StoreOK
<1> HIDE DEF f, B
<1>7. Len(B) \in Nat /\ Len(data[f]) \in Nat
  BY <1>6
<1>8. Len(data[f]) = Len(B)
  BY <1>2, <1>3, <1>7
<1>9. data[f] = B
  BY <1>3, <1>6, <1>7, <1>8
<1> QED
  BY <1>2, <1>9 DEF Intact, f, B

\* TwiceIntact, for any number of streams, buffers and paths: whatever the
\* streams that bring one file do to each other's writes, once all of them have
\* stored it the file is as it was sent.
THEOREM StoredTwiceIntact == Spec => []TwiceIntact
<1>1. StoreInv => TwiceIntact
  <2> SUFFICES ASSUME StoreInv, NEW s \in Streams,
                      \A t \in SamePath(s) : MsgOf[t] = MsgOf[s] /\ at[t] \in {"stored", "done"},
                      \A t \in SamePath(s) : t \notin failed
               PROVE  Intact(s)
    BY DEF TwiceIntact
  <2>1. Clean(s)
    BY DEF Clean
  <2> QED
    BY <2>1, RefilledIntact
<1> QED
  BY <1>1, InitStore, NextStore, PTL DEF Spec

-----------------------------------------------------------------------------
(* What reaches the clipboard. *)

\* The paths of the streams that have been stored and passed on.
Delivered == {Path(MsgOf[t]) : t \in {u \in Streams : at[u] = "done" /\ u \notin failed}}

\* What Add was given, refusals apart, is a path some stream delivered; and so
\* is what the clipboard got.
FromStreams ==
    /\ \A b \in BatchIDs : batches[b] # NoState =>
          \A id \in IDs : batches[b].items[id] \in {Missing, NoData} \cup Delivered
    /\ \A paths \in clipboard : paths \subseteq Delivered

\* PastedIntact made inductive.
PastedInv == StoreInv /\ FromStreams

\* What was delivered stays delivered.
LEMMA StaysDelivered ==
    ASSUME StoreInv, [Next]_vars, NEW d \in Delivered
    PROVE  d \in Delivered'
<1>1. PICK t \in Streams : d = Path(MsgOf[t]) /\ at[t] = "done" /\ t \notin failed
  BY DEF Delivered
<1> SUFFICES at'[t] = "done" /\ t \notin failed'
  BY <1>1 DEF Delivered
<1>2. TypeOK
  BY DEF StoreInv
<1>3. ASSUME NEW s \in Streams, Receive(s)
      PROVE  at'[t] = "done" /\ t \notin failed'
  BY <1>1, <1>2, <1>3 DEF Receive, StoreStep, StoreFault, Stat, Create, Copy, CopyDone,
     CreateFails, CopyFails, Goto, TypeOK
<1>4. ASSUME NEW s \in Streams, Deliver(s) \/ SendRepeated(s) \/ Nack(s)
      PROVE  at'[t] = "done" /\ t \notin failed'
  <2>1. /\ at' = [at EXCEPT ![s] = "done"]
        /\ \/ at[s] = "stored" /\ failed' = failed
           \/ at[s] = "failed" /\ failed' = failed \cup {s}
    BY <1>4, Zenon DEF Deliver, SendRepeated, Nack, Goto
  <2> QED
    BY <1>1, <1>2, <2>1 DEF TypeOK
<1>5. CASE Timer \/ UNCHANGED vars
  BY <1>1, <1>5 DEF Timer, vars, store
<1> QED
  BY <1>3, <1>4, <1>5 DEF Next

\* What Add keeps and what it hands over are the items of the batch and the one
\* that was added.
LEMMA AddItems ==
    ASSUME CollectorTypeOK, NEW b \in BatchIDs, NEW id \in IDs, NEW d \in Data, Add(b, id, d),
           NEW G, d \in G,
           \A c \in BatchIDs : batches[c] # NoState =>
               \A i \in IDs : batches[c].items[i] = Missing \/ batches[c].items[i] \in G
    PROVE  /\ \A c \in BatchIDs : batches'[c] # NoState =>
                  \A i \in IDs : batches'[c].items[i] = Missing \/ batches'[c].items[i] \in G
           /\ ret'.ok => \A i \in IDs : ret'.items[i] = Missing \/ ret'.items[i] \in G
<1> DEFINE s == [StateOf(b) EXCEPT !.items[id] = d]
<1>1. /\ StateOf(b) \in State
      /\ \A i \in IDs : StateOf(b).items[i] = Missing \/ StateOf(b).items[i] \in G
  BY MissingIsNoData DEF CollectorTypeOK, StateOf, State, Items
<1>2. /\ s \in State
      /\ \A i \in IDs : s.items[i] = Missing \/ s.items[i] \in G
  BY <1>1 DEF State, Items
<1> HIDE DEF s
<1>3. CASE Cardinality(Present(s.items)) = Total[b]
  <2>1. Finish(b, s)
    BY <1>3 DEF Add, s
  <2> QED
    BY <1>2, <2>1 DEF Finish, CollectorTypeOK
<1>4. CASE ~(Cardinality(Present(s.items)) = Total[b])
  <2>1. batches' = [batches EXCEPT ![b] = s] /\ ret' = [ok |-> FALSE]
    BY <1>4 DEF Add, s
  <2> QED
    BY <1>2, <2>1 DEF CollectorTypeOK
<1> QED
  BY <1>3, <1>4

\* Every step keeps what is pasted intact.
LEMMA NextPasted == PastedInv /\ [Next]_vars => PastedInv'
<1> SUFFICES ASSUME PastedInv, [Next]_vars PROVE FromStreams'
  BY NextStore DEF PastedInv
<1> DEFINE G == {NoData} \cup Delivered'
<1>0. CollectorTypeOK /\ CollectorTypeOK' /\ TypeOK
  BY NextTyped DEF PastedInv, StoreInv, TypeOK
<1>1. Delivered \subseteq Delivered'
  BY StaysDelivered DEF PastedInv
<1>2. /\ \A c \in BatchIDs : batches[c] # NoState =>
             \A i \in IDs : batches[c].items[i] = Missing \/ batches[c].items[i] \in G
      /\ \A paths \in clipboard : paths \subseteq Delivered'
  BY <1>1 DEF PastedInv, FromStreams
<1>3. CASE UNCHANGED <<batches, clipboard>>
  BY <1>1, <1>3 DEF PastedInv, FromStreams
<1>4. ASSUME NEW b \in BatchIDs, NEW id \in IDs, NEW d \in Data \cap G, Add(b, id, d),
             clipboard' = clipboard \/ (ret'.ok /\ clipboard' = clipboard \cup {Join(ret'.items)})
      PROVE  FromStreams'
  <2>1. /\ \A c \in BatchIDs : batches'[c] # NoState =>
               \A i \in IDs : batches'[c].items[i] = Missing \/ batches'[c].items[i] \in G
        /\ ret'.ok => \A i \in IDs : ret'.items[i] = Missing \/ ret'.items[i] \in G
    <3> HIDE DEF G
    <3> QED
      BY <1>0, <1>2, <1>4, AddItems
  <2>2. ret'.ok => Join(ret'.items) \subseteq Delivered'
    BY <2>1 DEF Join, Present
  <2> QED
    BY <1>2, <1>4, <2>1, <2>2 DEF FromStreams
<1>5. ASSUME NEW s \in Streams, Deliver(s) PROVE FromStreams'
  <2> DEFINE m == MsgOf[s]
  <2>1. s \notin failed' /\ at'[s] = "done"
    BY <1>0, <1>5 DEF Deliver, Goto, PastedInv, StoreInv, StoreOK, TypeOK
  <2>2. Path(m) \in Data \cap G /\ Path(m) \in Delivered' /\ m.id \in IDs
        /\ m.batch \in BatchIDs \cup {NoBatch}
    BY <2>1, StreamsAssumption DEF Delivered
  <2>3. CASE clipboard' = clipboard \cup {{Path(m)}} /\ UNCHANGED collector
    BY <1>2, <2>2, <2>3 DEF FromStreams, collector
  <2>4. CASE /\ m.batch # NoBatch
             /\ Add(m.batch, m.id, Path(m))
             /\ clipboard' = IF ret'.ok THEN clipboard \cup {Join(ret'.items)} ELSE clipboard
    BY <1>4, <2>2, <2>4
  <2> QED
    BY <1>5, <2>3, <2>4 DEF Deliver
<1>6. ASSUME NEW s \in Streams, Nack(s) PROVE FromStreams'
  <2> DEFINE m == MsgOf[s]
  <2>1. NoData \in Data \cap G /\ m.id \in IDs /\ m.batch \in BatchIDs \cup {NoBatch}
    BY StreamsAssumption, NoDataIsData
  <2>2. CASE UNCHANGED collector
    BY <1>3, <1>6, <2>2 DEF Nack, collector
  <2>3. CASE m.batch # NoBatch /\ Add(m.batch, m.id, NoData)
    BY <1>4, <1>6, <2>1, <2>3 DEF Nack
  <2> QED
    BY <1>6, <2>2, <2>3 DEF Nack
<1>7. CASE Timer
  <2>1. /\ clipboard' = clipboard
        /\ \/ batches' = batches
           \/ \E b \in BatchIDs : batches' = [batches EXCEPT ![b] = NoState]
    BY <1>0, <1>7 DEF Timer, TimerStep, TimerFires, TimerDeletes, CollectorTypeOK
  <2> QED
    BY <1>0, <1>2, <2>1 DEF FromStreams, CollectorTypeOK
<1> QED
  BY <1>3, <1>5, <1>6, <1>7 DEF Next, Receive, SendRepeated, vars, collector

\* PastedIntact, for any streams, batches and timers: a path that reached the
\* clipboard names, unless two files share it, a file that is whole.
THEOREM ReceptionPastedIntact == Spec => []PastedIntact
<1>1. Init => PastedInv
  <2>1. Init => FromStreams
    BY DEF Init, CollectorInit, FromStreams
  <2> QED
    BY <2>1, InitStore DEF PastedInv
<1>2. PastedInv => PastedIntact
  <2> SUFFICES ASSUME PastedInv, NEW paths \in clipboard, NEW s \in Streams,
                      Path(MsgOf[s]) \in paths, SamePath(s) = {s}
               PROVE  Intact(s)
    BY DEF PastedIntact
  <2>1. PICK t \in Streams : Path(MsgOf[t]) = Path(MsgOf[s]) /\ at[t] = "done" /\ t \notin failed
    BY DEF PastedInv, FromStreams, Delivered
  <2>2. t = s
    BY <2>1 DEF SamePath
  <2>3. Clean(s)
    BY <2>1, <2>2 DEF Clean
  <2> QED
    BY <2>1, <2>2, <2>3, RefilledIntact DEF PastedInv
<1> QED
  BY <1>1, <1>2, NextPasted, PTL DEF Spec
=============================================================================
