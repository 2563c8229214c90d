----------------------------- MODULE FifoProofs -----------------------------
(***************************************************************************)
(* What the bounded map of history.go does, for any keys, values and       *)
(* limits: the lemmas that the proofs about Channel and ClipSync share.    *)
(***************************************************************************)
EXTENDS Fifo, TLAPS

\* Eviction keeps a fifo well formed, leaves room for one key, and removes
\* nothing but the oldest key.
LEMMA MakeRoomOK ==
    ASSUME NEW K, NEW h, NEW limit \in Nat \ {0},
           h.order \in Seq(K), FifoOK(h, limit)
    PROVE  LET r == MakeRoom(h, limit) IN
           /\ r.order \in Seq(K)
           /\ IsInjective(r.order)
           /\ Range(r.order) = DOMAIN r.data
           /\ Len(r.order) < limit
           /\ DOMAIN r.data \subseteq DOMAIN h.data
           /\ \A k \in DOMAIN r.data : r.data[k] = h.data[k]
<1> DEFINE r == MakeRoom(h, limit)
<1>1. CASE Len(h.order) >= limit
  <2>1. r.order = Tail(h.order) /\ r.data = Restrict(h.data, DOMAIN h.data \ {Head(h.order)})
    BY <1>1 DEF MakeRoom
  <2>2. h.order # <<>> /\ Len(h.order) = limit
    BY <1>1 DEF FifoOK
  <2>3. /\ Tail(h.order) \in Seq(K) /\ Len(Tail(h.order)) = Len(h.order) - 1
        /\ DOMAIN Tail(h.order) = 1..(Len(h.order) - 1)
        /\ \A i \in 1..(Len(h.order) - 1) : Tail(h.order)[i] = h.order[i+1]
    BY <2>2
  <2>4. Head(h.order) = h.order[1] /\ 1 \in 1..Len(h.order)
    BY <2>2
  <2>5. IsInjective(Tail(h.order))
    BY <2>3 DEF IsInjective, FifoOK
  <2>6. Range(Tail(h.order)) = Range(h.order) \ {Head(h.order)}
    <3>1. ASSUME NEW x \in Range(Tail(h.order)) PROVE x \in Range(h.order) \ {Head(h.order)}
      <4>1. PICK i \in 1..(Len(h.order) - 1) : x = h.order[i+1]
        BY <2>3, <3>1 DEF Range
      <4>2. i + 1 \in 1..Len(h.order) /\ i + 1 # 1
        OBVIOUS
      <4>3. QED
        BY <4>1, <4>2, <2>4 DEF Range, IsInjective, FifoOK
    <3>2. ASSUME NEW x \in Range(h.order) \ {Head(h.order)} PROVE x \in Range(Tail(h.order))
      <4>1. PICK i \in 1..Len(h.order) : x = h.order[i]
        BY <3>2 DEF Range
      <4>2. i # 1
        BY <3>2, <4>1, <2>4
      <4>3. i - 1 \in 1..(Len(h.order) - 1) /\ Tail(h.order)[i-1] = x
        BY <4>1, <4>2, <2>3
      <4>4. QED
        BY <4>3, <2>3 DEF Range
    <3>3. QED
      BY <3>1, <3>2
  <2>7. /\ DOMAIN r.data = DOMAIN h.data \ {Head(h.order)}
        /\ \A k \in DOMAIN r.data : r.data[k] = h.data[k]
    BY <2>1 DEF Restrict
  <2>8. Range(r.order) = DOMAIN r.data
    BY <2>1, <2>6, <2>7 DEF FifoOK
  <2>9. Len(r.order) < limit
    BY <2>1, <2>2, <2>3
  <2>10. QED
    BY <2>1, <2>3, <2>5, <2>7, <2>8, <2>9
<1>2. CASE ~(Len(h.order) >= limit)
  <2>1. r = h
    BY <1>2 DEF MakeRoom
  <2>2. Len(h.order) < limit
    BY <1>2
  <2>3. QED
    BY <2>1, <2>2 DEF FifoOK
<1>3. QED
  BY <1>1, <1>2

\* g is the well-formed fifo h after an Add: the new key is mapped to the new
\* value unless h had it, and every other key that survives keeps its value.
AddedTo(g, h, K, key, value, limit) ==
    /\ g.order \in Seq(K)
    /\ FifoOK(g, limit)
    /\ DOMAIN g.data \subseteq DOMAIN h.data \cup {key}
    /\ \A k \in DOMAIN g.data :
          g.data[k] = IF FifoHas(h, key) \/ k # key THEN h.data[k] ELSE value

\* fifo.Add keeps a fifo well formed, whether it evicts a key, has room, or
\* already knows the key.
LEMMA FifoAddOK ==
    ASSUME NEW K, NEW h, NEW limit \in Nat \ {0}, NEW key \in K, NEW value,
           h.order \in Seq(K), FifoOK(h, limit)
    PROVE  AddedTo(FifoAdd(h, key, value, limit), h, K, key, value, limit)
<1> DEFINE r == MakeRoom(h, limit)
           g == FifoAdd(h, key, value, limit)
<1>1. CASE FifoHas(h, key)
  BY <1>1 DEF FifoAdd, AddedTo
<1>2. CASE ~FifoHas(h, key)
  <2>1. /\ r.order \in Seq(K)
        /\ IsInjective(r.order)
        /\ Range(r.order) = DOMAIN r.data
        /\ Len(r.order) < limit
        /\ DOMAIN r.data \subseteq DOMAIN h.data
        /\ \A k \in DOMAIN r.data : r.data[k] = h.data[k]
    BY MakeRoomOK
  <2>2. /\ g.order = Append(r.order, key)
        /\ g.data = [k \in DOMAIN r.data \cup {key} |-> IF k = key THEN value ELSE r.data[k]]
    BY <1>2 DEF FifoAdd, Insert
  <2> HIDE DEF r, g
  <2>3. key \notin Range(r.order)
    BY <1>2, <2>1 DEF FifoHas
  <2>4. /\ g.order \in Seq(K) /\ Len(g.order) = Len(r.order) + 1
        /\ DOMAIN g.order = 1..(Len(r.order) + 1) /\ DOMAIN r.order = 1..Len(r.order)
        /\ \A i \in 1..Len(r.order) : g.order[i] = r.order[i]
        /\ g.order[Len(r.order) + 1] = key
    BY <2>1, <2>2
  <2>5. IsInjective(g.order)
    <3> SUFFICES ASSUME NEW a \in 1..(Len(r.order) + 1), NEW b \in 1..(Len(r.order) + 1),
                        g.order[a] = g.order[b]
                 PROVE  a = b
      BY <2>4 DEF IsInjective
    <3>1. \A i \in 1..Len(r.order) : g.order[i] # key
      BY <2>3, <2>4 DEF Range
    <3>2. CASE a \in 1..Len(r.order) /\ b \in 1..Len(r.order)
      BY <3>2, <2>1, <2>4 DEF IsInjective
    <3>3. QED
      BY <3>1, <3>2, <2>1, <2>4
  <2>6. Range(g.order) = Range(r.order) \cup {key}
    <3>1. ASSUME NEW x \in Range(g.order) PROVE x \in Range(r.order) \cup {key}
      <4>1. PICK i \in 1..(Len(r.order) + 1) : x = g.order[i]
        BY <2>4, <3>1 DEF Range
      <4>2. CASE i \in 1..Len(r.order)
        BY <4>1, <4>2, <2>4 DEF Range
      <4>3. QED
        BY <4>1, <4>2, <2>1, <2>4
    <3>2. ASSUME NEW x \in Range(r.order) \cup {key} PROVE x \in Range(g.order)
      <4>1. CASE x = key
        BY <4>1, <2>1, <2>4 DEF Range
      <4>2. CASE x \in Range(r.order)
        <5>1. PICK i \in 1..Len(r.order) : x = r.order[i]
          BY <4>2, <2>4 DEF Range
        <5>2. i \in DOMAIN g.order /\ g.order[i] = x
          BY <5>1, <2>1, <2>4
        <5>3. QED
          BY <5>2 DEF Range
      <4>3. QED
        BY <3>2, <4>1, <4>2
    <3>3. QED
      BY <3>1, <3>2
  <2>7. Len(g.order) <= limit
    BY <2>1, <2>4
  <2>8. FifoOK(g, limit)
    BY <2>1, <2>2, <2>5, <2>6, <2>7 DEF FifoOK
  <2>9. QED
    BY <1>2, <2>1, <2>2, <2>4, <2>8 DEF g, FifoHas, AddedTo
<1>3. QED
  BY <1>1, <1>2
=============================================================================
