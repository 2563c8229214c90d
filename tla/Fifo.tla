-------------------------------- MODULE Fifo --------------------------------
(***************************************************************************)
(* The bounded first-in first-out map of internal/channel/history.go.  It  *)
(* is used twice by a channel: as the history of announced content hashes  *)
(* and as the table of the file messages a node still serves.              *)
(*                                                                         *)
(* A fifo is [order |-> the keys, oldest first, data |-> key to value].    *)
(* Every operation runs under the fifo's own mutex, so each is one step.   *)
(***************************************************************************)
EXTENDS Naturals, Sequences, Functions

FifoNew == [order |-> <<>>, data |-> <<>>]

FifoHas(h, key) == key \in DOMAIN h.data

\* Mutant: one key too many is kept (> for >=).
MakeRoomLate(h, limit) ==
    IF Len(h.order) > limit
    THEN [order |-> Tail(h.order),
          data  |-> Restrict(h.data, DOMAIN h.data \ {Head(h.order)})]
    ELSE h

\* Mutant: a key is evicted while there is still room for one more.
MakeRoomEarly(h, limit) ==
    IF h.order # <<>> /\ Len(h.order) + 1 >= limit
    THEN [order |-> Tail(h.order),
          data  |-> Restrict(h.data, DOMAIN h.data \ {Head(h.order)})]
    ELSE h

\* Mutant: the newest key is the one evicted.
MakeRoomNewest(h, limit) ==
    IF Len(h.order) >= limit
    THEN [order |-> SubSeq(h.order, 1, Len(h.order) - 1),
          data  |-> Restrict(h.data, DOMAIN h.data \ {h.order[Len(h.order)]})]
    ELSE h

\* The fifo without its oldest key, when it holds `limit` keys already.
MakeRoom(h, limit) ==
    IF Len(h.order) >= limit
    THEN [order |-> Tail(h.order),
          data  |-> Restrict(h.data, DOMAIN h.data \ {Head(h.order)})]
    ELSE h

Insert(h, key, value) ==
    [order |-> Append(h.order, key),
     data  |-> [k \in DOMAIN h.data \cup {key} |->
                    IF k = key THEN value ELSE h.data[k]]]

\* fifo.Add: FALSE is returned exactly when FifoHas(h, key) holds before.
FifoAdd(h, key, value, limit) ==
    IF FifoHas(h, key) THEN h ELSE Insert(MakeRoom(h, limit), key, value)

\* What every fifo satisfies: no key twice in order, order and data hold the
\* same keys, and never more than `limit` of them.
FifoOK(h, limit) ==
    /\ IsInjective(h.order)
    /\ Range(h.order) = DOMAIN h.data
    /\ Len(h.order) <= limit
=============================================================================
