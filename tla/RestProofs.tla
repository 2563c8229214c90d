----------------------------- MODULE RestProofs -----------------------------
(***************************************************************************)
(* Proofs about a ClipSync network that has come to rest.  Over a full     *)
(* mesh, while nothing has failed, the announce history holds what was     *)
(* copied and no content is empty or was copied twice, nothing gets lost:  *)
(* every message that is not at its end on some node is somewhere, and the *)
(* step that takes it from there moves it on.  So no batch is left waiting *)
(* for an item, and, for paced users, the last copy is shown everywhere.   *)
(*                                                                         *)
(* The account of the messages that ClipSyncProofs keeps (H and S, with    *)
(* Life) says where a message may be; Full adds that it is there.          *)
(***************************************************************************)
EXTENDS ClipSyncProofs

FullyMeshed == \A n \in Nodes : Mesh[n] = Nodes \ {n}

\* No content was copied twice, in one copy or in two, and none is empty.
Distinct ==
    /\ \A i \in 1..Len(copied) : Range(copied[i].what) \cap Empty = {} /\ IsInjective(copied[i].what)
    /\ \A i, j \in 1..Len(copied) : i # j => Range(copied[i].what) \cap Range(copied[j].what) = {}

Undisturbed == FullyMeshed /\ faults = 0 /\ WithinHistory /\ Distinct

\* What carries a content that node n's user copied, and the BatchID of that copy.
CopiedBy(n, x) ==
    \E i \in 1..Len(copied) :
        /\ copied[i].by = n /\ x.hash \in Range(copied[i].what)
        /\ x.batch = IF x.hash \in Files THEN copied[i].what ELSE <<>>

\* Every message that was made has a content of its own, copied by its author.
OnceMade(H) ==
    /\ \A id \in Made : /\ H[id] \in Traced /\ Known(H, H[id]) /\ H[id].id = id
                        /\ H[id].mime = Mime(H[id].hash) /\ CopiedBy(Author(id), H[id])
    /\ \A id, jd \in Made : H[id].hash = H[jd].hash => id = jd

\* So has every update in a queue.
OnceQueued(H) ==
    \A n \in Nodes : \A q \in 1..Len(updates[n]) :
        /\ CopiedBy(n, updates[n][q])
        /\ \A r \in 1..Len(updates[n]) : updates[n][q].hash = updates[n][r].hash => q = r
        /\ \A id \in Made : H[id].hash # updates[n][q].hash

\* Every content that was copied is still queued or was made a message.
Covered(H) ==
    \A i \in 1..Len(copied) : \A c \in Range(copied[i].what) :
        \/ \E q \in 1..Len(updates[copied[i].by]) : updates[copied[i].by][q].hash = c
        \/ \E id \in Made : H[id].hash = c

\* The update goroutine's last message is one it made.
CurrentMade(H) == \A n \in Nodes : current[n] # NoMsg => Known(H, current[n])

Queued(H) == OnceMade(H) /\ OnceQueued(H) /\ Covered(H) /\ CurrentMade(H)

\* The clipboard's mark is of something that was copied.
Marked == \A n \in Nodes : Range(dedup[n]) \subseteq CopiedContents

\* Where a message is that has reached stage p on node n.
At(H, p, n, id) ==
    /\ p = "announced" => H[id] \in DOMAIN anns[n]
    /\ p = "asked" => Request(n, Author(id), id) \in DOMAIN net
    /\ p = "coming" => Content(n, H[id]) \in DOMAIN net
    /\ p = "handing" => H[id] \in DOMAIN handing[n]
    /\ p = "sending" => sending[n] = H[id]

\* A message that has not reached node n yet will be announced to it.
OnItsWay(H, S, n, id) ==
    S[Author(id)][id] = "sending" \/ Announcement(n, H[id]) \in DOMAIN net

\* Every message is where its stage says.
Placed(H, S) ==
    \A n \in Nodes : \A id \in Made :
        /\ At(H, S[n][id], n, id)
        /\ n = Author(id) => S[n][id] \in {"sending", "done"}
        /\ n # Author(id) /\ S[n][id] = "none" => OnItsWay(H, S, n, id)

\* The stages a message does not leave.
Ended == {"done", "dropped"}

\* Only what is too big is refused, and a text may be gone when it is asked for.
Refusals(H, S) ==
    \A n \in Nodes : \A id \in Made :
        S[n][id] = "dropped" => H[id].hash \in TooBig \/ (H[id].mime = "text" /\ ~Paced)

\* The history of node n has nothing but contents of messages that reached n.
SeenBack(H, S) == \A n \in Nodes : \A c \in DOMAIN seen[n].data : \E id \in Taken(S, n) : H[id].hash = c

\* The channel's last message is one that this node sends, receives or has.
LastStage(S) == \A n \in Nodes : lastMsg[n] # NoMsg => S[n][lastMsg[n].id] \in {"sending", "handing", "done"}

\* Authors keep their files.
ServedAll(H) == \A id \in Made : H[id].mime = "path" => id \in DOMAIN served[Author(id)].data

\* The items of batch b that node n is through with, and their contents.
Through(H, S, n, b) == {id \in Made : Author(id) # n /\ H[id].batch = b /\ S[n][id] \in Ended}
Hashes(H, D) == {H[id].hash : id \in D}

\* A batch that is open has the items the node is through with, and lacks some.
OpenBatch(H, S, n, b) ==
    IF b \in DOMAIN batches[n]
    THEN /\ DOMAIN batches[n][b] = Through(H, S, n, b) /\ Through(H, S, n, b) # {}
         /\ Hashes(H, Through(H, S, n, b)) # Range(b)
    ELSE Through(H, S, n, b) = {} \/ Hashes(H, Through(H, S, n, b)) = Range(b)
OpenBatches(H, S) == \A n \in Nodes : \A b \in Copies : OpenBatch(H, S, n, b)

LastContents == IF copied = <<>> THEN {} ELSE Range(copied[Len(copied)].what)

\* Paced users: every older message has come to its end everywhere, ...
OthersEnded(H, S) ==
    /\ \A n \in Nodes : \A q \in 1..Len(updates[n]) : updates[n][q].hash \in LastContents
    /\ \A id \in Made : H[id].hash \notin LastContents => \A n \in Nodes : S[n][id] \in Ended

\* ... a text can be asked for until it has come to its end everywhere, ...
TextKept(H, S) ==
    \A id \in Made : H[id].mime = "text" /\ (\E n \in Nodes : S[n][id] \notin Ended)
        => lastMsg[Author(id)] = H[id]

\* ... and a node that has all of the last copy shows it.
LastShown(H, S) ==
    copied # <<>> /\ LastContents \cap TooBig = {} =>
        \A n \in Nodes \ {copied[Len(copied)].by} :
            (\A c \in LastContents : \E id \in Made : H[id].hash = c /\ S[n][id] = "done")
            => clip[n] = LastContents

PacedFlow(H, S) == OthersEnded(H, S) /\ TextKept(H, S) /\ LastShown(H, S)

Flow(H, S) ==
    /\ Placed(H, S) /\ Refusals(H, S) /\ SeenBack(H, S) /\ LastStage(S) /\ ServedAll(H)
    /\ OpenBatches(H, S)

Full(H, S) == Queued(H) /\ Marked /\ peers = Mesh /\ Flow(H, S) /\ (Paced => PacedFlow(H, S))

-----------------------------------------------------------------------------
(* What a step leaves alone. *)

\* Two copies have no content in common.
LEMMA CopiedOnce ==
    ASSUME Distinct, NEW i \in 1..Len(copied), NEW j \in 1..Len(copied), NEW c,
           c \in Range(copied[i].what), c \in Range(copied[j].what)
    PROVE  i = j /\ c \notin Empty
BY DEF Distinct

\* What is undisturbed was so before.
LEMMA UndisturbedBefore ==
    ASSUME Traceable, [Next]_vars, Undisturbed'
    PROVE  Undisturbed /\ Grown
<1>0. CopiedOK /\ TableOK /\ Grown
  BY NextGrown DEF Traceable
<1>1. faults = 0
  BY <1>0, FaultsGrow DEF Undisturbed
<1>2. WithinHistory
  BY <1>0, ContentsGrow DEF Undisturbed
<1>3. Distinct
  <2>1. \A i \in 1..Len(copied) : i \in 1..Len(copied') /\ copied'[i] = copied[i]
    BY <1>0, CopiedGrows
  <2> QED
    BY <2>1 DEF Undisturbed, Distinct
<1>4. FullyMeshed
  BY DEF Undisturbed, FullyMeshed
<1> QED
  BY <1>0, <1>1, <1>2, <1>3, <1>4 DEF Undisturbed

\* Steps that make no message and copy nothing.
Relays == UNCHANGED <<copied, updates, current, nextId>>

\* Such a step leaves the queues as they are.
LEMMA QueuedStays ==
    ASSUME NEW H, Queued(H), Relays
    PROVE  Queued(H)' /\ Made' = Made /\ CopiedContents' = CopiedContents
<1>1. Made' = Made /\ CopiedContents' = CopiedContents
  BY DEF Relays, Made, CopiedContents
<1>2. \A n, x : CopiedBy(n, x)' = CopiedBy(n, x)
  BY DEF CopiedBy, Relays
<1>3. OnceMade(H)'
  BY <1>1, <1>2, TracedSame DEF Queued, OnceMade, Known, Relays
<1>4. OnceQueued(H)'
  BY <1>1, <1>2 DEF Queued, OnceQueued, Relays
<1>5. Covered(H)'
  BY <1>1 DEF Queued, Covered, Relays
<1>6. CurrentMade(H)'
  BY <1>1 DEF Queued, CurrentMade, Relays, Known
<1> QED
  BY <1>1, <1>3, <1>4, <1>5, <1>6 DEF Queued

\* The parts of the state that such a step does not touch.
LEMMA FlowStays ==
    ASSUME NEW H, NEW S, Full(H, S), NEW T, Relays
    PROVE  /\ UNCHANGED dedup => Marked'
           /\ Keeps(T, S, "dropped") => Refusals(H, T)'
           /\ UNCHANGED seen /\ (\A n \in Nodes : Taken(S, n) \subseteq Taken(T, n)) => SeenBack(H, T)'
           /\ UNCHANGED served => ServedAll(H)'
           /\ /\ UNCHANGED batches
              /\ \A n \in Nodes : \A id \in IDs : T[n][id] \in Ended <=> S[n][id] \in Ended
              => OpenBatches(H, T)'
<1>1. Made' = Made /\ CopiedContents' = CopiedContents /\ Made \subseteq IDs
  BY QueuedStays DEF Full, Made
<1>2. ASSUME UNCHANGED dedup PROVE Marked'
  BY <1>1, <1>2 DEF Full, Marked
<1>3. ASSUME Keeps(T, S, "dropped") PROVE Refusals(H, T)'
  BY <1>1, <1>3 DEF Full, Flow, Refusals, Keeps
<1>4. ASSUME UNCHANGED seen, \A n \in Nodes : Taken(S, n) \subseteq Taken(T, n) PROVE SeenBack(H, T)'
  <2>1. \A n \in Nodes : (Taken(T, n))' = Taken(T, n)
    BY DEF Taken
  <2> QED
    BY <1>4, <2>1 DEF Full, Flow, SeenBack
<1>5. ASSUME UNCHANGED served PROVE ServedAll(H)'
  BY <1>1, <1>5 DEF Full, Flow, ServedAll
<1>6. ASSUME UNCHANGED batches, \A n \in Nodes : \A id \in IDs : T[n][id] \in Ended <=> S[n][id] \in Ended
      PROVE  OpenBatches(H, T)'
  <2>1. ASSUME NEW n \in Nodes, NEW b PROVE (Through(H, T, n, b))' = Through(H, S, n, b)
    BY <1>1, <1>6 DEF Through
  <2>2. ASSUME NEW D PROVE (Hashes(H, D))' = Hashes(H, D)
    BY DEF Hashes
  <2>3. OpenBatches(H, S)
    BY DEF Full, Flow
  <2>4. ASSUME NEW n \in Nodes, NEW b \in Copies PROVE OpenBatch(H, T, n, b)'
    <3>1. PICK D : D = Through(H, S, n, b)
      OBVIOUS
    <3>2. D = (Through(H, T, n, b))'
      BY <2>1, <3>1
    <3> QED
      BY <1>6, <2>3, <3>1, <3>2 DEF OpenBatches, OpenBatch, Hashes
  <2> QED
    BY <2>4 DEF OpenBatches
<1> QED
  BY <1>2, <1>3, <1>4, <1>5, <1>6

\* The channel's last message moves on with its stage.
LEMMA LastStageStays ==
    ASSUME NEW H, NEW S, Life(H, S), LastStage(S), NEW T, UNCHANGED lastMsg,
           \A n \in Nodes : \A id \in IDs :
              S[n][id] \in {"sending", "handing", "done"} => T[n][id] \in {"sending", "handing", "done"}
    PROVE  LastStage(T)'
<1>1. \A n \in Nodes : lastMsg[n] # NoMsg => lastMsg[n].id \in IDs
  BY DEF Life, ChannelLife, Known, KnownIn, Made
<1> QED
  BY <1>1 DEF LastStage

\* What has come to its end stays there, and is shown until something else is
\* written.
LEMMA PacedStays ==
    ASSUME NEW H, NEW S, Full(H, S), NEW T, Relays, Paced, Keeps(S, T, "done"), Keeps(S, T, "dropped")
    PROVE  /\ OthersEnded(H, T)'
           /\ UNCHANGED lastMsg => TextKept(H, T)'
           /\ UNCHANGED clip /\ Keeps(T, S, "done") => LastShown(H, T)'
<1>0. OthersEnded(H, S) /\ TextKept(H, S) /\ LastShown(H, S)
  BY DEF Full, PacedFlow
<1>1. Made' = Made /\ Made \subseteq IDs /\ UNCHANGED <<copied, updates>> /\ LastContents' = LastContents
  BY QueuedStays DEF Full, Made, Relays, LastContents
<1>2. \A n \in Nodes : \A id \in IDs : S[n][id] \in Ended => T[n][id] \in Ended
  BY DEF Keeps, Ended
<1>3. OthersEnded(H, T)'
  BY <1>0, <1>1, <1>2 DEF OthersEnded
<1>4. ASSUME UNCHANGED lastMsg PROVE TextKept(H, T)'
  BY <1>0, <1>1, <1>2, <1>4 DEF TextKept
<1>5. ASSUME UNCHANGED clip, Keeps(T, S, "done") PROVE LastShown(H, T)'
  BY <1>0, <1>1, <1>5 DEF LastShown, Keeps
<1> QED
  BY <1>3, <1>4, <1>5

\* A stream of message id to or from node n.
Carries(H, e, n, id) ==
    e \in {Announcement(n, H[id]), Request(n, Author(id), id), Content(n, H[id])}

\* A step that takes message id from where it is on node n loses no other.
LosesOnly(H, n, id) ==
    /\ \A k \in Nodes : \A m \in DOMAIN anns[k] : m \in DOMAIN anns'[k] \/ (k = n /\ m = H[id])
    /\ \A k \in Nodes : \A m \in DOMAIN handing[k] : m \in DOMAIN handing'[k] \/ (k = n /\ m = H[id])
    /\ \A k \in Nodes : sending'[k] = sending[k] \/ (k = n /\ sending[k] = H[id])
    /\ \A e \in DOMAIN net : e \in DOMAIN net' \/ Carries(H, e, n, id)

\* Streams of different messages or nodes differ.
LEMMA CarriesOne ==
    ASSUME NEW H, NEW n, NEW k, NEW id, NEW j, H[id].id = id, H[j].id = j, k # n \/ j # id
    PROVE  /\ ~Carries(H, Announcement(k, H[j]), n, id)
           /\ ~Carries(H, Request(k, Author(j), j), n, id)
           /\ ~Carries(H, Content(k, H[j]), n, id)
<1>1. Announcement(k, H[j]).kind = "announce" /\ Announcement(k, H[j]).to = k /\ Announcement(k, H[j]).msg = H[j]
  BY DEF Announcement
<1>2. Request(k, Author(j), j).kind = "request" /\ Request(k, Author(j), j).from = k /\ Request(k, Author(j), j).id = j
  BY DEF Request
<1>3. Content(k, H[j]).kind = "message" /\ Content(k, H[j]).to = k /\ Content(k, H[j]).msg = H[j]
  BY DEF Content
<1>4. Announcement(n, H[id]).kind = "announce" /\ Announcement(n, H[id]).to = n /\ Announcement(n, H[id]).msg = H[id]
  BY DEF Announcement
<1>5. Request(n, Author(id), id).kind = "request" /\ Request(n, Author(id), id).from = n /\ Request(n, Author(id), id).id = id
  BY DEF Request
<1>6. Content(n, H[id]).kind = "message" /\ Content(n, H[id]).to = n /\ Content(n, H[id]).msg = H[id]
  BY DEF Content
<1>7. H[j] # H[id] \/ k # n
  OBVIOUS
<1> QED
  BY <1>1, <1>2, <1>3, <1>4, <1>5, <1>6, <1>7 DEF Carries

\* A message moves on, and the others stay where they are.
LEMMA PlacedMove ==
    ASSUME NEW H, NEW S, Life(H, S), Full(H, S), Relays, NEW n \in Nodes, NEW id \in Made, NEW T, NEW p,
           MoveOK(S, T, n, id, p), LosesOnly(H, n, id), p # "none", n = Author(id) => p = "done",
           At(H, p, n, id)',
           n = Author(id) => \A k \in Nodes \ {n} : Announcement(k, H[id]) \in DOMAIN net'
    PROVE  Placed(H, T)'
<1>0. Placed(H, S) /\ OnceMade(H) /\ Made' = Made /\ Made \subseteq IDs
  BY QueuedStays DEF Full, Flow, Queued, Made
<1>1. /\ T[n][id] = p
      /\ \A k \in Nodes : \A j \in IDs : k # n \/ j # id => T[k][j] = S[k][j]
  BY DEF MoveOK
<1>2. ASSUME NEW k \in Nodes, NEW j \in Made
      PROVE  /\ At(H, T[k][j], k, j)'
             /\ k = Author(j) => T[k][j] \in {"sending", "done"}
             /\ k # Author(j) /\ T[k][j] = "none" => OnItsWay(H, T, k, j)'
  <2>1. CASE k = n /\ j = id
    BY <1>1, <2>1
  <2>2. CASE k # n \/ j # id
    <3>1. T[k][j] = S[k][j]
      BY <1>0, <1>1, <2>2
    <3>2. /\ At(H, S[k][j], k, j)
          /\ k = Author(j) => S[k][j] \in {"sending", "done"}
          /\ k # Author(j) /\ S[k][j] = "none" => OnItsWay(H, S, k, j)
      BY <1>0 DEF Placed
    <3>3. /\ H[id].id = id /\ H[j].id = j
      BY <1>0 DEF OnceMade
    <3>4. /\ ~Carries(H, Announcement(k, H[j]), n, id)
          /\ ~Carries(H, Request(k, Author(j), j), n, id)
          /\ ~Carries(H, Content(k, H[j]), n, id)
      BY <2>2, <3>3, CarriesOne
    <3>5. ~(k = n /\ H[j] = H[id])
      BY <2>2, <3>3
    <3>6. At(H, S[k][j], k, j)'
      BY <3>2, <3>4, <3>5 DEF At, LosesOnly
    <3>7. ASSUME k # Author(j), S[k][j] = "none" PROVE OnItsWay(H, T, k, j)'
      <4>1. CASE Announcement(k, H[j]) \in DOMAIN net
        BY <3>4, <4>1 DEF LosesOnly, OnItsWay
      <4>2. CASE S[Author(j)][j] = "sending"
        <5>1. Author(j) \in Nodes /\ j \in IDs
          BY <1>0 DEF IDs, Author
        <5>2. CASE Author(j) # n \/ j # id
          BY <1>1, <4>2, <5>1, <5>2 DEF OnItsWay
        <5>3. CASE Author(j) = n /\ j = id
          BY <3>7, <5>3 DEF OnItsWay
        <5> QED
          BY <5>2, <5>3
      <4> QED
        BY <3>2, <3>7, <4>1, <4>2 DEF OnItsWay
    <3> QED
      BY <3>1, <3>2, <3>6, <3>7
  <2> QED
    BY <2>1, <2>2
<1> QED
  BY <1>0, <1>2 DEF Placed

-----------------------------------------------------------------------------
(* Batches. *)

\* What is known of a message that was made.
LEMMA MadeFacts ==
    ASSUME CopiedOK, Distinct, NEW H, OnceMade(H), NEW id \in Made
    PROVE  /\ id \in IDs /\ Author(id) \in Nodes /\ H[id].id = id /\ H[id].hash \in CopiedContents
           /\ H[id].mime = IF H[id].hash \in Texts THEN "text" ELSE "path"
           /\ H[id].mime = "text" => H[id].batch = <<>>
           /\ \E i \in 1..Len(copied) :
                 /\ copied[i].by = Author(id) /\ H[id].hash \in Range(copied[i].what)
                 /\ copied[i].what \in Copies /\ IsInjective(copied[i].what)
                 /\ H[id].batch # <<>> => H[id].batch = copied[i].what
                 /\ H[id].batch = <<>> => H[id].hash \in Texts
<1>1. id \in IDs /\ Author(id) \in Nodes
  BY DEF Made, IDs, Author
<1>2. H[id].id = id /\ H[id].mime = Mime(H[id].hash) /\ CopiedBy(Author(id), H[id])
  BY DEF OnceMade
<1>3. PICK i \in 1..Len(copied) :
        /\ copied[i].by = Author(id) /\ H[id].hash \in Range(copied[i].what)
        /\ H[id].batch = IF H[id].hash \in Files THEN copied[i].what ELSE <<>>
  BY <1>2 DEF CopiedBy
<1>4. copied[i].what \in Copies /\ IsInjective(copied[i].what)
  BY CopiedWhat DEF Distinct
<1>5. H[id].hash \in Contents /\ copied[i].what # <<>>
  BY <1>3, <1>4, CopyOK
<1>6. H[id].hash \in Texts <=> H[id].hash \notin Files
  BY <1>5, ContentAssumption DEF Contents
<1> QED
  BY <1>1, <1>2, <1>3, <1>4, <1>5, <1>6 DEF Mime, CopiedContents

\* A text is copied alone.
LEMMA TextAlone ==
    ASSUME NEW s \in Copies, NEW c \in Range(s), c \in Texts
    PROVE  Range(s) = {c}
<1>1. s \in Seq(Files) \/ s \in [{1} -> Texts]
  BY ContentAssumption
<1>2. ASSUME s \in Seq(Files) PROVE FALSE
  <2>1. c \in Files
    BY <1>2 DEF Range
  <2> QED
    BY <2>1, ContentAssumption
<1>3. s \in [{1} -> Texts]
  BY <1>1, <1>2
<1> QED
  BY <1>3 DEF Range

\* As many messages as a selection has files are all of it.
LEMMA FullBatch ==
    ASSUME NEW b \in Copies, IsInjective(b), NEW D, IsFiniteSet(D), NEW H,
           \A id \in D : H[id].hash \in Range(b),
           \A id, jd \in D : H[id].hash = H[jd].hash => id = jd
    PROVE  Cardinality(D) = Len(b) <=> Hashes(H, D) = Range(b)
<1>1. b \in Seq(Contents) /\ Len(b) \in Nat
  BY CopyOK
<1>2. IsFiniteSet(1..Len(b)) /\ Cardinality(1..Len(b)) = Len(b)
  BY <1>1, FS_Interval
<1>3. b \in Surjection(1..Len(b), Range(b)) /\ b \in Injection(1..Len(b), Range(b))
  BY <1>1 DEF Surjection, Injection, Range, IsInjective
<1>4. IsFiniteSet(Range(b)) /\ Cardinality(Range(b)) = Len(b)
  BY <1>2, <1>3, FS_Surjection
<1>5. PICK f : f = [id \in D |-> H[id].hash]
  OBVIOUS
<1>6. f \in Injection(D, Range(b))
  BY <1>5 DEF Injection, IsInjective
<1>7. Cardinality(D) = Cardinality(Range(b)) <=> f \in Surjection(D, Range(b))
  BY <1>4, <1>6, FS_Injection
<1>8. f \in Surjection(D, Range(b)) <=> \A c \in Range(b) : \E id \in D : f[id] = c
  BY <1>6 DEF Surjection, Injection
<1>9. \A id \in D : f[id] = H[id].hash
  BY <1>5
<1>10. Hashes(H, D) = Range(b) <=> \A c \in Range(b) : \E id \in D : H[id].hash = c
  BY DEF Hashes
<1> QED
  BY <1>4, <1>7, <1>8, <1>9, <1>10

\* The items node n is through with, when one more message comes to its end.
LEMMA ThroughMove ==
    ASSUME NEW H, NEW S, Queued(H), Relays, NEW n \in Nodes, NEW id \in Made, NEW T, NEW p,
           MoveOK(S, T, n, id, p), S[n][id] \notin Ended, p \in Ended, NEW k \in Nodes, NEW c
    PROVE  (Through(H, T, k, c))' = Through(H, S, k, c) \cup
                                    (IF k = n /\ Author(id) # n /\ c = H[id].batch THEN {id} ELSE {})
<1>1. Made' = Made /\ Made \subseteq IDs
  BY QueuedStays DEF Made
<1>2. /\ T[n][id] = p
      /\ \A k_1 \in Nodes : \A j \in IDs : k_1 # n \/ j # id => T[k_1][j] = S[k_1][j]
  BY DEF MoveOK
<1>3. ASSUME NEW j \in Made
      PROVE  T[k][j] \in Ended <=> S[k][j] \in Ended \/ (k = n /\ j = id)
  BY <1>1, <1>2
<1> QED
  BY <1>1, <1>3 DEF Through

\* A batch that no message of this step belongs to.
LEMMA OtherBatch ==
    ASSUME NEW H, NEW S, NEW T, NEW k \in Nodes, NEW c \in Copies, OpenBatch(H, S, k, c),
           (Through(H, T, k, c))' = Through(H, S, k, c),
           c \in DOMAIN batches'[k] <=> c \in DOMAIN batches[k],
           c \in DOMAIN batches[k] => batches'[k][c] = batches[k][c]
    PROVE  OpenBatch(H, T, k, c)'
<1>1. PICK D : D = Through(H, S, k, c)
  OBVIOUS
<1>2. (Through(H, T, k, c))' = D
  BY <1>1
<1> QED
  BY <1>1, <1>2 DEF OpenBatch, Hashes

\* An item joins its batch, or completes it.
LEMMA OpenAdd ==
    ASSUME Traceable, Distinct, NEW H, NEW S, Life(H, S), Full(H, S), Relays,
           NEW n \in Nodes, NEW id \in Made, NEW msg, msg = H[id], NEW T, NEW p,
           MoveOK(S, T, n, id, p), S[n][id] \notin Ended, p \in Ended, Author(id) # n,
           msg.batch # <<>>, NEW data, AddToBatch(n, msg, data)
    PROVE  /\ OpenBatches(H, T)'
           /\ Completes(n, msg) <=> (Hashes(H, Through(H, T, n, msg.batch)) = Range(msg.batch))'
<1>0. /\ CopiedOK /\ OnceMade(H) /\ OpenBatches(H, S) /\ BatchLife(H, S) /\ DOMAIN batches = Nodes
      /\ Queued(H) /\ BatchesOK
  BY DEF Traceable, BatchesOK, Life, Full, Queued, Flow
<1>1. PICK b : b = msg.batch
  OBVIOUS
<1>2. b \in Copies /\ IsInjective(b) /\ msg.hash \in Range(b) /\ msg.id = id
  BY <1>0, <1>1, MadeFacts
<1>3. PICK D : D = Through(H, S, n, b)
  OBVIOUS
<1>4. PICK E : E = D \cup {id}
  OBVIOUS
<1>5. \A k \in Nodes : \A c : (Through(H, T, k, c))' = Through(H, S, k, c) \cup
                                 (IF k = n /\ c = b THEN {id} ELSE {})
  <2>1. ASSUME NEW k \in Nodes, NEW c
        PROVE  (Through(H, T, k, c))' = Through(H, S, k, c) \cup
                                 (IF k = n /\ Author(id) # n /\ c = H[id].batch THEN {id} ELSE {})
    BY <1>0, ThroughMove
  <2> QED
    BY <1>1, <2>1
<1>6. (Through(H, T, n, b))' = E
  BY <1>3, <1>4, <1>5
<1>7. ASSUME NEW jd \in E
      PROVE  jd \in Made /\ H[jd].hash \in Range(b)
  <2>1. jd \in Made /\ H[jd].batch = b
    BY <1>1, <1>3, <1>4, <1>7 DEF Through
  <2>2. b # <<>>
    BY <1>1
  <2> QED
    BY <1>0, <2>1, <2>2, MadeFacts
<1>8. \A id_1, jd \in E : H[id_1].hash = H[jd].hash => id_1 = jd
  BY <1>0, <1>7 DEF OnceMade
<1>9. id \notin D
  BY <1>3 DEF Through
<1>10. OpenBatch(H, S, n, b)
  BY <1>0, <1>2 DEF OpenBatches
<1>11. DOMAIN Items(n, b) = D /\ IsFiniteSet(D)
  <2>1. CASE b \in DOMAIN batches[n]
    BY <1>0, <1>3, <1>10, <2>1 DEF OpenBatch, Items, BatchLife
  <2>2. CASE b \notin DOMAIN batches[n]
    <3>1. ASSUME Hashes(H, D) = Range(b) PROVE FALSE
      <4>1. PICK jd \in D : H[jd].hash = msg.hash
        BY <1>2, <3>1 DEF Hashes
      <4>2. jd = id
        BY <1>4, <1>8, <4>1
      <4> QED
        BY <1>9, <4>1, <4>2
    <3>2. D = {}
      BY <1>3, <1>10, <2>2, <3>1 DEF OpenBatch
    <3>3. Items(n, b) = << >>
      BY <2>2 DEF Items
    <3>4. DOMAIN << >> = {} /\ IsFiniteSet({})
      BY FS_EmptySet
    <3> QED
      BY <3>2, <3>3, <3>4
  <2> QED
    BY <2>1, <2>2
<1>12. IsFiniteSet(E)
  BY <1>4, <1>11, FS_AddElement
<1>13. Completes(n, msg) <=> Hashes(H, E) = Range(b)
  <2>1. Cardinality(E) = Len(b) <=> Hashes(H, E) = Range(b)
    BY <1>2, <1>7, <1>8, <1>12, FullBatch
  <2> QED
    BY <1>1, <1>2, <1>4, <1>11, <2>1 DEF Completes
<1>14. DOMAIN WithItem(n, msg, data) = E
  BY <1>1, <1>2, <1>4, <1>11 DEF WithItem
<1>15. batches' = [batches EXCEPT ![n] =
        IF Completes(n, msg)
        THEN Restrict(@, DOMAIN @ \ {b})
        ELSE [c \in DOMAIN @ \cup {b} |-> IF c = b THEN WithItem(n, msg, data) ELSE @[c]]]
  BY <1>1 DEF AddToBatch
<1>16. \A k \in Nodes \ {n} : batches'[k] = batches[k]
  BY <1>0, <1>15
<1>17. \A c : c # b => /\ c \in DOMAIN batches'[n] <=> c \in DOMAIN batches[n]
                       /\ c \in DOMAIN batches[n] => batches'[n][c] = batches[n][c]
  <2>1. CASE Completes(n, msg)
    <3>1. batches'[n] = Restrict(batches[n], DOMAIN batches[n] \ {b})
      BY <1>0, <1>15, <2>1
    <3> QED
      BY <3>1 DEF Restrict
  <2>2. CASE ~Completes(n, msg)
    <3>1. batches'[n] = [c \in DOMAIN batches[n] \cup {b} |->
                           IF c = b THEN WithItem(n, msg, data) ELSE batches[n][c]]
      BY <1>0, <1>15, <2>2
    <3> QED
      BY <3>1
  <2> QED
    BY <2>1, <2>2
<1>18. IF Completes(n, msg) THEN b \notin DOMAIN batches'[n]
       ELSE b \in DOMAIN batches'[n] /\ DOMAIN batches'[n][b] = E
  <2>1. CASE Completes(n, msg)
    <3>1. batches'[n] = Restrict(batches[n], DOMAIN batches[n] \ {b})
      BY <1>0, <1>15, <2>1
    <3> QED
      BY <2>1, <3>1 DEF Restrict
  <2>2. CASE ~Completes(n, msg)
    <3>1. batches'[n] = [c \in DOMAIN batches[n] \cup {b} |->
                           IF c = b THEN WithItem(n, msg, data) ELSE batches[n][c]]
      BY <1>0, <1>15, <2>2
    <3> QED
      BY <1>14, <2>2, <3>1
  <2> QED
    BY <2>1, <2>2
<1>19. ASSUME NEW k \in Nodes, NEW c \in Copies PROVE OpenBatch(H, T, k, c)'
  <2>1. CASE k = n /\ c = b
    <3>1. OpenBatch(H, T, n, b)'
      BY <1>4, <1>6, <1>13, <1>18 DEF OpenBatch, Hashes
    <3> QED
      BY <2>1, <3>1
  <2>2. CASE k # n \/ c # b
    <3>1. (Through(H, T, k, c))' = Through(H, S, k, c)
      <4>1. (Through(H, T, k, c))' = Through(H, S, k, c) \cup (IF k = n /\ c = b THEN {id} ELSE {})
        BY <1>5
      <4>2. PICK X, Y : X = Through(H, S, k, c) /\ Y = (Through(H, T, k, c))'
        OBVIOUS
      <4>3. Y = X \cup {}
        BY <2>2, <4>1, <4>2
      <4>4. Y = X
        BY <4>3
      <4> QED
        BY <4>2, <4>4
    <3>2. OpenBatch(H, S, k, c)
      BY <1>0 DEF OpenBatches
    <3> QED
      BY <1>16, <1>17, <2>2, <3>1, <3>2, OtherBatch
  <2> QED
    BY <2>1, <2>2
<1>20. Completes(n, msg) <=> (Hashes(H, Through(H, T, n, msg.batch)) = Range(msg.batch))'
  BY <1>1, <1>6, <1>13 DEF Hashes
<1> QED
  BY <1>19, <1>20 DEF OpenBatches

\* A message without a batch, or alone in its batch, leaves none open.
LEMMA OpenAlone ==
    ASSUME Traceable, Distinct, NEW H, NEW S, Life(H, S), Full(H, S), Relays, UNCHANGED batches,
           NEW n \in Nodes, NEW id \in Made, NEW T, NEW p,
           MoveOK(S, T, n, id, p), S[n][id] \notin Ended, p \in Ended,
           Author(id) = n \/ ~(Len(H[id].batch) > 1)
    PROVE  OpenBatches(H, T)'
<1>0. CopiedOK /\ OnceMade(H) /\ OpenBatches(H, S) /\ Queued(H)
  BY DEF Traceable, Full, Queued, Flow
<1>1. ASSUME NEW k \in Nodes, NEW c \in Copies PROVE OpenBatch(H, T, k, c)'
  <2>1. (Through(H, T, k, c))' = Through(H, S, k, c) \cup
          (IF k = n /\ Author(id) # n /\ c = H[id].batch THEN {id} ELSE {})
    BY <1>0, ThroughMove
  <2>2. OpenBatch(H, S, k, c)
    BY <1>0 DEF OpenBatches
  <2>3. CASE ~(k = n /\ Author(id) # n /\ c = H[id].batch)
    <3>1. (Through(H, T, k, c))' = Through(H, S, k, c)
      BY <2>1, <2>3
    <3> QED
      BY <2>2, <3>1, OtherBatch
  <2>4. CASE k = n /\ Author(id) # n /\ c = H[id].batch
    <3>1. c \in Seq(Contents) /\ c # <<>> /\ Len(c) \in Nat
      BY CopyOK
    <3>2. H[id].hash \in Range(c)
      BY <1>0, <2>4, <3>1, MadeFacts
    <3>3. Range(c) = {H[id].hash}
      <4>1. DOMAIN c = {1}
        BY <2>4, <3>1
      <4> QED
        BY <3>2, <4>1 DEF Range
    <3>4. Through(H, S, n, c) = {}
      <4>1. ASSUME NEW jd \in Through(H, S, n, c) PROVE FALSE
        <5>1. jd \in Made /\ H[jd].batch = c /\ S[n][jd] \in Ended
          BY <4>1 DEF Through
        <5>2. H[jd].hash \in Range(c)
          BY <1>0, <3>1, <5>1, MadeFacts
        <5>3. jd = id
          BY <1>0, <3>3, <5>1, <5>2 DEF OnceMade
        <5> QED
          BY <5>1, <5>3
      <4> QED
        BY <4>1
    <3>5. c \notin DOMAIN batches[n]
      BY <2>2, <2>4, <3>4 DEF OpenBatch
    <3>6. (Through(H, T, n, c))' = {id}
      BY <2>1, <2>4, <3>4
    <3>7. OpenBatch(H, T, n, c)'
      BY <3>3, <3>5, <3>6 DEF OpenBatch, Hashes
    <3> QED
      BY <2>4, <3>7
  <2> QED
    BY <2>3, <2>4
<1> QED
  BY <1>1 DEF OpenBatches

-----------------------------------------------------------------------------
(* Every action. *)

\* Messages with copied contents, each with its own.
Apart(G, M) ==
    /\ \A id \in M : G[id].hash \in CopiedContents
    /\ \A id, jd \in M : G[id].hash = G[jd].hash => id = jd

\* The table of served files forgets none while the contents that were copied
\* are no more than it holds.
LEMMA ServedKept ==
    ASSUME Traceable, WithinHistory, NEW G, NEW M, Apart(G, M), NEW n \in Nodes, NEW msg \in Traced,
           msg.id \in M, DOMAIN served[n].data \subseteq M, UpdateLastMsg(n, msg)
    PROVE  /\ \A k \in Nodes : DOMAIN served[k].data \subseteq DOMAIN served'[k].data
           /\ msg.mime = "path" => msg.id \in DOMAIN served'[n].data
           /\ \A k \in Nodes : lastMsg'[k] = IF k = n THEN msg ELSE lastMsg[k]
<1>0. CopiedOK /\ ChannelOK
  BY DEF Traceable
<1>a. /\ \A id \in M : G[id].hash \in CopiedContents
      /\ \A id, jd \in M : G[id].hash = G[jd].hash => id = jd
  BY DEF Apart
<1>1. /\ \A k \in Nodes \ {n} : served'[k] = served[k]
      /\ served'[n] = IF msg.mime = "path" THEN FifoAdd(served[n], msg.id, msg, HistorySize) ELSE served[n]
      /\ \A k \in Nodes : lastMsg'[k] = IF k = n THEN msg ELSE lastMsg[k]
  BY <1>0 DEF ChannelOK, UpdateLastMsg
<1>2. PICK h : h = served[n]
  OBVIOUS
<1>3. PICK g : g = FifoAdd(h, msg.id, msg, HistorySize)
  OBVIOUS
<1>4. DOMAIN g.data = DOMAIN h.data \cup {msg.id}
  <2>1. CASE FifoHas(h, msg.id)
    BY <1>3, <2>1 DEF FifoAdd, FifoHas
  <2>2. CASE ~FifoHas(h, msg.id)
    <3>0. ServedFifo(h) /\ DOMAIN h.data \subseteq M
      BY <1>0, <1>2 DEF ChannelOK
    <3>1. /\ h.order \in Seq(Nodes \X Nat) /\ Len(h.order) \in Nat /\ DOMAIN h.order = 1..Len(h.order)
          /\ Range(h.order) = DOMAIN h.data /\ IsInjective(h.order)
      BY <3>0 DEF ServedFifo, FifoOK
    <3>2. PICK C : C = CopiedContents
      OBVIOUS
    <3>3. IsFiniteSet(C) /\ Cardinality(C) \in Nat /\ Cardinality(C) <= HistorySize
      BY <1>0, <3>2, CopiedFinite DEF CopiedOK, CopiedContents, WithinHistory
    <3>4. PICK x : x = G[msg.id].hash
      OBVIOUS
    <3>5. x \in C
      BY <1>a, <3>2, <3>4
    <3>6. IsFiniteSet(C \ {x}) /\ Cardinality(C \ {x}) = Cardinality(C) - 1
      BY <3>3, <3>5, FS_RemoveElement
    <3>7. PICK f : f = [i \in 1..Len(h.order) |-> G[h.order[i]].hash]
      OBVIOUS
    <3>8. \A i \in 1..Len(h.order) : h.order[i] \in M /\ h.order[i] # msg.id
      BY <2>2, <3>0, <3>1 DEF Range, FifoHas
    <3>9. f \in Injection(1..Len(h.order), C \ {x})
      <4>1. \A i \in 1..Len(h.order) : f[i] = G[h.order[i]].hash /\ f[i] \in C \ {x}
        <5>1. ASSUME NEW i \in 1..Len(h.order) PROVE f[i] = G[h.order[i]].hash /\ f[i] \in C \ {x}
          <6>1. PICK j : j = h.order[i]
            OBVIOUS
          <6>2. j \in M /\ j # msg.id /\ f[i] = G[j].hash
            BY <3>7, <3>8, <5>1, <6>1
          <6> QED
            BY <1>a, <3>2, <3>4, <6>1, <6>2
        <5> QED
          BY <5>1
      <4>2. \A i, j \in 1..Len(h.order) : f[i] = f[j] => i = j
        <5>1. ASSUME NEW i \in 1..Len(h.order), NEW j \in 1..Len(h.order), f[i] = f[j] PROVE i = j
          <6>1. PICK a, b : a = h.order[i] /\ b = h.order[j]
            OBVIOUS
          <6>2. a \in M /\ b \in M /\ G[a].hash = G[b].hash
            BY <3>8, <4>1, <5>1, <6>1
          <6> QED
            BY <1>a, <3>1, <6>1, <6>2 DEF IsInjective
        <5> QED
          BY <5>1
      <4>3. f \in [1..Len(h.order) -> C \ {x}]
        BY <3>7, <4>1
      <4> QED
        BY <4>2, <4>3 DEF Injection, IsInjective
    <3>10. Cardinality(1..Len(h.order)) = Len(h.order)
      BY <3>1, FS_Interval
    <3>11. Len(h.order) <= Cardinality(C) - 1
      BY <3>6, <3>9, <3>10, FS_Injection
    <3>12. ~(Len(h.order) >= HistorySize)
      BY <3>1, <3>3, <3>11, LimitsAssumption
    <3>13. g = Insert(h, msg.id, msg)
      BY <1>3, <2>2, <3>12 DEF FifoAdd, MakeRoom
    <3> QED
      BY <3>13 DEF Insert
  <2> QED
    BY <2>1, <2>2
<1>5. DOMAIN served[n].data \subseteq DOMAIN served'[n].data
      /\ (msg.mime = "path" => msg.id \in DOMAIN served'[n].data)
  BY <1>1, <1>2, <1>3, <1>4
<1> QED
  BY <1>1, <1>5

\* A message that was made moves to another stage.
LEMMA MoveMade ==
    ASSUME NEW H, NEW S, Life(H, S), UNCHANGED nextId, NEW n \in Nodes, NEW id \in Made,
           NEW p \in Stages \ {"none"}, p \in {"announced", "asked", "coming", "handing"} => Author(id) # n,
           NEW T, Moved(S, T, n, id, p)
    PROVE  /\ MoveOK(S, T, n, id, p)
           /\ \A q : q # p => Keeps(T, S, q)
           /\ \A q : q # S[n][id] => Keeps(S, T, q)
           /\ \A k \in Nodes : Taken(S, k) \subseteq Taken(T, k)
<1>1. StageOK(S) /\ Made' = Made /\ id \in IDs
  BY DEF Life, Made
<1>2. MoveOK(S, T, n, id, p)
  BY <1>1, Move
<1>3. \A q : q # p => Keeps(T, S, q)
  BY <1>2 DEF MoveOK, Keeps
<1> QED
  BY <1>2, <1>3 DEF MoveOK

\* Over a full mesh, a broadcast that does not fail reaches everybody but the
\* author.
LEMMA BroadcastAll ==
    ASSUME TableOK, faults = 0, faults' = 0, FullyMeshed, peers = Mesh, NEW n \in Nodes, NEW msg,
           Broadcast(n, msg)
    PROVE  /\ peers' = Mesh /\ DOMAIN net \subseteq DOMAIN net'
           /\ \A k \in Nodes \ {n, Author(msg.id)} : Announcement(k, msg) \in DOMAIN net'
<1>1. PICK failed \in SUBSET (peers[n] \ {Author(msg.id)}) :
        /\ faults' = faults + Cardinality(failed)
        /\ peers' = [peers EXCEPT ![n] = @ \ failed]
        /\ net' = net (+) SetToBag({Announcement(p, msg) :
                             p \in peers[n] \ (failed \cup {Author(msg.id)})})
  BY DEF Broadcast
<1>2. IsFiniteSet(failed)
  <2>1. failed \subseteq Nodes /\ IsFiniteSet(Nodes)
    BY NodesAssumption DEF TableOK
  <2> QED
    BY <2>1, FS_Subset
<1>3. Cardinality(failed) = 0
  BY <1>1, <1>2, FS_CardinalityType
<1>4. failed = {}
  BY <1>2, <1>3, FS_EmptySet
<1>5. peers' = Mesh
  BY <1>1, <1>4 DEF TableOK
<1> DEFINE A == {Announcement(p, msg) : p \in peers[n] \ (failed \cup {Author(msg.id)})}
<1>6. DOMAIN net' = DOMAIN net \cup A
  <2> HIDE DEF A
  <2>1. net' = net (+) SetToBag(A)
    BY <1>1 DEF A
  <2> QED
    BY <2>1 DEF SetToBag, (+)
<1>7. peers[n] = Nodes \ {n}
  BY DEF FullyMeshed
<1>8. \A k \in Nodes \ {n, Author(msg.id)} : Announcement(k, msg) \in A
  BY <1>4, <1>7
<1> HIDE DEF A
<1> QED
  BY <1>5, <1>6, <1>8

\* Paced users: what is under way belongs to the last copy.
LEMMA LastUnderWay ==
    ASSUME CopiedOK, Distinct, NEW H, NEW S, Full(H, S), Paced, NEW id \in Made, NEW n \in Nodes,
           S[n][id] \notin Ended
    PROVE  /\ copied # <<>> /\ H[id].hash \in LastContents
           /\ LastContents = Range(copied[Len(copied)].what) /\ copied[Len(copied)].what \in Copies
           /\ Author(id) = copied[Len(copied)].by
           /\ H[id].batch # <<>> => H[id].batch = copied[Len(copied)].what
           /\ H[id].mime = "text" => LastContents = {H[id].hash}
<1>0. OnceMade(H) /\ OthersEnded(H, S)
  BY DEF Full, Queued, PacedFlow
<1>1. H[id].hash \in LastContents /\ copied # <<>> /\ LastContents = Range(copied[Len(copied)].what)
  BY <1>0 DEF OthersEnded, LastContents
<1>2. Len(copied) \in 1..Len(copied)
  BY <1>1 DEF CopiedOK
<1>3. PICK i \in 1..Len(copied) :
        /\ copied[i].by = Author(id) /\ H[id].hash \in Range(copied[i].what)
        /\ copied[i].what \in Copies
        /\ H[id].batch # <<>> => H[id].batch = copied[i].what
  BY <1>0, MadeFacts
<1>4. i = Len(copied)
  BY <1>1, <1>2, <1>3, CopiedOnce
<1>5. ASSUME H[id].mime = "text" PROVE LastContents = {H[id].hash}
  <2>1. H[id].hash \in Texts
    BY <1>0, <1>5, MadeFacts
  <2> QED
    BY <1>1, <1>3, <1>4, <2>1, TextAlone
<1> QED
  BY <1>1, <1>3, <1>4, <1>5

\* A clipboard that is not written keeps showing the last copy.
LEMMA ShownStays ==
    ASSUME NEW H, NEW S, Full(H, S), Paced, NEW T, Relays, UNCHANGED clip,
           \A k \in Nodes \ {copied[Len(copied)].by} : \A id \in Made : T[k][id] = "done" => S[k][id] = "done"
    PROVE  LastShown(H, T)'
<1>1. Made' = Made /\ UNCHANGED copied /\ LastContents' = LastContents /\ LastShown(H, S)
  BY QueuedStays DEF Full, Relays, LastContents, PacedFlow
<1> QED
  BY <1>1 DEF LastShown

\* The parts of the invariant, put together.
LEMMA FullNext ==
    ASSUME NEW H, NEW S, Full(H, S), NEW T, Relays, Marked', peers' = Mesh, Flow(H, T)',
           Paced => (PacedFlow(H, T))'
    PROVE  Full(H, T)'
BY QueuedStays DEF Full

\* The monitor takes a message of its own: everybody else will hear of it.
LEMMA TakeUpdateFull ==
    ASSUME Traceable, Undisturbed, faults' = 0, NEW H, NEW S, Life(H, S), Full(H, S),
           NEW n \in Nodes, TakeUpdate(n), NEW T, Moved(S, T, n, sending[n].id, "done")
    PROVE  Full(H, T)'
<1>0. /\ MonitorOK /\ TableOK /\ CopiedOK /\ SendingLife(H, S) /\ LastStage(S) /\ peers = Mesh /\ Distinct
      /\ FullyMeshed /\ faults = 0
  BY DEF Life, Traceable, Full, Flow, Undisturbed
<1>1. PICK msg : msg = sending[n]
  OBVIOUS
<1>2. PICK id : id = msg.id
  OBVIOUS
<1>3. /\ id \in Made /\ msg = H[id] /\ S[n][id] = "sending" /\ Author(id) = n
      /\ HandleMessage(n, msg) /\ Moved(S, T, n, id, "done")
  BY <1>0, <1>1, <1>2 DEF SendingLife, TakeUpdate, Known, KnownIn
<1>4. /\ UNCHANGED <<clip, dedup, batches, lastMsg, served, seen, anns, handing, nextId, copied>> /\ Relays
      /\ Broadcast(n, msg)
  BY <1>2, <1>3 DEF HandleMessage, TakeUpdate, Relays, chanVars
<1>5. sending' = [sending EXCEPT ![n] = NoMsg] /\ DOMAIN sending = Nodes
  BY <1>0 DEF TakeUpdate, MonitorOK
<1>6. /\ peers' = Mesh /\ DOMAIN net \subseteq DOMAIN net'
      /\ \A k \in Nodes \ {n} : Announcement(k, msg) \in DOMAIN net'
  BY <1>0, <1>2, <1>3, <1>4, BroadcastAll
<1>7. /\ MoveOK(S, T, n, id, "done") /\ \A q : q # "done" => Keeps(T, S, q)
      /\ \A q : q # "sending" => Keeps(S, T, q)
      /\ \A k \in Nodes : Taken(S, k) \subseteq Taken(T, k)
  <2>1. "done" \in Stages \ {"none"} /\ "done" \notin {"announced", "asked", "coming", "handing"}
    BY DEF Stages
  <2> QED
    BY <1>3, <1>4, <2>1, MoveMade
<1>8. Placed(H, T)'
  <2>1. LosesOnly(H, n, id)
    BY <1>1, <1>3, <1>4, <1>5, <1>6 DEF LosesOnly
  <2>2. PICK p : p = "done"
    OBVIOUS
  <2>3. At(H, p, n, id)'
    BY <2>2 DEF At
  <2>4. MoveOK(S, T, n, id, p) /\ p # "none"
    BY <1>7, <2>2
  <2> QED
    BY <1>3, <1>4, <1>6, <2>1, <2>2, <2>3, <2>4, PlacedMove
<1>9. Marked' /\ Refusals(H, T)' /\ SeenBack(H, T)' /\ ServedAll(H)'
  BY <1>4, <1>7, FlowStays
<1>10. LastStage(T)'
  <2>1. \A k \in Nodes : \A j \in IDs :
           S[k][j] \in {"sending", "handing", "done"} => T[k][j] \in {"sending", "handing", "done"}
    BY <1>7 DEF MoveOK
  <2> QED
    BY <1>0, <1>4, <2>1, LastStageStays
<1>11. OpenBatches(H, T)'
  <2>1. S[n][id] \notin Ended /\ "done" \in Ended
    BY <1>3 DEF Ended
  <2> QED
    BY <1>0, <1>3, <1>4, <1>7, <2>1, OpenAlone
<1>12. ASSUME Paced PROVE (PacedFlow(H, T))'
  <2>1. OthersEnded(H, T)' /\ TextKept(H, T)'
    BY <1>4, <1>7, <1>12, PacedStays
  <2>2. n = copied[Len(copied)].by
    <3>1. S[n][id] \notin Ended
      BY <1>3 DEF Ended
    <3> QED
      BY <1>0, <1>3, <1>12, <3>1, LastUnderWay
  <2>3. \A k \in Nodes \ {copied[Len(copied)].by} : \A j \in Made : T[k][j] = "done" => S[k][j] = "done"
    BY <1>7, <2>2 DEF MoveOK, Made
  <2>4. LastShown(H, T)'
    BY <1>4, <1>12, <2>3, ShownStays
  <2> QED
    BY <2>1, <2>4 DEF PacedFlow
<1>13. Flow(H, T)'
  BY <1>8, <1>9, <1>10, <1>11 DEF Flow
<1> QED
  BY <1>4, <1>6, <1>9, <1>12, <1>13, FullNext

\* What is written is marked, and what is written was copied.
LEMMA WriteMarked ==
    ASSUME Traceable, Traceable', Relays, Marked, NEW n \in Nodes, NEW data, Write(n, data)
    PROVE  Marked'
<1>0. /\ DOMAIN clip = Nodes /\ DOMAIN dedup = Nodes /\ NeverMixed' /\ UNCHANGED copied
      /\ CopiedContents' = CopiedContents
  BY DEF Traceable, ClipOK, Relays, CopiedContents
<1>1. clip'[n] = data /\ dedup'[n] = MarkOf(data) /\ \A k \in Nodes \ {n} : dedup'[k] = dedup[k]
  BY <1>0 DEF Write
<1>2. data \subseteq CopiedContents
  <2>1. data = {} \/ \E i \in 1..Len(copied) : data \subseteq Range(copied[i].what)
    BY <1>0, <1>1 DEF NeverMixed
  <2> QED
    BY <2>1 DEF CopiedContents
<1>3. Range(MarkOf(data)) \subseteq CopiedContents
  <2>1. CASE \E c \in Texts : data = {c}
    <3>1. PICK c : c = CHOOSE x \in Texts : data = {x}
      OBVIOUS
    <3>2. data = {c}
      BY <2>1, <3>1
    <3>3. MarkOf(data) = <<c>>
      BY <2>1, <3>1 DEF MarkOf
    <3>4. Range(<<c>>) = {c}
      BY DEF Range
    <3> QED
      BY <1>2, <3>2, <3>3, <3>4
  <2>2. CASE ~\E c \in Texts : data = {c}
    <3>1. MarkOf(data) = << >> /\ DOMAIN << >> = {}
      BY <2>2 DEF MarkOf
    <3> QED
      BY <3>1 DEF Range
  <2> QED
    BY <2>1, <2>2
<1> QED
  BY <1>0, <1>1, <1>3 DEF Marked

\* The monitor takes a received message: with the last item of the last copy
\* it writes all of it.
LEMMA TakeReceivedFull ==
    ASSUME Traceable, Traceable', Undisturbed, faults' = 0, NEW H, NEW S, Life(H, S), Full(H, S),
           NEW n \in Nodes, NEW msg \in DOMAIN handing[n],
           HandleMessage(n, msg), handing' = [handing EXCEPT ![n] = BagRemove(@, msg)],
           UNCHANGED sending, NEW T, Moved(S, T, n, msg.id, "done")
    PROVE  Full(H, T)'
<1>0. /\ HandingOK /\ TableOK /\ CopiedOK /\ HandingLife(H, S) /\ LastStage(S) /\ peers = Mesh /\ Distinct
      /\ FullyMeshed /\ faults = 0 /\ DOMAIN handing = Nodes /\ DOMAIN clip = Nodes /\ StageOK(S)
      /\ OnceMade(H) /\ Marked
  BY DEF Life, Traceable, Full, Flow, Undisturbed, HandingOK, ClipOK, Queued
<1>1. PICK id : id = msg.id
  OBVIOUS
<1>2. /\ id \in Made /\ msg = H[id] /\ Known(H, msg) /\ S[n][id] = "handing" /\ handing[n][msg] = 1
      /\ msg.hash \notin TooBig /\ msg \in Traced /\ Moved(S, T, n, id, "done")
  BY <1>0, <1>1 DEF HandingLife, HandingOK, IsBagOf, Known, KnownIn
<1>3. Author(id) # n /\ id \in Taken(S, n)
  BY <1>0, <1>2 DEF StageOK, Made, Taken
<1>4. /\ UNCHANGED <<lastMsg, served, seen, anns, sending, nextId, copied>> /\ Relays
      /\ Broadcast(n, msg)
  BY DEF HandleMessage, Relays, chanVars
<1>5. /\ peers' = Mesh /\ DOMAIN net \subseteq DOMAIN net'
  BY <1>0, <1>4, BroadcastAll
<1>6. \/ /\ Len(msg.batch) > 1 /\ AddToBatch(n, msg, msg.hash)
         /\ IF Completes(n, msg) THEN Write(n, Join(WithItem(n, msg, msg.hash)))
            ELSE UNCHANGED <<clip, dedup>>
      \/ ~(Len(msg.batch) > 1) /\ Write(n, {msg.hash}) /\ UNCHANGED batches
  BY <1>1, <1>3 DEF HandleMessage
<1>7. /\ MoveOK(S, T, n, id, "done") /\ \A q : q # "done" => Keeps(T, S, q)
      /\ \A q : q # "handing" => Keeps(S, T, q)
      /\ \A k \in Nodes : Taken(S, k) \subseteq Taken(T, k)
  <2>1. "done" \in Stages \ {"none"} /\ "done" \notin {"announced", "asked", "coming", "handing"}
    BY DEF Stages
  <2> QED
    BY <1>2, <1>4, <2>1, MoveMade
<1>e. S[n][id] \notin Ended /\ "done" \in Ended
  BY <1>2 DEF Ended
<1>8. Placed(H, T)'
  <2>1. LosesOnly(H, n, id)
    <3>1. DOMAIN BagRemove(handing[n], msg) = DOMAIN handing[n] \ {msg}
      BY <1>2, BagRemoveOne
    <3>2. \A k \in Nodes : \A m \in DOMAIN handing[k] : m \in DOMAIN handing'[k] \/ (k = n /\ m = msg)
      BY <1>0, <3>1
    <3> QED
      BY <1>2, <1>4, <1>5, <3>2 DEF LosesOnly
  <2>2. PICK p : p = "done"
    OBVIOUS
  <2>3. At(H, p, n, id)'
    BY <2>2 DEF At
  <2>4. MoveOK(S, T, n, id, p) /\ p # "none"
    BY <1>7, <2>2
  <2> QED
    BY <1>2, <1>3, <1>4, <2>1, <2>2, <2>3, <2>4, PlacedMove
<1>9. Refusals(H, T)' /\ SeenBack(H, T)' /\ ServedAll(H)'
  BY <1>4, <1>7, FlowStays
<1>10. LastStage(T)'
  <2>1. \A k \in Nodes : \A j \in IDs :
           S[k][j] \in {"sending", "handing", "done"} => T[k][j] \in {"sending", "handing", "done"}
    BY <1>7 DEF MoveOK
  <2> QED
    BY <1>0, <1>4, <2>1, LastStageStays
<1>11. Marked'
  <2>1. CASE UNCHANGED dedup
    BY <1>4, <2>1, FlowStays
  <2>2. ASSUME NEW data, Write(n, data) PROVE Marked'
    BY <1>0, <1>4, <2>2, WriteMarked
  <2> QED
    BY <1>6, <2>1, <2>2
<1>12. OpenBatches(H, T)' /\ (Len(msg.batch) > 1 =>
         (Completes(n, msg) <=> (Hashes(H, Through(H, T, n, msg.batch)) = Range(msg.batch))'))
  <2>1. CASE Len(msg.batch) > 1 /\ AddToBatch(n, msg, msg.hash)
    <3>1. msg.batch # <<>>
      BY <2>1
    <3>2. PICK d, p : d = msg.hash /\ p = "done"
      OBVIOUS
    <3>3. AddToBatch(n, msg, d) /\ MoveOK(S, T, n, id, p) /\ p \in Ended
      BY <1>7, <1>e, <2>1, <3>2
    <3>4. Distinct /\ Relays /\ msg = H[id] /\ id \in Made /\ Author(id) # n
      BY <1>0, <1>2, <1>3, <1>4
    <3>5. /\ OpenBatches(H, T)'
          /\ Completes(n, msg) <=> (Hashes(H, Through(H, T, n, msg.batch)) = Range(msg.batch))'
      BY <1>e, <3>1, <3>3, <3>4, OpenAdd
    <3> QED
      BY <3>5
  <2>2. CASE ~(Len(msg.batch) > 1) /\ UNCHANGED batches
    BY <1>0, <1>2, <1>4, <1>7, <1>e, <2>2, OpenAlone
  <2> QED
    BY <1>6, <2>1, <2>2
<1>13. ASSUME Paced PROVE (PacedFlow(H, T))'
  <2>1. OthersEnded(H, T)' /\ TextKept(H, T)'
    BY <1>4, <1>7, <1>13, PacedStays
  <2>2. PICK s : s = copied[Len(copied)].what
    OBVIOUS
  <2>3. /\ copied # <<>> /\ msg.hash \in LastContents /\ LastContents = Range(s) /\ s \in Copies
        /\ Author(id) = copied[Len(copied)].by
        /\ msg.batch # <<>> => msg.batch = s
        /\ msg.mime = "text" => LastContents = {msg.hash}
    BY <1>0, <1>2, <1>13, <1>e, <2>2, LastUnderWay
  <2>4. Made' = Made /\ UNCHANGED copied /\ LastContents' = LastContents /\ LastShown(H, S)
    BY <1>4, <1>13, QueuedStays DEF Full, Relays, LastContents, PacedFlow
  <2>5. ASSUME LastContents \cap TooBig = {},
               \A c \in LastContents : \E jd \in Made : H[jd].hash = c /\ T[n][jd] = "done"
        PROVE  clip'[n] = LastContents
    <3>1. CASE Len(msg.batch) > 1
      <4>1. msg.batch = s /\ msg.batch # <<>>
        BY <2>3, <3>1
      <4>2. msg.hash \notin Texts
        BY <1>0, <1>2, <4>1, MadeFacts
      <4>3. ASSUME NEW c \in LastContents
            PROVE  \E jd \in (Through(H, T, n, s))' : H[jd].hash = c
        <5>1. PICK jd \in Made : H[jd].hash = c /\ T[n][jd] = "done"
          BY <2>5, <4>3
        <5>2. PICK i \in 1..Len(copied) :
                 /\ copied[i].by = Author(jd) /\ H[jd].hash \in Range(copied[i].what)
                 /\ H[jd].batch # <<>> => H[jd].batch = copied[i].what
                 /\ H[jd].batch = <<>> => H[jd].hash \in Texts
          BY <1>0, MadeFacts
        <5>3. i = Len(copied)
          <6>1. Len(copied) \in 1..Len(copied)
            BY <1>0, <2>3 DEF CopiedOK
          <6> QED
            BY <1>0, <2>2, <2>3, <4>3, <5>1, <5>2, <6>1, CopiedOnce
        <5>4. c \notin Texts
          BY <2>3, <4>2, <4>3, TextAlone
        <5>5. H[jd].batch = s /\ Author(jd) # n
          BY <1>3, <2>2, <2>3, <5>1, <5>2, <5>3, <5>4
        <5>6. jd \in (Through(H, T, n, s))'
          BY <2>4, <5>1, <5>5 DEF Through, Ended
        <5> QED
          BY <5>1, <5>6
      <4>4. (Hashes(H, Through(H, T, n, s)) = Range(s))'
        <5>1. ASSUME NEW jd \in (Through(H, T, n, s))' PROVE H[jd].hash \in Range(s)
          <6>1. jd \in Made /\ H[jd].batch = s
            BY <2>4, <5>1 DEF Through
          <6> QED
            BY <1>0, <4>1, <6>1, MadeFacts
        <5>2. PICK D : D = (Through(H, T, n, s))'
          OBVIOUS
        <5>3. Hashes(H, D) = Range(s)
          BY <2>3, <4>3, <5>1, <5>2 DEF Hashes
        <5> QED
          BY <5>2, <5>3 DEF Hashes
      <4>5. Completes(n, msg)
        BY <1>12, <3>1, <4>1, <4>4
      <4>6. Join(WithItem(n, msg, msg.hash)) = Offered(msg.batch)
        BY <1>0, <1>1, <1>2, <1>3, <4>1, <4>5, CompleteBatch
      <4>7. Offered(msg.batch) = LastContents
        <5>1. Len(copied) \in 1..Len(copied)
          BY <1>0, <2>3 DEF CopiedOK
        <5>2. LastContents \cap Empty = {}
          BY <1>0, <2>2, <2>3, <5>1 DEF Distinct
        <5> QED
          BY <2>3, <2>5, <4>1, <5>2 DEF Offered
      <4>8. Write(n, LastContents)
        BY <1>6, <3>1, <4>5, <4>6, <4>7
      <4> QED
        BY <1>0, <4>8 DEF Write
    <3>2. CASE ~(Len(msg.batch) > 1)
      <4>1. clip'[n] = {msg.hash}
        BY <1>0, <1>6, <3>2 DEF Write
      <4>2. CASE msg.batch = <<>>
        <5>1. msg.mime = "text"
          BY <1>0, <1>2, <4>2, MadeFacts
        <5> QED
          BY <2>3, <4>1, <5>1
      <4>3. CASE msg.batch = s
        <5>1. s \in Seq(Contents) /\ s # <<>>
          BY <2>3, CopyOK
        <5>2. DOMAIN s = {1}
          <6>1. ~(Len(s) > 1) /\ Len(s) \in Nat /\ DOMAIN s = 1..Len(s)
            BY <3>2, <4>3, <5>1
          <6>2. Len(s) # 0
            BY <5>1
          <6>3. Len(s) = 1
            BY <6>1, <6>2
          <6> QED
            BY <6>1, <6>3
        <5>3. LastContents = {msg.hash}
          BY <2>3, <5>2 DEF Range
        <5> QED
          BY <4>1, <5>3
      <4> QED
        BY <2>3, <4>2, <4>3
    <3> QED
      BY <3>1, <3>2
  <2>6. ASSUME NEW k \in Nodes, k # n PROVE clip'[k] = clip[k] /\ \A j \in Made : T[k][j] = S[k][j]
    BY <1>0, <1>6, <1>7, <2>6 DEF Write, MoveOK, Made
  <2>7. LastShown(H, T)'
    BY <2>4, <2>5, <2>6 DEF LastShown
  <2> QED
    BY <2>1, <2>7 DEF PacedFlow
<1>14. Flow(H, T)'
  BY <1>8, <1>9, <1>10, <1>12 DEF Flow
<1> QED
  BY <1>4, <1>5, <1>11, <1>13, <1>14, FullNext

\* What a node does not have yet is not its channel's last message.
LEMMA NotLast ==
    ASSUME NEW H, NEW S, Life(H, S), Full(H, S), NEW n \in Nodes, NEW id \in Made,
           S[n][id] \notin {"sending", "handing", "done"}
    PROVE  /\ ~(lastMsg[n] # NoMsg /\ DuplicateByAnnounce(lastMsg[n], H[id]))
           /\ Accepts(n, H[id])
<1>0. ChannelLife(H) /\ OnceMade(H) /\ LastStage(S)
  BY DEF Life, Full, Queued, Flow
<1>1. ASSUME lastMsg[n] # NoMsg PROVE lastMsg[n].id # id /\ lastMsg[n].hash # H[id].hash
  <2>1. /\ lastMsg[n].id \in Made /\ lastMsg[n] = H[lastMsg[n].id]
        /\ S[n][lastMsg[n].id] \in {"sending", "handing", "done"}
    BY <1>0, <1>1 DEF ChannelLife, Known, KnownIn, LastStage
  <2>2. lastMsg[n].id # id
    BY <2>1
  <2>3. PICK jd : jd = lastMsg[n].id
    OBVIOUS
  <2> QED
    BY <1>0, <2>1, <2>2, <2>3 DEF OnceMade
<1>2. H[id].id = id
  BY <1>0 DEF OnceMade
<1> QED
  BY <1>1, <1>2 DEF Accepts, RepeatsLast, Duplicate, DuplicateByAnnounce

\* The facts about an announce that is being handled.
AnnFacts(H, S, n, an, id) ==
    /\ id \in Made /\ an = H[id] /\ S[n][id] = "announced" /\ anns[n][an] = 1
    /\ Author(id) # n /\ an.id = id

LEMMA AnnHere ==
    ASSUME Traceable, NEW H, NEW S, Life(H, S), NEW n \in Nodes, NEW an \in DOMAIN anns[n]
    PROVE  AnnFacts(H, S, n, an, an.id)
<1>0. AnnsLife(H, S) /\ StageOK(S)
  BY DEF Life
<1>1. Known(H, an) /\ S[n][an.id] = "announced" /\ anns[n][an] = 1
  BY <1>0 DEF AnnsLife
<1> QED
  BY <1>0, <1>1 DEF AnnFacts, Known, KnownIn, StageOK, Made

\* The handled announce leaves anns, and no other.
LEMMA AnnTaken ==
    ASSUME Traceable, NEW H, NEW S, NEW n \in Nodes, NEW an \in DOMAIN anns[n], NEW id,
           AnnFacts(H, S, n, an, id), anns' = [anns EXCEPT ![n] = BagRemove(@, an)],
           UNCHANGED <<handing, sending>>, DOMAIN net \subseteq DOMAIN net'
    PROVE  LosesOnly(H, n, id)
<1>0. DOMAIN anns = Nodes /\ anns[n][an] = 1 /\ an = H[id]
  BY DEF Traceable, AnnsOK, AnnFacts
<1>1. DOMAIN BagRemove(anns[n], an) = DOMAIN anns[n] \ {an}
  BY <1>0, BagRemoveOne
<1>2. \A k \in Nodes : \A m \in DOMAIN anns[k] : m \in DOMAIN anns'[k] \/ (k = n /\ m = an)
  BY <1>0, <1>1
<1> QED
  BY <1>0, <1>2 DEF LosesOnly

\* An announce is refused: the content is too big, and its batch is told so.
LEMMA IgnoreAnnounceFull ==
    ASSUME Traceable, Undisturbed, NEW H, NEW S, Life(H, S), Full(H, S),
           NEW n \in Nodes, NEW an \in DOMAIN anns[n], IgnoreAnnounce(n, an),
           NEW T, Moved(S, T, n, an.id, "dropped")
    PROVE  Full(H, T)'
<1>0. /\ CopiedOK /\ LastStage(S) /\ peers = Mesh /\ Distinct /\ FullyMeshed /\ OnceMade(H)
  BY DEF Traceable, Full, Flow, Undisturbed, Queued
<1>1. PICK id : id = an.id
  OBVIOUS
<1>2. /\ AnnFacts(H, S, n, an, id) /\ id \in Made /\ an = H[id] /\ S[n][id] = "announced"
      /\ Author(id) # n /\ Moved(S, T, n, id, "dropped")
  BY <1>1, AnnHere DEF AnnFacts
<1>3. /\ UNCHANGED <<clip, dedup, lastMsg, served, seen, handing, sending, nextId, copied, net, peers>>
      /\ Relays /\ anns' = [anns EXCEPT ![n] = BagRemove(@, an)]
  BY DEF IgnoreAnnounce, Relays, clipVars, chanVars, updateVars, historyVars
<1>4. an.hash \in TooBig /\ Nack(n, an)
  <2>1. Author(id) \in peers[n]
    BY <1>0, <1>2, MadeFacts DEF FullyMeshed
  <2>2. ~(lastMsg[n] # NoMsg /\ DuplicateByAnnounce(lastMsg[n], an))
    BY <1>2, NotLast
  <2> QED
    BY <1>1, <2>1, <2>2 DEF IgnoreAnnounce, Wants
<1>5. /\ MoveOK(S, T, n, id, "dropped") /\ \A q : q # "dropped" => Keeps(T, S, q)
      /\ \A q : q # "announced" => Keeps(S, T, q)
      /\ \A k \in Nodes : Taken(S, k) \subseteq Taken(T, k)
  <2>1. "dropped" \in Stages \ {"none"} /\ "dropped" \notin {"announced", "asked", "coming", "handing"}
    BY DEF Stages
  <2> QED
    BY <1>2, <1>3, <2>1, MoveMade
<1>p. PICK p : p = "dropped"
  OBVIOUS
<1>e. S[n][id] \notin Ended /\ p \in Ended /\ MoveOK(S, T, n, id, p) /\ p # "none"
  BY <1>2, <1>5, <1>p DEF Ended
<1>6. Placed(H, T)'
  <2>1. LosesOnly(H, n, id)
    BY <1>2, <1>3, AnnTaken
  <2>2. At(H, p, n, id)'
    BY <1>p DEF At
  <2> QED
    BY <1>2, <1>3, <1>e, <2>1, <2>2, PlacedMove
<1>7. Marked' /\ SeenBack(H, T)' /\ ServedAll(H)'
  BY <1>3, <1>5, FlowStays
<1>8. Refusals(H, T)'
  <2>1. ASSUME NEW k \in Nodes, NEW j \in Made, T[k][j] = "dropped"
        PROVE  H[j].hash \in TooBig \/ (H[j].mime = "text" /\ ~Paced)
    <3>1. CASE k = n /\ j = id
      BY <1>2, <1>4, <3>1
    <3>2. CASE k # n \/ j # id
      <4>1. S[k][j] = "dropped"
        BY <1>5, <2>1, <3>2 DEF MoveOK, Made
      <4> QED
        BY <4>1 DEF Full, Flow, Refusals
    <3> QED
      BY <3>1, <3>2
  <2>2. Made' = Made
    BY <1>3, QueuedStays DEF Full
  <2> QED
    BY <2>1, <2>2 DEF Refusals
<1>9. LastStage(T)'
  <2>1. \A k \in Nodes : \A j \in IDs :
           S[k][j] \in {"sending", "handing", "done"} => T[k][j] \in {"sending", "handing", "done"}
    BY <1>2, <1>5 DEF MoveOK
  <2> QED
    BY <1>0, <1>3, <2>1, LastStageStays
<1>10. OpenBatches(H, T)'
  <2>1. CASE an.batch # <<>>
    <3>1. PICK d : d = NoData
      OBVIOUS
    <3>2. AddToBatch(n, an, d)
      BY <1>4, <2>1, <3>1 DEF Nack
    <3> QED
      BY <1>0, <1>2, <1>3, <1>e, <2>1, <3>2, OpenAdd
  <2>2. CASE an.batch = <<>>
    <3>1. UNCHANGED batches /\ ~(Len(H[id].batch) > 1)
      BY <1>2, <1>4, <2>2 DEF Nack
    <3> QED
      BY <1>0, <1>2, <1>3, <1>e, <3>1, OpenAlone
  <2> QED
    BY <2>1, <2>2
<1>11. ASSUME Paced PROVE (PacedFlow(H, T))'
  <2>1. OthersEnded(H, T)' /\ TextKept(H, T)' /\ LastShown(H, T)'
    BY <1>3, <1>5, <1>11, PacedStays
  <2> QED
    BY <2>1 DEF PacedFlow
<1>12. Flow(H, T)'
  BY <1>6, <1>7, <1>8, <1>9, <1>10 DEF Flow
<1>13. peers' = Mesh
  BY <1>0, <1>3
<1> QED
  BY <1>3, <1>7, <1>11, <1>12, <1>13, FullNext

\* A step that ends no message on any node and leaves the clipboards, tables and
\* histories alone.
LEMMA PassingFull ==
    ASSUME Traceable, NEW H, NEW S, Life(H, S), Full(H, S), NEW n \in Nodes, NEW id \in Made,
           NEW T, NEW p, p \notin Ended, S[n][id] \notin Ended \cup {"sending", "handing"},
           MoveOK(S, T, n, id, p), \A q : q # p => Keeps(T, S, q), \A q : q # S[n][id] => Keeps(S, T, q),
           Relays, UNCHANGED <<clip, dedup, lastMsg, served, batches, peers>>,
           Placed(H, T)', SeenBack(H, T)'
    PROVE  Full(H, T)'
<1>1. Marked' /\ Refusals(H, T)' /\ ServedAll(H)' /\ OpenBatches(H, T)'
  <2>1. \A k \in Nodes : \A j \in IDs : T[k][j] \in Ended <=> S[k][j] \in Ended
    BY DEF MoveOK
  <2>2. Keeps(T, S, "dropped")
    BY DEF Ended
  <2> QED
    BY <2>1, <2>2, FlowStays
<1>2. LastStage(T)'
  <2>1. \A k \in Nodes : \A j \in IDs :
           S[k][j] \in {"sending", "handing", "done"} => T[k][j] \in {"sending", "handing", "done"}
    BY DEF MoveOK, Ended
  <2> QED
    BY <2>1, LastStageStays DEF Full, Flow
<1>3. ASSUME Paced PROVE (PacedFlow(H, T))'
  <2>1. Keeps(S, T, "done") /\ Keeps(S, T, "dropped") /\ Keeps(T, S, "done")
    BY DEF Ended
  <2>2. OthersEnded(H, T)' /\ TextKept(H, T)' /\ LastShown(H, T)'
    BY <1>3, <2>1, PacedStays
  <2> QED
    BY <2>2 DEF PacedFlow
<1>4. Flow(H, T)' /\ peers' = Mesh
  BY <1>1, <1>2 DEF Flow, Full
<1> QED
  BY <1>1, <1>3, <1>4, FullNext

\* A message is asked for.
LEMMA RequestMessageFull ==
    ASSUME Traceable, Undisturbed, NEW H, NEW S, Life(H, S), Full(H, S),
           NEW n \in Nodes, NEW an \in DOMAIN anns[n], RequestMessage(n, an),
           NEW T, Moved(S, T, n, an.id, "asked")
    PROVE  Full(H, T)'
<1>1. PICK id : id = an.id
  OBVIOUS
<1>2. /\ AnnFacts(H, S, n, an, id) /\ id \in Made /\ an = H[id] /\ S[n][id] = "announced"
      /\ Author(id) # n /\ Moved(S, T, n, id, "asked")
  BY <1>1, AnnHere DEF AnnFacts
<1>3. /\ UNCHANGED <<clip, dedup, lastMsg, served, seen, handing, sending, nextId, copied, batches, peers>>
      /\ Relays /\ anns' = [anns EXCEPT ![n] = BagRemove(@, an)]
      /\ net' = BagAdd(net, Request(n, Author(id), id))
  BY <1>1 DEF RequestMessage, Relays, clipVars, chanVars, updateVars, historyVars
<1>p. PICK p : p = "asked"
  OBVIOUS
<1>4. /\ MoveOK(S, T, n, id, p) /\ \A q : q # p => Keeps(T, S, q)
      /\ \A q : q # S[n][id] => Keeps(S, T, q)
      /\ \A k \in Nodes : Taken(S, k) \subseteq Taken(T, k)
  <2>1. p \in Stages \ {"none"}
    BY <1>p DEF Stages
  <2> QED
    BY <1>2, <1>3, <1>p, <2>1, MoveMade
<1>5. DOMAIN net' = DOMAIN net \cup {Request(n, Author(id), id)}
  BY <1>3 DEF BagAdd
<1>6. Placed(H, T)'
  <2>1. LosesOnly(H, n, id)
    BY <1>2, <1>3, <1>5, AnnTaken
  <2>2. At(H, p, n, id)'
    BY <1>p, <1>5 DEF At
  <2> QED
    BY <1>2, <1>3, <1>4, <1>p, <2>1, <2>2, PlacedMove
<1>7. SeenBack(H, T)'
  BY <1>3, <1>4, FlowStays
<1>8. p \notin Ended /\ S[n][id] \notin Ended \cup {"sending", "handing"}
  BY <1>2, <1>p DEF Ended
<1> QED
  BY <1>2, <1>3, <1>4, <1>6, <1>7, <1>8, PassingFull

\* A step that moves no message and only takes a stream that is not needed.
LEMMA QuietFull ==
    ASSUME NEW H, NEW S, Life(H, S), Full(H, S), Relays, Placed(H, S)',
           UNCHANGED <<clip, dedup, lastMsg, served, seen, batches, peers>>
    PROVE  Full(H, S)'
<1>1. \A q : Keeps(S, S, q)
  BY DEF Keeps
<1>2. Marked' /\ Refusals(H, S)' /\ SeenBack(H, S)' /\ ServedAll(H)' /\ OpenBatches(H, S)'
  BY <1>1, FlowStays
<1>3. LastStage(S)'
  BY DEF Full, Flow, LastStage
<1>4. ASSUME Paced PROVE (PacedFlow(H, S))'
  BY <1>1, <1>4, PacedStays DEF PacedFlow
<1>5. Flow(H, S)' /\ peers' = Mesh
  BY <1>2, <1>3 DEF Flow, Full
<1> QED
  BY <1>2, <1>4, <1>5, FullNext

\* The streams other than the one taken.
LEMMA StreamTaken ==
    ASSUME NEW e
    PROVE  DOMAIN net \ {e} \subseteq DOMAIN BagRemove(net, e)
BY DEF BagRemove

\* An announce arrives: the content is known here, or it is the first to carry it.
LEMMA ReceiveAnnounceFull ==
    ASSUME Traceable, Undisturbed, NEW H, NEW S, Life(H, S), Full(H, S), NEW e \in Streams("announce"),
           ReceiveAnnounce(e), NEW T,
           IF FifoHas(seen[e.to], e.msg.hash) THEN T = S ELSE Moved(S, T, e.to, e.msg.id, "announced")
    PROVE  Full(H, T)'
<1>0. /\ CopiedOK /\ NetOK /\ AnnsOK /\ SeenOK /\ NetLife(H, S) /\ SeenLife(H, S) /\ StageOK(S)
      /\ OnceMade(H) /\ SeenBack(H, S) /\ Placed(H, S)
  BY DEF Traceable, Life, Full, Flow, Queued
<1>1. e \in DOMAIN net /\ e.kind = "announce" /\ e.to \in Nodes /\ e \in Traffic(Traced)
  BY <1>0, StreamOK DEF Streams
<1>2. PICK n, msg, id : n = e.to /\ msg = e.msg /\ id = e.msg.id
  OBVIOUS
<1>3. id \in Made /\ msg = H[id] /\ Author(id) # n /\ n \in Nodes /\ id \in IDs
  BY <1>0, <1>1, <1>2 DEF NetLife, StreamLife, Known, KnownIn, Made
<1>4. e = Announcement(n, H[id])
  <2>1. e \notin Requests
    BY <1>1 DEF Requests
  <2>2. e \in [kind : {"announce", "message"}, to : Nodes, msg : Traced]
    BY <1>1, <2>1 DEF Traffic
  <2> QED
    BY <1>1, <1>2, <1>3, <2>2 DEF Announcement
<1>5. /\ UNCHANGED <<clip, dedup, lastMsg, served, handing, sending, nextId, copied, batches, peers>>
      /\ Relays /\ net' = BagRemove(net, e)
  BY DEF ReceiveAnnounce, Relays, clipVars, chanVars, updateVars, historyVars
<1>6. \A y \in DOMAIN net : y \in DOMAIN net' \/ y = Announcement(n, H[id])
  BY <1>4, <1>5, StreamTaken
<1>7. CASE FifoHas(seen[n], msg.hash)
  <2>1. UNCHANGED <<seen, anns>> /\ T = S
    BY <1>2, <1>7 DEF ReceiveAnnounce
  <2>2. S[n][id] # "none"
    <3>1. PICK jd \in Taken(S, n) : H[jd].hash = msg.hash
      BY <1>0, <1>3, <1>7 DEF SeenBack, FifoHas
    <3>2. jd \in Made /\ S[n][jd] # "none"
      BY <1>0, <1>3, <3>1 DEF Taken, StageOK
    <3>3. jd = id
      BY <1>0, <1>3, <3>1, <3>2 DEF OnceMade
    <3> QED
      BY <3>2, <3>3
  <2>3. PICK p : p = S[n][id]
    OBVIOUS
  <2>4. MoveOK(S, S, n, id, p)
    BY <2>2, <2>3 DEF MoveOK, Keeps
  <2>5. At(H, p, n, id)'
    <3>1. At(H, p, n, id)
      BY <1>0, <1>3, <2>3 DEF Placed
    <3>2. Request(n, Author(id), id) # Announcement(n, H[id]) /\ Content(n, H[id]) # Announcement(n, H[id])
      BY DEF Request, Content, Announcement
    <3> QED
      BY <1>5, <1>6, <2>1, <3>1, <3>2 DEF At
  <2>6. LosesOnly(H, n, id)
    BY <1>5, <1>6, <2>1 DEF LosesOnly, Carries
  <2>7. Placed(H, S)'
    BY <1>3, <1>5, <2>2, <2>3, <2>4, <2>5, <2>6, PlacedMove
  <2>8. Full(H, S)'
    BY <1>5, <2>1, <2>7, QuietFull
  <2> QED
    BY <2>1, <2>8
<1>8. CASE ~FifoHas(seen[n], msg.hash)
  <2>1. /\ seen' = [seen EXCEPT ![n] = FifoAdd(@, msg.hash, msg.hash, HistorySize)]
        /\ anns' = [anns EXCEPT ![n] = BagAdd(@, msg)] /\ Moved(S, T, n, id, "announced")
    BY <1>2, <1>8 DEF ReceiveAnnounce
  <2>2. S[n][id] = "none"
    BY <1>0, <1>3, <1>8 DEF SeenLife, Taken, FifoHas
  <2>p. PICK p : p = "announced"
    OBVIOUS
  <2>3. /\ MoveOK(S, T, n, id, p) /\ \A q : q # p => Keeps(T, S, q)
        /\ \A q : q # S[n][id] => Keeps(S, T, q)
        /\ \A k \in Nodes : Taken(S, k) \subseteq Taken(T, k)
    <3>1. p \in Stages \ {"none"} /\ Moved(S, T, n, id, p)
      BY <2>1, <2>p DEF Stages
    <3> QED
      BY <1>3, <1>5, <3>1, MoveMade
  <2>4. \A k \in Nodes : DOMAIN anns[k] \subseteq DOMAIN anns'[k] /\ (k = n => msg \in DOMAIN anns'[k])
    <3>1. DOMAIN anns = Nodes
      BY <1>0 DEF AnnsOK
    <3>2. DOMAIN BagAdd(anns[n], msg) = DOMAIN anns[n] \cup {msg}
      BY DEF BagAdd
    <3> QED
      BY <1>3, <2>1, <3>1, <3>2
  <2>5. Placed(H, T)'
    <3>1. LosesOnly(H, n, id)
      BY <1>5, <1>6, <2>4 DEF LosesOnly, Carries
    <3>2. At(H, p, n, id)'
      BY <1>3, <2>4, <2>p DEF At
    <3> QED
      BY <1>3, <1>5, <2>3, <2>p, <3>1, <3>2, PlacedMove
  <2>6. SeenBack(H, T)'
    <3>1. DOMAIN seen = Nodes
      BY <1>0 DEF SeenOK
    <3>2. DOMAIN FifoAdd(seen[n], msg.hash, msg.hash, HistorySize).data \subseteq DOMAIN seen[n].data \cup {msg.hash}
      BY DEF FifoAdd, Insert, MakeRoom, Restrict
    <3>3. id \in Taken(T, n)
      BY <1>3, <2>3, <2>p DEF Taken, MoveOK
    <3>4. ASSUME NEW k \in Nodes, NEW c \in DOMAIN seen'[k].data
          PROVE  \E jd \in Taken(T, k) : H[jd].hash = c
      <4>1. CASE k = n /\ c = msg.hash
        BY <1>3, <3>3, <4>1
      <4>2. CASE c \in DOMAIN seen[k].data
        BY <1>0, <2>3, <4>2 DEF SeenBack
      <4>3. CASE k # n
        BY <2>1, <3>1, <3>4, <4>2, <4>3
      <4>4. CASE k = n
        <5>1. DOMAIN seen'[n].data \subseteq DOMAIN seen[n].data \cup {msg.hash}
          BY <1>3, <2>1, <3>1, <3>2
        <5> QED
          BY <3>4, <4>1, <4>2, <4>4, <5>1
      <4> QED
        BY <4>3, <4>4
    <3>5. \A k \in Nodes : (Taken(T, k))' = Taken(T, k)
      BY DEF Taken
    <3> QED
      BY <3>4, <3>5 DEF SeenBack
  <2>7. p \notin Ended /\ S[n][id] \notin Ended \cup {"sending", "handing"}
    BY <2>2, <2>p DEF Ended
  <2> QED
    BY <1>3, <1>5, <2>3, <2>5, <2>6, <2>7, PassingFull
<1> QED
  BY <1>7, <1>8

\* The author has what it is asked for, but for a text that it has overwritten.
LEMMA HasIt ==
    ASSUME Traceable, NEW H, NEW S, Life(H, S), Full(H, S), NEW id \in Made, NEW n \in Nodes,
           S[n][id] \notin Ended, Get(Author(id), id) = NoMsg
    PROVE  H[id].mime # "path" /\ ~Paced
<1>0. /\ CopiedOK /\ ChannelOK /\ ServedAll(H) /\ OnceMade(H) /\ ChannelLife(H)
  BY DEF Traceable, Full, Flow, Queued, Life
<1>1. PICK a : a = Author(id)
  OBVIOUS
<1>2. a \in Nodes /\ H[id].id = id
  BY <1>0, <1>1 DEF Made, IDs, Author, OnceMade
<1>3. H[id].mime # "path"
  <2> SUFFICES ASSUME H[id].mime = "path" PROVE FALSE
    OBVIOUS
  <2>1. id \in DOMAIN served[a].data
    BY <1>0, <1>1 DEF ServedAll
  <2>2. served[a].data[id] # NoMsg
    BY <1>0, <1>2, <2>1, NoMsgAssumption DEF ChannelOK, ServedFifo, Traced
  <2> QED
    BY <1>1, <2>1, <2>2 DEF Get, FifoHas
<1>4. ASSUME Paced PROVE FALSE
  <2>0. H[id] # NoMsg
    BY <1>0, NoMsgAssumption DEF OnceMade, Traced
  <2>1. H[id].mime = "text"
    BY <1>0, <1>3 DEF OnceMade, Mime
  <2>2. lastMsg[a] = H[id]
    BY <1>1, <1>4, <2>1 DEF Full, PacedFlow, TextKept
  <2> QED
    BY <1>1, <1>2, <2>0, <2>2 DEF Get
<1> QED
  BY <1>3, <1>4

\* A request is answered, unless it is for a text that has been overwritten.
LEMMA ReceiveRequestFull ==
    ASSUME Traceable, Undisturbed, NEW H, NEW S, Life(H, S), Full(H, S), NEW e \in Streams("request"),
           ReceiveRequest(e), NEW msg, msg = Get(e.to, e.id),
           NEW p, p = (IF msg = NoMsg THEN "dropped" ELSE "coming"),
           NEW T, Moved(S, T, e.from, e.id, p)
    PROVE  Full(H, T)'
<1>0. /\ CopiedOK /\ NetOK /\ NetLife(H, S) /\ StageOK(S) /\ OnceMade(H) /\ ChannelLife(H) /\ LastStage(S)
      /\ Distinct /\ peers = Mesh
  BY DEF Traceable, Life, Full, Flow, Queued, Undisturbed
<1>1. e \in DOMAIN net /\ e.kind = "request" /\ e \in Requests
  <2>1. e \in DOMAIN net /\ e.kind = "request" /\ e \in Traffic(Traced)
    BY <1>0, StreamOK DEF Streams
  <2>2. e \notin [kind : {"announce", "message"}, to : Nodes, msg : Traced]
    BY <2>1
  <2> QED
    BY <2>1, <2>2 DEF Traffic
<1>2. PICK n, id : n = e.from /\ id = e.id
  OBVIOUS
<1>3. n \in Nodes /\ id \in IDs /\ e.to = Author(id) /\ e = Request(n, Author(id), id)
  BY <1>1, <1>2 DEF Requests, IDs, Request
<1>4. S[n][id] = "asked" /\ net[e] = 1
  BY <1>0, <1>1, <1>2 DEF NetLife, StreamLife
<1>5. id \in Made /\ Author(id) # n /\ Author(id) \in Nodes /\ Moved(S, T, n, id, p)
      /\ msg = Get(Author(id), id)
  BY <1>0, <1>2, <1>3, <1>4 DEF StageOK, IDs, Author
<1>6. /\ UNCHANGED <<clip, dedup, lastMsg, served, seen, handing, anns, sending, nextId, copied, batches, peers>>
      /\ Relays
      /\ net' = IF msg = NoMsg THEN BagRemove(net, e)
                ELSE BagAdd(BagRemove(net, e), Content(n, msg))
  BY <1>2 DEF ReceiveRequest, Relays, clipVars, chanVars, updateVars, historyVars
<1>7. /\ MoveOK(S, T, n, id, p) /\ \A q : q # p => Keeps(T, S, q)
      /\ \A q : q # S[n][id] => Keeps(S, T, q)
      /\ \A k \in Nodes : Taken(S, k) \subseteq Taken(T, k)
  <2>1. p \in Stages \ {"none"}
    BY DEF Stages
  <2> QED
    BY <1>3, <1>5, <1>6, <2>1, MoveMade
<1>8. LosesOnly(H, n, id)
  <2>1. DOMAIN net \ {e} \subseteq DOMAIN BagRemove(net, e)
    BY StreamTaken
  <2>3. \A y \in DOMAIN net : y \in DOMAIN net' \/ y = e
    <3>1. PICK B, x : B = BagRemove(net, e) /\ x = Content(n, msg)
      OBVIOUS
    <3>2. net' = B \/ net' = BagAdd(B, x)
      BY <1>6, <3>1
    <3>3. DOMAIN B \subseteq DOMAIN net'
      <4>1. DOMAIN BagAdd(B, x) = DOMAIN B \cup {x}
        BY DEF BagAdd
      <4> QED
        BY <3>2, <4>1
    <3> QED
      BY <2>1, <3>1, <3>3
  <2> QED
    BY <1>3, <1>6, <2>3 DEF LosesOnly, Carries
<1>9. SeenBack(H, T)'
  BY <1>6, <1>7, FlowStays
<1>e. S[n][id] \notin Ended
  BY <1>4 DEF Ended
<1>10. CASE msg # NoMsg
  <2>1. msg = H[id] /\ p = "coming"
    BY <1>0, <1>5, <1>10, GetLife DEF Known, KnownIn
  <2>2. Content(n, H[id]) \in DOMAIN net'
    BY <1>6, <1>10, <2>1 DEF BagAdd
  <2>3. At(H, p, n, id)'
    BY <2>1, <2>2 DEF At
  <2>4. Placed(H, T)'
    BY <1>3, <1>5, <1>6, <1>7, <1>8, <2>1, <2>3, PlacedMove
  <2>5. p \notin Ended /\ S[n][id] \notin Ended \cup {"sending", "handing"}
    BY <1>4, <2>1 DEF Ended
  <2> QED
    BY <1>3, <1>5, <1>6, <1>7, <1>9, <2>4, <2>5, PassingFull
<1>11. CASE msg = NoMsg
  <2>1. H[id].mime # "path" /\ ~Paced
    BY <1>3, <1>5, <1>11, <1>e, HasIt
  <2>2. H[id].mime = "text" /\ H[id].batch = <<>>
    <3>1. H[id].mime = "text"
      BY <1>0, <1>5, <2>1, MadeFacts
    <3> QED
      BY <1>0, <1>5, <3>1, MadeFacts
  <2>3. p = "dropped" /\ p \in Ended /\ p # "none"
    BY <1>11 DEF Ended
  <2>4. At(H, p, n, id)'
    BY <2>3 DEF At
  <2>5. Placed(H, T)'
    BY <1>3, <1>5, <1>6, <1>7, <1>8, <2>3, <2>4, PlacedMove
  <2>6. Marked' /\ ServedAll(H)'
    BY <1>6, FlowStays
  <2>7. Refusals(H, T)'
    <3>1. ASSUME NEW k \in Nodes, NEW j \in Made, T[k][j] = "dropped"
          PROVE  H[j].hash \in TooBig \/ (H[j].mime = "text" /\ ~Paced)
      <4>1. CASE k = n /\ j = id
        BY <2>1, <2>2, <4>1
      <4>2. CASE k # n \/ j # id
        <5>1. S[k][j] = "dropped"
          BY <1>7, <3>1, <4>2 DEF MoveOK, Made
        <5> QED
          BY <5>1 DEF Full, Flow, Refusals
      <4> QED
        BY <4>1, <4>2
    <3>2. Made' = Made
      BY <1>6, QueuedStays DEF Full
    <3> QED
      BY <3>1, <3>2 DEF Refusals
  <2>8. LastStage(T)'
    <3>1. \A k \in Nodes : \A j \in IDs :
             S[k][j] \in {"sending", "handing", "done"} => T[k][j] \in {"sending", "handing", "done"}
      BY <1>4, <1>7 DEF MoveOK
    <3> QED
      BY <1>0, <1>6, <3>1, LastStageStays
  <2>9. OpenBatches(H, T)'
    <3>1. ~(Len(H[id].batch) > 1)
      BY <2>2
    <3> QED
      BY <1>0, <1>3, <1>5, <1>6, <1>7, <1>e, <2>3, <3>1, OpenAlone
  <2>10. Flow(H, T)' /\ peers' = Mesh
    BY <1>0, <1>6, <1>9, <2>5, <2>6, <2>7, <2>8, <2>9 DEF Flow
  <2> QED
    BY <1>6, <2>1, <2>6, <2>10, FullNext
<1> QED
  BY <1>10, <1>11

\* A message arrives: it is no repetition, and is handed to the monitor.
LEMMA ReceiveMessageFull ==
    ASSUME Traceable, Undisturbed, NEW H, NEW S, Life(H, S), Full(H, S), NEW e \in Streams("message"),
           ReceiveMessage(e),
           NEW p, p = (IF ReceiveMessage(e) /\ Accepts(e.to, e.msg) THEN "handing" ELSE "dropped"),
           NEW T, Moved(S, T, e.to, e.msg.id, p)
    PROVE  Full(H, T)'
<1>0. /\ CopiedOK /\ NetOK /\ HandingOK /\ ChannelOK /\ NetLife(H, S) /\ StageOK(S) /\ OnceMade(H)
      /\ ChannelLife(H) /\ LastStage(S) /\ ServedAll(H) /\ Distinct /\ WithinHistory /\ peers = Mesh
  BY DEF Traceable, Life, Full, Flow, Queued, Undisturbed
<1>1. e \in DOMAIN net /\ e.kind = "message" /\ e.to \in Nodes /\ e \in Traffic(Traced)
  BY <1>0, StreamOK DEF Streams
<1>2. PICK n, msg, id : n = e.to /\ msg = e.msg /\ id = e.msg.id
  OBVIOUS
<1>3. id \in Made /\ msg = H[id] /\ n \in Nodes /\ id \in IDs /\ S[n][id] = "coming" /\ msg.id = id
  BY <1>0, <1>1, <1>2 DEF NetLife, StreamLife, Known, KnownIn, Made
<1>4. e = Content(n, H[id]) /\ msg \in Traced /\ Author(id) # n
  <2>1. e \notin Requests
    BY <1>1 DEF Requests
  <2>2. e \in [kind : {"announce", "message"}, to : Nodes, msg : Traced]
    BY <1>1, <2>1 DEF Traffic
  <2>3. Author(id) # n
    BY <1>0, <1>3 DEF StageOK
  <2> QED
    BY <1>1, <1>2, <1>3, <2>2, <2>3 DEF Content
<1>5. Accepts(n, msg)
  BY <1>3, NotLast
<1>6. p = "handing" /\ Moved(S, T, n, id, p)
  BY <1>2, <1>5
<1>7. /\ UNCHANGED <<clip, dedup, seen, anns, sending, nextId, copied, batches, peers>>
      /\ Relays /\ net' = BagRemove(net, e) /\ UpdateLastMsg(n, msg)
      /\ handing' = [handing EXCEPT ![n] = BagAdd(@, msg)]
  BY <1>2, <1>5 DEF ReceiveMessage, Relays, clipVars, updateVars, historyVars
<1>8. /\ MoveOK(S, T, n, id, p) /\ \A q : q # p => Keeps(T, S, q)
      /\ \A q : q # S[n][id] => Keeps(S, T, q)
      /\ \A k \in Nodes : Taken(S, k) \subseteq Taken(T, k)
  <2>1. p \in Stages \ {"none"}
    BY <1>6 DEF Stages
  <2> QED
    BY <1>3, <1>4, <1>6, <1>7, <2>1, MoveMade
<1>9. Placed(H, T)'
  <2>1. \A k \in Nodes : DOMAIN handing[k] \subseteq DOMAIN handing'[k] /\ (k = n => msg \in DOMAIN handing'[k])
    <3>1. DOMAIN handing = Nodes
      BY <1>0 DEF HandingOK
    <3>2. DOMAIN BagAdd(handing[n], msg) = DOMAIN handing[n] \cup {msg}
      BY DEF BagAdd
    <3> QED
      BY <1>3, <1>7, <3>1, <3>2
  <2>2. LosesOnly(H, n, id)
    <3>1. \A y \in DOMAIN net : y \in DOMAIN net' \/ y = Content(n, H[id])
      BY <1>4, <1>7, StreamTaken
    <3> QED
      BY <1>7, <2>1, <3>1 DEF LosesOnly, Carries
  <2>3. At(H, p, n, id)'
    BY <1>3, <1>6, <2>1 DEF At
  <2> QED
    BY <1>3, <1>4, <1>6, <1>7, <1>8, <2>2, <2>3, PlacedMove
<1>10. Marked' /\ Refusals(H, T)' /\ SeenBack(H, T)' /\ OpenBatches(H, T)'
  <2>1. \A k \in Nodes : \A j \in IDs : T[k][j] \in Ended <=> S[k][j] \in Ended
    BY <1>3, <1>6, <1>8 DEF MoveOK, Ended
  <2>2. Keeps(T, S, "dropped")
    BY <1>6, <1>8
  <2> QED
    BY <1>7, <1>8, <2>1, <2>2, FlowStays
<1>11. /\ \A k \in Nodes : DOMAIN served[k].data \subseteq DOMAIN served'[k].data
       /\ \A k \in Nodes : lastMsg'[k] = IF k = n THEN msg ELSE lastMsg[k]
  <2>1. PICK M : M = Made
    OBVIOUS
  <2>2. Apart(H, M)
    BY <1>0, <2>1, MadeFacts DEF OnceMade, Apart
  <2>3. DOMAIN served[n].data \subseteq M
    BY <1>0, <1>3, <2>1 DEF ChannelLife, Known, KnownIn
  <2>4. WithinHistory /\ msg \in Traced /\ msg.id \in M /\ UpdateLastMsg(n, msg) /\ n \in Nodes
    BY <1>3, <1>4, <1>7, <2>1 DEF Undisturbed
  <2>5. /\ \A k \in Nodes : DOMAIN served[k].data \subseteq DOMAIN served'[k].data
        /\ msg.mime = "path" => msg.id \in DOMAIN served'[n].data
        /\ \A k \in Nodes : lastMsg'[k] = IF k = n THEN msg ELSE lastMsg[k]
    BY <2>2, <2>3, <2>4, ServedKept
  <2> QED
    BY <2>5
<1>12. ServedAll(H)'
  <2>1. Made' = Made /\ \A j \in Made : Author(j) \in Nodes
    BY <1>7, QueuedStays DEF Full, Made, IDs, Author
  <2> QED
    BY <1>0, <1>11, <2>1 DEF ServedAll
<1>13. LastStage(T)'
  <2>1. \A k \in Nodes : \A j \in IDs :
           S[k][j] \in {"sending", "handing", "done"} => T[k][j] \in {"sending", "handing", "done"}
    BY <1>3, <1>8 DEF MoveOK
  <2>2. \A k \in Nodes : lastMsg[k] # NoMsg => lastMsg[k].id \in IDs
    BY <1>0 DEF ChannelLife, Known, KnownIn, Made
  <2>3. T[n][msg.id] = "handing"
    BY <1>3, <1>6, <1>8 DEF MoveOK
  <2> QED
    BY <1>0, <1>11, <2>1, <2>2, <2>3 DEF LastStage
<1>14. ASSUME Paced PROVE (PacedFlow(H, T))'
  <2>k. Keeps(S, T, "done") /\ Keeps(S, T, "dropped") /\ Keeps(T, S, "done")
    BY <1>3, <1>6, <1>8
  <2>1. OthersEnded(H, T)' /\ LastShown(H, T)'
    BY <1>7, <1>14, <2>k, PacedStays
  <2>2. ASSUME NEW jd \in Made, H[jd].mime = "text", NEW k \in Nodes, T[k][jd] \notin Ended
        PROVE  lastMsg'[Author(jd)] = H[jd]
    <3>1. S[k][jd] \notin Ended
      BY <2>2, <2>k DEF Keeps, Ended, Made
    <3>2. lastMsg[Author(jd)] = H[jd]
      BY <1>14, <2>2, <3>1 DEF Full, PacedFlow, TextKept
    <3>3. LastContents = {H[jd].hash}
      BY <1>0, <1>14, <2>2, <3>1, LastUnderWay
    <3>4. H[id].hash \in LastContents
      <4>1. S[n][id] \notin Ended
        BY <1>3 DEF Ended
      <4> QED
        BY <1>0, <1>3, <1>14, <4>1, LastUnderWay
    <3>5. jd = id
      BY <1>0, <1>3, <3>3, <3>4 DEF OnceMade
    <3>6. Author(jd) \in Nodes /\ Author(jd) # n
      BY <1>4, <3>5 DEF Made, IDs, Author
    <3> QED
      BY <1>11, <3>2, <3>6
  <2>3. Made' = Made
    BY <1>7, QueuedStays DEF Full
  <2>4. TextKept(H, T)'
    BY <2>2, <2>3 DEF TextKept
  <2> QED
    BY <2>1, <2>4 DEF PacedFlow
<1>15. Flow(H, T)' /\ peers' = Mesh
  BY <1>0, <1>7, <1>9, <1>10, <1>12, <1>13 DEF Flow
<1> QED
  BY <1>7, <1>10, <1>14, <1>15, FullNext

\* In a network at rest every message has come to its end on every node.
LEMMA IdleEnded ==
    ASSUME Traceable, NEW H, NEW S, Life(H, S), Full(H, S), Idle, NEW n \in Nodes, NEW id \in Made
    PROVE  S[n][id] \in Ended
<1>0. Placed(H, S) /\ OnceMade(H) /\ StageOK(S)
  BY DEF Full, Flow, Queued, Life
<1>1. DOMAIN EmptyBag = {}
  BY DEF EmptyBag, SetToBag
<1>2. /\ DOMAIN net = {}
      /\ \A k \in Nodes : sending[k] = NoMsg /\ DOMAIN handing[k] = {} /\ DOMAIN anns[k] = {}
  BY <1>1 DEF Idle
<1>3. id \in IDs /\ Author(id) \in Nodes /\ H[id] # NoMsg
  BY <1>0, NoMsgAssumption DEF Made, IDs, Author, OnceMade, Traced
<1>4. ASSUME NEW k \in Nodes PROVE S[k][id] \in {"none", "done", "dropped"}
  <2>1. At(H, S[k][id], k, id) /\ S[k][id] \in Stages
    BY <1>0, <1>3 DEF Placed, StageOK
  <2> QED
    BY <1>2, <1>3, <2>1 DEF At, Stages
<1>5. S[n][id] # "none"
  <2>1. n = Author(id) => S[n][id] \in {"sending", "done"}
    BY <1>0 DEF Placed
  <2>2. n # Author(id) /\ S[n][id] = "none" => OnItsWay(H, S, n, id)
    BY <1>0 DEF Placed
  <2>3. ~OnItsWay(H, S, n, id)
    BY <1>2, <1>3, <1>4 DEF OnItsWay
  <2> QED
    BY <2>1, <2>2, <2>3
<1> QED
  BY <1>4, <1>5 DEF Ended

\* The updates in the queues after a copy: the old ones, and one for every content.
AfterCopy(n, s) ==
    \A k \in Nodes :
        /\ Len(updates[k]) \in Nat /\ Len(updates'[k]) = Len(updates[k]) + (IF k = n THEN Len(s) ELSE 0)
        /\ \A q \in 1..Len(updates[k]) : updates'[k][q] = updates[k][q]
        /\ \A q \in 1..Len(updates'[k]) \ 1..Len(updates[k]) :
              /\ k = n /\ q - Len(updates[k]) \in 1..Len(s)
              /\ updates'[k][q].hash = s[q - Len(updates[k])]
              /\ updates'[k][q].batch = IF updates'[k][q].hash \in Files THEN s ELSE <<>>

LEMMA CopyQueues ==
    ASSUME Traceable, NEW n \in Nodes, NEW s \in Copies,
           updates' = [updates EXCEPT ![n] = @ \o Updates(s)]
    PROVE  AfterCopy(n, s)
<1>0. updates \in [Nodes -> Seq(TracedUpdates)]
  BY DEF Traceable, MonitorOK
<1>1. s \in Seq(Contents) /\ Len(s) \in Nat
  BY CopyOK
<1>2. \A k \in Nodes \ {n} : updates'[k] = updates[k]
  BY <1>0
<1>3. PICK U, V, W : U = updates[n] /\ V = Updates(s) /\ W = updates'[n]
  OBVIOUS
<1>4. W = U \o V /\ U \in Seq(TracedUpdates)
  BY <1>0, <1>3
<1>5. /\ V \in Seq([hash : Contents, batch : {s, <<>>}]) /\ Len(V) = Len(s)
      /\ \A q \in 1..Len(s) : V[q].hash = s[q] /\ V[q].batch = IF s[q] \in Files THEN s ELSE <<>>
  <2>1. V = [i \in 1..Len(s) |-> [hash |-> s[i], batch |-> IF s[i] \in Files THEN s ELSE <<>>]]
    BY <1>3 DEF Updates
  <2>2. \A i \in 1..Len(s) : s[i] \in Contents
    BY <1>1
  <2>3. \A i \in 1..Len(s) : V[i] \in [hash : Contents, batch : {s, <<>>}]
    BY <2>1, <2>2
  <2>4. V \in Seq([hash : Contents, batch : {s, <<>>}]) /\ Len(V) = Len(s)
    <3>1. ASSUME NEW R, \A i \in 1..Len(s) : V[i] \in R PROVE V \in Seq(R) /\ Len(V) = Len(s)
      BY <1>1, <2>1, <3>1
    <3> QED
      BY <2>3, <3>1
  <2> QED
    BY <2>1, <2>4
<1>6. Len(U) \in Nat /\ Len(W) = Len(U) + Len(s) /\ \A q \in 1..Len(U) : W[q] = U[q]
  <2>1. Len(U) \in Nat /\ Len(V) \in Nat
    BY <1>1, <1>4, <1>5
  <2>2. Len(U \o V) = Len(U) + Len(V)
    <3>1. ASSUME NEW R, NEW Q, U \in Seq(R), V \in Seq(Q) PROVE Len(U \o V) = Len(U) + Len(V)
      <4>1. PICK P : P = R \cup Q
        OBVIOUS
      <4>2. U \in Seq(P) /\ V \in Seq(P)
        BY <3>1, <4>1
      <4> QED
        BY <4>2
    <3> QED
      BY <1>4, <1>5, <3>1
  <2>3. \A q \in 1..Len(U) : (U \o V)[q] = U[q]
    BY <1>4, <1>5
  <2> QED
    BY <1>4, <1>5, <2>1, <2>2, <2>3
<1>7. ASSUME NEW q \in 1..Len(W) \ 1..Len(U)
      PROVE  q - Len(U) \in 1..Len(s) /\ W[q] = V[q - Len(U)]
  <2>1. q - Len(U) \in 1..Len(s)
    BY <1>1, <1>6, <1>7
  <2>2. \A r \in 1..(Len(U) + Len(V)) : (U \o V)[r] = IF r <= Len(U) THEN U[r] ELSE V[r - Len(U)]
    BY <1>4, <1>5
  <2> QED
    BY <1>1, <1>4, <1>5, <1>6, <1>7, <2>1, <2>2
<1>8. \A q \in 1..Len(W) \ 1..Len(U) :
         /\ q - Len(U) \in 1..Len(s) /\ W[q].hash = s[q - Len(U)]
         /\ W[q].batch = IF W[q].hash \in Files THEN s ELSE <<>>
  BY <1>5, <1>7
<1>9. \A k \in Nodes : Len(updates[k]) \in Nat
  BY <1>0
<1>10. ASSUME NEW k \in Nodes, k # n
       PROVE  /\ Len(updates'[k]) = Len(updates[k])
              /\ \A q \in 1..Len(updates[k]) : updates'[k][q] = updates[k][q]
              /\ 1..Len(updates'[k]) \ 1..Len(updates[k]) = {}
  BY <1>2, <1>10
<1>11. ASSUME NEW k \in Nodes
       PROVE  /\ Len(updates[k]) \in Nat /\ Len(updates'[k]) = Len(updates[k]) + (IF k = n THEN Len(s) ELSE 0)
              /\ \A q \in 1..Len(updates[k]) : updates'[k][q] = updates[k][q]
              /\ \A q \in 1..Len(updates'[k]) \ 1..Len(updates[k]) :
                    /\ k = n /\ q - Len(updates[k]) \in 1..Len(s)
                    /\ updates'[k][q].hash = s[q - Len(updates[k])]
                    /\ updates'[k][q].batch = IF updates'[k][q].hash \in Files THEN s ELSE <<>>
  <2>1. CASE k = n
    BY <1>3, <1>6, <1>8, <2>1
  <2>2. CASE k # n
    BY <1>9, <1>10, <2>2
  <2> QED
    BY <2>1, <2>2
<1> QED
  BY <1>11 DEF AfterCopy

\* A user copies something new: it is queued, and nothing else moves.
LEMMA CopyFull ==
    ASSUME Traceable, Undisturbed, Undisturbed', NEW H, NEW S, Life(H, S), Full(H, S),
           NEW n \in Nodes, NEW s \in Copies, Copy(n, s)
    PROVE  Full(H, S)'
<1> USE DEF chanVars, updateVars
<1>0. /\ CopiedOK /\ ClipOK /\ Queued(H) /\ OnceMade(H) /\ OnceQueued(H) /\ Covered(H) /\ CurrentMade(H)
      /\ Marked /\ Distinct /\ peers = Mesh
  BY DEF Traceable, Undisturbed, Full, Queued
<1>1. PICK L : L = Len(copied)
  OBVIOUS
<1>2. /\ L \in Nat /\ Len(copied') = L + 1 /\ copied'[L + 1] = [by |-> n, what |-> s]
      /\ \A i \in 1..L : copied'[i] = copied[i]
      /\ \A i \in 1..Len(copied') : i \in 1..L \/ i = L + 1
  BY <1>0, <1>1 DEF Copy, CopiedOK
<1>3. /\ s \in Seq(Contents) /\ s # <<>> /\ IsInjective(s) /\ Range(s) \cap Empty = {}
      /\ Range(s) \cap CopiedContents = {}
  <2>1. s \in Seq(Contents) /\ s # <<>>
    BY CopyOK
  <2>2. Distinct' /\ L + 1 \in 1..Len(copied')
    BY <1>2 DEF Undisturbed
  <2>3. IsInjective(s) /\ Range(s) \cap Empty = {}
    BY <1>2, <2>2 DEF Distinct
  <2>4. \A i \in 1..L : Range(copied[i].what) \cap Range(s) = {}
    BY <1>2, <2>2 DEF Distinct
  <2> QED
    BY <1>1, <2>1, <2>3, <2>4 DEF CopiedContents
<1>4. Range(s) # {}
  BY <1>3 DEF Range
<1>5. dedup[n] # s
  BY <1>0, <1>3, <1>4 DEF Marked
<1>6. /\ dedup' = [dedup EXCEPT ![n] = s] /\ updates' = [updates EXCEPT ![n] = @ \o Updates(s)]
      /\ UNCHANGED <<lastMsg, served, current, sending, nextId, seen, handing, anns, batches, peers, net>>
  BY <1>5 DEF Copy
<1>7. Made' = Made /\ CopiedContents' = CopiedContents \cup Range(s) /\ LastContents' = Range(s)
  <2>1. Made' = Made
    BY <1>6 DEF Made
  <2>2. CopiedContents' = CopiedContents \cup Range(s)
    BY <1>1, <1>2 DEF CopiedContents
  <2>3. copied' # <<>>
    BY <1>2
  <2> QED
    BY <1>2, <2>1, <2>2, <2>3 DEF LastContents
<1>8. AfterCopy(n, s)
  BY <1>6, CopyQueues
<1>9. \A k, x : CopiedBy(k, x) => CopiedBy(k, x)'
  <2>1. \A i \in 1..Len(copied) : i \in 1..Len(copied') /\ copied'[i] = copied[i]
    BY <1>1, <1>2
  <2> QED
    BY <2>1 DEF CopiedBy
<1>10. OnceMade(H)' /\ CurrentMade(H)'
  <2>1. Traced \subseteq Traced'
    <3>1. Grown
      BY DEF Grown, Copy
    <3> QED
      BY <1>0, <3>1, TracedGrows
  <2>2. \A x : Known(H, x) => Known(H, x)'
    BY <1>7 DEF Known
  <2> QED
    BY <1>0, <1>6, <1>7, <1>9, <2>1, <2>2 DEF OnceMade, CurrentMade
<1>11. Marked'
  <2>1. DOMAIN dedup = Nodes
    BY <1>0 DEF ClipOK
  <2> QED
    BY <1>0, <1>6, <1>7, <2>1 DEF Marked
<1>m. \A id \in Made : H[id].hash \in CopiedContents
  BY <1>0, MadeFacts
<1>12. ASSUME NEW k \in Nodes, NEW q \in 1..Len(updates'[k])
       PROVE  /\ \A x : x = updates'[k][q] => CopiedBy(k, x)'
              /\ q \in 1..Len(updates[k]) => updates'[k][q].hash \in CopiedContents
              /\ q \notin 1..Len(updates[k]) => /\ k = n /\ updates'[k][q].hash \in Range(s)
                                                /\ q - Len(updates[k]) \in 1..Len(s)
                                                /\ updates'[k][q].hash = s[q - Len(updates[k])]
  <2>1. CASE q \in 1..Len(updates[k])
    <3>1. updates'[k][q] = updates[k][q] /\ CopiedBy(k, updates[k][q])
      BY <1>0, <1>8, <2>1 DEF AfterCopy, OnceQueued
    <3>2. updates[k][q].hash \in CopiedContents
      BY <3>1 DEF CopiedBy, CopiedContents
    <3>3. \A x : x = updates'[k][q] => CopiedBy(k, x)'
      BY <1>9, <3>1
    <3> QED
      BY <2>1, <3>1, <3>2, <3>3
  <2>2. CASE q \notin 1..Len(updates[k])
    <3>1. /\ k = n /\ q - Len(updates[k]) \in 1..Len(s) /\ updates'[k][q].hash = s[q - Len(updates[k])]
          /\ updates'[k][q].batch = IF updates'[k][q].hash \in Files THEN s ELSE <<>>
      BY <1>8, <1>12, <2>2 DEF AfterCopy
    <3>2. updates'[k][q].hash \in Range(s)
      BY <1>3, <3>1 DEF Range
    <3>3. ASSUME NEW x, x = updates'[k][q] PROVE CopiedBy(k, x)'
      <4>1. L + 1 \in 1..Len(copied') /\ copied'[L + 1].by = n /\ copied'[L + 1].what = s
        BY <1>2
      <4> QED
        BY <3>1, <3>2, <3>3, <4>1 DEF CopiedBy
    <3> QED
      BY <2>2, <3>1, <3>2, <3>3
  <2> QED
    BY <2>1, <2>2
<1>13. OnceQueued(H)'
  <2>1. ASSUME NEW k \in Nodes, NEW q \in 1..Len(updates'[k]), NEW r \in 1..Len(updates'[k]),
               updates'[k][q].hash = updates'[k][r].hash
        PROVE  q = r
    <3>1. q \in 1..Len(updates[k]) <=> r \in 1..Len(updates[k])
      BY <1>3, <1>12, <2>1
    <3>2. CASE q \in 1..Len(updates[k])
      BY <1>0, <1>8, <2>1, <3>1, <3>2 DEF AfterCopy, OnceQueued
    <3>3. CASE q \notin 1..Len(updates[k])
      <4>1. /\ q - Len(updates[k]) \in 1..Len(s) /\ r - Len(updates[k]) \in 1..Len(s)
            /\ s[q - Len(updates[k])] = s[r - Len(updates[k])]
        BY <1>12, <2>1, <3>1, <3>3
      <4>2. DOMAIN s = 1..Len(s) /\ Len(updates[k]) \in Nat
        BY <1>3, <1>8 DEF AfterCopy
      <4>3. q - Len(updates[k]) = r - Len(updates[k])
        BY <1>3, <4>1, <4>2 DEF IsInjective
      <4> QED
        BY <2>1, <4>2, <4>3
    <3> QED
      BY <3>2, <3>3
  <2>2. ASSUME NEW k \in Nodes, NEW q \in 1..Len(updates'[k]), NEW id \in Made
        PROVE  H[id].hash # updates'[k][q].hash
    <3>1. CASE q \in 1..Len(updates[k])
      <4>1. updates'[k][q] = updates[k][q]
        BY <1>8, <3>1 DEF AfterCopy
      <4>2. H[id].hash # updates[k][q].hash
        BY <1>0, <3>1 DEF OnceQueued
      <4> QED
        BY <4>1, <4>2
    <3>2. CASE q \notin 1..Len(updates[k])
      BY <1>3, <1>12, <1>m, <2>2, <3>2
    <3> QED
      BY <3>1, <3>2
  <2> QED
    BY <1>7, <1>12, <2>1, <2>2 DEF OnceQueued
<1>14. Covered(H)'
  <2>1. ASSUME NEW i \in 1..Len(copied'), NEW c \in Range(copied'[i].what)
        PROVE  \/ \E q \in 1..Len(updates'[copied'[i].by]) : updates'[copied'[i].by][q].hash = c
               \/ \E id \in Made : H[id].hash = c
    <3>1. CASE i \in 1..L
      <4>1. copied'[i] = copied[i] /\ i \in 1..Len(copied) /\ copied[i].by \in Nodes
        <5>1. \A R : copied \in Seq(R) /\ i \in 1..Len(copied) => copied[i] \in R
          OBVIOUS
        <5>2. copied[i] \in [by : Nodes, what : Copies]
          BY <1>0, <1>1, <3>1, <5>1 DEF CopiedOK
        <5> QED
          BY <1>1, <1>2, <3>1, <5>2
      <4>2. PICK k : k = copied[i].by
        OBVIOUS
      <4>3. \A q \in 1..Len(updates[k]) : q \in 1..Len(updates'[k]) /\ updates'[k][q] = updates[k][q]
        <5>1. Len(updates[k]) \in Nat /\ Len(s) \in Nat /\ k \in Nodes
          BY <1>3, <1>8, <4>1, <4>2 DEF AfterCopy
        <5>2. Len(updates'[k]) \in {Len(updates[k]), Len(updates[k]) + Len(s)}
          <6>1. Len(updates'[k]) = Len(updates[k]) + (IF k = n THEN Len(s) ELSE 0)
            BY <1>8, <5>1 DEF AfterCopy
          <6>2. CASE k = n
            BY <6>1, <6>2
          <6>3. CASE k # n
            <7>1. Len(updates'[k]) = Len(updates[k]) + 0
              BY <6>1, <6>3
            <7> QED
              BY <5>1, <7>1
          <6> QED
            BY <6>2, <6>3
        <5>3. \A q \in 1..Len(updates[k]) : updates'[k][q] = updates[k][q]
          BY <1>8, <5>1 DEF AfterCopy
        <5> QED
          BY <5>1, <5>2, <5>3
      <4>4. \/ \E q \in 1..Len(updates[k]) : updates[k][q].hash = c
            \/ \E id \in Made : H[id].hash = c
        BY <1>0, <2>1, <4>1, <4>2 DEF Covered
      <4> QED
        BY <4>1, <4>2, <4>3, <4>4
    <3>2. CASE i = L + 1
      <4>1. copied'[i].by = n /\ copied'[i].what = s
        BY <1>2, <3>2
      <4>2. PICK j \in 1..Len(s) : c = s[j]
        BY <1>3, <2>1, <4>1 DEF Range
      <4>3. PICK q : q = Len(updates[n]) + j
        OBVIOUS
      <4>4. /\ Len(updates[n]) \in Nat /\ Len(s) \in Nat /\ q \in 1..Len(updates'[n])
            /\ q \notin 1..Len(updates[n]) /\ q - Len(updates[n]) = j
        <5>1. Len(updates[n]) \in Nat /\ Len(s) \in Nat
          BY <1>3, <1>8 DEF AfterCopy
        <5>2. Len(updates'[n]) = Len(updates[n]) + Len(s)
          BY <1>8, <5>1 DEF AfterCopy
        <5> QED
          BY <4>2, <4>3, <5>1, <5>2
      <4>5. updates'[n][q].hash = c
        BY <1>12, <4>2, <4>4
      <4> QED
        BY <4>1, <4>4, <4>5
    <3> QED
      BY <1>2, <2>1, <3>1, <3>2
  <2> QED
    BY <1>7, <2>1 DEF Covered
<1>15. Flow(H, S)'
  <2>0. Flow(H, S)
    BY DEF Full
  <2>1. Placed(H, S)'
    BY <1>6, <1>7, <2>0 DEF Flow, Placed, At, OnItsWay
  <2>2. Refusals(H, S)' /\ SeenBack(H, S)' /\ LastStage(S)' /\ ServedAll(H)'
    BY <1>6, <1>7, <2>0 DEF Flow, Refusals, SeenBack, LastStage, ServedAll, Taken
  <2>3. OpenBatches(H, S)'
    BY <1>6, <1>7, <2>0 DEF Flow, OpenBatches, OpenBatch, Through, Hashes
  <2> QED
    BY <2>1, <2>2, <2>3 DEF Flow
<1>16. ASSUME Paced PROVE (PacedFlow(H, S))'
  <2>1. Idle
    BY <1>16 DEF Copy
  <2>2. \A k \in Nodes : \A id \in Made : S[k][id] \in Ended
    BY <2>1, IdleEnded
  <2>3. \A k \in Nodes : 1..Len(updates[k]) = {}
    BY <2>1 DEF Idle
  <2>4. OthersEnded(H, S)'
    BY <1>7, <1>12, <2>2, <2>3 DEF OthersEnded
  <2>5. TextKept(H, S)'
    BY <1>7, <2>2 DEF TextKept
  <2>6. PICK c : c \in Range(s) /\ \A id \in Made : H[id].hash # c
    BY <1>3, <1>4, <1>m
  <2>7. LastShown(H, S)'
    BY <1>7, <2>6 DEF LastShown
  <2> QED
    BY <2>4, <2>5, <2>7 DEF PacedFlow
<1> QED
  BY <1>0, <1>6, <1>10, <1>11, <1>13, <1>14, <1>15, <1>16 DEF Full, Queued

\* A message that is about to be made: nobody has its content or its ID yet.
FreshMessage(H, n, msg) ==
    /\ msg \in Traced /\ msg.id \in IDs \ Made /\ Author(msg.id) = n /\ msg.hash \notin Empty
    /\ msg.hash = updates[n][1].hash /\ msg.mime = Mime(msg.hash) /\ CopiedBy(n, msg)
    /\ \A id \in Made : H[id].hash # msg.hash

\* Every update becomes such a message.
LEMMA UpdateFresh ==
    ASSUME Traceable, Undisturbed, NEW H, NEW S, Life(H, S), Full(H, S), NEW n \in Nodes,
           updates[n] # <<>>, NEW msg, msg = NextMessage(n)
    PROVE  FreshMessage(H, n, msg) /\ ~Skips(n) /\ Accepts(n, msg)
<1>0. /\ CopiedOK /\ MonitorOK /\ ChannelLife(H) /\ OnceMade(H) /\ OnceQueued(H) /\ CurrentMade(H) /\ Distinct
  BY DEF Traceable, Life, Full, Queued, Undisturbed
<1>1. updates[n] \in Seq(TracedUpdates) /\ nextId \in [Nodes -> Nat]
  BY <1>0 DEF MonitorOK
<1>2. PICK u : u = Head(updates[n])
  OBVIOUS
<1>3. 1 \in 1..Len(updates[n]) /\ u = updates[n][1]
  BY <1>1, <1>2
<1>4. /\ msg.id = <<n, nextId[n]>> /\ msg.mime = Mime(u.hash) /\ msg.hash = u.hash /\ msg.batch = u.batch
  BY <1>2 DEF NextMessage
<1>5. CopiedBy(n, u) /\ \A id \in Made : H[id].hash # u.hash
  BY <1>0, <1>3 DEF OnceQueued
<1>6. CopiedBy(n, msg)
  BY <1>4, <1>5 DEF CopiedBy
<1>7. msg.hash \notin Empty
  BY <1>0, <1>6 DEF CopiedBy, Distinct
<1>8. msg.id \in IDs \ Made /\ Author(msg.id) = n
  BY <1>1, <1>4 DEF IDs, Made, Author
<1>9. FreshMessage(H, n, msg)
  BY <1>3, <1>4, <1>5, <1>6, <1>7, <1>8, NextMessageOK DEF FreshMessage
<1>10. ASSUME NEW m, Known(H, m) PROVE ~Duplicate(m, msg)
  <2>1. m.id \in Made /\ m = H[m.id]
    BY <1>10 DEF Known, KnownIn
  <2>2. m.id # msg.id /\ m.hash # msg.hash
    BY <1>4, <1>5, <1>8, <2>1
  <2> QED
    BY <2>2 DEF Duplicate
<1>11. Accepts(n, msg)
  BY <1>0, <1>10 DEF Accepts, RepeatsLast, ChannelLife
<1>12. ~Skips(n)
  BY <1>0, <1>7, <1>10 DEF Skips, RepeatsLast, CurrentMade
<1> QED
  BY <1>9, <1>11, <1>12

\* The queues after an update was taken.
AfterSend(n) ==
    /\ \A k \in Nodes : \A q \in 1..Len(updates'[k]) :
          \E r \in 1..Len(updates[k]) :
             r = (IF k = n THEN q + 1 ELSE q) /\ updates'[k][q] = updates[k][r]
    /\ \A k \in Nodes : \A r \in 1..Len(updates[k]) :
          \/ k = n /\ r = 1
          \/ \E q \in 1..Len(updates'[k]) : updates'[k][q] = updates[k][r]

LEMMA SendQueues ==
    ASSUME Traceable, NEW n \in Nodes, updates[n] # <<>>, updates' = [updates EXCEPT ![n] = Tail(@)]
    PROVE  AfterSend(n)
<1>0. updates \in [Nodes -> Seq(TracedUpdates)]
  BY DEF Traceable, MonitorOK
<1>1. \A k \in Nodes \ {n} : updates'[k] = updates[k]
  BY <1>0
<1>2. PICK U, W : U = updates[n] /\ W = updates'[n]
  OBVIOUS
<1>3. U \in Seq(TracedUpdates) /\ U # <<>> /\ W = Tail(U)
  BY <1>0, <1>2
<1>4. Len(U) \in Nat \ {0} /\ Len(W) = Len(U) - 1 /\ \A q \in 1..Len(W) : W[q] = U[q + 1]
  BY <1>3
<1>5. \A q \in 1..Len(W) : q + 1 \in 1..Len(U) /\ W[q] = U[q + 1]
  BY <1>4
<1>6. ASSUME NEW r \in 1..Len(U), r # 1 PROVE \E q \in 1..Len(W) : W[q] = U[r]
  <2>1. r - 1 \in 1..Len(W) /\ (r - 1) + 1 = r
    BY <1>4, <1>6
  <2> QED
    BY <1>5, <2>1
<1>7. ASSUME NEW k \in Nodes, NEW q \in 1..Len(updates'[k])
      PROVE  \E r \in 1..Len(updates[k]) :
                r = (IF k = n THEN q + 1 ELSE q) /\ updates'[k][q] = updates[k][r]
  <2>1. CASE k = n
    BY <1>2, <1>5, <1>7, <2>1
  <2>2. CASE k # n
    BY <1>1, <1>7, <2>2
  <2> QED
    BY <2>1, <2>2
<1>8. ASSUME NEW k \in Nodes, NEW r \in 1..Len(updates[k])
      PROVE  (k = n /\ r = 1) \/ \E q \in 1..Len(updates'[k]) : updates'[k][q] = updates[k][r]
  <2>1. CASE k = n
    BY <1>2, <1>6, <1>8, <2>1
  <2>2. CASE k # n
    BY <1>1, <1>8, <2>2
  <2> QED
    BY <2>1, <2>2
<1> QED
  BY <1>7, <1>8 DEF AfterSend

\* A message is made, with an account of it: it is new, and its author sends it.
NewAccount(H, S, G, T, n, j, msg) ==
    /\ Made' = Made \cup {j} /\ j \in IDs /\ j \notin Made /\ Author(j) = n /\ msg.id = j
    /\ G[j] = msg /\ \A id \in Made : G[id] = H[id]
    /\ T[n][j] = "sending" /\ \A k \in Nodes \ {n} : T[k][j] = "none"
    /\ \A k \in Nodes : \A id \in Made : T[k][id] = S[k][id]

LEMMA SendAccount ==
    ASSUME Traceable, NEW H, NEW S, Life(H, S), NEW n \in Nodes, NEW msg, FreshMessage(H, n, msg),
           msg.id = <<n, nextId[n]>>, nextId' = [nextId EXCEPT ![n] = @ + 1],
           NEW G, Entered(H, G, msg), NEW T, Moved(S, T, n, msg.id, "sending")
    PROVE  NewAccount(H, S, G, T, n, msg.id, msg)
<1>0. DOMAIN H = IDs /\ StageOK(S) /\ nextId \in [Nodes -> Nat]
  BY DEF Life, Traceable, MonitorOK
<1>1. PICK j : j = msg.id
  OBVIOUS
<1>2. j \in IDs /\ j \notin Made /\ Author(j) = n /\ j = <<n, nextId[n]>>
  BY <1>1 DEF FreshMessage
<1>3. Made' = Made \cup {j}
  <2>1. \A k \in Nodes : nextId'[k] = IF k = n THEN nextId[n] + 1 ELSE nextId[k]
    BY <1>0
  <2>2. ASSUME NEW id \in IDs PROVE id \in Made' <=> id \in Made \cup {j}
    <3>1. PICK a \in Nodes, i \in Nat : id = <<a, i>>
      BY <2>2 DEF IDs
    <3>2. id \in Made <=> i < nextId[a]
      BY <2>2, <3>1 DEF Made, Author
    <3>3. id \in Made' <=> i < nextId'[a]
      BY <2>2, <3>1 DEF Made, Author
    <3>4. id = j <=> a = n /\ i = nextId[n]
      BY <1>2, <3>1
    <3>5. nextId[a] \in Nat /\ nextId[n] \in Nat
      BY <1>0, <3>1
    <3>6. CASE a = n
      <4>1. nextId'[a] = nextId[n] + 1
        BY <2>1, <3>1, <3>6
      <4> QED
        BY <3>1, <3>2, <3>3, <3>4, <3>5, <3>6, <4>1
    <3>7. CASE a # n
      BY <2>1, <3>1, <3>2, <3>3, <3>4, <3>7
    <3> QED
      BY <3>6, <3>7
  <2> QED
    BY <1>2, <2>2 DEF Made
<1>4. G[j] = msg /\ \A id \in Made : G[id] = H[id]
  BY <1>0, <1>1, <1>2 DEF Entered, Made
<1>5. \A k \in Nodes : S[k][j] = "none"
  BY <1>0, <1>2 DEF StageOK
<1>6. /\ T[n][j] = "sending" /\ \A k \in Nodes : \A id \in IDs : k # n \/ id # j => T[k][id] = S[k][id]
  BY <1>0, <1>1, <1>2 DEF Moved, StageOK
<1>7. \A k \in Nodes : \A id \in Made : T[k][id] = S[k][id]
  BY <1>2, <1>6 DEF Made
<1>8. \A k \in Nodes \ {n} : T[k][j] = "none"
  BY <1>2, <1>5, <1>6
<1> QED
  BY <1>1, <1>2, <1>3, <1>4, <1>6, <1>7, <1>8 DEF NewAccount

\* The queues and the messages made so far, with the new one.
LEMMA SendQueued ==
    ASSUME Traceable, Undisturbed, NEW H, NEW S, Full(H, S), NEW n \in Nodes, updates[n] # <<>>, NEW msg,
           FreshMessage(H, n, msg), NEW G, NEW T, NEW j, NewAccount(H, S, G, T, n, j, msg), UNCHANGED copied,
           AfterSend(n), current' = [current EXCEPT ![n] = msg]
    PROVE  Queued(G)'
<1>0. /\ CopiedOK /\ MonitorOK /\ Distinct /\ OnceMade(H) /\ OnceQueued(H) /\ Covered(H) /\ CurrentMade(H)
  BY DEF Traceable, Undisturbed, Full, Queued
<1>1. /\ Made' = Made \cup {j} /\ G[j] = msg /\ \A id \in Made : G[id] = H[id]
      /\ j \notin Made /\ Author(j) = n /\ msg.id = j
  BY DEF NewAccount
<1>2. /\ msg \in Traced /\ msg.hash \notin Empty /\ msg.hash = updates[n][1].hash
      /\ msg.mime = Mime(msg.hash) /\ CopiedBy(n, msg) /\ \A id \in Made : H[id].hash # msg.hash
  BY DEF FreshMessage
<1>3. Traced' = Traced /\ \A k, x : CopiedBy(k, x)' = CopiedBy(k, x)
  BY TracedSame DEF CopiedBy
<1>4. ASSUME NEW m, Known(H, m) PROVE KnownIn(Made', G, m)
  BY <1>1, <1>4 DEF Known, KnownIn
<1>5. KnownIn(Made', G, msg)
  BY <1>1, <1>2 DEF KnownIn
<1>6. OnceMade(G)'
  <2>1. ASSUME NEW id \in Made'
        PROVE  /\ G[id] \in Traced /\ KnownIn(Made', G, G[id]) /\ G[id].id = id
               /\ G[id].mime = Mime(G[id].hash) /\ CopiedBy(Author(id), G[id])
    <3>1. CASE id = j
      BY <1>1, <1>2, <1>5, <3>1
    <3>2. CASE id \in Made
      <4>1. /\ H[id] \in Traced /\ Known(H, H[id]) /\ H[id].id = id
            /\ H[id].mime = Mime(H[id].hash) /\ CopiedBy(Author(id), H[id])
        BY <1>0, <3>2 DEF OnceMade
      <4> QED
        BY <1>1, <1>4, <3>2, <4>1
    <3> QED
      BY <1>1, <3>1, <3>2
  <2>2. ASSUME NEW id \in Made', NEW jd \in Made', G[id].hash = G[jd].hash PROVE id = jd
    BY <1>0, <1>1, <1>2, <2>2 DEF OnceMade
  <2> QED
    BY <1>3, <2>1, <2>2 DEF OnceMade, Known
<1>7. ASSUME NEW k \in Nodes, NEW q \in 1..Len(updates'[k])
      PROVE  /\ \A x : x = updates'[k][q] => CopiedBy(k, x)
             /\ \A r \in 1..Len(updates'[k]) : updates'[k][q].hash = updates'[k][r].hash => q = r
             /\ \A id \in Made' : G[id].hash # updates'[k][q].hash
  <2>1. PICK p \in 1..Len(updates[k]) : p = (IF k = n THEN q + 1 ELSE q) /\ updates'[k][q] = updates[k][p]
    BY <1>7 DEF AfterSend
  <2>2. CopiedBy(k, updates[k][p]) /\ \A id \in Made : H[id].hash # updates[k][p].hash
    BY <1>0, <2>1 DEF OnceQueued
  <2>3. ASSUME NEW r \in 1..Len(updates'[k]), updates'[k][q].hash = updates'[k][r].hash PROVE q = r
    <3>1. PICK o \in 1..Len(updates[k]) : o = (IF k = n THEN r + 1 ELSE r) /\ updates'[k][r] = updates[k][o]
      BY <2>3 DEF AfterSend
    <3>2. p = o
      BY <1>0, <2>1, <2>3, <3>1 DEF OnceQueued
    <3>3. CASE k = n
      BY <1>7, <2>1, <2>3, <3>1, <3>2, <3>3
    <3>4. CASE k # n
      BY <2>1, <3>1, <3>2, <3>4
    <3> QED
      BY <3>3, <3>4
  <2>4. msg.hash # updates[k][p].hash
    <3>1. CASE k = n
      <4>1. p = q + 1 /\ 1 \in 1..Len(updates[n]) /\ p # 1 /\ p \in 1..Len(updates[n])
        <5>1. updates[n] \in Seq(TracedUpdates)
          BY <1>0 DEF MonitorOK
        <5>2. Len(updates[n]) \in Nat \ {0}
          BY <5>1
        <5> QED
          BY <1>7, <2>1, <3>1, <5>2
      <4> QED
        BY <1>0, <1>2, <3>1, <4>1 DEF OnceQueued
    <3>2. CASE k # n
      <4>1. PICK i \in 1..Len(copied) : copied[i].by = k /\ updates[k][p].hash \in Range(copied[i].what)
        BY <2>2 DEF CopiedBy
      <4>2. PICK l \in 1..Len(copied) : copied[l].by = n /\ msg.hash \in Range(copied[l].what)
        BY <1>2 DEF CopiedBy
      <4> QED
        BY <1>0, <3>2, <4>1, <4>2 DEF Distinct
    <3> QED
      BY <3>1, <3>2
  <2>5. \A id \in Made' : G[id].hash # updates'[k][q].hash
    BY <1>1, <2>1, <2>2, <2>4
  <2> QED
    BY <2>1, <2>2, <2>3, <2>5
<1>8. OnceQueued(G)'
  BY <1>3, <1>7 DEF OnceQueued
<1>9. Covered(G)'
  <2>1. ASSUME NEW i \in 1..Len(copied), NEW c \in Range(copied[i].what), NEW k, k = copied[i].by
        PROVE  \/ \E q \in 1..Len(updates'[k]) : updates'[k][q].hash = c
               \/ \E id \in Made' : G[id].hash = c
    <3>1. k \in Nodes
      <4>1. \A R : copied \in Seq(R) => copied[i] \in R
        OBVIOUS
      <4>2. copied[i] \in [by : Nodes, what : Copies]
        BY <1>0, <4>1 DEF CopiedOK
      <4> QED
        BY <2>1, <4>2
    <3>2. CASE \E id \in Made : H[id].hash = c
      BY <1>1, <3>2
    <3>3. CASE \E q \in 1..Len(updates[k]) : updates[k][q].hash = c
      <4>1. PICK r \in 1..Len(updates[k]) : updates[k][r].hash = c
        BY <3>3
      <4>2. CASE k = n /\ r = 1
        BY <1>1, <1>2, <4>1, <4>2
      <4>3. CASE \E q \in 1..Len(updates'[k]) : updates'[k][q] = updates[k][r]
        BY <4>1, <4>3
      <4> QED
        BY <3>1, <4>2, <4>3 DEF AfterSend
    <3> QED
      BY <1>0, <2>1, <3>2, <3>3 DEF Covered
  <2>2. ASSUME NEW i \in 1..Len(copied), NEW c \in Range(copied[i].what)
        PROVE  \/ \E q \in 1..Len(updates'[copied[i].by]) : updates'[copied[i].by][q].hash = c
               \/ \E id \in Made' : G[id].hash = c
    <3>1. PICK k : k = copied[i].by
      OBVIOUS
    <3>2. \/ \E q \in 1..Len(updates'[k]) : updates'[k][q].hash = c
          \/ \E id \in Made' : G[id].hash = c
      BY <2>1, <3>1
    <3> QED
      BY <3>1, <3>2
  <2>3. copied' = copied
    OBVIOUS
  <2> QED
    BY <2>2, <2>3 DEF Covered
<1>10. CurrentMade(G)'
  <2>1. \A k \in Nodes : current'[k] = IF k = n THEN msg ELSE current[k]
    BY <1>0 DEF MonitorOK
  <2>2. ASSUME NEW k \in Nodes, current'[k] # NoMsg PROVE KnownIn(Made', G, current'[k])
    <3>1. CASE k = n
      BY <1>5, <2>1, <3>1
    <3>2. CASE k # n
      <4>1. Known(H, current[k]) /\ current'[k] = current[k]
        BY <1>0, <2>1, <2>2, <3>2 DEF CurrentMade
      <4> QED
        BY <1>4, <4>1
    <3> QED
      BY <3>1, <3>2
  <2> QED
    BY <2>2 DEF CurrentMade, Known
<1> QED
  BY <1>6, <1>8, <1>9, <1>10 DEF Queued

\* The channel takes the message, and the update goroutine waits for the monitor.
Sends(n, msg) ==
    /\ sending[n] = NoMsg /\ sending' = [sending EXCEPT ![n] = msg] /\ UpdateLastMsg(n, msg)
    /\ UNCHANGED <<copied, seen, handing, anns, batches, net>>

\* Where everything is when a message has just been made.
LEMMA SendFlow ==
    ASSUME Traceable, Undisturbed, NEW H, NEW S, Life(H, S), Full(H, S), NEW n \in Nodes, NEW msg,
           FreshMessage(H, n, msg), NEW G, NEW T, NEW j, NewAccount(H, S, G, T, n, j, msg), Sends(n, msg)
    PROVE  Flow(G, T)' /\ \A k \in Nodes : lastMsg'[k] = IF k = n THEN msg ELSE lastMsg[k]
<1>0. /\ CopiedOK /\ MonitorOK /\ ChannelLife(H) /\ Distinct /\ WithinHistory /\ OnceMade(H) /\ Flow(H, S)
      /\ StageOK(S)
  BY DEF Traceable, Undisturbed, Full, Queued, Life
<1>u. /\ sending[n] = NoMsg /\ sending' = [sending EXCEPT ![n] = msg] /\ UpdateLastMsg(n, msg)
      /\ UNCHANGED <<copied, seen, handing, anns, batches, net>>
  BY DEF Sends
<1>1. /\ Made' = Made \cup {j} /\ G[j] = msg /\ \A id \in Made : G[id] = H[id]
      /\ j \notin Made /\ j \in IDs /\ Author(j) = n /\ msg.id = j
      /\ T[n][j] = "sending" /\ \A k \in Nodes \ {n} : T[k][j] = "none"
      /\ \A k \in Nodes : \A id \in Made : T[k][id] = S[k][id]
  BY DEF NewAccount
<1>2. /\ msg \in Traced /\ msg.hash \notin Empty /\ CopiedBy(n, msg) /\ \A id \in Made : H[id].hash # msg.hash
  BY DEF FreshMessage
<1>3. \A id \in Made : Author(id) \in Nodes /\ id \in IDs
  BY DEF Made, IDs, Author
<1>4. \A k \in Nodes : sending'[k] = IF k = n THEN msg ELSE sending[k]
  BY <1>0, <1>u DEF MonitorOK
<1>5. Placed(G, T)'
  <2>1. ASSUME NEW k \in Nodes, NEW id \in Made'
        PROVE  /\ At(G, T[k][id], k, id)'
               /\ k = Author(id) => T[k][id] \in {"sending", "done"}
               /\ k # Author(id) /\ T[k][id] = "none" => OnItsWay(G, T, k, id)'
    <3>1. CASE id = j
      <4>1. T[k][id] = "sending" => k = n
        BY <1>1, <3>1
      <4>2. T[k][id] \in {"none", "sending"}
        BY <1>1, <3>1
      <4>3. At(G, T[k][id], k, id)'
        BY <1>1, <1>4, <3>1, <4>1, <4>2 DEF At
      <4> QED
        BY <1>1, <3>1, <4>3 DEF OnItsWay
    <3>2. CASE id \in Made
      <4>1. /\ At(H, S[k][id], k, id)
            /\ k = Author(id) => S[k][id] \in {"sending", "done"}
            /\ k # Author(id) /\ S[k][id] = "none" => OnItsWay(H, S, k, id)
        BY <1>0, <3>2 DEF Flow, Placed
      <4>2. G[id] = H[id] /\ T[k][id] = S[k][id] /\ Author(id) \in Nodes
            /\ T[Author(id)][id] = S[Author(id)][id] /\ H[id] # NoMsg
        BY <1>0, <1>1, <1>3, <3>2, NoMsgAssumption DEF OnceMade, Traced
      <4>3. PICK p : p = S[k][id]
        OBVIOUS
      <4>4. At(G, p, k, id)'
        <5>1. p = "sending" => sending'[k] = H[id]
          BY <1>4, <1>u, <4>1, <4>2, <4>3 DEF At
        <5> QED
          BY <1>u, <4>1, <4>2, <4>3, <5>1 DEF At
      <4>5. OnItsWay(H, S, k, id) => OnItsWay(G, T, k, id)'
        BY <1>u, <4>2 DEF OnItsWay
      <4> QED
        BY <4>1, <4>2, <4>3, <4>4, <4>5
    <3> QED
      BY <1>1, <3>1, <3>2
  <2> QED
    BY <2>1 DEF Placed
<1>6. Refusals(G, T)'
  <2>1. ASSUME NEW k \in Nodes, NEW id \in Made', T[k][id] = "dropped"
        PROVE  G[id].hash \in TooBig \/ (G[id].mime = "text" /\ ~Paced)
    <3>1. id # j
      BY <1>1, <2>1
    <3>2. id \in Made /\ S[k][id] = "dropped" /\ G[id] = H[id]
      BY <1>1, <2>1, <3>1
    <3> QED
      BY <1>0, <3>2 DEF Flow, Refusals
  <2> QED
    BY <2>1 DEF Refusals
<1>7. SeenBack(G, T)'
  <2>1. ASSUME NEW k \in Nodes, NEW id \in Taken(S, k)
        PROVE  id \in Taken(T, k) /\ G[id] = H[id]
    <3>1. id \in Made
      BY <1>0 DEF StageOK, Taken
    <3> QED
      BY <1>1, <3>1 DEF Taken
  <2>2. \A k \in Nodes : (Taken(T, k))' = Taken(T, k)
    BY DEF Taken
  <2> QED
    BY <1>0, <1>u, <2>1, <2>2 DEF Flow, SeenBack
<1>8. /\ \A k \in Nodes : DOMAIN served[k].data \subseteq DOMAIN served'[k].data
      /\ msg.mime = "path" => j \in DOMAIN served'[n].data
      /\ \A k \in Nodes : lastMsg'[k] = IF k = n THEN msg ELSE lastMsg[k]
  <2>1. PICK M : M = Made \cup {j}
    OBVIOUS
  <2>2. \A id \in M : G[id].hash \in CopiedContents
    <3>1. msg.hash \in CopiedContents
      BY <1>2 DEF CopiedBy, CopiedContents
    <3>2. \A id \in Made : H[id].hash \in CopiedContents
      BY <1>0, MadeFacts
    <3> QED
      BY <1>1, <2>1, <3>1, <3>2
  <2>3. \A id, jd \in M : G[id].hash = G[jd].hash => id = jd
    BY <1>0, <1>1, <1>2, <2>1 DEF OnceMade
  <2>4. Apart(G, M)
    BY <2>2, <2>3 DEF Apart
  <2>5. DOMAIN served[n].data \subseteq M
    BY <1>0, <2>1 DEF ChannelLife, Known, KnownIn
  <2>6. msg.id \in M /\ msg \in Traced /\ WithinHistory /\ UpdateLastMsg(n, msg)
    BY <1>0, <1>1, <1>2, <1>u, <2>1
  <2>7. /\ \A k \in Nodes : DOMAIN served[k].data \subseteq DOMAIN served'[k].data
        /\ msg.mime = "path" => msg.id \in DOMAIN served'[n].data
        /\ \A k \in Nodes : lastMsg'[k] = IF k = n THEN msg ELSE lastMsg[k]
    BY <2>4, <2>5, <2>6, ServedKept
  <2> QED
    BY <1>1, <2>7
<1>9. ServedAll(G)'
  <2>1. ASSUME NEW id \in Made', G[id].mime = "path" PROVE id \in DOMAIN served'[Author(id)].data
    <3>1. CASE id = j
      BY <1>1, <1>8, <2>1, <3>1
    <3>2. CASE id \in Made
      BY <1>0, <1>1, <1>3, <1>8, <2>1, <3>2 DEF Flow, ServedAll
    <3> QED
      BY <1>1, <3>1, <3>2
  <2> QED
    BY <2>1 DEF ServedAll
<1>10. LastStage(T)'
  <2>1. ASSUME NEW k \in Nodes, lastMsg'[k] # NoMsg
        PROVE  T[k][lastMsg'[k].id] \in {"sending", "handing", "done"}
    <3>1. CASE k = n
      BY <1>1, <1>8, <3>1
    <3>2. CASE k # n
      <4>1. lastMsg'[k] = lastMsg[k] /\ lastMsg[k].id \in Made
        BY <1>0, <1>8, <2>1, <3>2 DEF ChannelLife, Known, KnownIn
      <4> QED
        BY <1>0, <1>1, <2>1, <4>1 DEF Flow, LastStage
    <3> QED
      BY <3>1, <3>2
  <2> QED
    BY <2>1 DEF LastStage
<1>11. OpenBatches(G, T)'
  <2>1. ASSUME NEW k \in Nodes, NEW b PROVE (Through(G, T, k, b))' = Through(H, S, k, b)
    <3>1. T[k][j] \notin Ended
      BY <1>1 DEF Ended
    <3>2. \A id \in Made' : id \in Made \/ id = j
      BY <1>1
    <3>3. \A id \in Made : id \in Made' /\ G[id] = H[id] /\ T[k][id] = S[k][id]
      BY <1>1
    <3> QED
      BY <3>1, <3>2, <3>3 DEF Through
  <2>2. ASSUME NEW k \in Nodes, NEW b \in Copies PROVE OpenBatch(G, T, k, b)'
    <3>1. PICK D : D = Through(H, S, k, b)
      OBVIOUS
    <3>2. (Through(G, T, k, b))' = D /\ D \subseteq Made
      BY <2>1, <3>1 DEF Through
    <3>3. Hashes(G, D) = Hashes(H, D) /\ (Hashes(G, D))' = Hashes(G, D)
      BY <1>1, <3>2 DEF Hashes
    <3>4. OpenBatch(H, S, k, b)
      BY <1>0 DEF Flow, OpenBatches
    <3> QED
      BY <1>u, <3>1, <3>2, <3>3, <3>4 DEF OpenBatch
  <2> QED
    BY <2>2 DEF OpenBatches
<1> QED
  BY <1>5, <1>6, <1>7, <1>8, <1>9, <1>10, <1>11 DEF Flow

\* Paced users: the message is of the last copy, which nobody has whole yet.
LEMMA SendPaced ==
    ASSUME Traceable, Undisturbed, NEW H, NEW S, Full(H, S), Paced, NEW n \in Nodes, updates[n] # <<>>,
           NEW msg, FreshMessage(H, n, msg), NEW G, NEW T, NEW j, NewAccount(H, S, G, T, n, j, msg),
           AfterSend(n), UNCHANGED <<copied, clip>>,
           \A k \in Nodes : lastMsg'[k] = IF k = n THEN msg ELSE lastMsg[k]
    PROVE  (PacedFlow(G, T))'
<1>0. /\ CopiedOK /\ MonitorOK /\ Distinct /\ OnceMade(H) /\ OthersEnded(H, S) /\ TextKept(H, S)
      /\ LastContents' = LastContents
  BY DEF Traceable, Undisturbed, Full, Queued, PacedFlow, LastContents
<1>1. /\ Made' = Made \cup {j} /\ G[j] = msg /\ \A id \in Made : G[id] = H[id]
      /\ j \notin Made /\ Author(j) = n
      /\ T[n][j] = "sending" /\ \A k \in Nodes \ {n} : T[k][j] = "none"
      /\ \A k \in Nodes : \A id \in Made : T[k][id] = S[k][id]
  BY DEF NewAccount
<1>2. msg.hash \in LastContents /\ \A id \in Made : H[id].hash # msg.hash
  <2>1. updates[n] \in Seq(TracedUpdates)
    BY <1>0 DEF MonitorOK
  <2>2. 1 \in 1..Len(updates[n])
    BY <2>1
  <2> QED
    BY <1>0, <2>2 DEF OthersEnded, FreshMessage
<1>3. OthersEnded(G, T)'
  <2>1. ASSUME NEW k \in Nodes, NEW q \in 1..Len(updates'[k]) PROVE updates'[k][q].hash \in LastContents
    <3>1. PICK r \in 1..Len(updates[k]) : updates'[k][q] = updates[k][r]
      BY <2>1 DEF AfterSend
    <3> QED
      BY <1>0, <3>1 DEF OthersEnded
  <2>2. ASSUME NEW id \in Made', G[id].hash \notin LastContents, NEW k \in Nodes PROVE T[k][id] \in Ended
    <3>1. id \in Made
      BY <1>1, <1>2, <2>2
    <3> QED
      BY <1>0, <1>1, <2>2, <3>1 DEF OthersEnded
  <2> QED
    BY <1>0, <2>1, <2>2 DEF OthersEnded
<1>4. TextKept(G, T)'
  <2>1. ASSUME NEW id \in Made', G[id].mime = "text", NEW k \in Nodes, T[k][id] \notin Ended
        PROVE  lastMsg'[Author(id)] = G[id]
    <3>1. CASE id = j
      BY <1>1, <3>1
    <3>2. CASE id \in Made
      <4>1. S[k][id] \notin Ended /\ H[id].mime = "text"
        BY <1>1, <2>1, <3>2
      <4>2. LastContents = {H[id].hash}
        BY <1>0, <3>2, <4>1, LastUnderWay
      <4> QED
        BY <1>2, <3>2, <4>2
    <3> QED
      BY <1>1, <3>1, <3>2
  <2> QED
    BY <2>1 DEF TextKept
<1>5. LastShown(G, T)'
  <2>1. ASSUME NEW k \in Nodes, NEW id \in Made', G[id].hash = msg.hash PROVE T[k][id] # "done"
    BY <1>1, <1>2, <2>1
  <2> QED
    BY <1>0, <1>2, <2>1 DEF LastShown
<1> QED
  BY <1>3, <1>4, <1>5 DEF PacedFlow

\* The update goroutine makes a message of the next update.
LEMMA SendUpdateFull ==
    ASSUME Traceable, Undisturbed, NEW H, NEW S, Life(H, S), Full(H, S), NEW n \in Nodes, SendUpdate(n),
           NEW msg, msg = NextMessage(n), NEW G, Entered(H, G, msg), NEW T, Moved(S, T, n, msg.id, "sending")
    PROVE  Full(G, T)'
<1> USE DEF chanVars, updateVars, historyVars
<1>1. updates[n] # <<>> /\ sending[n] = NoMsg
  BY DEF SendUpdate
<1>2. FreshMessage(H, n, msg) /\ Accepts(n, msg)
  BY <1>1, UpdateFresh
<1>3. /\ UpdateLastMsg(n, msg) /\ sending' = [sending EXCEPT ![n] = msg]
      /\ current' = [current EXCEPT ![n] = msg]
      /\ updates' = [updates EXCEPT ![n] = Tail(@)] /\ nextId' = [nextId EXCEPT ![n] = @ + 1]
      /\ UNCHANGED <<clip, dedup, seen, handing, anns, batches, peers, net, copied>>
  BY <1>2 DEF SendUpdate
<1>4. PICK j : j = msg.id
  OBVIOUS
<1>5. NewAccount(H, S, G, T, n, j, msg)
  <2>1. msg.id = <<n, nextId[n]>>
    BY DEF NextMessage
  <2> QED
    BY <1>2, <1>3, <1>4, <2>1, SendAccount
<1>6. AfterSend(n)
  BY <1>1, <1>3, SendQueues
<1>7. Queued(G)'
  BY <1>1, <1>2, <1>3, <1>5, <1>6, SendQueued
<1>8. Flow(G, T)' /\ \A k \in Nodes : lastMsg'[k] = IF k = n THEN msg ELSE lastMsg[k]
  <2>1. Sends(n, msg)
    BY <1>1, <1>3 DEF Sends
  <2> QED
    BY <1>2, <1>5, <2>1, SendFlow
<1>9. ASSUME Paced PROVE (PacedFlow(G, T))'
  BY <1>1, <1>2, <1>3, <1>5, <1>6, <1>8, <1>9, SendPaced
<1>10. Marked' /\ peers' = Mesh
  BY <1>3 DEF Full, Marked, CopiedContents
<1> QED
  BY <1>7, <1>8, <1>9, <1>10 DEF Full

-----------------------------------------------------------------------------
(* Every step, and the network at rest. *)

\* At first there is nothing to lose.
LEMMA InitFull ==
    ASSUME Init, NEW H, NEW S
    PROVE  Full(H, S)
<1>1. Made = {}
  <2>1. \A id \in IDs : Author(id) \in Nodes /\ id[2] \in Nat
    BY DEF IDs, Author
  <2>2. \A id \in IDs : nextId[Author(id)] = 0
    BY <2>1 DEF Init
  <2> QED
    BY <2>1, <2>2 DEF Made
<1>2. DOMAIN FifoNew.data = {} /\ DOMAIN << >> = {} /\ Range(<<>>) = {}
  BY DEF FifoNew, Range
<1>3. copied = <<>> /\ 1..Len(copied) = {} /\ \A n \in Nodes : updates[n] = <<>> /\ 1..Len(updates[n]) = {}
  BY DEF Init
<1>4. Queued(H)
  BY <1>1, <1>3 DEF Init, Queued, OnceMade, OnceQueued, Covered, CurrentMade
<1>5. Marked /\ peers = Mesh
  BY <1>2 DEF Init, Marked
<1>6. Placed(H, S) /\ Refusals(H, S) /\ ServedAll(H)
  BY <1>1 DEF Placed, Refusals, ServedAll
<1>7. SeenBack(H, S) /\ LastStage(S)
  BY <1>2 DEF Init, SeenBack, LastStage
<1>8. OpenBatches(H, S)
  <2>1. \A n \in Nodes : DOMAIN batches[n] = {}
    BY <1>2 DEF Init
  <2> QED
    BY <1>1, <2>1 DEF OpenBatches, OpenBatch, Through
<1>9. PacedFlow(H, S)
  BY <1>1, <1>3 DEF PacedFlow, OthersEnded, TextKept, LastShown
<1> QED
  BY <1>4, <1>5, <1>6, <1>7, <1>8, <1>9 DEF Full, Flow

\* Every step of an undisturbed network keeps the account full.
LEMMA NextFull ==
    ASSUME Traceable, Undisturbed', NEW H, NEW S, Life(H, S), Full(H, S), [Next]_vars
    PROVE  \E G, T : Life(G, T)' /\ Full(G, T)'
<1> USE DEF clipVars, chanVars, updateVars, historyVars
<1>0. Undisturbed /\ Grown /\ Traceable' /\ faults' = 0 /\ faults = 0
  BY UndisturbedBefore, NextTraceable DEF Undisturbed
<1>1. ASSUME NEW n \in Nodes, NEW s \in Copies, Copy(n, s) PROVE Life(H, S)' /\ Full(H, S)'
  <2>1. Life(H, S)'
    BY <1>0, <1>1, QuietLife DEF Copy
  <2> QED
    BY <1>0, <1>1, <2>1, CopyFull
<1>2. ASSUME NEW n \in Nodes, SkipUpdate(n) PROVE FALSE
  <2>1. PICK msg : msg = NextMessage(n)
    OBVIOUS
  <2>2. updates[n] # <<>> /\ Skips(n)
    BY <1>2 DEF SkipUpdate
  <2> QED
    BY <1>0, <2>1, <2>2, UpdateFresh
<1>3. ASSUME NEW n \in Nodes, SendUpdate(n) PROVE \E G, T : Life(G, T)' /\ Full(G, T)'
  <2>1. PICK msg : msg = NextMessage(n)
    OBVIOUS
  <2>2. PICK G : Entered(H, G, msg)
    BY DEF Entered
  <2>3. PICK T : Moved(S, T, n, msg.id, "sending")
    BY DEF Moved
  <2>4. Accepts(n, msg)
    <3>1. updates[n] # <<>>
      BY <1>3 DEF SendUpdate
    <3> QED
      BY <1>0, <2>1, <3>1, UpdateFresh
  <2>5. Life(G, T)'
    BY <1>3, <2>1, <2>2, <2>3, <2>4, SendUpdateLife
  <2>6. Full(G, T)'
    BY <1>0, <1>3, <2>1, <2>2, <2>3, SendUpdateFull
  <2> QED
    BY <2>5, <2>6
<1>4. ASSUME NEW n \in Nodes, TakeUpdate(n) \/ TakeReceived(n) PROVE \E T : Life(H, T)' /\ Full(H, T)'
  <2>1. CASE TakeUpdate(n)
    <3>1. PICK T : Moved(S, T, n, sending[n].id, "done")
      BY DEF Moved
    <3>2. Life(H, T)'
      BY <2>1, <3>1, TakeUpdateLife
    <3>3. Full(H, T)'
      BY <1>0, <2>1, <3>1, TakeUpdateFull
    <3> QED
      BY <3>2, <3>3
  <2>2. CASE TakeReceived(n)
    <3>1. PICK msg \in DOMAIN handing[n] :
             /\ HandleMessage(n, msg) /\ handing' = [handing EXCEPT ![n] = BagRemove(@, msg)]
             /\ UNCHANGED sending
      BY <2>2 DEF TakeReceived
    <3>2. PICK T : Moved(S, T, n, msg.id, "done")
      BY DEF Moved
    <3>3. Life(H, T)'
      BY <3>1, <3>2, TakeReceivedLife
    <3>4. Full(H, T)'
      BY <1>0, <3>1, <3>2, TakeReceivedFull
    <3> QED
      BY <3>3, <3>4
  <2> QED
    BY <1>4, <2>1, <2>2
<1>5. ASSUME NEW n \in Nodes, NEW an \in DOMAIN anns[n], IgnoreAnnounce(n, an) \/ RequestMessage(n, an)
      PROVE  \E T : Life(H, T)' /\ Full(H, T)'
  <2>1. PICK p : p = IF RequestMessage(n, an) THEN "asked" ELSE "dropped"
    OBVIOUS
  <2>2. PICK T : Moved(S, T, n, an.id, p)
    BY DEF Moved
  <2>3. Life(H, T)'
    BY <1>5, <2>1, <2>2, HandleAnnounceLife
  <2>4. CASE RequestMessage(n, an)
    <3>1. Moved(S, T, n, an.id, "asked")
      BY <2>1, <2>2, <2>4
    <3> QED
      BY <1>0, <2>3, <2>4, <3>1, RequestMessageFull
  <2>5. CASE ~RequestMessage(n, an)
    <3>1. Moved(S, T, n, an.id, "dropped") /\ IgnoreAnnounce(n, an)
      BY <1>5, <2>1, <2>2, <2>5
    <3> QED
      BY <1>0, <2>3, <3>1, IgnoreAnnounceFull
  <2> QED
    BY <2>4, <2>5
<1>6. ASSUME NEW e \in Streams("announce"), ReceiveAnnounce(e) PROVE \E T : Life(H, T)' /\ Full(H, T)'
  <2>1. PICK T : IF FifoHas(seen[e.to], e.msg.hash) THEN T = S
                 ELSE Moved(S, T, e.to, e.msg.id, "announced")
    BY DEF Moved
  <2>2. Life(H, T)'
    BY <1>0, <1>6, <2>1, ReceiveAnnounceLife DEF Undisturbed
  <2>3. Full(H, T)'
    BY <1>0, <1>6, <2>1, ReceiveAnnounceFull
  <2> QED
    BY <2>2, <2>3
<1>7. ASSUME NEW e \in Streams("request"), ReceiveRequest(e) PROVE \E T : Life(H, T)' /\ Full(H, T)'
  <2>1. PICK msg : msg = Get(e.to, e.id)
    OBVIOUS
  <2>2. PICK p : p = IF msg = NoMsg THEN "dropped" ELSE "coming"
    OBVIOUS
  <2>3. PICK T : Moved(S, T, e.from, e.id, p)
    BY DEF Moved
  <2>4. Life(H, T)'
    <3>1. msg = IF ReceiveRequest(e) THEN Get(e.to, e.id) ELSE NoMsg
      BY <1>7, <2>1
    <3> QED
      BY <1>7, <2>2, <2>3, <3>1, ServeLife
  <2>5. Full(H, T)'
    BY <1>0, <1>7, <2>1, <2>2, <2>3, ReceiveRequestFull
  <2> QED
    BY <2>4, <2>5
<1>8. ASSUME NEW e \in Streams("message"), ReceiveMessage(e) PROVE \E T : Life(H, T)' /\ Full(H, T)'
  <2>1. PICK p : p = IF ReceiveMessage(e) /\ Accepts(e.to, e.msg) THEN "handing" ELSE "dropped"
    OBVIOUS
  <2>2. PICK T : Moved(S, T, e.to, e.msg.id, p)
    BY DEF Moved
  <2>3. Life(H, T)'
    BY <1>8, <2>1, <2>2, ReceiveMessageLife
  <2>4. Full(H, T)'
    BY <1>0, <1>8, <2>1, <2>2, ReceiveMessageFull
  <2> QED
    BY <2>3, <2>4
<1>9. ASSUME Fault PROVE FALSE
  <2>1. faults' = faults + 1
    BY <1>9 DEF Fault, RequestFails, ExpireBatch, ServeFails, ReceiveFails
  <2> QED
    BY <1>0, <2>1
<1>10. ASSUME UNCHANGED vars PROVE Life(H, S)' /\ Full(H, S)'
  <2>1. Life(H, S)'
    BY <1>0, <1>10, QuietLife DEF vars
  <2>2. Relays /\ UNCHANGED <<clip, dedup, lastMsg, served, seen, batches, peers, net, anns, handing, sending>>
    BY <1>10 DEF vars, Relays
  <2>3. Placed(H, S)'
    BY <2>2 DEF Full, Flow, Placed, At, OnItsWay, Relays, Made
  <2> QED
    BY <2>1, <2>2, <2>3, QuietFull
<1> QED
  BY <1>1, <1>2, <1>3, <1>4, <1>5, <1>6, <1>7, <1>8, <1>9, <1>10 DEF Next, Progress

\* The inductive invariant: while the network is undisturbed, there is an
\* account of every message that leaves none out.
FullyAccounted == Traceable /\ (Undisturbed => \E H, S : Life(H, S) /\ Full(H, S))

\* It holds at first, and every step keeps it.
LEMMA FullAccount == (Init => FullyAccounted) /\ (FullyAccounted /\ [Next]_vars => FullyAccounted')
<1>1. Init => FullyAccounted
  <2> SUFFICES ASSUME Init PROVE FullyAccounted
    OBVIOUS
  <2>1. PICK H, S : Life(H, S)
    BY InitLife
  <2>2. Full(H, S)
    BY InitFull
  <2> QED
    BY <2>1, <2>2, InitTraceable DEF FullyAccounted
<1>2. ASSUME FullyAccounted, [Next]_vars PROVE FullyAccounted'
  <2>1. Traceable /\ Traceable'
    BY <1>2, NextTraceable DEF FullyAccounted
  <2>2. ASSUME Undisturbed' PROVE (\E H, S : Life(H, S) /\ Full(H, S))'
    <3>1. Undisturbed
      BY <1>2, <2>1, <2>2, UndisturbedBefore
    <3>2. PICK H, S : Life(H, S) /\ Full(H, S)
      BY <1>2, <3>1 DEF FullyAccounted
    <3> QED
      BY <1>2, <2>1, <2>2, <3>2, NextFull
  <2> QED
    BY <2>1, <2>2 DEF FullyAccounted
<1> QED
  BY <1>1, <1>2

\* In a network at rest every content that was copied is a message that has
\* come to its end everywhere.
LEMMA IdleMade ==
    ASSUME Traceable, Undisturbed, NEW H, NEW S, Life(H, S), Full(H, S), Idle,
           NEW i \in 1..Len(copied), NEW c \in Range(copied[i].what)
    PROVE  \E id \in Made :
              /\ H[id].hash = c /\ Author(id) = copied[i].by
              /\ H[id].batch = (IF c \in Files THEN copied[i].what ELSE <<>>)
              /\ \A n \in Nodes : S[n][id] \in Ended
<1>0. CopiedOK /\ OnceMade(H) /\ Covered(H) /\ Distinct
  BY DEF Traceable, Full, Queued, Undisturbed
<1>1. PICK k : k = copied[i].by
  OBVIOUS
<1>2. k \in Nodes
  <2>1. \A R : copied \in Seq(R) => copied[i] \in R
    OBVIOUS
  <2>2. copied[i] \in [by : Nodes, what : Copies]
    BY <1>0, <2>1 DEF CopiedOK
  <2> QED
    BY <1>1, <2>2
<1>3. 1..Len(updates[k]) = {}
  BY <1>2 DEF Idle
<1>4. PICK id \in Made : H[id].hash = c
  BY <1>0, <1>1, <1>3 DEF Covered
<1>5. CopiedBy(Author(id), H[id])
  BY <1>0, <1>4 DEF OnceMade
<1>6. PICK l \in 1..Len(copied) :
         /\ copied[l].by = Author(id) /\ c \in Range(copied[l].what)
         /\ H[id].batch = IF c \in Files THEN copied[l].what ELSE <<>>
  BY <1>4, <1>5 DEF CopiedBy
<1>7. l = i
  BY <1>0, <1>6, CopiedOnce
<1>8. \A n \in Nodes : S[n][id] \in Ended
  BY <1>4, IdleEnded
<1> QED
  BY <1>4, <1>6, <1>7, <1>8

\* A batch that is still open lacks an item, but every item has come or been
\* refused.
LEMMA IdleClosed ==
    ASSUME Traceable, Undisturbed, NEW H, NEW S, Life(H, S), Full(H, S), Idle, NEW n \in Nodes, NEW b,
           b \in DOMAIN batches[n]
    PROVE  FALSE
<1>0. CopiedOK /\ BatchesOK /\ OnceMade(H) /\ OpenBatches(H, S) /\ Distinct
  BY DEF Traceable, Full, Queued, Flow, Undisturbed
<1>1. PICK i \in 1..Len(copied) : b = copied[i].what
  BY <1>0 DEF BatchesOK, BatchOK
<1>2. b \in Copies /\ b # <<>>
  BY <1>0, <1>1, CopiedWhat, CopyOK
<1>3. PICK D : D = Through(H, S, n, b)
  OBVIOUS
<1>4. D # {} /\ Hashes(H, D) # Range(b)
  BY <1>0, <1>2, <1>3 DEF OpenBatches, OpenBatch
<1>5. ASSUME NEW id \in D
      PROVE  H[id].hash \in Range(b) /\ H[id].hash \in Files /\ copied[i].by # n
  <2>1. id \in Made /\ Author(id) # n /\ H[id].batch = b
    BY <1>3, <1>5 DEF Through
  <2>2. CopiedBy(Author(id), H[id])
    BY <1>0, <2>1 DEF OnceMade
  <2>3. PICK l \in 1..Len(copied) :
           /\ copied[l].by = Author(id) /\ H[id].hash \in Range(copied[l].what)
           /\ H[id].batch = IF H[id].hash \in Files THEN copied[l].what ELSE <<>>
    BY <2>2 DEF CopiedBy
  <2>4. H[id].hash \in Files /\ copied[l].what = b
    BY <1>2, <2>1, <2>3
  <2>5. l = i
    BY <1>0, <1>1, <2>3, <2>4, CopiedOnce
  <2> QED
    BY <2>1, <2>3, <2>4, <2>5
<1>6. PICK id0 \in D : H[id0].hash \in Range(b) /\ H[id0].hash \in Files /\ copied[i].by # n
  BY <1>4, <1>5
<1>7. ASSUME NEW c \in Range(b) PROVE c \in Hashes(H, D)
  <2>1. PICK id \in Made :
          /\ H[id].hash = c /\ Author(id) = copied[i].by
          /\ H[id].batch = (IF c \in Files THEN copied[i].what ELSE <<>>)
          /\ \A k \in Nodes : S[k][id] \in Ended
    <3>1. c \in Range(copied[i].what)
      BY <1>1, <1>7
    <3>2. \E id \in Made :
             /\ H[id].hash = c /\ Author(id) = copied[i].by
             /\ H[id].batch = (IF c \in Files THEN copied[i].what ELSE <<>>)
             /\ \A k \in Nodes : S[k][id] \in Ended
      BY <3>1, IdleMade
    <3> QED
      BY <3>2
  <2>2. c \in Files
    <3>1. c \in Contents
      BY <1>2, <1>7, CopyOK
    <3>2. ASSUME c \in Texts PROVE FALSE
      <4>1. Range(b) = {c}
        BY <1>2, <1>7, <3>2, TextAlone
      <4> QED
        BY <1>6, <3>2, <4>1, ContentAssumption
    <3> QED
      BY <3>1, <3>2 DEF Contents
  <2>3. id \in D
    BY <1>1, <1>3, <1>6, <2>1, <2>2 DEF Through
  <2> QED
    BY <2>1, <2>3 DEF Hashes
<1>8. \A c \in Hashes(H, D) : c \in Range(b)
  BY <1>5 DEF Hashes
<1> QED
  BY <1>4, <1>7, <1>8

\* No batch waits for an item nobody will send: over a full mesh, while nothing
\* has failed or expired, the history holds what was copied, and no content is
\* empty or was copied twice, a network at rest has no open batch.  Every file
\* stays among the served files of its author until everybody has asked for
\* it, and what is refused is filed without its data.
THEOREM GossipNoBatchHang == Spec => [](Undisturbed => NoBatchHang)
<1>1. FullyAccounted => (Undisturbed => NoBatchHang)
  <2> SUFFICES ASSUME FullyAccounted, Undisturbed, Idle, NEW n \in Nodes, NEW b \in DOMAIN batches[n]
               PROVE  FALSE
    BY DEF NoBatchHang
  <2>1. PICK H, S : Life(H, S) /\ Full(H, S)
    BY DEF FullyAccounted
  <2> QED
    BY <2>1, IdleClosed DEF FullyAccounted
<1> QED
  BY <1>1, FullAccount, PTL DEF Spec

\* Receivers refuse all of the last copy or nothing of it.
WhollyOffered ==
    copied # <<>> => Offered(copied[Len(copied)].what) \in {{}, Range(copied[Len(copied)].what)}

\* The last copy is shown everywhere: if moreover users wait for the network to
\* come to rest before they copy, and receivers refuse all of the last copy or
\* nothing of it, every other node's clipboard holds it when the network is at
\* rest again.
THEOREM GossipLastCopy == Spec => [](Undisturbed /\ Paced /\ WhollyOffered => LastCopyEverywhere)
<1>1. FullyAccounted => (Undisturbed /\ Paced /\ WhollyOffered => LastCopyEverywhere)
  <2> SUFFICES ASSUME FullyAccounted, Undisturbed, Paced, WhollyOffered, Idle, copied # <<>>,
                      NEW n \in Nodes \ {copied[Len(copied)].by}, Offered(copied[Len(copied)].what) # {}
               PROVE  clip[n] = Offered(copied[Len(copied)].what)
    BY DEF LastCopyEverywhere
  <2>0. Traceable /\ CopiedOK
    BY DEF FullyAccounted, Traceable
  <2>1. PICK H, S : Life(H, S) /\ Full(H, S)
    BY DEF FullyAccounted
  <2>2. PICK i : i = Len(copied)
    OBVIOUS
  <2>3. i \in 1..Len(copied) /\ LastContents = Range(copied[i].what)
    BY <2>0, <2>2 DEF CopiedOK, LastContents
  <2>4. Offered(copied[i].what) = LastContents /\ LastContents \cap TooBig = {}
    BY <2>2, <2>3 DEF WhollyOffered, Offered
  <2>5. ASSUME NEW c \in LastContents PROVE \E id \in Made : H[id].hash = c /\ S[n][id] = "done"
    <3>1. PICK id \in Made : H[id].hash = c /\ S[n][id] \in Ended
      BY <2>0, <2>1, <2>3, <2>5, IdleMade
    <3>2. S[n][id] # "dropped"
      BY <2>1, <2>4, <2>5, <3>1 DEF Full, Flow, Refusals
    <3> QED
      BY <3>1, <3>2 DEF Ended
  <2>6. clip[n] = LastContents
    BY <2>1, <2>2, <2>4, <2>5 DEF Full, PacedFlow, LastShown
  <2> QED
    BY <2>2, <2>4, <2>6
<1> QED
  BY <1>1, FullAccount, PTL DEF Spec
=============================================================================
