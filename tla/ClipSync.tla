------------------------------ MODULE ClipSync ------------------------------
(***************************************************************************)
(* A network of belphegor nodes sharing their clipboards: the monitor of   *)
(* internal/node/node.go, the stream handlers of internal/peer/peer.go and *)
(* the channel and batch collector of internal/channel, composed over      *)
(* connections that are already established.                               *)
(*                                                                         *)
(* A copy on one node is announced to every peer; a peer that has not seen *)
(* the content requests it from its author, stores it, writes it to its    *)
(* own clipboard and announces it further.  Every event travels on a       *)
(* stream of its own, so streams overtake each other freely: the network   *)
(* is a bag.  Goroutines that only wait to be scheduled (go Broadcast, go  *)
(* handleAnnounce) are covered by the delay of the stream before or after. *)
(*                                                                         *)
(* A content stands for its bytes, its hash and its length.  A copy is the *)
(* sequence of contents put into the clipboard at once: one text, or the   *)
(* files of a selection, which is what UpdatesFromFileInfo hashes into the *)
(* BatchID.                                                                *)
(***************************************************************************)
EXTENDS Fifo, Message, FiniteSets, Bags
INSTANCE BagsExt

CONSTANTS Nodes,
          Mesh,        \* the peers of each node when the run starts
          Texts, Files,
          Empty,       \* contents of length 0
          TooBig,      \* contents longer than a receiver's MaxFileSize
          Copies,      \* what users may copy
          Copiers,     \* the nodes whose users copy
          Paced,       \* TRUE: users copy only while the network is at rest
          Fresh,       \* TRUE: nothing is copied twice
          HistorySize, \* limit of both channel histories (5 in the code)
          MaxCopies,   \* bound: copies in a run
          MaxFaults    \* bound: failing streams and expiring batches in a run

Contents == Texts \cup Files

ASSUME NodesAssumption == IsFiniteSet(Nodes) /\ Copiers \subseteq Nodes
ASSUME MeshAssumption ==
    /\ Mesh \in [Nodes -> SUBSET Nodes]
    /\ \A n \in Nodes : n \notin Mesh[n]
ASSUME ContentAssumption ==
    /\ Texts \cap Files = {}
    /\ Empty \subseteq Files /\ TooBig \subseteq Contents
    /\ \A s \in Copies : s # <<>> /\ (s \in Seq(Files) \/ s \in [{1} -> Texts])
ASSUME LimitsAssumption ==
    /\ HistorySize \in Nat \ {0}
    /\ MaxCopies \in Nat /\ MaxFaults \in Nat
    /\ Paced \in BOOLEAN /\ Fresh \in BOOLEAN

VARIABLES clip,     \* what each OS clipboard holds (a set of contents)
          dedup,    \* Deduplicator.lastHash of the clipboard backend
          updates,  \* the updates channel between Watch and the monitor
          current,  \* the update goroutine's last message
          sending,  \* what the update goroutine is handing to c.msg
          lastMsg, served, seen,  \* the Channel of each node
          handing,  \* what stream handlers are handing to c.msg
          anns,     \* announces accepted and not yet handled
          batches,  \* BatchCollector: batch to (message ID to data)
          peers,    \* the peer table of each node
          net,      \* streams in flight
          nextId,   \* snowflake sequence of each node
          faults,   \* faults so far
          copied,   \* history: the copies users made, in order
          handled   \* history: the message IDs each monitor took from c.msg

clipVars    == <<clip, dedup, updates>>
chanVars    == <<lastMsg, served>>
updateVars  == <<current, sending, nextId>>
historyVars == <<copied, handled>>
vars == <<clipVars, chanVars, updateVars, historyVars,
          seen, handing, anns, batches, peers, net, faults>>

NoData == "nack"
ASSUME NoDataAssumption == NoData \notin Contents

\* MessageID: the snowflake ID carries its author in the node bits, which is
\* where the receiver of an event takes From from.
Author(id) == id[1]

Mime(c) == IF c \in Texts THEN "text" ELSE "path"

Announcement(n, msg) == [kind |-> "announce", to |-> n, msg |-> msg]
Request(n, to, id)   == [kind |-> "request", from |-> n, to |-> to, id |-> id]
Content(n, msg)      == [kind |-> "message", to |-> n, msg |-> msg]
Streams(kind)        == {e \in DOMAIN net : e.kind = kind}

\* Nothing is queued, waiting or in flight anywhere.
Idle ==
    /\ net = EmptyBag
    /\ \A n \in Nodes : /\ updates[n] = <<>> /\ sending[n] = NoMsg
                        /\ handing[n] = EmptyBag /\ anns[n] = EmptyBag

Init ==
    /\ clip    = [n \in Nodes |-> {}]
    /\ dedup   = [n \in Nodes |-> <<>>]
    /\ updates = [n \in Nodes |-> <<>>]
    /\ current = [n \in Nodes |-> NoMsg]
    /\ sending = [n \in Nodes |-> NoMsg]
    /\ lastMsg = [n \in Nodes |-> NoMsg]
    /\ served  = [n \in Nodes |-> FifoNew]
    /\ seen    = [n \in Nodes |-> FifoNew]
    /\ handing = [n \in Nodes |-> EmptyBag]
    /\ anns    = [n \in Nodes |-> EmptyBag]
    /\ batches = [n \in Nodes |-> <<>>]
    /\ peers   = Mesh
    /\ net     = EmptyBag
    /\ nextId  = [n \in Nodes |-> 0]
    /\ faults  = 0
    /\ copied  = <<>>
    /\ handled = [n \in Nodes |-> EmptyBag]

-----------------------------------------------------------------------------
(* The clipboard: what the watcher of an Eventful backend does with a local *)
(* copy, and what its Write does with a payload from a peer.                *)

\* One update per content; files carry the hash of the whole list as BatchID.
Updates(s) == [i \in 1..Len(s) |->
                 [hash |-> s[i], batch |-> IF s[i] \in Files THEN s ELSE <<>>]]

\* A user copies s.  The watcher drops it when its hash (the hash of the whole
\* list, for files) is the last one marked or checked, and otherwise queues
\* its updates.
Copy(n, s) ==
    /\ n \in Copiers
    /\ Len(copied) < MaxCopies
    /\ Paced => Idle
    /\ Fresh => \A i \in 1..Len(copied) : copied[i].what # s
    /\ clip' = [clip EXCEPT ![n] = Range(s)]
    /\ IF dedup[n] = s
       THEN UNCHANGED <<dedup, updates>>
       ELSE /\ dedup' = [dedup EXCEPT ![n] = s]
            /\ updates' = [updates EXCEPT ![n] = @ \o Updates(s)]
    /\ copied' = Append(copied, [by |-> n, what |-> s])
    /\ UNCHANGED <<chanVars, updateVars, seen, handing, anns, batches, peers,
                   net, faults, handled>>

\* Write: mark the payload, then put it into the clipboard.  The mark of a
\* file list is the hash of the paths in this node's store, which no hash of
\* a local selection equals: it is the empty sequence here.
MarkOf(data) == IF \E c \in Texts : data = {c} THEN <<CHOOSE c \in Texts : data = {c}>>
                ELSE <<>>

\* Mutant: the clipboard is not cleared before it is set.
WriteAdds(n, data) ==
    /\ clip' = [clip EXCEPT ![n] = @ \cup data]
    /\ dedup' = [dedup EXCEPT ![n] = MarkOf(data)]

Write(n, data) ==
    /\ clip' = [clip EXCEPT ![n] = data]
    /\ dedup' = [dedup EXCEPT ![n] = MarkOf(data)]
-----------------------------------------------------------------------------
(* Channel.Send, first half, for node n. *)

Accepts(n, msg) == ~RepeatsLast(lastMsg[n], msg)

\* Mutant: a file message is not filed among the served files.
UpdateLastMsgOnly(n, msg) ==
    lastMsg' = [lastMsg EXCEPT ![n] = msg] /\ UNCHANGED served


UpdateLastMsg(n, msg) ==
    /\ lastMsg' = [lastMsg EXCEPT ![n] = msg]
    /\ served' = [served EXCEPT ![n] =
                     IF msg.mime = "path" THEN FifoAdd(@, msg.id, msg, HistorySize)
                     ELSE @]

\* Channel.Get on node n.
Get(n, id) ==
    IF lastMsg[n] # NoMsg /\ lastMsg[n].id = id THEN lastMsg[n]
    ELSE IF FifoHas(served[n], id) THEN served[n].data[id] ELSE NoMsg

(* BatchCollector.Add: the collector after the item, and whether the item   *)
(* completed its batch.                                                     *)

\* What has been collected for batch b so far.
Items(n, b) == IF b \in DOMAIN batches[n] THEN batches[n][b] ELSE <<>>

WithItem(n, msg, data) ==
    [id \in DOMAIN Items(n, msg.batch) \cup {msg.id} |->
        IF id = msg.id THEN data ELSE Items(n, msg.batch)[id]]

\* Mutant: the batch counts as complete one item early.
CompletesEarly(n, msg) ==
    Cardinality(DOMAIN Items(n, msg.batch) \cup {msg.id}) = Len(msg.batch) - 1

Completes(n, msg) ==
    Cardinality(DOMAIN Items(n, msg.batch) \cup {msg.id}) = Len(msg.batch)

\* Mutant: the state is filed under the message's ID.
AddToBatchByID(n, msg, data) ==
    batches' = [batches EXCEPT ![n] =
        [b \in DOMAIN @ \cup {msg.id} |->
            IF b = msg.id THEN WithItem(n, msg, data) ELSE @[b]]]

\* Mutant: a complete batch is not deleted.
AddToBatchKeeps(n, msg, data) ==
    batches' = [batches EXCEPT ![n] =
        [b \in DOMAIN @ \cup {msg.batch} |->
            IF b = msg.batch THEN WithItem(n, msg, data) ELSE @[b]]]

AddToBatch(n, msg, data) ==
    batches' = [batches EXCEPT ![n] =
        IF Completes(n, msg)
        THEN Restrict(@, DOMAIN @ \ {msg.batch})
        ELSE [b \in DOMAIN @ \cup {msg.batch} |->
                 IF b = msg.batch THEN WithItem(n, msg, data) ELSE @[b]]]

\* join: the paths that arrived; a refused or failed item left nothing.
Join(items) == Range(items) \ {NoData}

\* A refused or failed item is pushed without data, so that the batch does
\* not wait for it; what Add returns is discarded.
Nack(n, msg) ==
    IF msg.batch # <<>> THEN AddToBatch(n, msg, NoData) ELSE UNCHANGED batches
-----------------------------------------------------------------------------
(* The monitor's update goroutine. *)

\* messageFromUpdate, for the update at the head of the queue.
NextMessage(n) ==
    LET u == Head(updates[n])
    IN  [id |-> <<n, nextId[n]>>, mime |-> Mime(u.hash), hash |-> u.hash, batch |-> u.batch]

\* An empty payload is "not supported", a repetition of the goroutine's own
\* last message is a duplicate; neither reaches the channel, and nobody ever
\* sees the ID it was given.
Skips(n) == NextMessage(n).hash \in Empty \/ RepeatsLast(current[n], NextMessage(n))

SkipUpdate(n) ==
    /\ updates[n] # <<>> /\ sending[n] = NoMsg
    /\ Skips(n)
    /\ updates' = [updates EXCEPT ![n] = Tail(@)]
    /\ UNCHANGED <<clip, dedup, chanVars, updateVars, seen, handing, anns, batches,
                   peers, net, faults, historyVars>>

\* The message is sent; the channel may still drop it as its own last message.
SendUpdate(n) ==
    /\ updates[n] # <<>> /\ sending[n] = NoMsg
    /\ ~Skips(n)
    /\ LET msg == NextMessage(n)
       IN  /\ current' = [current EXCEPT ![n] = msg]
           /\ IF Accepts(n, msg)
              THEN UpdateLastMsg(n, msg) /\ sending' = [sending EXCEPT ![n] = msg]
              ELSE UNCHANGED <<chanVars, sending>>
    /\ updates' = [updates EXCEPT ![n] = Tail(@)]
    /\ nextId' = [nextId EXCEPT ![n] = @ + 1]
    /\ UNCHANGED <<clip, dedup, seen, handing, anns, batches, peers, net, faults,
                   historyVars>>

(* The monitor's select loop. *)

\* Broadcast: the announce goes to every peer but the author.  A peer whose
\* stream cannot be written is deleted from the table.
Broadcast(n, msg) ==
    \E failed \in SUBSET (peers[n] \ {Author(msg.id)}) :
        /\ faults + Cardinality(failed) <= MaxFaults
        /\ faults' = faults + Cardinality(failed)
        /\ peers' = [peers EXCEPT ![n] = @ \ failed]
        /\ net' = net (+) SetToBag({Announcement(p, msg) :
                             p \in peers[n] \ (failed \cup {Author(msg.id)})})

\* Bound: that a message was handled more than once is remembered, not how often.
Often == 2

Record(ids, id) == IF id \in DOMAIN ids /\ ids[id] = Often THEN ids ELSE BagAdd(ids, id)

\* What the monitor does with a message it took from c.msg: a message from
\* another node is written to the clipboard, a file of a larger batch only
\* once the batch is complete; every message is announced.
HandleMessage(n, msg) ==
    /\ CASE Author(msg.id) = n ->
              UNCHANGED <<clip, dedup, batches>>
         [] Author(msg.id) # n /\ Len(msg.batch) > 1 ->
              /\ AddToBatch(n, msg, msg.hash)
              /\ IF Completes(n, msg)
                 THEN Write(n, Join(WithItem(n, msg, msg.hash)))
                 ELSE UNCHANGED <<clip, dedup>>
         [] OTHER ->
              Write(n, {msg.hash}) /\ UNCHANGED batches
    /\ Broadcast(n, msg)
    /\ handled' = [handled EXCEPT ![n] = Record(@, msg.id)]
    /\ UNCHANGED <<updates, chanVars, current, nextId, seen, anns, copied>>

TakeUpdate(n) ==
    /\ sending[n] # NoMsg
    /\ HandleMessage(n, sending[n])
    /\ sending' = [sending EXCEPT ![n] = NoMsg]
    /\ UNCHANGED handing

TakeReceived(n) ==
    \E msg \in DOMAIN handing[n] :
        /\ HandleMessage(n, msg)
        /\ handing' = [handing EXCEPT ![n] = BagRemove(@, msg)]
        /\ UNCHANGED sending

-----------------------------------------------------------------------------
(* Stream handlers and announce handling. *)

\* Mutant: the history is not consulted.
ReceiveAnnounceAlways(e) ==
    /\ net' = BagRemove(net, e)
    /\ anns' = [anns EXCEPT ![e.to] = BagAdd(@, e.msg)]
    /\ UNCHANGED <<clipVars, chanVars, updateVars, historyVars, seen, handing, batches,
                   peers, faults>>

\* Channel.Announce: content announced recently is dropped, whatever became
\* of that announce.
ReceiveAnnounce(e) ==
    /\ net' = BagRemove(net, e)
    /\ IF FifoHas(seen[e.to], e.msg.hash)
       THEN UNCHANGED <<seen, anns>>
       ELSE /\ seen' = [seen EXCEPT ![e.to] =
                           FifoAdd(@, e.msg.hash, e.msg.hash, HistorySize)]
            /\ anns' = [anns EXCEPT ![e.to] = BagAdd(@, e.msg)]
    /\ UNCHANGED <<clipVars, chanVars, updateVars, historyVars, handing, batches,
                   peers, faults>>

\* handleAnnounce, up to the request: the author must be a peer, its content
\* must fit, and the last message must not be the same content.
Wants(n, an) ==
    /\ Author(an.id) \in peers[n]
    /\ an.hash \notin TooBig
    /\ ~(lastMsg[n] # NoMsg /\ DuplicateByAnnounce(lastMsg[n], an))

IgnoreAnnounce(n, an) ==
    /\ ~Wants(n, an)
    /\ anns' = [anns EXCEPT ![n] = BagRemove(@, an)]
    /\ IF Author(an.id) \in peers[n] /\ an.hash \in TooBig
       THEN Nack(n, an) ELSE UNCHANGED batches
    /\ UNCHANGED <<clipVars, chanVars, updateVars, historyVars, seen, handing,
                   peers, net, faults>>

RequestMessage(n, an) ==
    /\ Wants(n, an)
    /\ anns' = [anns EXCEPT ![n] = BagRemove(@, an)]
    /\ net' = BagAdd(net, Request(n, Author(an.id), an.id))
    /\ UNCHANGED <<clipVars, chanVars, updateVars, historyVars, seen, handing,
                   batches, peers, faults>>

\* The stream of the request fails: logged, not retried.
RequestFails(n, an) ==
    /\ Wants(n, an) /\ faults < MaxFaults
    /\ faults' = faults + 1
    /\ anns' = [anns EXCEPT ![n] = BagRemove(@, an)]
    /\ UNCHANGED <<clipVars, chanVars, updateVars, historyVars, seen, handing,
                   batches, peers, net>>

\* A request is answered with the message if the node still has it, and not
\* answered at all if it does not.
ReceiveRequest(e) ==
    LET msg == Get(e.to, e.id)
    IN  /\ net' = IF msg = NoMsg THEN BagRemove(net, e)
                  ELSE BagAdd(BagRemove(net, e), Content(e.from, msg))
        /\ UNCHANGED <<clipVars, chanVars, updateVars, historyVars, seen, handing,
                       anns, batches, peers, faults>>

\* The file cannot be opened, or the answer's stream cannot be written.
ServeFails(e) ==
    /\ Get(e.to, e.id) # NoMsg /\ faults < MaxFaults
    /\ faults' = faults + 1
    /\ net' = BagRemove(net, e)
    /\ UNCHANGED <<clipVars, chanVars, updateVars, historyVars, seen, handing,
                   anns, batches, peers>>

\* handleMessage: the payload was read, or its file stored, and is sent.  What
\* is too big was not requested.
ReceiveMessage(e) ==
    /\ e.msg.hash \notin TooBig
    /\ net' = BagRemove(net, e)
    /\ IF Accepts(e.to, e.msg)
       THEN /\ UpdateLastMsg(e.to, e.msg)
            /\ handing' = [handing EXCEPT ![e.to] = BagAdd(@, e.msg)]
       ELSE UNCHANGED <<chanVars, handing>>
    /\ UNCHANGED <<clipVars, updateVars, historyVars, seen, anns, batches, peers,
                   faults>>

\* handleMessage: the read or the store fails.
ReceiveFails(e) ==
    /\ faults < MaxFaults
    /\ faults' = faults + 1
    /\ net' = BagRemove(net, e)
    /\ Nack(e.to, e.msg)
    /\ UNCHANGED <<clipVars, chanVars, updateVars, historyVars, seen, handing,
                   anns, peers>>

\* The timer of an incomplete batch fires.
ExpireBatch(n, b) ==
    /\ faults < MaxFaults
    /\ faults' = faults + 1
    /\ batches' = [batches EXCEPT ![n] = Restrict(@, DOMAIN @ \ {b})]
    /\ UNCHANGED <<clipVars, chanVars, updateVars, historyVars, seen, handing,
                   anns, peers, net>>

-----------------------------------------------------------------------------
\* Steps the program takes by itself, none of them a fault.
Progress ==
    \/ \E n \in Nodes :
          \/ SkipUpdate(n) \/ SendUpdate(n) \/ TakeUpdate(n) \/ TakeReceived(n)
          \/ \E an \in DOMAIN anns[n] : IgnoreAnnounce(n, an) \/ RequestMessage(n, an)
    \/ \E e \in Streams("announce") : ReceiveAnnounce(e)
    \/ \E e \in Streams("request") : ReceiveRequest(e)
    \/ \E e \in Streams("message") : ReceiveMessage(e)

Fault ==
    \/ \E n \in Nodes :
          \/ \E an \in DOMAIN anns[n] : RequestFails(n, an)
          \/ \E b \in DOMAIN batches[n] : ExpireBatch(n, b)
    \/ \E e \in Streams("request") : ServeFails(e)
    \/ \E e \in Streams("message") : ReceiveFails(e)

Next == (\E n \in Nodes, s \in Copies : Copy(n, s)) \/ Progress \/ Fault

\* Goroutines are scheduled and streams are delivered or fail; users need not
\* copy anything.
Spec == Init /\ [][Next]_vars /\ WF_vars(Progress)

-----------------------------------------------------------------------------
AnyMessage ==
    [id : Nodes \X Nat, mime : {"text", "path"}, hash : Contents, batch : Copies \cup {<<>>}]
ASSUME NoMsgAssumption == NoMsg \notin AnyMessage

IsBagOf(B, S) == DOMAIN B \subseteq S /\ \A x \in DOMAIN B : B[x] \in Nat \ {0}

\* Types of every node's state and of the streams in flight.
TypeOK ==
    /\ clip \in [Nodes -> SUBSET Contents]
    /\ dedup \in [Nodes -> Copies \cup {<<>>} \cup {<<c>> : c \in Texts}]
    /\ \A n \in Nodes :
          /\ \A i \in DOMAIN updates[n] : updates[n][i].hash \in Contents
          /\ current[n] \in AnyMessage \cup {NoMsg}
          /\ sending[n] \in AnyMessage \cup {NoMsg}
          /\ lastMsg[n] \in AnyMessage \cup {NoMsg}
          /\ Range(served[n].data) \subseteq AnyMessage
          /\ Range(seen[n].order) \subseteq Contents
          /\ IsBagOf(handing[n], AnyMessage) /\ IsBagOf(anns[n], AnyMessage)
          /\ \A b \in DOMAIN batches[n] :
                b \in Copies /\ Range(batches[n][b]) \subseteq Contents \cup {NoData}
          /\ nextId[n] \in Nat
    /\ peers \in [Nodes -> SUBSET Nodes]
    /\ \A e \in Streams("announce") \cup Streams("message") :
          e.to \in Nodes /\ e.msg \in AnyMessage
    /\ \A e \in Streams("request") : e.from \in Nodes /\ e.to = Author(e.id)
    /\ faults \in 0..MaxFaults

\* What of a copy can reach another node.
Offered(s) == Range(s) \ (Empty \cup TooBig)

\* A network that has come to rest shows the last copy everywhere: the copy is
\* "injected into node2's clipboard".
LastCopyEverywhere ==
    (Idle /\ copied # <<>>) =>
        LET last == copied[Len(copied)]
        IN  \A n \in Nodes \ {last.by} :
                Offered(last.what) # {} => clip[n] = Offered(last.what)

\* Gossip does not go in circles ("to prevent re-broadcasting"): no monitor
\* handles, that is writes and announces, the same message twice, although
\* every receiver announces what it received.
HandledOnce == \A n \in Nodes : \A id \in DOMAIN handled[n] : handled[n][id] = 1

\* No batch is left waiting for an item nobody will send.
NoBatchHang == Idle => \A n \in Nodes : DOMAIN batches[n] = {}

\* A clipboard never holds a mixture: all of it comes from one copy some user
\* made, whichever streams overtook each other, failed or were refused, and
\* whatever was copied meanwhile.
NeverMixed ==
    \A n \in Nodes :
        clip[n] = {} \/ \E i \in 1..Len(copied) : clip[n] \subseteq Range(copied[i].what)

\* Without faults a clipboard is never torn either: it holds that copy whole,
\* but for what receivers refuse.
NeverTorn ==
    faults = 0 =>
        \A n \in Nodes :
            \/ clip[n] = {}
            \/ \E i \in 1..Len(copied) :
                  clip[n] \in {Range(copied[i].what), Offered(copied[i].what)}

=============================================================================
