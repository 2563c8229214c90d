------------------------------- MODULE Channel -------------------------------
(***************************************************************************)
(* internal/channel/channel.go: the one Channel a node owns.               *)
(*                                                                         *)
(* Its callers are goroutines: the monitor's update goroutine and every    *)
(* stream handler call Send (`Senders`), every stream handler may call     *)
(* Announce (`Announcers`), and the monitor's select loop receives from    *)
(* the two Go channels.  Send is not atomic: updateLastMsg runs under      *)
(* msgMu, the hand-over on the unbuffered channel c.msg happens after the  *)
(* lock is released.  Announce first records the hash in the history and   *)
(* then waits for room in the buffered channel c.ann.                      *)
(***************************************************************************)
EXTENDS Fifo, Message, FiniteSets

CONSTANTS Messages,      \* the messages Send may be called with
          Senders, Announcers,
          NoAnn,
          HistorySize,   \* limit of both fifos (5 in the code)
          PeerMaxCount,  \* capacity of c.ann
          MaxLog         \* bound: messages and announces accepted in a run

ASSUME LimitAssumption  == HistorySize \in Nat \ {0}
ASSUME CapAssumption    == PeerMaxCount \in Nat \ {0}
ASSUME BoundAssumption  == MaxLog \in Nat
ASSUME SendersAssumption == IsFiniteSet(Senders)
\* The ID of a message determines the rest of it; zero values are no message.
ASSUME MessageAssumption ==
    /\ \A m \in Messages : m = [id |-> m.id, mime |-> m.mime, hash |-> m.hash]
    /\ \A m, n \in Messages : m.id = n.id => m = n
    /\ NoMsg \notin Messages /\ NoAnn \notin Messages

VARIABLES lastMsg,   \* the last message Send accepted
          served,    \* servedFiles: message ID to file message
          seen,      \* fileHistory: content hash to announce
          pending,   \* what each sender is blocked on handing over
          blocked,   \* what each announcer is waiting to put into c.ann
          ann,       \* the buffered channel c.ann
          accepted,  \* history: what Send accepted, in the order of the lock
          delivered, \* history: what the monitor received from c.msg
          annLog     \* history: the hashes Announce accepted, in order

vars == <<lastMsg, served, seen, pending, blocked, ann,
          accepted, delivered, annLog>>

Hashes == {m.hash : m \in Messages}

Init ==
    /\ lastMsg = NoMsg
    /\ served = FifoNew
    /\ seen = FifoNew
    /\ pending = [t \in Senders |-> NoMsg]
    /\ blocked = [t \in Announcers |-> NoAnn]
    /\ ann = <<>>
    /\ accepted = <<>>
    /\ delivered = <<>>
    /\ annLog = <<>>

-----------------------------------------------------------------------------
\* Mutant: the file message is filed under its hash, not under its ID.
ServeByHash(files, msg) ==
    IF msg.mime = "path" THEN FifoAdd(files, msg.hash, msg, HistorySize) ELSE files

\* The effect of updateLastMsg on servedFiles.
Serve(files, msg) ==
    IF msg.mime = "path" THEN FifoAdd(files, msg.id, msg, HistorySize) ELSE files

\* Bound: what Send and Announce accepted together.
Room == Len(accepted) + Len(annLog) < MaxLog

\* Send, first half: updateLastMsg under msgMu.  A repetition of the last
\* message is dropped and changes nothing.
UpdateLastMsg(t, msg) ==
    /\ pending[t] = NoMsg
    /\ Room
    /\ ~RepeatsLast(lastMsg, msg)
    /\ lastMsg' = msg
    /\ served' = Serve(served, msg)
    /\ pending' = [pending EXCEPT ![t] = msg]
    /\ accepted' = Append(accepted, msg)
    /\ UNCHANGED <<seen, blocked, ann, delivered, annLog>>

\* Mutant: the sender does not notice that its message was taken.
DeliverTwice(t) ==
    /\ pending[t] # NoMsg
    /\ Len(delivered) < MaxLog
    /\ delivered' = Append(delivered, pending[t])
    /\ UNCHANGED <<lastMsg, served, seen, pending, blocked, ann, accepted, annLog>>

\* Send, second half: the monitor takes the message from c.msg.
Deliver(t) ==
    /\ pending[t] # NoMsg
    /\ delivered' = Append(delivered, pending[t])
    /\ pending' = [pending EXCEPT ![t] = NoMsg]
    /\ UNCHANGED <<lastMsg, served, seen, blocked, ann, accepted, annLog>>

\* Announce, first half: shouldUpdateAnn.  A hash in the history is dropped.
ShouldUpdateAnn(t, an) ==
    /\ blocked[t] = NoAnn
    /\ Room
    /\ ~FifoHas(seen, an.hash)
    /\ seen' = FifoAdd(seen, an.hash, an, HistorySize)
    /\ blocked' = [blocked EXCEPT ![t] = an]
    /\ annLog' = Append(annLog, an.hash)
    /\ UNCHANGED <<lastMsg, served, pending, ann, accepted, delivered>>

\* Announce, second half: c.ann has room.
Enqueue(t) ==
    /\ blocked[t] # NoAnn
    /\ Len(ann) < PeerMaxCount
    /\ ann' = Append(ann, blocked[t])
    /\ blocked' = [blocked EXCEPT ![t] = NoAnn]
    /\ UNCHANGED <<lastMsg, served, seen, pending, accepted, delivered, annLog>>

\* Mutant: the monitor polls Announcements only when it is full.
ReceiveAnnFull ==
    /\ Len(ann) = PeerMaxCount
    /\ ann' = Tail(ann)
    /\ UNCHANGED <<lastMsg, served, seen, pending, blocked,
                   accepted, delivered, annLog>>

\* The monitor receives from Announcements().
ReceiveAnn ==
    /\ ann # <<>>
    /\ ann' = Tail(ann)
    /\ UNCHANGED <<lastMsg, served, seen, pending, blocked,
                   accepted, delivered, annLog>>

\* Get: the message a request for an ID is answered with, or NoMsg.
Get(id) ==
    IF lastMsg # NoMsg /\ lastMsg.id = id THEN lastMsg
    ELSE IF FifoHas(served, id) THEN served.data[id] ELSE NoMsg

Next ==
    \/ \E t \in Senders : (\E m \in Messages : UpdateLastMsg(t, m)) \/ Deliver(t)
    \/ \E t \in Announcers :
          (\E m \in Messages : ShouldUpdateAnn(t, m)) \/ Enqueue(t)
    \/ ReceiveAnn

\* The monitor's select loop never stops receiving, and the Go runtime serves
\* goroutines blocked on a channel in the order they arrived.
Fairness ==
    /\ \A t \in Senders : WF_vars(Deliver(t))
    /\ \A t \in Announcers : SF_vars(Enqueue(t))
    /\ WF_vars(ReceiveAnn)

Spec == Init /\ [][Next]_vars /\ Fairness

-----------------------------------------------------------------------------
\* Types of the channel's fields and of the two histories.
TypeOK ==
    /\ lastMsg \in Messages \cup {NoMsg}
    /\ served.order \in Seq({m.id : m \in Messages})
    /\ \A k \in DOMAIN served.data : served.data[k] \in Messages /\ served.data[k].id = k
    /\ seen.order \in Seq(Hashes)
    /\ \A k \in DOMAIN seen.data : seen.data[k] \in Messages /\ seen.data[k].hash = k
    /\ pending \in [Senders -> Messages \cup {NoMsg}]
    /\ blocked \in [Announcers -> Messages \cup {NoAnn}]
    /\ ann \in Seq(Messages) /\ Len(ann) <= PeerMaxCount
    /\ accepted \in Seq(Messages)
    /\ delivered \in Seq(Messages)
    /\ annLog \in Seq(Hashes)

\* Both histories stay well formed under concurrent callers: a key is never
\* recorded twice, the slice and the map of history.go hold the same keys, and
\* neither outgrows HistorySize.
HistoriesOK == FifoOK(served, HistorySize) /\ FifoOK(seen, HistorySize)

\* The announce history is a window on the log of accepted announces: it holds
\* exactly the last HistorySize of them, in order.
SeenIsWindow ==
    LET n == Len(annLog)  k == Len(seen.order)
    IN  /\ k = IF n < HistorySize THEN n ELSE HistorySize
        /\ \A i \in 1..k : seen.order[i] = annLog[n - k + i]

\* What Announce promises the gossip: the same content passes it again only
\* after HistorySize other announces, whichever handlers raced to record it.
NoRepeatInWindow ==
    \A i, j \in 1..Len(annLog) :
        i < j /\ annLog[i] = annLog[j] => j - i > HistorySize

\* What Get promises a requester: a file message is served from the moment
\* Send accepted it until HistorySize other file messages have been accepted,
\* and a request is never answered with another message.
ServedUntilOvertaken ==
    /\ \A m \in Messages : Get(m.id) \in {m, NoMsg}
    /\ \A i \in 1..Len(accepted) :
          LET m     == accepted[i]
              newer == {accepted[j].id : j \in {k \in i+1..Len(accepted) :
                                                  accepted[k].mime = "path"}}
          IN  /\ m.mime = "path"
              /\ \A j \in 1..(i-1) : accepted[j].id # m.id
              /\ Cardinality(newer \ {m.id}) < HistorySize
              => Get(m.id) = m

Occurrences(log, m) == Cardinality({i \in 1..Len(log) : log[i] = m})

\* The hand-over outside the lock neither loses nor duplicates: what was
\* accepted is what the monitor received plus what senders still hold.
HandedOverOnce ==
    \A m \in Messages :
        Occurrences(accepted, m) = Occurrences(delivered, m)
                                   + Cardinality({t \in Senders : pending[t] = m})

\* An announce recorded in the history reaches the monitor and does not stay
\* behind a full c.ann, however many handlers are blocked on it.
AnnouncesDrain ==
    \A a \in Messages :
        (a \in Range(ann) \cup Range(blocked)) ~> (a \notin Range(ann) \cup Range(blocked))
=============================================================================
