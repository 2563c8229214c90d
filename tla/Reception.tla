----------------------------- MODULE Reception ------------------------------
(***************************************************************************)
(* The receiving side of a node: handleMessage of internal/peer/peer.go    *)
(* for every stream that brings a file, over the file store and the batch  *)
(* collector.  A file stored goes through the channel and the monitor to   *)
(* Add; a file that failed is added at once without data (sendNack).  What *)
(* Add returns to the monitor is written to the clipboard; what it returns *)
(* to sendNack is dropped.                                                 *)
(***************************************************************************)
EXTENDS FileStore, BatchCollector

CONSTANTS NoData,
          MaxTimers   \* bound: batches begun in a behaviour

ASSUME StreamsAssumption ==
    \A s \in Streams : /\ MsgOf[s].id \in IDs
                       /\ MsgOf[s].batch \in BatchIDs \cup {NoBatch}
                       /\ Path(MsgOf[s]) \in Data
                       /\ MsgOf[s].buffers \in
                            Seq({MsgOf[s].buffers[i] : i \in DOMAIN MsgOf[s].buffers})
ASSUME NoDataIsData == NoData \in Data

VARIABLES clipboard,  \* history: the sets of paths written to the clipboard
          failed      \* history: the streams that failed

vars == <<store, collector, clipboard, failed>>

TypeOK ==
    /\ CollectorTypeOK
    /\ at \in [Streams -> {"stat", "create", "copy", "stored", "failed", "done"}]
    /\ dir \in [Paths -> Streams \cup {NoFile}]
    /\ off \in [Streams -> Nat]
    /\ \A s \in Streams : off[s] <= Len(MsgOf[s].buffers)

Init == StoreInit /\ CollectorInit /\ clipboard = {} /\ failed = {}

\* join leaves out what carries no data.
Join(items) == {items[id] : id \in Present(items)} \ {NoData}

\* Mutant: the message passes on the bytes in place of the path they were stored under.
DeliverRaw(s) ==
    LET m == MsgOf[s]
    IN  /\ at[s] = "stored"
        /\ Goto(s, "done")
        /\ IF m.batch = NoBatch \/ Total[m.batch] <= 1
           THEN clipboard' = clipboard \cup {{m.buffers}} /\ UNCHANGED collector
           ELSE /\ timers < MaxTimers
                /\ Add(m.batch, m.id, m.buffers)
                /\ clipboard' = IF ret'.ok THEN clipboard \cup {Join(ret'.items)} ELSE clipboard
        /\ UNCHANGED <<dir, data, fd, off, failed>>

\* The file's message reaches the monitor: a file of its own is written to the
\* clipboard, a file of a batch when it completes the batch.
Deliver(s) ==
    LET m == MsgOf[s]
    IN  /\ at[s] = "stored"
        /\ Goto(s, "done")
        /\ IF m.batch = NoBatch \/ Total[m.batch] <= 1
           THEN clipboard' = clipboard \cup {{Path(m)}} /\ UNCHANGED collector
           ELSE /\ timers < MaxTimers
                /\ Add(m.batch, m.id, Path(m))
                /\ clipboard' = IF ret'.ok THEN clipboard \cup {Join(ret'.items)} ELSE clipboard
        /\ UNCHANGED <<dir, data, fd, off, failed>>

\* Channel.Send drops a repetition of its last message; whether the message
\* another stream brought is still the last depends on the rest of the node.
SendRepeated(s) ==
    /\ at[s] = "stored"
    /\ \E t \in Streams \ {s} : MsgOf[t] = MsgOf[s] /\ at[t] = "done" /\ t \notin failed
    /\ Goto(s, "done")
    /\ UNCHANGED <<dir, data, fd, off, collector, clipboard, failed>>

\* Mutant: the refusal carries the path of the file.
NackWithPath(s) ==
    LET m == MsgOf[s]
    IN  /\ at[s] = "failed"
        /\ Goto(s, "done")
        /\ IF m.batch = NoBatch THEN UNCHANGED collector
           ELSE timers < MaxTimers /\ Add(m.batch, m.id, Path(m))
        /\ failed' = failed \cup {s}
        /\ UNCHANGED <<dir, data, fd, off, clipboard>>

\* sendNack
Nack(s) ==
    LET m == MsgOf[s]
    IN  /\ at[s] = "failed"
        /\ Goto(s, "done")
        /\ IF m.batch = NoBatch THEN UNCHANGED collector
           ELSE timers < MaxTimers /\ Add(m.batch, m.id, NoData)
        /\ failed' = failed \cup {s}
        /\ UNCHANGED <<dir, data, fd, off, clipboard>>

\* fileWriter.Write, step by step
Receive(s) ==
    /\ StoreStep(s) \/ StoreFault(s)
    /\ UNCHANGED <<collector, clipboard, failed>>

Timer == TimerStep /\ UNCHANGED <<store, clipboard, failed>>

Next == Timer \/ \E s \in Streams : Receive(s) \/ Deliver(s) \/ SendRepeated(s) \/ Nack(s)

Spec == Init /\ [][Next]_vars /\ WF_vars(Timer)

----------------------------------------------------------------------------
\* Properties.

SamePath(s) == {t \in Streams : Path(MsgOf[t]) = Path(MsgOf[s])}

\* A path is in the clipboard only when every file it stands for is on disk as
\* it was sent, whatever other streams do: batches and single files are
\* isolated, and a file that could not be stored is neither handed over nor
\* left behind.  Files that share a path are the exception.
PastedIntact ==
    \A paths \in clipboard : \A s \in Streams :
        Path(MsgOf[s]) \in paths /\ SamePath(s) = {s} => Intact(s)

\* Streams that bring the same file of the same batch at once write over one
\* another; once all of them have stored it the file is as it was sent.
TwiceIntact ==
    \A s \in Streams :
        /\ \A t \in SamePath(s) : MsgOf[t] = MsgOf[s] /\ at[t] \in {"stored", "done"}
        /\ \A t \in SamePath(s) : t \notin failed
        => Intact(s)

\* BatchCollector keeps its promise in every order of streams, failures,
\* timers that fire and timers that wait for the mutex.
PromiseKept == Promise!Spec

\* No batch stays in the map for ever: the last item or a timer takes it out,
\* even where a late item opens a batch that was already handed over.
NoBatchLeaks == \A b \in BatchIDs : batches[b] # NoState ~> batches[b] = NoState
=============================================================================
