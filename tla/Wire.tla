-------------------------------- MODULE Wire --------------------------------
(***************************************************************************)
(* Events on streams: pkg/protoutil/encoder.go and                         *)
(* internal/protocol/codec.go, as Peer.WriteContext and Peer.handleStream  *)
(* of internal/peer/peer.go use them.  A goroutine writes the frame of an  *)
(* event (four bytes of length, then the event) out of a buffer it shares  *)
(* through a pool with every other goroutine, and the content after it; a  *)
(* goroutine of the peer reads the event and leaves the content to its     *)
(* handler.  The connection may break at any byte.  The peer may be of a   *)
(* newer version, whose messages have fields that this one does not know.  *)
(*                                                                         *)
(* encoder.go takes any message that is a vtMarshaler and a vtUnmarshaler: *)
(* the codec and the mapper are parameters here, and VtProto has those of  *)
(* the repository.                                                         *)
(***************************************************************************)
EXTENDS Naturals, Sequences, FiniteSets

CONSTANTS MapTo(_),       \* MapToProto: the message of an event
          MapFrom(_),     \* the event of a message, or Failed
          Travelled(_),   \* the event as its receiver is to have it
          SizeVT(_), MarshalVT(_), UnmarshalVT(_),
          Newer(_, _),    \* a message with a field that a newer version added
          Senders,     \* goroutines, each with a stream of its own
          Events,      \* what they send: an event and the content that follows it
          NewFields,   \* the encoded fields a newer version may add
          DefaultBufferSize,
          MaxBreaks    \* bound: streams that break

ASSUME BufferAssumption == DefaultBufferSize \in Nat /\ MaxBreaks \in Nat

Bytes == 0..255

ASSUME ContentAssumption == \A e \in Events : e.content \in Seq(Bytes)

Length == 4

Failed == [ok |-> FALSE]
NoEvent == [nil |-> TRUE]

VARIABLES heap,     \* the encode buffers, each named after the sender that made it
          pool,     \* encodePool: the buffers nobody uses
          buf,      \* the buffer each sender uses, and how much of it is the frame
          at,       \* where each sender is
          sent,     \* what each sender sends
          stream,   \* bytes on the stream
          got       \* what came out at the other end

vars == <<heap, pool, buf, at, sent, stream, got>>

Pending  == [state |-> "pending"]
Refused  == [state |-> "refused"]

Init ==
    /\ heap = [w \in Senders |-> <<>>]
    /\ pool = {}
    /\ buf = [w \in Senders |-> [ptr |-> w, need |-> 0]]
    /\ at = [w \in Senders |-> "idle"]
    /\ sent = [w \in Senders |-> NoEvent]
    /\ stream = [w \in Senders |-> <<>>]
    /\ got = [w \in Senders |-> Pending]

PutUint32(n) == <<(n \div 16777216) % 256, (n \div 65536) % 256, (n \div 256) % 256, n % 256>>
Uint32(s)    == s[1] * 16777216 + s[2] * 65536 + s[3] * 256 + s[4]

Zeros(n) == [i \in 1..n |-> 0]

\* MarshalToSizedBufferVT(buf[Length:need]): the bytes end where the buffer
\* ends; with too little room the index leaves the buffer.
Fill(arr, need, bytes) ==
    [i \in 1..Len(arr) |->
        IF i \in (need - Len(bytes) + 1)..need THEN bytes[i - (need - Len(bytes))] ELSE arr[i]]

\* Mutant: the buffer goes back to the pool before it is written.
EncodeShared(w, pb) ==
    LET size  == SizeVT(pb)
        need  == Length + size
        bytes == MarshalVT(pb)
    IN  \E p \in pool \cup {w} :
          LET b   == IF p = w THEN Zeros(DefaultBufferSize) ELSE heap[p]
              arr == IF Len(b) < need THEN Zeros(need) ELSE b
          IN  /\ heap' = [heap EXCEPT ![p] = Fill(Fill(arr, need, bytes), Length, PutUint32(size))]
              /\ pool' = pool \cup {p}
              /\ buf' = [buf EXCEPT ![w] = [ptr |-> p, need |-> need]]
              /\ at' = [at EXCEPT ![w] = IF Len(arr) < need \/ Len(bytes) > size THEN "panic" ELSE "frame"]

\* Mutant: a buffer of the pool is taken for one of sufficient size.
EncodeSmall(w, pb) ==
    LET size  == SizeVT(pb)
        need  == Length + size
        bytes == MarshalVT(pb)
    IN  \E p \in pool \cup {w} :
          LET b   == IF p = w THEN Zeros(DefaultBufferSize) ELSE heap[p]
              arr == b
          IN  /\ heap' = [heap EXCEPT ![p] = Fill(Fill(arr, need, bytes), Length, PutUint32(size))]
              /\ pool' = pool \ {p}
              /\ buf' = [buf EXCEPT ![w] = [ptr |-> p, need |-> need]]
              /\ at' = [at EXCEPT ![w] = IF Len(arr) < need \/ Len(bytes) > size THEN "panic" ELSE "frame"]

\* EncodeToWriter up to the write, with a buffer of the pool or a new one; a
\* slice beyond the buffer, or an index before it, is a panic.
Encode(w, pb) ==
    LET size  == SizeVT(pb)
        need  == Length + size
        bytes == MarshalVT(pb)
    IN  \E p \in pool \cup {w} :
          LET b   == IF p = w THEN Zeros(DefaultBufferSize) ELSE heap[p]
              arr == IF Len(b) < need THEN Zeros(need) ELSE b
          IN  /\ heap' = [heap EXCEPT ![p] = Fill(Fill(arr, need, bytes), Length, PutUint32(size))]
              /\ pool' = pool \ {p}
              /\ buf' = [buf EXCEPT ![w] = [ptr |-> p, need |-> need]]
              /\ at' = [at EXCEPT ![w] = IF Len(arr) < need \/ Len(bytes) > size THEN "panic" ELSE "frame"]

WriteEvent(w, e) ==
    /\ at[w] = "idle"
    /\ Encode(w, MapTo(e.event))
    /\ sent' = [sent EXCEPT ![w] = e]
    /\ UNCHANGED <<stream, got>>

\* The same, from a peer of a newer version.
WriteNewer(w, e, f) ==
    /\ at[w] = "idle"
    /\ Encode(w, Newer(MapTo(e.event), f))
    /\ sent' = [sent EXCEPT ![w] = e]
    /\ UNCHANGED <<stream, got>>

\* w.Write(buf), and the buffer goes back to the pool.
WriteFrame(w) ==
    /\ at[w] = "frame"
    /\ stream' = [stream EXCEPT ![w] = SubSeq(heap[buf[w].ptr], 1, buf[w].need)]
    /\ pool' = pool \cup {buf[w].ptr}
    /\ at' = [at EXCEPT ![w] = "raw"]
    /\ UNCHANGED <<heap, buf, sent, got>>

\* io.Copy(stream, raw), and the stream is closed.
WriteRaw(w) ==
    /\ at[w] = "raw"
    /\ stream' = [stream EXCEPT ![w] = @ \o sent[w].content]
    /\ at' = [at EXCEPT ![w] = "closed"]
    /\ UNCHANGED <<heap, pool, buf, sent, got>>

\* The connection breaks, and only some of the bytes have arrived.
Break(w) ==
    /\ at[w] = "closed" /\ got[w] = Pending
    /\ Cardinality({v \in Senders : at[v] = "broken"}) < MaxBreaks
    /\ \E n \in 0..(Len(stream[w]) - 1) : stream' = [stream EXCEPT ![w] = SubSeq(@, 1, n)]
    /\ at' = [at EXCEPT ![w] = "broken"]
    /\ UNCHANGED <<heap, pool, buf, sent, got>>

\* Mutant: Read in place of ReadFull.
DecodeShort(s) ==
    LET n     == Uint32(s)
        pb    == UnmarshalVT(SubSeq(s, Length + 1, IF Length + n < Len(s) THEN Length + n ELSE Len(s)))
        event == MapFrom(pb)
    IN  IF Len(s) < Length \/ pb = Failed \/ event = Failed THEN Refused
        ELSE [state |-> "event", event |-> event, rest |-> SubSeq(s, Length + n + 1, Len(s))]

\* DecodeEvent: DecodeReader reads the length and that many bytes, and what
\* they hold is mapped to an event.
Decode(s) ==
    LET n     == Uint32(s)
        pb    == UnmarshalVT(SubSeq(s, Length + 1, Length + n))
        event == MapFrom(pb)
    IN  IF Len(s) < Length \/ Len(s) < Length + n \/ pb = Failed \/ event = Failed THEN Refused
        ELSE [state |-> "event", event |-> event, rest |-> SubSeq(s, Length + n + 1, Len(s))]

ReadEvent(w) ==
    /\ at[w] \in {"closed", "broken"} /\ got[w] = Pending
    /\ got' = [got EXCEPT ![w] = Decode(stream[w])]
    /\ UNCHANGED <<heap, pool, buf, at, sent, stream>>

Next ==
    \E w \in Senders :
        \/ \E e \in Events : WriteEvent(w, e) \/ \E f \in NewFields : WriteNewer(w, e, f)
        \/ WriteFrame(w) \/ WriteRaw(w) \/ Break(w) \/ ReadEvent(w)

Spec == Init /\ [][Next]_vars

----------------------------------------------------------------------------
\* Properties.

TypeOK ==
    /\ pool \subseteq Senders
    /\ \A w \in Senders : /\ heap[w] \in Seq(Bytes) /\ stream[w] \in Seq(Bytes)
                          /\ at[w] \in {"idle", "frame", "raw", "closed", "broken"}
                          /\ buf[w].ptr \in Senders

\* The messages an event may be sent as.
Protos(e) == {MapTo(e.event)} \cup {Newer(MapTo(e.event), f) : f \in NewFields}

FitsUint32(n) == n \div 65536 < 65536

\* Marshal writes as many bytes of e as Size says, and reading them gives the
\* event as its receiver is to have it.
Agrees(e) ==
    \A pb \in Protos(e) :
        /\ MarshalVT(pb) \in Seq(Bytes)
        /\ Len(MarshalVT(pb)) = SizeVT(pb) /\ FitsUint32(SizeVT(pb))
        /\ UnmarshalVT(MarshalVT(pb)) # Failed
        /\ MapFrom(UnmarshalVT(MarshalVT(pb))) = Travelled(e.event)
        /\ Travelled(e.event) # Failed
CodecOK == \A e \in Events : Agrees(e)

\* Size, Marshal and Unmarshal, three pieces of generated code, and the two
\* directions of the mapper agree on every event about to be written, whatever
\* fields a newer version adds to it.
CodecAgrees == \A w \in Senders : at[w] \in {"frame", "panic"} => Agrees(sent[w])

\* The event that arrives is the one that was sent, and what follows it on the
\* stream is its content from the first byte to the last, whatever the buffer
\* held before, whoever uses the pool, and whatever fields a newer peer added.
RoundTrip ==
    \A w \in Senders :
        got[w] # Pending /\ at[w] = "closed" =>
            got[w] = [state |-> "event", event |-> Travelled(sent[w].event), rest |-> sent[w].content]

\* Of a stream that broke inside the event nothing is handed on; one that broke
\* inside the content yields the right event with less content than it says.
BrokenIsSeen ==
    \A w \in Senders :
        got[w] # Pending /\ at[w] = "broken" =>
            \/ got[w] = Refused
            \/ /\ got[w].event = Travelled(sent[w].event)
               /\ Len(got[w].rest) < Len(sent[w].content)
=============================================================================
