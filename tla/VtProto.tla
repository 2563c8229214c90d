------------------------------ MODULE VtProto -------------------------------
(***************************************************************************)
(* The events of the wire protocol and their encoding:                     *)
(* internal/types/proto/*_vtproto.pb.go (what protoc-gen-go-vtproto wrote  *)
(* for proto/*.proto) and internal/protocol/mapper.go, which maps the      *)
(* domain's events to them and back.                                       *)
(*                                                                         *)
(* A byte is a number, a string a sequence of bytes.  Size, Marshal and    *)
(* Unmarshal of a message are three pieces of code that have to agree, and *)
(* they are three definitions here.  Marshal is the sequence of bytes that *)
(* MarshalToSizedBufferVT leaves at the end of its buffer, which it fills  *)
(* from the last field to the first.                                       *)
(***************************************************************************)
EXTENDS Naturals, Sequences

Error == [ok |-> FALSE]

\* protohelpers.EncodeVarint, SizeOfVarint
RECURSIVE EncodeVarint(_)
EncodeVarint(v) ==
    IF v < 128 THEN <<v>> ELSE <<(v % 128) + 128>> \o EncodeVarint(v \div 128)
RECURSIVE SizeOfVarint(_)
SizeOfVarint(v) == IF v < 128 THEN 1 ELSE 1 + SizeOfVarint(v \div 128)

\* A field that has its zero value is not written.
Varint(num, v)   == IF v = 0 THEN <<>> ELSE <<8 * num>> \o EncodeVarint(v)
VarintSize(v)    == IF v = 0 THEN 0 ELSE 1 + SizeOfVarint(v)
Embedded(num, s) == <<8 * num + 2>> \o EncodeVarint(Len(s)) \o s
EmbeddedSize(n)  == 1 + n + SizeOfVarint(n)
String(num, s)   == IF s = <<>> THEN <<>> ELSE Embedded(num, s)
StringSize(s)    == IF s = <<>> THEN 0 ELSE EmbeddedSize(Len(s))

----------------------------------------------------------------------------
\* The messages as Reset leaves them.  Nil is a pointer that is not set.

Nil           == [nil |-> TRUE]
TimestampZero == [Seconds |-> 0, Nanos |-> 0, unknown |-> <<>>]
DeviceZero    == [Name |-> <<>>, Arch |-> <<>>, ID |-> 0, unknown |-> <<>>]
HandshakeZero == [Version |-> <<>>, Device |-> Nil, Port |-> 0, unknown |-> <<>>]
MessageZero   == [ID |-> 0, ContentLength |-> 0, MimeType |-> 0, ContentHash |-> 0,
                  Name |-> <<>>, BatchID |-> 0, BatchTotal |-> 0, unknown |-> <<>>]
AnnounceZero  == [ID |-> 0, ContentLength |-> 0, MimeType |-> 0, ContentHash |-> 0,
                  BatchID |-> 0, BatchTotal |-> 0, unknown |-> <<>>]
RequestZero   == [ID |-> 0, unknown |-> <<>>]
EventZero     == [Created |-> Nil, kind |-> "none", Payload |-> Nil, unknown |-> <<>>]

\* SizeVT
SizeTimestamp(m) == VarintSize(m.Seconds) + VarintSize(m.Nanos) + Len(m.unknown)
SizeDevice(m) ==
    StringSize(m.Name) + StringSize(m.Arch) + VarintSize(m.ID) + Len(m.unknown)
SizeHandshake(m) ==
    StringSize(m.Version) + VarintSize(m.Port) + Len(m.unknown)
      + (IF m.Device = Nil THEN 0 ELSE EmbeddedSize(SizeDevice(m.Device)))

\* Mutant: the batch's total is not counted.
SizeMessageShort(m) ==
    VarintSize(m.ID) + VarintSize(m.ContentLength) + VarintSize(m.MimeType)
      + VarintSize(m.ContentHash) + StringSize(m.Name) + VarintSize(m.BatchID) + Len(m.unknown)

SizeMessage(m) ==
    VarintSize(m.ID) + VarintSize(m.ContentLength) + VarintSize(m.MimeType)
      + VarintSize(m.ContentHash) + StringSize(m.Name) + VarintSize(m.BatchID)
      + VarintSize(m.BatchTotal) + Len(m.unknown)
SizeAnnounce(m) ==
    VarintSize(m.ID) + VarintSize(m.ContentLength) + VarintSize(m.MimeType)
      + VarintSize(m.ContentHash) + VarintSize(m.BatchID) + VarintSize(m.BatchTotal)
      + Len(m.unknown)
SizeRequest(m) == VarintSize(m.ID) + Len(m.unknown)
SizePayload(kind, m) ==
    CASE kind = "none"      -> 0
      [] kind = "message"   -> EmbeddedSize(SizeMessage(m))
      [] kind = "handshake" -> EmbeddedSize(SizeHandshake(m))
      [] kind = "announce"  -> EmbeddedSize(SizeAnnounce(m))
      [] kind = "request"   -> EmbeddedSize(SizeRequest(m))
SizeEvent(m) ==
    (IF m.Created = Nil THEN 0 ELSE EmbeddedSize(SizeTimestamp(m.Created)))
      + SizePayload(m.kind, m.Payload) + Len(m.unknown)

\* MarshalToSizedBufferVT
MarshalTimestamp(m) == Varint(1, m.Seconds) \o Varint(2, m.Nanos) \o m.unknown
MarshalDevice(m) == String(1, m.Name) \o String(2, m.Arch) \o Varint(3, m.ID) \o m.unknown
MarshalHandshake(m) ==
    String(1, m.Version)
      \o (IF m.Device = Nil THEN <<>> ELSE Embedded(2, MarshalDevice(m.Device)))
      \o Varint(3, m.Port) \o m.unknown
MarshalMessage(m) ==
    Varint(1, m.ID) \o Varint(2, m.ContentLength) \o Varint(3, m.MimeType)
      \o Varint(4, m.ContentHash) \o String(5, m.Name) \o Varint(6, m.BatchID)
      \o Varint(7, m.BatchTotal) \o m.unknown
MarshalAnnounce(m) ==
    Varint(1, m.ID) \o Varint(2, m.ContentLength) \o Varint(3, m.MimeType)
      \o Varint(4, m.ContentHash) \o Varint(5, m.BatchID) \o Varint(6, m.BatchTotal) \o m.unknown
MarshalRequest(m) == Varint(1, m.ID) \o m.unknown
MarshalPayload(kind, m) ==
    CASE kind = "none"      -> <<>>
      [] kind = "message"   -> Embedded(2, MarshalMessage(m))
      [] kind = "handshake" -> Embedded(3, MarshalHandshake(m))
      [] kind = "announce"  -> Embedded(4, MarshalAnnounce(m))
      [] kind = "request"   -> Embedded(6, MarshalRequest(m))
MarshalEvent(m) ==
    (IF m.Created = Nil THEN <<>> ELSE Embedded(1, MarshalTimestamp(m.Created)))
      \o MarshalPayload(m.kind, m.Payload) \o m.unknown

----------------------------------------------------------------------------
\* UnmarshalVT: one loop, and for each message the switch on the field number.

\* The loop over the bytes of a varint, at most ten of them.
RECURSIVE ReadVarint(_, _)
ReadVarint(s, n) ==
    IF n = 10 \/ s = <<>> THEN Error
    ELSE IF Head(s) < 128 THEN [ok |-> TRUE, v |-> Head(s), rest |-> Tail(s)]
    ELSE LET r == ReadVarint(Tail(s), n + 1)
         IN  IF r.ok THEN [r EXCEPT !.v = (Head(s) % 128) + 128 * @] ELSE Error

\* A length and that many bytes.
ReadBytes(s) ==
    LET n == ReadVarint(s, 0)
    IN  IF ~n.ok \/ n.v > Len(n.rest) THEN Error
        ELSE [ok |-> TRUE, v |-> SubSeq(n.rest, 1, n.v), rest |-> SubSeq(n.rest, n.v + 1, Len(n.rest))]

\* protohelpers.Skip, for the wire types without groups
Skip(wire, s) ==
    LET fixed(n) == IF Len(s) < n THEN Error ELSE [ok |-> TRUE, rest |-> SubSeq(s, n + 1, Len(s))]
    IN  CASE wire = 0 -> ReadVarint(s, 0)
          [] wire = 1 -> fixed(8)
          [] wire = 2 -> ReadBytes(s)
          [] wire = 5 -> fixed(4)
          [] OTHER    -> Error

Unknown == <<"unknown", "default">>
DeviceSwitch    == <<<<"Name", "string">>, <<"Arch", "string">>, <<"ID", "varint">>>>
HandshakeSwitch == <<<<"Version", "string">>, <<"Device", "device">>, <<"Port", "varint">>>>
MessageSwitch   == <<<<"ID", "varint">>, <<"ContentLength", "varint">>, <<"MimeType", "varint">>,
                     <<"ContentHash", "varint">>, <<"Name", "string">>, <<"BatchID", "varint">>,
                     <<"BatchTotal", "varint">>>>
AnnounceSwitch  == <<<<"ID", "varint">>, <<"ContentLength", "varint">>, <<"MimeType", "varint">>,
                     <<"ContentHash", "varint">>, <<"BatchID", "varint">>, <<"BatchTotal", "varint">>>>
RequestSwitch   == <<<<"ID", "varint">>>>
EventSwitch     == <<<<"Created", "timestamp">>, <<"Payload", "message">>, <<"Payload", "handshake">>,
                     <<"Payload", "announce">>, Unknown, <<"Payload", "request">>>>

Switch == [timestamp |-> <<<<"Seconds", "varint">>, <<"Nanos", "varint">>>>,
           device |-> DeviceSwitch, handshake |-> HandshakeSwitch, message |-> MessageSwitch,
           announce |-> AnnounceSwitch, request |-> RequestSwitch, event |-> EventSwitch]
Zero   == [timestamp |-> TimestampZero, device |-> DeviceZero, handshake |-> HandshakeZero,
           message |-> MessageZero, announce |-> AnnounceZero, request |-> RequestZero]
WireType(type) == IF type = "varint" THEN 0 ELSE 2

\* A message read into the one that is there: of the payloads only one of the
\* same kind is.
Target(m, field) ==
    IF m[field[1]] = Nil \/ (field[1] = "Payload" /\ m.kind # field[2])
    THEN Zero[field[2]] ELSE m[field[1]]

\* Reads s into m, a message of the given type; the result is m or Error.
RECURSIVE Unmarshal(_, _, _)
Unmarshal(type, s, m) ==
    LET tag   == ReadVarint(s, 0)
        num   == tag.v \div 8
        wire  == tag.v % 8
        field == IF num \in DOMAIN Switch[type] THEN Switch[type][num] ELSE Unknown
        value == IF field[2] = "varint" THEN ReadVarint(tag.rest, 0) ELSE ReadBytes(tag.rest)
        inner == Unmarshal(field[2], value.v, Target(m, field))
        skip  == Skip(wire, tag.rest)
    IN  IF s = <<>> THEN m
        ELSE IF ~tag.ok \/ wire = 4 \/ num = 0 THEN Error
        ELSE IF field = Unknown
        THEN IF ~skip.ok THEN Error
             ELSE Unmarshal(type, skip.rest,
                            [m EXCEPT !.unknown = @ \o SubSeq(s, 1, Len(s) - Len(skip.rest))])
        ELSE IF wire # WireType(field[2]) \/ ~value.ok THEN Error
        ELSE IF field[2] \in {"varint", "string"}
        THEN Unmarshal(type, value.rest, [m EXCEPT ![field[1]] = value.v])
        ELSE IF inner = Error THEN Error
        ELSE Unmarshal(type, value.rest,
                       IF field[1] = "Payload"
                       THEN [m EXCEPT !.Payload = inner, !.kind = field[2]]
                       ELSE [m EXCEPT ![field[1]] = inner])

----------------------------------------------------------------------------
\* internal/protocol/mapper.go

toProtoMime(t) ==
    CASE t \in {"text", "unknown"}                 -> 0
      [] t = "image"                               -> 1
      [] t \in {"path", "audio", "video", "binary"} -> 2
toDomainMime(p) == IF p = 1 THEN "image" ELSE IF p = 2 THEN "path" ELSE "text"

\* id.Author
Author(i) == (i \div 4096) % 1024

setCreated(t) == [TimestampZero EXCEPT !.Seconds = t.s, !.Nanos = t.ns]

MapToProto(e) ==
    LET p == e.Payload
    IN  [EventZero EXCEPT !.Created = setCreated(e.Created), !.kind = e.kind, !.Payload =
           CASE e.kind = "message" ->
                  [MessageZero EXCEPT !.ID = p.ID, !.ContentLength = p.ContentLength,
                     !.MimeType = toProtoMime(p.MimeType), !.ContentHash = p.ContentHash,
                     !.Name = p.Name, !.BatchID = p.BatchID, !.BatchTotal = p.BatchTotal]
             [] e.kind = "announce" ->
                  [AnnounceZero EXCEPT !.ID = p.ID, !.ContentLength = p.ContentLength,
                     !.MimeType = toProtoMime(p.MimeType), !.ContentHash = p.ContentHash,
                     !.BatchID = p.BatchID, !.BatchTotal = p.BatchTotal]
             [] e.kind = "request" -> [RequestZero EXCEPT !.ID = p.ID]
             [] e.kind = "handshake" ->
                  [HandshakeZero EXCEPT !.Version = p.Version, !.Port = p.Port, !.Device =
                     [DeviceZero EXCEPT !.Name = p.MetaData.Name, !.Arch = p.MetaData.Arch,
                        !.ID = p.MetaData.ID]]]

\* GetCreated().AsTime(): the epoch where there is none.
AsTime(ts) == IF ts = Nil THEN [s |-> 0, ns |-> 0] ELSE [s |-> ts.Seconds, ns |-> ts.Nanos]

UnknownName == <<117, 110, 107>>
toDomainDevice(d) ==
    IF d = Nil THEN [ID |-> 0, Name |-> UnknownName, Arch |-> UnknownName]
    ELSE [ID |-> d.ID, Name |-> d.Name, Arch |-> d.Arch]

toDomainMessage(ev, m) ==
    [kind |-> "message", From |-> Author(m.ID), Created |-> AsTime(ev.Created), Payload |->
       [ID |-> m.ID, MimeType |-> toDomainMime(m.MimeType), ContentHash |-> m.ContentHash,
        ContentLength |-> m.ContentLength, Name |-> m.Name, BatchID |-> m.BatchID,
        BatchTotal |-> m.BatchTotal]]
toDomainAnnounce(ev, m) ==
    [kind |-> "announce", From |-> Author(m.ID), Created |-> AsTime(ev.Created), Payload |->
       [ID |-> m.ID, MimeType |-> toDomainMime(m.MimeType), ContentHash |-> m.ContentHash,
        ContentLength |-> m.ContentLength, BatchID |-> m.BatchID, BatchTotal |-> m.BatchTotal]]
toDomainRequest(ev, m) ==
    [kind |-> "request", From |-> Author(m.ID), Created |-> AsTime(ev.Created),
     Payload |-> [ID |-> m.ID]]
toDomainHandshake(ev, m) ==
    [kind |-> "handshake", From |-> 0, Created |-> AsTime(ev.Created), Payload |->
       [Version |-> m.Version, Port |-> m.Port, MetaData |-> toDomainDevice(m.Device)]]

\* DecodeEvent: the switch on the payload.
ToDomain(pb) ==
    CASE pb.kind = "message"   -> toDomainMessage(pb, pb.Payload)
      [] pb.kind = "announce"  -> toDomainAnnounce(pb, pb.Payload)
      [] pb.kind = "request"   -> toDomainRequest(pb, pb.Payload)
      [] pb.kind = "handshake" -> toDomainHandshake(pb, pb.Payload)
      [] OTHER                 -> Error

\* DecodeReader: Reset, and UnmarshalVT.
UnmarshalEvent(s) == Unmarshal("event", s, EventZero)

\* A message of a newer version: an encoded field, f, that this one has not.
WithField(pb, f) == [pb EXCEPT !.unknown = f, !.Payload.unknown = f]

\* The event as the receiver has it: its type is one of the three the protocol
\* has, and From is the author its ID names, which for a request is the author
\* of the message requested and for a handshake nobody.
Received(e) ==
    [e EXCEPT !.From = IF e.kind = "handshake" THEN 0 ELSE Author(e.Payload.ID),
              !.Payload = IF e.kind \notin {"message", "announce"} THEN @
                          ELSE [@ EXCEPT !.MimeType = CASE @ = "unknown" -> "text"
                                                       [] @ \in {"audio", "video", "binary"} -> "path"
                                                       [] OTHER -> @]]
=============================================================================
