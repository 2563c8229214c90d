------------------------------- MODULE MCWire -------------------------------
(* A text, a file of a selection, its announcement, a request and a         *)
(* handshake; frames that fit the pool's buffers and frames that do not.     *)
EXTENDS Wire, VtProto

NewID(time, node, step) == time * 4194304 + node * 4096 + step
Now   == [s |-> 200, ns |-> 0]
Text  == [ID |-> NewID(1, 5, 1), MimeType |-> "text", ContentHash |-> 300, ContentLength |-> 2,
          Name |-> <<>>, BatchID |-> 0, BatchTotal |-> 0]
File  == [ID |-> NewID(1, 1023, 4095), MimeType |-> "audio", ContentHash |-> 1, ContentLength |-> 3,
          Name |-> <<97, 98>>, BatchID |-> NewID(1, 5, 2), BatchTotal |-> 200]
Ann   == [ID |-> NewID(2, 0, 0), MimeType |-> "image", ContentHash |-> 127, ContentLength |-> 128,
          BatchID |-> 0, BatchTotal |-> 0]
Greet == [Version |-> <<49>>, Port |-> 7777,
          MetaData |-> [ID |-> 5, Name |-> <<>>, Arch |-> <<120>>]]
Event(kind, p) == [kind |-> kind, From |-> 5, Created |-> Now, Payload |-> p]

MCEvents == {[event |-> Event("message", Text), content |-> <<8, 1>>],
             [event |-> Event("message", File), content |-> <<255, 0, 10>>],
             [event |-> Event("announce", Ann), content |-> <<>>],
             [event |-> Event("request", [ID |-> NewID(1, 5, 1)]), content |-> <<>>],
             [event |-> Event("handshake", Greet), content |-> <<>>]}
\* A varint, a string and a fixed32 of number 9, which no message uses.
MCNewFields == {<<72, 200, 1>>, <<74, 2, 7, 8>>, <<77, 1, 2, 3, 4>>}
=============================================================================
