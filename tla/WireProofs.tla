----------------------------- MODULE WireProofs -----------------------------
(***************************************************************************)
(* Wire, for any codec whose Size, Marshal and Unmarshal agree (CodecOK):  *)
(* any number of goroutines, events and streams that break.  What has to   *)
(* be shown is that a buffer of the pool has one user at a time, that the  *)
(* frame in it is the one its user wrote, whatever it held before, and     *)
(* that the length in the frame is all the reader needs.                   *)
(***************************************************************************)
EXTENDS Wire, TLAPS, SequenceTheorems

Frame(pb) == PutUint32(SizeVT(pb)) \o MarshalVT(pb)

\* The frame and the content of what w sends, sent as pb.
All(w, pb) == Frame(pb) \o sent[w].content

----------------------------------------------------------------------------
\* The length in front of a frame.

\* One digit of a number, to the base of a byte.
LEMMA Digit ==
    ASSUME NEW n \in Nat
    PROVE  \E q \in Nat, d \in 0..255 : n = 256 * q + d
<1>1. n \div 256 \in Nat /\ n % 256 \in 0..255 /\ n = 256 * (n \div 256) + (n % 256)
  BY SMT
<1> QED BY <1>1, SMT

\* The four bytes that PutUint32 writes give the number back.
LEMMA Uint32Put ==
    ASSUME NEW n \in Nat, FitsUint32(n)
    PROVE  /\ PutUint32(n) \in Seq(Bytes) /\ Len(PutUint32(n)) = 4
           /\ \A s : (\A i \in 1..4 : s[i] = PutUint32(n)[i]) => Uint32(s) = n
<1>a. PICK q \in Nat, d \in 0..255 : n = 256 * q + d
  BY Digit, SMT
<1>b. PICK h \in Nat, c \in 0..255 : q = 256 * h + c
  BY Digit, SMT
<1>c. PICK a \in Nat, b \in 0..255 : h = 256 * a + b
  BY Digit, SMT
<1>d. n < 65536 * 65536
  BY SMT DEF FitsUint32
<1>1. n = 16777216 * a + 65536 * b + 256 * c + d
  BY <1>a, <1>b, <1>c, SMT
<1>e. a \in 0..255
  BY <1>d, <1>1, SMT
<1>2. PutUint32(n) = <<a, b, c, d>>
  <2>1. n \div 16777216 = a
    BY <1>1, <1>e, SMT
  <2>2. n \div 65536 = 256 * a + b
    BY <1>1, <1>e, SMT
  <2>3. n \div 256 = 65536 * a + 256 * b + c
    BY <1>1, <1>e, SMT
  <2>4. n % 256 = d
    BY <1>1, <1>e, SMT
  <2>5. a % 256 = a
    BY <1>1, <1>e, SMT
  <2>6. (256 * a + b) % 256 = b
    BY <1>1, <1>e, SMT
  <2>7. (65536 * a + 256 * b + c) % 256 = c
    BY <1>1, <1>e, SMT
  <2> QED BY <2>1, <2>2, <2>3, <2>4, <2>5, <2>6, <2>7, SMT DEF PutUint32
<1>3. <<a, b, c, d>> \in Seq(Bytes) /\ Len(<<a, b, c, d>>) = 4
  BY <1>e, SMT DEF Bytes
<1>4. ASSUME NEW s, \A i \in 1..4 : s[i] = <<a, b, c, d>>[i]
      PROVE  Uint32(s) = n
  <2>1. s[1] = a /\ s[2] = b /\ s[3] = c /\ s[4] = d
    BY <1>4, SMT
  <2>2. a * 16777216 + b * 65536 + c * 256 + d = n
    BY <1>1, <1>e, SMT
  <2> QED BY <2>1, <2>2, SMT DEF Uint32
<1> QED BY <1>2, <1>3, <1>4, SMT

\* What Encode leaves in a buffer of sufficient size: the frame at its front,
\* whatever was there.
LEMMA FillFrame ==
    ASSUME NEW arr \in Seq(Bytes), NEW bytes \in Seq(Bytes), NEW head \in Seq(Bytes),
           Len(head) = 4, 4 + Len(bytes) <= Len(arr)
    PROVE  LET f == Fill(Fill(arr, 4 + Len(bytes), bytes), 4, head)
           IN  /\ f \in Seq(Bytes) /\ Len(f) = Len(arr)
               /\ SubSeq(f, 1, 4 + Len(bytes)) = head \o bytes
<1> DEFINE g == Fill(arr, 4 + Len(bytes), bytes)
           f == Fill(g, 4, head)
           need == 4 + Len(bytes)
<1>0. Len(arr) \in Nat /\ Len(bytes) \in Nat
  OBVIOUS
<1>1. /\ g \in Seq(Bytes) /\ Len(g) = Len(arr)
      /\ \A i \in 1..Len(arr) : g[i] = IF i \in 5..need THEN bytes[i - 4] ELSE arr[i]
  <2>1. g = [i \in 1..Len(arr) |-> IF i \in 5..need THEN bytes[i - 4] ELSE arr[i]]
    BY <1>0 DEF Fill
  <2>2. \A i \in 1..Len(arr) : (IF i \in 5..need THEN bytes[i - 4] ELSE arr[i]) \in Bytes
    <3> TAKE i \in 1..Len(arr)
    <3>1. CASE i \in 5..need
      <4>1. i - 4 \in 1..Len(bytes)
        BY <3>1, <1>0
      <4> QED BY <3>1, <4>1
    <3>2. CASE i \notin 5..need
      BY <3>2
    <3> QED BY <3>1, <3>2
  <2> HIDE DEF g
  <2> QED BY <2>1, <2>2, <1>0
<1> HIDE DEF g
<1>2. /\ f \in Seq(Bytes) /\ Len(f) = Len(arr)
      /\ \A i \in 1..Len(arr) : f[i] = IF i \in 1..4 THEN head[i] ELSE g[i]
  <2>1. f = [i \in 1..Len(g) |-> IF i \in 1..4 THEN head[i] ELSE g[i]]
    BY <1>0, <1>1 DEF Fill
  <2>2. \A i \in 1..Len(g) : (IF i \in 1..4 THEN head[i] ELSE g[i]) \in Bytes
    <3>1. \A i \in 1..Len(g) : g[i] \in Bytes
      BY <1>1
    <3>2. \A i \in 1..4 : head[i] \in Bytes
      <4>1. \A i \in 1..Len(head) : head[i] \in Bytes
        BY ElementOfSeq
      <4> QED BY <4>1
    <3> QED BY <3>1, <3>2
  <2> HIDE DEF f
  <2>3. f \in [1..Len(g) -> Bytes] /\ Len(g) \in Nat
    BY <2>1, <2>2, <1>1, <1>0
  <2>4. f \in Seq(Bytes) /\ Len(f) = Len(g)
    BY <2>3
  <2> QED BY <2>1, <2>4, <1>1, <1>0
<1> HIDE DEF f
<1>3. SubSeq(f, 1, need) = head \o bytes
  <2>1. /\ SubSeq(f, 1, need) \in Seq(Bytes) /\ Len(SubSeq(f, 1, need)) = need
        /\ \A i \in 1..need : SubSeq(f, 1, need)[i] = f[i]
    BY <1>0, <1>2
  <2>2. /\ head \o bytes \in Seq(Bytes) /\ Len(head \o bytes) = need
        /\ \A i \in 1..need : (head \o bytes)[i] = IF i <= 4 THEN head[i] ELSE bytes[i - 4]
    <3>1. /\ head \o bytes \in Seq(Bytes) /\ Len(head \o bytes) = Len(head) + Len(bytes)
          /\ \A i \in 1..(Len(head) + Len(bytes)) :
                (head \o bytes)[i] = IF i <= Len(head) THEN head[i] ELSE bytes[i - Len(head)]
      BY ConcatProperties
    <3> QED BY <3>1, <1>0
  <2>3. \A i \in 1..need : f[i] = IF i <= 4 THEN head[i] ELSE bytes[i - 4]
    <3> TAKE i \in 1..need
    <3>1. i \in 1..Len(arr)
      BY <1>0
    <3> QED BY <3>1, <1>1, <1>2, <1>0
  <2> DEFINE u == SubSeq(f, 1, need)
             v == head \o bytes
  <2>4. u \in Seq(Bytes) /\ v \in Seq(Bytes) /\ Len(u) = Len(v) /\ \A i \in 1..Len(u) : u[i] = v[i]
    BY <2>1, <2>2, <2>3
  <2> HIDE DEF u, v, need
  <2>5. u = v
    BY <2>4, SeqEqual
  <2> QED BY <2>5 DEF u, v
<1> QED BY <1>2, <1>3 DEF f, g

----------------------------------------------------------------------------
\* Reading a frame.

\* The frame of an event that the codec agrees on.
LEMMA FrameFacts ==
    ASSUME NEW e, Agrees(e), NEW pb \in Protos(e)
    PROVE  /\ Frame(pb) \in Seq(Bytes) /\ SizeVT(pb) \in Nat /\ Len(Frame(pb)) = 4 + SizeVT(pb)
           /\ MarshalVT(pb) \in Seq(Bytes) /\ Len(MarshalVT(pb)) = SizeVT(pb)
           /\ PutUint32(SizeVT(pb)) \in Seq(Bytes) /\ Len(PutUint32(SizeVT(pb))) = 4
           /\ \A i \in 1..4 : Frame(pb)[i] = PutUint32(SizeVT(pb))[i]
           /\ \A i \in 1..SizeVT(pb) : Frame(pb)[4 + i] = MarshalVT(pb)[i]
           /\ \A s : (\A i \in 1..4 : s[i] = Frame(pb)[i]) => Uint32(s) = SizeVT(pb)
<1> DEFINE size == SizeVT(pb)
           p == PutUint32(size)
           m == MarshalVT(pb)
<1>1. m \in Seq(Bytes) /\ Len(m) = size /\ FitsUint32(size)
  BY DEF Agrees
<1>2. size \in Nat
  BY <1>1, LenProperties
<1> HIDE DEF size
<1>3. /\ p \in Seq(Bytes) /\ Len(p) = 4
      /\ \A s : (\A i \in 1..4 : s[i] = p[i]) => Uint32(s) = size
  BY <1>1, <1>2, Uint32Put
<1> HIDE DEF p, m
<1>4. Frame(pb) = p \o m
  BY DEF Frame, p, m, size
<1>5. /\ p \o m \in Seq(Bytes) /\ Len(p \o m) = Len(p) + Len(m)
      /\ \A i \in 1..(Len(p) + Len(m)) : (p \o m)[i] = IF i <= Len(p) THEN p[i] ELSE m[i - Len(p)]
  BY <1>1, <1>3, ConcatProperties
<1>6. \A i \in 1..(4 + size) : Frame(pb)[i] = IF i <= 4 THEN p[i] ELSE m[i - 4]
  BY <1>1, <1>3, <1>4, <1>5
<1>7. \A i \in 1..4 : Frame(pb)[i] = p[i]
  BY <1>6, <1>2
<1>8. \A i \in 1..size : Frame(pb)[4 + i] = m[i]
  <2> TAKE i \in 1..size
  <2>1. 4 + i \in 1..(4 + size) /\ ~(4 + i <= 4) /\ (4 + i) - 4 = i
    BY <1>2
  <2> QED BY <2>1, <1>6
<1>9. \A s : (\A i \in 1..4 : s[i] = Frame(pb)[i]) => Uint32(s) = size
  BY <1>3, <1>7
<1>10. Frame(pb) \in Seq(Bytes) /\ Len(Frame(pb)) = 4 + size
  BY <1>1, <1>2, <1>3, <1>4, <1>5
<1> QED BY <1>1, <1>2, <1>3, <1>7, <1>8, <1>9, <1>10 DEF p, m, size

\* A stream that begins with the frame of an event is read as that event, and
\* all that follows the frame is left to the handler.
LEMMA DecodePrefix ==
    ASSUME NEW e, Agrees(e), NEW pb \in Protos(e), NEW s \in Seq(Bytes),
           Len(Frame(pb)) <= Len(s), \A i \in 1..Len(Frame(pb)) : s[i] = Frame(pb)[i]
    PROVE  Decode(s) = [state |-> "event", event |-> Travelled(e.event),
                        rest |-> SubSeq(s, Len(Frame(pb)) + 1, Len(s))]
<1> DEFINE size == SizeVT(pb)
           m == MarshalVT(pb)
<1>1. /\ Frame(pb) \in Seq(Bytes) /\ size \in Nat /\ Len(Frame(pb)) = 4 + size
      /\ m \in Seq(Bytes) /\ Len(m) = size
      /\ \A i \in 1..size : Frame(pb)[4 + i] = m[i]
      /\ ((\A i \in 1..4 : s[i] = Frame(pb)[i]) => Uint32(s) = size)
  BY FrameFacts
<1>2. UnmarshalVT(m) # Failed /\ MapFrom(UnmarshalVT(m)) = Travelled(e.event) /\ Travelled(e.event) # Failed
  BY DEF Agrees
<1> HIDE DEF size, m
<1>3. Len(s) \in Nat
  BY LenProperties
<1>4. Uint32(s) = size
  <2>1. \A i \in 1..4 : i \in 1..Len(Frame(pb))
    BY <1>1
  <2> QED BY <2>1, <1>1
<1>5. SubSeq(s, 5, 4 + size) = m
  <2> DEFINE t == SubSeq(s, 5, 4 + size)
  <2>1. t \in Seq(Bytes) /\ Len(t) = size /\ \A i \in 1..size : t[i] = s[4 + i]
    BY <1>1, <1>3
  <2>2. \A i \in 1..size : 4 + i \in 1..Len(Frame(pb))
    BY <1>1
  <2>3. \A i \in 1..size : t[i] = m[i]
    BY <2>1, <2>2, <1>1
  <2> HIDE DEF t
  <2>4. t = m
    BY <2>1, <2>3, <1>1, SeqEqual
  <2> QED BY <2>4 DEF t
<1>6. ~(Len(s) < Length) /\ ~(Len(s) < Length + size)
  BY <1>1, <1>3 DEF Length
<1>7. SubSeq(s, Length + 1, Length + Uint32(s)) = m
  BY <1>4, <1>5 DEF Length
<1>8. Decode(s) = [state |-> "event", event |-> Travelled(e.event), rest |-> SubSeq(s, Length + size + 1, Len(s))]
  BY <1>2, <1>4, <1>6, <1>7 DEF Decode
<1>9. Length + size + 1 = Len(Frame(pb)) + 1
  BY <1>1 DEF Length
<1> QED BY <1>8, <1>9

\* A whole stream: the event, and the content to its last byte.
LEMMA DecodeWhole ==
    ASSUME NEW e, Agrees(e), NEW pb \in Protos(e), NEW c \in Seq(Bytes)
    PROVE  Decode(Frame(pb) \o c) = [state |-> "event", event |-> Travelled(e.event), rest |-> c]
<1> DEFINE f == Frame(pb)
           s == f \o c
<1>1. f \in Seq(Bytes)
  BY FrameFacts
<1>a. Len(f) \in Nat /\ Len(c) \in Nat
  BY <1>1, LenProperties
<1>2. /\ s \in Seq(Bytes) /\ Len(s) = Len(f) + Len(c)
      /\ \A i \in 1..(Len(f) + Len(c)) : s[i] = IF i <= Len(f) THEN f[i] ELSE c[i - Len(f)]
  BY <1>1, ConcatProperties
<1> HIDE DEF s
<1>3. Len(f) <= Len(s) /\ \A i \in 1..Len(f) : s[i] = f[i]
  BY <1>a, <1>2
<1>4. Decode(s) = [state |-> "event", event |-> Travelled(e.event), rest |-> SubSeq(s, Len(f) + 1, Len(s))]
  BY <1>2, <1>3, DecodePrefix
<1> HIDE DEF f
<1>5. SubSeq(s, Len(f) + 1, Len(s)) = c
  <2> DEFINE t == SubSeq(s, Len(f) + 1, Len(s))
  <2>1. t \in Seq(Bytes) /\ Len(t) = Len(c) /\ \A i \in 1..Len(c) : t[i] = s[Len(f) + i]
    BY <1>2, <1>a
  <2>2. \A i \in 1..Len(c) : s[Len(f) + i] = c[i]
    <3> TAKE i \in 1..Len(c)
    <3>1. /\ Len(f) + i \in 1..(Len(f) + Len(c)) /\ ~(Len(f) + i <= Len(f))
          /\ (Len(f) + i) - Len(f) = i
      BY <1>a
    <3> QED BY <3>1, <1>2
  <2>3. \A i \in 1..Len(t) : t[i] = c[i]
    BY <2>1, <2>2
  <2> HIDE DEF t
  <2>4. t = c
    BY <2>1, <2>3, SeqEqual
  <2> QED BY <2>4 DEF t
<1> QED BY <1>4, <1>5 DEF s, f

\* A stream that broke: inside the frame nothing is handed on, and behind it
\* some of the content is missing.
LEMMA DecodeBroken ==
    ASSUME NEW e, Agrees(e), NEW pb \in Protos(e), NEW c \in Seq(Bytes),
           NEW n \in 0..(Len(Frame(pb) \o c) - 1)
    PROVE  LET g == Decode(SubSeq(Frame(pb) \o c, 1, n))
           IN  g = Refused \/ (g.event = Travelled(e.event) /\ Len(g.rest) < Len(c))
<1> DEFINE f == Frame(pb)
           a == f \o c
           s == SubSeq(a, 1, n)
<1>1. /\ f \in Seq(Bytes) /\ SizeVT(pb) \in Nat /\ Len(f) = 4 + SizeVT(pb)
      /\ ((\A i \in 1..4 : s[i] = f[i]) => Uint32(s) = SizeVT(pb))
  BY FrameFacts
<1>a. Len(f) \in Nat /\ Len(c) \in Nat
  BY <1>1, LenProperties
<1>2. /\ a \in Seq(Bytes) /\ Len(a) = Len(f) + Len(c)
      /\ \A i \in 1..(Len(f) + Len(c)) : a[i] = IF i <= Len(f) THEN f[i] ELSE c[i - Len(f)]
  BY <1>1, ConcatProperties
<1>n. n \in Nat /\ n < Len(f) + Len(c)
  BY <1>2, <1>a
<1> HIDE DEF a
<1>3. s \in Seq(Bytes) /\ Len(s) = n /\ \A i \in 1..n : s[i] = a[i]
  BY <1>2, <1>n, <1>a
<1> HIDE DEF s, f
<1>4. \A i \in 1..n : i <= Len(f) => s[i] = f[i]
  BY <1>2, <1>3, <1>n, <1>a
<1>5. CASE n < 4
  BY <1>5, <1>3 DEF Decode, Length, s, a, f
<1>6. CASE 4 <= n /\ n < Len(f)
  <2>1. Uint32(s) = SizeVT(pb)
    BY <1>1, <1>4, <1>6, <1>n
  <2>2. Decode(s) = Refused
    BY <2>1, <1>1, <1>3, <1>6 DEF Decode, Length
  <2> QED BY <2>2 DEF s, a, f
<1>7. CASE Len(f) <= n
  <2>1. \A i \in 1..Len(f) : s[i] = f[i]
    BY <1>4, <1>7, <1>n, <1>a
  <2>2. Decode(s) = [state |-> "event", event |-> Travelled(e.event), rest |-> SubSeq(s, Len(f) + 1, Len(s))]
    BY <2>1, <1>3, <1>7, DecodePrefix DEF f
  <2>3. Len(SubSeq(s, Len(f) + 1, Len(s))) = n - Len(f)
    BY <1>3, <1>7, <1>n, <1>a
  <2>4. n - Len(f) < Len(c)
    BY <1>n, <1>a
  <2>5. Decode(s).event = Travelled(e.event) /\ Len(Decode(s).rest) < Len(c)
    BY <2>2, <2>3, <2>4
  <2> QED BY <2>5 DEF s, a, f
<1> QED BY <1>5, <1>6, <1>7, <1>n, <1>a

----------------------------------------------------------------------------
\* The inductive invariant.

States == {"idle", "frame", "raw", "closed", "broken"}

WireTypes ==
    /\ heap \in [Senders -> Seq(Bytes)] /\ pool \subseteq Senders
    /\ buf \in [Senders -> [ptr : Senders, need : Nat]]
    /\ at \in [Senders -> States]
    /\ sent \in [Senders -> Events \cup {NoEvent}]
    /\ stream \in [Senders -> Seq(Bytes)]
    /\ DOMAIN got = Senders

\* A buffer is made when its sender encodes, and then it is in the pool or has
\* one user.
Owned ==
    /\ \A w \in Senders : at[w] = "idle" => w \notin pool
    /\ \A w \in Senders : at[w] = "frame" => buf[w].ptr \notin pool /\ at[buf[w].ptr] # "idle"
    /\ \A v, w \in Senders :
           v # w /\ at[v] = "frame" /\ at[w] = "frame" => buf[v].ptr # buf[w].ptr

\* The front of the buffer is the frame.
InBuffer(b, need, pb) ==
    need = Len(Frame(pb)) /\ need <= Len(b) /\ SubSeq(b, 1, need) = Frame(pb)

\* What w sends is an event, and it is in its buffer or on its stream.
SenderOK(w) ==
    /\ at[w] # "idle" => sent[w] \in Events
    /\ at[w] = "frame" => \E pb \in Protos(sent[w]) : InBuffer(heap[buf[w].ptr], buf[w].need, pb)
    /\ at[w] = "raw" => \E pb \in Protos(sent[w]) : stream[w] = Frame(pb)
    /\ at[w] = "closed" => \E pb \in Protos(sent[w]) : stream[w] = All(w, pb)
    /\ at[w] = "broken" => \E pb \in Protos(sent[w]) : \E n \in 0..(Len(All(w, pb)) - 1) :
                               stream[w] = SubSeq(All(w, pb), 1, n)
    /\ at[w] \in {"idle", "frame", "raw"} => got[w] = Pending

WireInv == WireTypes /\ Owned /\ (\A w \in Senders : SenderOK(w)) /\ RoundTrip /\ BrokenIsSeen

\* An empty buffer is a sequence of bytes.
LEMMA ZerosFacts ==
    ASSUME NEW n \in Nat
    PROVE  Zeros(n) \in Seq(Bytes) /\ Len(Zeros(n)) = n
<1>1. Zeros(n) \in [1..n -> Bytes]
  BY DEF Zeros, Bytes
<1> QED BY <1>1

\* Nothing is sent at first.
LEMMA InitWire == Init => WireInv
<1> SUFFICES ASSUME Init PROVE WireInv
  OBVIOUS
<1>1. WireTypes
  <2>1. <<>> \in Seq(Bytes)
    OBVIOUS
  <2> QED BY <2>1 DEF Init, WireTypes, States
<1>2. Owned
  BY DEF Init, Owned
<1>3. \A w \in Senders : SenderOK(w)
  BY DEF Init, SenderOK
<1>4. RoundTrip /\ BrokenIsSeen
  BY DEF Init, RoundTrip, BrokenIsSeen
<1> QED BY <1>1, <1>2, <1>3, <1>4 DEF WireInv

\* A sender whose own part of the state stays, and whose buffer stays, is as
\* it was.
LEMMA SenderStays ==
    ASSUME WireTypes, NEW v \in Senders, SenderOK(v),
           at'[v] = at[v], sent'[v] = sent[v], stream'[v] = stream[v], got'[v] = got[v],
           at[v] = "frame" => buf'[v] = buf[v] /\ heap'[buf[v].ptr] = heap[buf[v].ptr]
    PROVE  SenderOK(v)'
  BY DEF SenderOK, All

\* Encoding: the frame is in a buffer that nobody else uses.
LEMMA EncodeStep ==
    ASSUME CodecOK, WireInv, NEW w \in Senders, NEW e \in Events, NEW pb \in Protos(e),
           at[w] = "idle", Encode(w, pb), sent' = [sent EXCEPT ![w] = e], UNCHANGED <<stream, got>>
    PROVE  WireInv'
<1> USE DEF WireInv
<1> DEFINE size == SizeVT(pb)
           need == 4 + size
           bytes == MarshalVT(pb)
<1>1. Agrees(e)
  BY DEF CodecOK
<1>2. /\ Frame(pb) \in Seq(Bytes) /\ size \in Nat /\ Len(Frame(pb)) = need
      /\ bytes \in Seq(Bytes) /\ Len(bytes) = size
      /\ PutUint32(size) \in Seq(Bytes) /\ Len(PutUint32(size)) = 4
  BY <1>1, FrameFacts
<1>3. PICK p \in pool \cup {w} :
        LET b   == IF p = w THEN Zeros(DefaultBufferSize) ELSE heap[p]
            arr == IF Len(b) < need THEN Zeros(need) ELSE b
        IN  /\ heap' = [heap EXCEPT ![p] = Fill(Fill(arr, need, bytes), 4, PutUint32(size))]
            /\ pool' = pool \ {p}
            /\ buf' = [buf EXCEPT ![w] = [ptr |-> p, need |-> need]]
            /\ at' = [at EXCEPT ![w] = IF Len(arr) < need \/ Len(bytes) > size THEN "panic" ELSE "frame"]
  BY DEF Encode, Length
<1>4. p \in Senders
  BY DEF WireTypes
<1>5. PICK arr \in Seq(Bytes) :
            /\ need <= Len(arr)
            /\ heap' = [heap EXCEPT ![p] = Fill(Fill(arr, need, bytes), 4, PutUint32(size))]
            /\ pool' = pool \ {p}
            /\ buf' = [buf EXCEPT ![w] = [ptr |-> p, need |-> need]]
            /\ at' = [at EXCEPT ![w] = "frame"]
  <2> DEFINE b == IF p = w THEN Zeros(DefaultBufferSize) ELSE heap[p]
             a == IF Len(b) < need THEN Zeros(need) ELSE b
  <2>1. b \in Seq(Bytes)
    BY <1>4, ZerosFacts, BufferAssumption DEF WireTypes
  <2>2. need \in Nat /\ Len(b) \in Nat
    BY <1>2, <2>1, LenProperties
  <2> HIDE DEF b, need
  <2>3. a \in Seq(Bytes) /\ need <= Len(a) /\ Len(a) \in Nat
    BY <2>1, <2>2, ZerosFacts
  <2> HIDE DEF a, size, bytes
  <2>4. ~(Len(a) < need \/ Len(bytes) > size)
    BY <2>2, <2>3, <1>2
  <2> QED BY <1>3, <2>3, <2>4 DEF a, b
<1> HIDE DEF size, bytes, need
<1>6. PICK f : f = Fill(Fill(arr, need, bytes), 4, PutUint32(size))
  OBVIOUS
<1>7. f \in Seq(Bytes) /\ Len(f) = Len(arr) /\ SubSeq(f, 1, need) = Frame(pb)
  <2> DEFINE head == PutUint32(size)
  <2>1. need = 4 + Len(bytes) /\ need <= Len(arr)
    BY <1>2, <1>5 DEF need
  <2>2. head \in Seq(Bytes) /\ Len(head) = 4 /\ bytes \in Seq(Bytes) /\ Frame(pb) = head \o bytes
    BY <1>2 DEF Frame, size, bytes
  <2> HIDE DEF head
  <2>3. LET g == Fill(Fill(arr, 4 + Len(bytes), bytes), 4, head)
        IN  g \in Seq(Bytes) /\ Len(g) = Len(arr) /\ SubSeq(g, 1, 4 + Len(bytes)) = head \o bytes
    BY <2>1, <2>2, FillFrame
  <2>4. f = Fill(Fill(arr, 4 + Len(bytes), bytes), 4, head)
    BY <1>6, <2>1 DEF head
  <2> QED BY <2>1, <2>2, <2>3, <2>4
<1>8. need \in Nat /\ heap' = [heap EXCEPT ![p] = f]
  BY <1>2, <1>5, <1>6 DEF need
<1>9. WireTypes'
  BY <1>4, <1>5, <1>7, <1>8 DEF WireTypes, States
<1>10. ASSUME NEW v \in Senders, at[v] = "frame" PROVE buf[v].ptr # p /\ v # w
  BY <1>10 DEF Owned, WireTypes
<1>11. Owned'
  <2>1. at[w] = "idle" /\ at' = [at EXCEPT ![w] = "frame"] /\ at'[w] = "frame"
    BY <1>5 DEF WireTypes
  <2>2. \A v \in Senders : v # w => at'[v] = at[v] /\ buf'[v] = buf[v]
    BY <1>5 DEF WireTypes
  <2>3. buf'[w].ptr = p
    BY <1>5 DEF WireTypes
  <2>4. p \notin pool'
    BY <1>5
  <2>5. at'[p] # "idle"
    <3>1. CASE p = w
      BY <3>1, <2>1
    <3>2. CASE p # w
      BY <3>2, <2>2, <1>4 DEF Owned
    <3> QED BY <3>1, <3>2
  <2>6. \A v \in Senders : at'[v] = "idle" => v \notin pool'
    BY <1>5, <2>1, <2>2 DEF Owned
  <2>7. ASSUME NEW v \in Senders, at'[v] = "frame"
        PROVE  buf'[v].ptr \notin pool' /\ at'[buf'[v].ptr] # "idle"
    <3>1. CASE v = w
      BY <3>1, <2>3, <2>4, <2>5
    <3>2. CASE v # w
      <4>1. at[v] = "frame" /\ buf'[v] = buf[v] /\ buf[v].ptr \in Senders
        BY <3>2, <2>2, <2>7 DEF WireTypes
      <4>2. buf[v].ptr \notin pool /\ at[buf[v].ptr] # "idle"
        BY <4>1 DEF Owned
      <4>3. at'[buf[v].ptr] # "idle"
        BY <4>1, <4>2, <2>1, <2>2
      <4> QED BY <4>1, <4>2, <4>3, <1>5
    <3> QED BY <3>1, <3>2
  <2>8. ASSUME NEW u \in Senders, NEW v \in Senders, u # v, at'[u] = "frame", at'[v] = "frame"
        PROVE  buf'[u].ptr # buf'[v].ptr
    <3>1. CASE u = w
      BY <3>1, <2>2, <2>3, <2>8, <1>10
    <3>2. CASE v = w
      BY <3>2, <2>2, <2>3, <2>8, <1>10
    <3>3. CASE u # w /\ v # w
      BY <3>3, <2>2, <2>8 DEF Owned
    <3> QED BY <3>1, <3>2, <3>3
  <2> QED BY <2>6, <2>7, <2>8 DEF Owned
<1>12. SenderOK(w)'
  <2>1. at'[w] = "frame" /\ sent'[w] = e /\ buf'[w].ptr = p /\ buf'[w].need = need /\ heap'[p] = f
        /\ got'[w] = got[w]
    BY <1>4, <1>5, <1>8 DEF WireTypes
  <2>2. InBuffer(f, need, pb)
    BY <1>2, <1>5, <1>7 DEF InBuffer, need
  <2>3. got[w] = Pending
    BY DEF SenderOK
  <2> QED BY <2>1, <2>2, <2>3 DEF SenderOK
<1>13. ASSUME NEW v \in Senders, v # w PROVE SenderOK(v)'
  <2>1. at'[v] = at[v] /\ sent'[v] = sent[v] /\ stream'[v] = stream[v] /\ got'[v] = got[v] /\ buf'[v] = buf[v]
    BY <1>5, <1>13 DEF WireTypes
  <2>2. at[v] = "frame" => heap'[buf[v].ptr] = heap[buf[v].ptr]
    BY <1>8, <1>10 DEF WireTypes
  <2> QED BY <2>1, <2>2, SenderStays
<1>14. \A v \in Senders : at'[v] \in {"closed", "broken"} => at'[v] = at[v] /\ sent'[v] = sent[v] /\ got'[v] = got[v]
  BY <1>5 DEF WireTypes
<1>15. RoundTrip' /\ BrokenIsSeen'
  BY <1>14 DEF RoundTrip, BrokenIsSeen
<1> QED BY <1>9, <1>11, <1>12, <1>13, <1>15

\* The other steps of a sender: what concerns the others stays.
LEMMA OthersStay ==
    ASSUME WireInv, NEW w \in Senders, UNCHANGED <<heap, buf, sent>>,
           \A v \in Senders : v # w => at'[v] = at[v] /\ stream'[v] = stream[v] /\ got'[v] = got[v]
    PROVE  \A v \in Senders : v # w => SenderOK(v)'
  BY SenderStays DEF WireInv

\* The properties of those that a step leaves alone, from those of the rest.
LEMMA ReadStays ==
    ASSUME WireInv, NEW w \in Senders, UNCHANGED sent,
           \A v \in Senders : v # w => at'[v] = at[v] /\ got'[v] = got[v],
           got'[w] # Pending => at'[w] \notin {"closed", "broken"}
    PROVE  RoundTrip' /\ BrokenIsSeen'
  BY DEF WireInv, RoundTrip, BrokenIsSeen

\* Writing the frame: the buffer is back in the pool, and the stream has the
\* frame.
LEMMA WriteFrameStep ==
    ASSUME WireInv, NEW w \in Senders, WriteFrame(w)
    PROVE  WireInv'
<1> USE DEF WriteFrame
<1>1. /\ at[w] = "frame" /\ at'[w] = "raw" /\ buf[w].ptr \in Senders /\ buf[w].need \in Nat
      /\ \A v \in Senders : v # w => at'[v] = at[v] /\ stream'[v] = stream[v] /\ got'[v] = got[v]
  BY DEF WireInv, WireTypes
<1>2. PICK pb \in Protos(sent[w]) : InBuffer(heap[buf[w].ptr], buf[w].need, pb)
  BY <1>1 DEF WireInv, SenderOK
<1>3. heap[buf[w].ptr] \in Seq(Bytes)
  BY <1>1 DEF WireInv, WireTypes
<1>4. stream'[w] = Frame(pb) /\ stream'[w] \in Seq(Bytes)
  <2>1. stream'[w] = SubSeq(heap[buf[w].ptr], 1, buf[w].need)
    BY DEF WireInv, WireTypes
  <2>2. SubSeq(heap[buf[w].ptr], 1, buf[w].need) \in Seq(Bytes)
    BY <1>1, <1>2, <1>3 DEF InBuffer
  <2> QED BY <2>1, <2>2, <1>2 DEF InBuffer
<1>5. WireTypes'
  BY <1>1, <1>4 DEF WireInv, WireTypes, States
<1>6. Owned'
  BY <1>1 DEF WireInv, WireTypes, Owned
<1>7. SenderOK(w)'
  BY <1>1, <1>4 DEF WireInv, SenderOK
<1>8. \A v \in Senders : v # w => SenderOK(v)'
  BY <1>1, OthersStay
<1>9. RoundTrip' /\ BrokenIsSeen'
  BY <1>1, ReadStays
<1> QED BY <1>5, <1>6, <1>7, <1>8, <1>9 DEF WireInv

\* Writing the content: the stream has all of it.
LEMMA WriteRawStep ==
    ASSUME CodecOK, WireInv, NEW w \in Senders, WriteRaw(w)
    PROVE  WireInv'
<1> USE DEF WriteRaw
<1>1. /\ at[w] = "raw" /\ at'[w] = "closed" /\ sent[w] \in Events /\ got[w] = Pending
      /\ \A v \in Senders : v # w => at'[v] = at[v] /\ stream'[v] = stream[v] /\ got'[v] = got[v]
  BY DEF WireInv, WireTypes, SenderOK
<1>2. PICK pb \in Protos(sent[w]) : stream[w] = Frame(pb)
  BY <1>1 DEF WireInv, SenderOK
<1>3. stream'[w] = Frame(pb) \o sent[w].content
  BY <1>2 DEF WireInv, WireTypes
<1>4. stream'[w] \in Seq(Bytes)
  <2>1. stream[w] \in Seq(Bytes) /\ sent[w].content \in Seq(Bytes)
    BY <1>1, ContentAssumption DEF WireInv, WireTypes
  <2> QED BY <2>1, <1>2, <1>3, ConcatProperties
<1>5. WireTypes'
  BY <1>1, <1>4 DEF WireInv, WireTypes, States
<1>6. Owned'
  BY <1>1 DEF WireInv, WireTypes, Owned
<1>7. SenderOK(w)'
  BY <1>1, <1>3 DEF WireInv, SenderOK, All
<1>8. \A v \in Senders : v # w => SenderOK(v)'
  BY <1>1, OthersStay
<1>9. RoundTrip' /\ BrokenIsSeen'
  BY <1>1, ReadStays
<1> QED BY <1>5, <1>6, <1>7, <1>8, <1>9 DEF WireInv

\* A stream breaks: what arrived is a part of what was sent.
LEMMA BreakStep ==
    ASSUME CodecOK, WireInv, NEW w \in Senders, Break(w)
    PROVE  WireInv'
<1> USE DEF Break
<1>1. /\ at[w] = "closed" /\ at'[w] = "broken" /\ sent[w] \in Events /\ got[w] = Pending
      /\ \A v \in Senders : v # w => at'[v] = at[v] /\ stream'[v] = stream[v] /\ got'[v] = got[v]
  BY DEF WireInv, WireTypes, SenderOK
<1>2. PICK pb \in Protos(sent[w]) : stream[w] = All(w, pb)
  BY <1>1 DEF WireInv, SenderOK
<1>3. PICK n \in 0..(Len(stream[w]) - 1) : stream' = [stream EXCEPT ![w] = SubSeq(@, 1, n)]
  OBVIOUS
<1>4. /\ stream'[w] = SubSeq(All(w, pb), 1, n) /\ n \in 0..(Len(All(w, pb)) - 1)
      /\ stream'[w] \in Seq(Bytes)
  <2>1. stream[w] \in Seq(Bytes) /\ stream'[w] = SubSeq(stream[w], 1, n)
    BY <1>3 DEF WireInv, WireTypes
  <2>2. SubSeq(stream[w], 1, n) \in Seq(Bytes)
    BY <2>1
  <2> QED BY <2>1, <2>2, <1>2
<1>5. WireTypes'
  BY <1>1, <1>3, <1>4 DEF WireInv, WireTypes, States
<1>6. Owned'
  BY <1>1 DEF WireInv, WireTypes, Owned
<1>7. SenderOK(w)'
  BY <1>1, <1>4 DEF WireInv, SenderOK, All
<1>8. \A v \in Senders : v # w => SenderOK(v)'
  BY <1>1, OthersStay
<1>9. RoundTrip' /\ BrokenIsSeen'
  BY <1>1, ReadStays
<1> QED BY <1>5, <1>6, <1>7, <1>8, <1>9 DEF WireInv

\* Reading: what comes out is what Decode makes of the stream.
LEMMA ReadStep ==
    ASSUME CodecOK, WireInv, NEW w \in Senders, ReadEvent(w)
    PROVE  WireInv'
<1> USE DEF ReadEvent
<1>1. /\ at[w] \in {"closed", "broken"} /\ got'[w] = Decode(stream[w])
      /\ UNCHANGED <<heap, pool, buf, at, sent, stream>>
      /\ \A v \in Senders : v # w => got'[v] = got[v]
  BY DEF WireInv, WireTypes
<1>2. PICK e : e = sent[w]
  OBVIOUS
<1>3. e \in Events /\ Agrees(e) /\ e.content \in Seq(Bytes)
  BY <1>1, <1>2, ContentAssumption DEF WireInv, SenderOK, CodecOK
<1>4. WireTypes'
  BY DEF WireInv, WireTypes
<1>5. Owned'
  BY DEF WireInv, Owned
<1>6. SenderOK(w)'
  BY <1>1 DEF WireInv, SenderOK, All
<1>7. \A v \in Senders : v # w => SenderOK(v)'
  BY <1>1, OthersStay
<1>8. at[w] = "closed" => got'[w] = [state |-> "event", event |-> Travelled(e.event), rest |-> e.content]
  <2> SUFFICES ASSUME at[w] = "closed"
               PROVE  Decode(stream[w]) = [state |-> "event", event |-> Travelled(e.event), rest |-> e.content]
    BY <1>1
  <2>1. PICK pb \in Protos(e) : stream[w] = Frame(pb) \o e.content
    BY <1>2 DEF WireInv, SenderOK, All
  <2> QED BY <2>1, <1>3, DecodeWhole
<1>9. at[w] = "broken" => \/ got'[w] = Refused
                          \/ got'[w].event = Travelled(e.event) /\ Len(got'[w].rest) < Len(e.content)
  <2> SUFFICES ASSUME at[w] = "broken"
               PROVE  LET g == Decode(stream[w])
                      IN  g = Refused \/ (g.event = Travelled(e.event) /\ Len(g.rest) < Len(e.content))
    BY <1>1
  <2>1. PICK pb \in Protos(e) : \E n \in 0..(Len(Frame(pb) \o e.content) - 1) :
               stream[w] = SubSeq(Frame(pb) \o e.content, 1, n)
    BY <1>2 DEF WireInv, SenderOK, All
  <2>2. PICK n \in 0..(Len(Frame(pb) \o e.content) - 1) : stream[w] = SubSeq(Frame(pb) \o e.content, 1, n)
    BY <2>1
  <2> QED BY <2>2, <1>3, DecodeBroken
<1>10. RoundTrip'
  BY <1>1, <1>2, <1>8 DEF WireInv, RoundTrip
<1>11. BrokenIsSeen'
  BY <1>1, <1>2, <1>9 DEF WireInv, BrokenIsSeen
<1> QED BY <1>4, <1>5, <1>6, <1>7, <1>10, <1>11 DEF WireInv

\* Every step keeps the invariant.
LEMMA NextWire ==
    ASSUME CodecOK, WireInv, [Next]_vars
    PROVE  WireInv'
<1>1. CASE UNCHANGED vars
  BY <1>1 DEF vars, WireInv, WireTypes, Owned, SenderOK, All, RoundTrip, BrokenIsSeen
<1>2. ASSUME NEW w \in Senders, NEW e \in Events, WriteEvent(w, e) PROVE WireInv'
  <2>1. MapTo(e.event) \in Protos(e)
    BY DEF Protos
  <2> QED BY <1>2, <2>1, EncodeStep DEF WriteEvent
<1>3. ASSUME NEW w \in Senders, NEW e \in Events, NEW f \in NewFields, WriteNewer(w, e, f) PROVE WireInv'
  <2>1. Newer(MapTo(e.event), f) \in Protos(e)
    BY DEF Protos
  <2> QED BY <1>3, <2>1, EncodeStep DEF WriteNewer
<1>4. ASSUME NEW w \in Senders, WriteFrame(w) \/ WriteRaw(w) \/ Break(w) \/ ReadEvent(w) PROVE WireInv'
  BY <1>4, WriteFrameStep, WriteRawStep, BreakStep, ReadStep
<1> QED BY <1>1, <1>2, <1>3, <1>4 DEF Next

\* The invariant holds, whatever the codec.
THEOREM WireInvariant == CodecOK => (Spec => []WireInv)
<1> SUFFICES ASSUME CodecOK PROVE Spec => []WireInv
  OBVIOUS
<1>1. Init => WireInv
  BY InitWire
<1>2. WireInv /\ [Next]_vars => WireInv'
  BY NextWire
<1> QED BY <1>1, <1>2, PTL DEF Spec

\* The streams and the buffers hold bytes, and no goroutine leaves its buffer:
\* neither slice of EncodeToWriter nor MarshalToSizedBufferVT panics.
THEOREM WireTyped == CodecOK => (Spec => []TypeOK)
<1> SUFFICES ASSUME CodecOK PROVE Spec => []TypeOK
  OBVIOUS
<1>1. WireInv => TypeOK
  BY DEF WireInv, WireTypes, TypeOK, States
<1>2. Spec => []WireInv
  BY WireInvariant
<1> QED BY <1>1, <1>2, PTL

\* What is read from a whole stream is the event that was sent and its content,
\* however the goroutines share their buffers (DecodeEvent, EncodeToWriter).
THEOREM WireRoundTrip == CodecOK => (Spec => []RoundTrip)
<1> SUFFICES ASSUME CodecOK PROVE Spec => []RoundTrip
  OBVIOUS
<1>1. WireInv => RoundTrip
  BY DEF WireInv
<1>2. Spec => []WireInv
  BY WireInvariant
<1> QED BY <1>1, <1>2, PTL

\* What is read from a stream that broke is nothing, or the right event with
\* less content than was sent (DecodeReader's ReadFull).
THEOREM WireBrokenIsSeen == CodecOK => (Spec => []BrokenIsSeen)
<1> SUFFICES ASSUME CodecOK PROVE Spec => []BrokenIsSeen
  OBVIOUS
<1>1. WireInv => BrokenIsSeen
  BY DEF WireInv
<1>2. Spec => []WireInv
  BY WireInvariant
<1> QED BY <1>1, <1>2, PTL
=============================================================================
